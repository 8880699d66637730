---------------------------- MODULE ProjectProofs ----------------------------
(* What the task layer's Project promises of its runs, for any runs,       *)
(* contracts, candidates and limits of the guard, and any number of        *)
(* crashes and resumes (module Runs); and of the files and the rows it     *)
(* exports, for any number of connections, any data and any damage         *)
(* (modules Artifacts and Exports).                                        *)
EXTENDS Runs, Exports, FiniteSetTheorems, WellFoundedInduction, TLAPS

-----------------------------------------------------------------------------
(* The inductive invariant.                                                *)

EpisodeEnds == {"failed", "infrastructure_failure", "finished", "submitted"}
Marks == {"absent", "pending", "unknown"}
Passed == {"duplicate", "rejected"}     \* decisions the run goes on after

AnyCandidate == {NoCandidate} \cup UNION {Candidates[q] : q \in Run}

RunsTypeOK ==
    /\ /\ DOMAIN started = Run /\ DOMAIN episode = Run /\ DOMAIN candidate = Run
       /\ DOMAIN guard = Run /\ DOMAIN target = Run /\ DOMAIN check = Run
       /\ DOMAIN decision = Run /\ DOMAIN executions = Run /\ DOMAIN result = Run
    /\ \A r \in Run :
          /\ started[r] \in {"none", "scope", "spec", "policy"}
          /\ episode[r] \in [Index(r) -> {"new", "open", "unknown"} \cup EpisodeEnds]
          /\ candidate[r] \in [Index(r) -> AnyCandidate]
          /\ guard[r] \in [Index(r) -> {"none", "allowed", "refused"}]
          /\ target[r] \in [Index(r) -> BOOLEAN]
          /\ check[r] \in [Index(r) -> [Checks -> Marks \cup Verdicts]]
          /\ decision[r] \in [Index(r) -> Marks \cup Decided]
          /\ executions[r] \in [Index(r) -> [Checks -> Nat]]

(* One submission is recorded in this order: the episode, the guard's      *)
(* decision, the submission, its checks, the decision on them.             *)
Staged(r, i) ==
    /\ guard[r][i] # "none" => episode[r][i] = "submitted" /\ r \in Guarded
    /\ target[r][i] =>
          episode[r][i] = "submitted" /\ (r \in Guarded => guard[r][i] = "allowed")
    /\ \A c \in Checks : check[r][i][c] # "absent" => target[r][i]
    /\ decision[r][i] # "absent" =>
          target[r][i] /\ \A c \in Required(r, i) : check[r][i][c] \in Verdicts
    /\ decision[r][i] \in Decided => decision[r][i] = Decision(r, i)
    /\ \A c \in Checks :
          executions[r][i][c] = IF check[r][i][c] \in {"absent", "pending"} THEN 0 ELSE 1

(* A worker is started again only after its submissions so far were        *)
(* refused by the guard or rejected.                                       *)
InSequence(r, i) ==
    episode[r][i] # "new" => \A j \in 1..(i - 1) : RecordedSubmission(r, j) \in Passed

(* What the guard found when it decided. *)
RepeatOf(r, i, j) ==
    /\ decision[r][j] = "rejected" /\ Version[r][j] = Version[r][i]
    /\ candidate[r][j] = candidate[r][i] \/ <<candidate[r][j], candidate[r][i]>> \in Near
LoopBefore(r, i) ==
    \A j \in (i - ExactRepeats)..(i - 1) :
        /\ decision[r][j] = "rejected"
        /\ Version[r][j] = Version[r][i] /\ candidate[r][j] = candidate[r][i]
GuardFound(r, i) ==
    /\ guard[r][i] = "refused" => \E j \in 1..(i - 1) : RepeatOf(r, i, j)
    /\ guard[r][i] = "allowed" /\ ExactRepeats <= Window /\ i > ExactRepeats =>
          ~LoopBefore(r, i)

RecordsOK ==
    \A r \in Run : \A i \in Index(r) :
        Staged(r, i) /\ InSequence(r, i) /\ GuardFound(r, i)

(* What the process knows agrees with the records. *)
Assessing == {"checks", "begin", "execute", "decide", "commit", "decided"}
PCs == {"down", "spec", "policy", "episode", "attempt", "guard", "target"} \cup Assessing

HostTypeOK ==
    /\ host \in [pc : PCs, run : Run \cup {"none"}, index : Nat \ {0},
                 subs : Seq(Passed), todo : Seq(Checks)]
    /\ ~At("down") => \E r \in Run : host.run = r /\ host.index \in Index(r)

Todo == {host.todo[n] : n \in DOMAIN host.todo}

Placed(r, i) ==
    /\ At("attempt") => episode[r][i] = "unknown"
    /\ host.pc \in {"guard", "target"} => episode[r][i] = "submitted"
    /\ At("target") => (r \in Guarded => guard[r][i] = "allowed")
    /\ host.pc \in Assessing =>
          /\ target[r][i]
          /\ Todo \subseteq Required(r, i)
          /\ \A c \in Required(r, i) \ Todo : check[r][i][c] \in Verdicts
    /\ host.pc \in {"begin", "execute"} => host.todo # <<>>
    /\ At("begin") => check[r][i][Head(host.todo)] \in {"pending", "unknown"}
    /\ At("execute") => check[r][i][Head(host.todo)] = "unknown"
    /\ host.pc \in {"decide", "commit", "decided"} => host.todo = <<>>
    /\ At("decide") => decision[r][i] \in {"pending", "unknown"}
    /\ At("commit") => decision[r][i] = "unknown"
    /\ At("decided") => decision[r][i] \in Decided

HostAt(r, i) ==
    /\ result[r] = "none"
    /\ host.pc \notin {"spec", "policy"} => Loadable(r)
    /\ Len(host.subs) = i - 1
    /\ \A j \in 1..(i - 1) : host.subs[j] = RecordedSubmission(r, j)
    /\ Placed(r, i)

HostOK ==
    \A r \in Run : \A i \in Index(r) :
        ~At("down") /\ host.run = r /\ host.index = i => HostAt(r, i)

(* The last result of a run is what its records say. *)
ResultsOK ==
    \A r \in Run :
        /\ ~Loadable(r) => result[r] = "none"
        /\ result[r] \in Outcomes => RecordedOutcome(r) = result[r]
        /\ result[r] = "exhausted" /\ ~Stopped(r) => RecordedOutcome(r) = "none"

RunsInv == RunsTypeOK /\ RecordsOK /\ HostTypeOK /\ HostOK /\ ResultsOK

-----------------------------------------------------------------------------
(* Facts about the data.                                                   *)

LEMMA Smallest ==
    ASSUME NEW S, S \subseteq Nat, S # {}
    PROVE  \E m \in S : \A k \in S : m <= k
<1>1. PICK m \in S : \A k \in S : ~(<<k, m>> \in OpToRel(<, Nat))
  BY WFMin, NatLessThanWellFounded, Zenon
<1>2. ASSUME NEW k \in S PROVE ~(k < m) BY <1>1, <1>2, Zenon DEF OpToRel
<1>3. QED BY <1>2

LEMMA IndexFacts ==
    ASSUME NEW r \in Run
    PROVE  /\ Submissions(r) \in Nat \ {0} /\ Version[r] \in Seq(Nat)
           /\ Index(r) = 1..Submissions(r) /\ Index(r) \subseteq Nat \ {0}
           /\ DOMAIN Version[r] = Index(r)
BY RunsAssumption DEF Index, Submissions

(* A required check is a check, and there is one. *)
LEMMA RequiredFacts ==
    ASSUME NEW r \in Run, NEW i \in Index(r)
    PROVE  /\ Contract[r][i] \in Seq(Checks) /\ Contract[r][i] # <<>>
           /\ Required(r, i) = {Contract[r][i][n] : n \in DOMAIN Contract[r][i]}
           /\ Required(r, i) \subseteq Checks /\ Required(r, i) # {}
<1>1. Contract[r][i] \in Seq(Checks) /\ Contract[r][i] # <<>>
  BY RunsAssumption
<1>2. Required(r, i) = {Contract[r][i][n] : n \in DOMAIN Contract[r][i]}
  BY DEF Required, ToSet
<1>3. Contract[r][i][1] \in Required(r, i) BY <1>1, <1>2
<1>4. \A n \in DOMAIN Contract[r][i] : Contract[r][i][n] \in Checks BY <1>1
<1>5. QED BY <1>1, <1>2, <1>3, <1>4, Zenon

(* The number of submissions, from the first, that have a decision. *)
UsedExactly(r, n) ==
    /\ n \in 0..Submissions(r)
    /\ \A i \in 1..n : RecordedSubmission(r, i) # "none"
    /\ n < Submissions(r) => RecordedSubmission(r, n + 1) = "none"

LEMMA UsedFacts ==
    \A r \in Run : /\ \A n : UsedExactly(r, n) => Used(r) = n
                   /\ UsedExactly(r, Used(r))
<1> SUFFICES ASSUME NEW r \in Run
             PROVE  /\ \A n : UsedExactly(r, n) => Used(r) = n
                    /\ UsedExactly(r, Used(r))
  OBVIOUS
<1> DEFINE N == Submissions(r)
           None(i) == RecordedSubmission(r, i) = "none"
           UpTo(n) == /\ \A i \in 1..n : ~None(i)
                      /\ n < N => None(n + 1)
<1>1. N \in Nat BY IndexFacts
<1>2. Used(r) = CHOOSE n \in 0..N : UpTo(n) BY DEF Used
<1>3. \A n : UsedExactly(r, n) <=> n \in 0..N /\ UpTo(n) BY DEF UsedExactly
<1> HIDE DEF N, None
<1>4. \E n \in 0..N : UpTo(n)
  <2>1. CASE \A i \in 1..N : ~None(i) BY <1>1, <2>1
  <2>2. CASE \E i \in 1..N : None(i)
    <3> DEFINE S == {i \in 1..N : None(i)}
    <3>1. S \subseteq Nat /\ S # {} BY <1>1, <2>2
    <3>2. PICK m \in S : \A k \in S : m <= k BY <3>1, Smallest
    <3>3. m - 1 \in 0..N /\ UpTo(m - 1) BY <1>1, <3>2
    <3>4. QED BY <3>3
  <2>3. QED BY <2>1, <2>2
<1>5. ASSUME NEW n \in 0..N, UpTo(n), NEW m \in 0..N, UpTo(m) PROVE n = m
  <2>1. ~(n < m)
    <3>1. SUFFICES ASSUME n < m PROVE FALSE OBVIOUS
    <3>2. n + 1 \in 1..m /\ n < N BY <1>1, <3>1
    <3>3. QED BY <1>5, <3>2
  <2>2. ~(m < n)
    <3>1. SUFFICES ASSUME m < n PROVE FALSE OBVIOUS
    <3>2. m + 1 \in 1..n /\ m < N BY <1>1, <3>1
    <3>3. QED BY <1>5, <3>2
  <2>3. QED BY <1>1, <2>1, <2>2
<1> HIDE DEF UpTo
<1>6. Used(r) \in 0..N /\ UpTo(Used(r)) BY <1>2, <1>4
<1>7. QED BY <1>3, <1>5, <1>6

LEMMA UsedFactsNext ==
    (\A r \in Run : /\ \A n : UsedExactly(r, n) => Used(r) = n
                    /\ UsedExactly(r, Used(r)))'
BY UsedFacts, PTL

-----------------------------------------------------------------------------
(* What is recorded of a submission is never unsaid, and what the records  *)
(* say of it and of its run stays.                                         *)

Forward ==
    \A r \in Run : \A i \in Index(r) :
        /\ episode[r][i] \in EpisodeEnds => episode'[r][i] = episode[r][i]
        /\ episode[r][i] = "submitted" => candidate'[r][i] = candidate[r][i]
        /\ guard[r][i] # "none" => guard'[r][i] = guard[r][i]
        /\ target[r][i] => target'[r][i]
        /\ decision[r][i] \in Decided => decision'[r][i] = decision[r][i]

SubmissionsStay ==
    \A r \in Run : \A i \in Index(r) :
        RecordedSubmission(r, i) # "none" =>
            RecordedSubmission(r, i)' = RecordedSubmission(r, i)
OutcomesStay ==
    \A r \in Run : RecordedOutcome(r) # "none" => RecordedOutcome(r)' = RecordedOutcome(r)

(* Until its episode ends with a submission there is nothing to decide. *)
LEMMA Undecided ==
    \A r \in Run : \A i \in Index(r) :
        Staged(r, i) /\ episode[r][i] # "submitted" => RecordedSubmission(r, i) = "none"
BY DEF Staged, RecordedSubmission

LEMMA UndecidedNext ==
    (\A r \in Run : \A i \in Index(r) :
        Staged(r, i) /\ episode[r][i] # "submitted" => RecordedSubmission(r, i) = "none")'
BY Undecided, PTL

LEMMA SubmissionStays ==
    ASSUME NEW r \in Run, NEW i \in Index(r), Staged(r, i), Staged(r, i)', Forward,
           RecordedSubmission(r, i) # "none"
    PROVE  RecordedSubmission(r, i)' = RecordedSubmission(r, i)
<1>1. CASE guard[r][i] = "refused"
  BY <1>1 DEF RecordedSubmission, Forward
<1>2. CASE guard[r][i] # "refused"
  <2>1. target[r][i] /\ decision[r][i] \in Decided
    BY <1>2 DEF RecordedSubmission
  <2>2. target'[r][i] /\ decision'[r][i] = decision[r][i] BY <2>1 DEF Forward
  <2>3. guard'[r][i] # "refused" BY <2>2 DEF Staged
  <2>4. QED BY <1>2, <2>1, <2>2, <2>3 DEF RecordedSubmission
<1>3. QED BY <1>1, <1>2

LEMMA RecordsForward ==
    ASSUME RecordsOK, Forward, \A r \in Run : \A i \in Index(r) : Staged(r, i)',
           \A r \in Run : \A i \in Index(r) :
              episode[r][i] = "new" /\ episode'[r][i] # "new" =>
                  \A j \in 1..(i - 1) : RecordedSubmission(r, j) \in Passed,
           \A r \in Run : \A i \in Index(r) :
              guard[r][i] = "none" /\ guard'[r][i] # "none" =>
                  /\ episode[r][i] = "submitted"
                  /\ guard'[r][i] = "refused" => \E j \in 1..(i - 1) : RepeatOf(r, i, j)
                  /\ guard'[r][i] = "allowed" /\ ExactRepeats <= Window
                       /\ i > ExactRepeats => ~LoopBefore(r, i)
    PROVE  RecordsOK' /\ SubmissionsStay /\ OutcomesStay
<1>1. SubmissionsStay
  BY SubmissionStays DEF SubmissionsStay, RecordsOK
<1>2. ASSUME NEW r \in Run, NEW i \in Index(r), NEW j \in 1..(i - 1)
      PROVE  j \in Index(r)
  BY IndexFacts, <1>2
<1>3. ASSUME NEW r \in Run, NEW i \in Index(r) PROVE InSequence(r, i)'
  <2> SUFFICES ASSUME episode'[r][i] # "new", NEW j \in 1..(i - 1)
               PROVE  RecordedSubmission(r, j)' \in Passed
    BY DEF InSequence
  <2>1. j \in Index(r) BY <1>2
  <2>2. RecordedSubmission(r, j) \in Passed BY DEF RecordsOK, InSequence
  <2>3. RecordedSubmission(r, j) # "none" BY <2>2 DEF Passed
  <2>4. QED BY <1>1, <2>1, <2>2, <2>3 DEF SubmissionsStay
<1>4. ASSUME NEW r \in Run, NEW i \in Index(r) PROVE GuardFound(r, i)'
  <2>1. CASE guard'[r][i] = "none" BY <2>1 DEF GuardFound
  <2>2. CASE guard'[r][i] # "none"
    <3>1. /\ episode[r][i] = "submitted"
          /\ guard'[r][i] = "refused" => \E j \in 1..(i - 1) : RepeatOf(r, i, j)
          /\ guard'[r][i] = "allowed" /\ ExactRepeats <= Window /\ i > ExactRepeats =>
                ~LoopBefore(r, i)
      <4>1. CASE guard[r][i] = "none" BY <2>2, <4>1
      <4>2. CASE guard[r][i] # "none"
        <5>1. guard'[r][i] = guard[r][i] BY <4>2 DEF Forward
        <5>2. Staged(r, i) /\ GuardFound(r, i) BY DEF RecordsOK
        <5>3. QED BY <4>2, <5>1, <5>2 DEF Staged, GuardFound
      <4>3. QED BY <4>1, <4>2
    <3>2. candidate'[r][i] = candidate[r][i] BY <3>1 DEF Forward
    <3>3. ASSUME NEW j \in 1..(i - 1), decision[r][j] = "rejected"
          PROVE  decision'[r][j] = "rejected" /\ candidate'[r][j] = candidate[r][j]
      <4>1. j \in Index(r) /\ Staged(r, j) BY <1>2 DEF RecordsOK
      <4>2. episode[r][j] = "submitted" BY <3>3, <4>1 DEF Staged
      <4>3. QED BY <3>3, <4>1, <4>2 DEF Forward, Decided
    <3>4. ASSUME NEW j \in 1..(i - 1), decision'[r][j] = "rejected"
          PROVE  decision[r][j] = "rejected"
      <4>1. j \in Index(r) /\ Staged(r, j) /\ Staged(r, j)' BY <1>2 DEF RecordsOK
      <4>2. RecordedSubmission(r, j) \in Passed
        <5>1. InSequence(r, i) BY DEF RecordsOK
        <5>2. QED BY <3>1, <5>1 DEF InSequence
      <4>3. guard[r][j] # "refused"
        <5>1. SUFFICES ASSUME guard[r][j] = "refused" PROVE FALSE OBVIOUS
        <5>2. guard'[r][j] = "refused" /\ r \in Guarded
          BY <4>1, <5>1 DEF Forward, Staged
        <5>3. ~target'[r][j] BY <4>1, <5>2 DEF Staged
        <5>4. QED BY <3>4, <4>1, <5>3 DEF Staged
      <4>4. QED BY <4>2, <4>3 DEF RecordedSubmission, Passed, Decided
    <3>5. ASSUME NEW j \in 1..(i - 1), RepeatOf(r, i, j) PROVE RepeatOf(r, i, j)'
      BY <3>2, <3>3, <3>5 DEF RepeatOf
    <3>6. ASSUME ExactRepeats <= Window, i > ExactRepeats, LoopBefore(r, i)'
          PROVE  LoopBefore(r, i)
      <4>1. i \in Nat /\ ExactRepeats \in Nat \ {0} BY IndexFacts, RunsAssumption
      <4>2. \A j \in (i - ExactRepeats)..(i - 1) : j \in 1..(i - 1) BY <3>6, <4>1
      <4>3. QED BY <3>2, <3>3, <3>4, <3>6, <4>2 DEF LoopBefore
    <3>7. QED BY <2>2, <3>1, <3>5, <3>6 DEF GuardFound
  <2>3. QED BY <2>1, <2>2
<1>5. RecordsOK' BY <1>3, <1>4 DEF RecordsOK
<1>6. ASSUME NEW r \in Run, RecordedOutcome(r) # "none"
      PROVE  RecordedOutcome(r)' = RecordedOutcome(r)
  <2> DEFINE N == Submissions(r)
  <2>0. PICK n \in 0..N : n = Used(r) /\ UsedExactly(r, n)
    BY UsedFacts DEF UsedExactly
  <2>1. UsedExactly(r, n) /\ N \in Nat \ {0} /\ Index(r) = 1..N BY <2>0, IndexFacts
  <2>2. n \in 0..N /\ \A i \in 1..n : RecordedSubmission(r, i) # "none"
    BY <2>1 DEF UsedExactly
  <2> HIDE DEF N
  <2>3. \A i \in 1..n : RecordedSubmission(r, i)' = RecordedSubmission(r, i)
    BY <1>1, <2>1, <2>2 DEF SubmissionsStay
  <2>4. ASSUME n < N, episode'[r][n + 1] # "submitted"
        PROVE  RecordedSubmission(r, n + 1)' = "none"
    <3>1. n + 1 \in Index(r) BY <2>1, <2>2, <2>4
    <3>2. QED BY <2>4, <3>1, UndecidedNext
  <2>5. ASSUME n < N => episode'[r][n + 1] # "submitted" PROVE Used(r)' = n
    <3>1. n < N => RecordedSubmission(r, n + 1)' = "none" BY <2>4, <2>5
    <3>2. UsedExactly(r, n)' BY <2>2, <2>3, <3>1 DEF UsedExactly, N
    <3>3. QED BY <3>2, UsedFactsNext
  <2>6. CASE n # 0 /\ RecordedSubmission(r, n) \in Final
    <3>1. n < N => episode'[r][n + 1] = "new"
      <4>1. SUFFICES ASSUME n < N, episode'[r][n + 1] # "new" PROVE FALSE OBVIOUS
      <4>2. n + 1 \in Index(r) /\ n \in 1..((n + 1) - 1) /\ n \in 1..n
        BY <2>1, <2>2, <2>6, <4>1
      <4>3. RecordedSubmission(r, n)' \in Passed BY <1>3, <4>1, <4>2 DEF InSequence
      <4>4. RecordedSubmission(r, n) \in Passed BY <2>3, <4>2, <4>3
      <4>5. QED BY <2>6, <4>4 DEF Passed, Final
    <3>2. Used(r)' = n BY <2>5, <3>1
    <3>3. RecordedSubmission(r, n)' = RecordedSubmission(r, n) BY <2>2, <2>3, <2>6
    <3>4. QED BY <2>0, <2>6, <3>2, <3>3 DEF RecordedOutcome
  <2>7. CASE ~(n # 0 /\ RecordedSubmission(r, n) \in Final) /\ n = N
    <3>1. Used(r)' = n BY <2>5, <2>7, <2>1
    <3>2. n # 0 /\ RecordedSubmission(r, n)' = RecordedSubmission(r, n)
      BY <2>1, <2>2, <2>3, <2>7
    <3>3. QED BY <2>0, <2>7, <3>1, <3>2 DEF RecordedOutcome, N
  <2>8. CASE ~(n # 0 /\ RecordedSubmission(r, n) \in Final) /\ n # N
    <3>1. n < N /\ n + 1 \in Index(r) BY <2>1, <2>2, <2>8
    <3>2. EndedWithout(r, n + 1) # "none"
      BY <1>6, <2>0, <2>8 DEF RecordedOutcome, N, Final
    <3>3. episode[r][n + 1] \in {"infrastructure_failure", "failed", "finished"}
      BY <3>2 DEF EndedWithout
    <3>4. episode'[r][n + 1] = episode[r][n + 1]
      BY <3>1, <3>3 DEF Forward, EpisodeEnds
    <3>5. EndedWithout(r, n + 1)' = EndedWithout(r, n + 1)
      BY <3>4 DEF EndedWithout
    <3>6. Used(r)' = n BY <2>5, <3>3, <3>4
    <3>7. n # 0 => RecordedSubmission(r, n)' = RecordedSubmission(r, n)
      BY <2>2, <2>3
    <3>8. QED BY <2>0, <2>8, <3>5, <3>6, <3>7 DEF RecordedOutcome, N, Final
  <2>9. QED BY <2>6, <2>7, <2>8
<1>7. QED BY <1>1, <1>5, <1>6 DEF OutcomesStay

-----------------------------------------------------------------------------
(* One record of one submission changes.                                   *)

OthersStay(r) ==
    \A q \in Run \ {r} : RecordedOutcome(q)' = RecordedOutcome(q)
RecordsStep(r) ==
    RunsTypeOK' /\ RecordsOK' /\ SubmissionsStay /\ OutcomesStay /\ OthersStay(r)

LEMMA OutcomeUnchanged ==
    ASSUME NEW q \in Run,
           UNCHANGED <<episode[q], guard[q], target[q], decision[q]>>
    PROVE  RecordedOutcome(q)' = RecordedOutcome(q)
<1>1. ASSUME NEW i PROVE RecordedSubmission(q, i)' = RecordedSubmission(q, i)
                         /\ EndedWithout(q, i)' = EndedWithout(q, i)
  BY DEF RecordedSubmission, EndedWithout
<1>2. PICK n : n = Used(q) OBVIOUS
<1>3. UsedExactly(q, n) BY <1>2, UsedFacts
<1>4. UsedExactly(q, n)' BY <1>1, <1>3 DEF UsedExactly
<1>5. Used(q)' = n BY <1>4, UsedFactsNext
<1>6. QED BY <1>1, <1>2, <1>5 DEF RecordedOutcome

LEMMA CellSet ==
    ASSUME NEW S, NEW f, DOMAIN f = Run, \A q \in Run : f[q] \in [Index(q) -> S],
           NEW r \in Run, NEW i \in Index(r), NEW v \in S,
           NEW g, g = [f EXCEPT ![r][i] = v]
    PROVE  /\ DOMAIN g = Run /\ \A q \in Run : g[q] \in [Index(q) -> S]
           /\ \A q \in Run : \A j \in Index(q) :
                 g[q][j] = IF q = r /\ j = i THEN v ELSE f[q][j]
           /\ \A q \in Run \ {r} : g[q] = f[q]
<1>1. DOMAIN g = Run /\ g[r] = [f[r] EXCEPT ![i] = v] /\ \A q \in Run \ {r} : g[q] = f[q]
  OBVIOUS
<1>2. f[r] \in [Index(r) -> S] OBVIOUS
<1>3. g[r] \in [Index(r) -> S]
      /\ \A j \in Index(r) : g[r][j] = IF j = i THEN v ELSE f[r][j]
  BY <1>1, <1>2
<1>4. QED BY <1>1, <1>3

LEMMA RecordsUnchanged ==
    ASSUME RunsTypeOK, RecordsOK,
           UNCHANGED <<episode, candidate, guard, target, check, decision, executions>>,
           DOMAIN started' = Run, DOMAIN result' = Run,
           \A r \in Run : started'[r] \in {"none", "scope", "spec", "policy"}
    PROVE  /\ RunsTypeOK' /\ RecordsOK' /\ SubmissionsStay /\ OutcomesStay
           /\ \A r \in Run : RecordedOutcome(r)' = RecordedOutcome(r)
           /\ \A r \in Run : \A i : RecordedSubmission(r, i)' = RecordedSubmission(r, i)
<1>1. RunsTypeOK' BY DEF RunsTypeOK
<1>2. \A r \in Run : RecordedOutcome(r)' = RecordedOutcome(r) BY OutcomeUnchanged
<1>3. \A r \in Run : \A i : RecordedSubmission(r, i)' = RecordedSubmission(r, i)
  BY DEF RecordedSubmission
<1>4. ASSUME NEW r \in Run, NEW i \in Index(r)
      PROVE  (Staged(r, i) /\ InSequence(r, i) /\ GuardFound(r, i))'
  <2>1. Staged(r, i) /\ InSequence(r, i) /\ GuardFound(r, i) BY DEF RecordsOK
  <2>2. Staged(r, i)' BY <2>1 DEF Staged, Decision
  <2>3. InSequence(r, i)' BY <2>1, <1>3 DEF InSequence
  <2>4. GuardFound(r, i)' BY <2>1 DEF GuardFound, RepeatOf, LoopBefore
  <2>5. QED BY <2>2, <2>3, <2>4
<1>5. QED BY <1>1, <1>2, <1>3, <1>4 DEF RecordsOK, SubmissionsStay, OutcomesStay

LEMMA EpisodeSet ==
    ASSUME RunsTypeOK, RecordsOK, NEW r \in Run, NEW i \in Index(r),
           NEW state \in {"open", "unknown"} \cup EpisodeEnds,
           episode' = [episode EXCEPT ![r][i] = state],
           episode[r][i] \notin EpisodeEnds,
           episode[r][i] = "new" => \A j \in 1..(i - 1) : RecordedSubmission(r, j) \in Passed,
           \/ UNCHANGED candidate
           \/ \E c \in Candidates[r] : candidate' = [candidate EXCEPT ![r][i] = c],
           UNCHANGED <<started, guard, target, check, decision, executions>>,
           DOMAIN result' = Run
    PROVE  RecordsStep(r)
<1>1. /\ DOMAIN episode' = Run
      /\ \A q \in Run : episode'[q] \in [Index(q) -> {"new", "open", "unknown"} \cup EpisodeEnds]
      /\ \A q \in Run : \A j \in Index(q) :
            episode'[q][j] = IF q = r /\ j = i THEN state ELSE episode[q][j]
      /\ \A q \in Run \ {r} : episode'[q] = episode[q]
  <2>1. /\ DOMAIN episode = Run /\ state \in {"new", "open", "unknown"} \cup EpisodeEnds
        /\ \A q \in Run : episode[q] \in [Index(q) -> {"new", "open", "unknown"} \cup EpisodeEnds]
    BY DEF RunsTypeOK
  <2>2. QED BY <2>1, CellSet
<1>2. /\ DOMAIN candidate' = Run
      /\ \A q \in Run : candidate'[q] \in [Index(q) -> AnyCandidate]
      /\ \A q \in Run : \A j \in Index(q) :
            ~(q = r /\ j = i) => candidate'[q][j] = candidate[q][j]
  <2>1. /\ DOMAIN candidate = Run
        /\ \A q \in Run : candidate[q] \in [Index(q) -> AnyCandidate]
    BY DEF RunsTypeOK
  <2>2. ASSUME NEW c \in Candidates[r], candidate' = [candidate EXCEPT ![r][i] = c]
        PROVE  <1>2
    <3>1. c \in AnyCandidate BY DEF AnyCandidate
    <3>2. /\ DOMAIN candidate' = Run
          /\ \A q \in Run : candidate'[q] \in [Index(q) -> AnyCandidate]
          /\ \A q \in Run : \A j \in Index(q) :
                candidate'[q][j] = IF q = r /\ j = i THEN c ELSE candidate[q][j]
      BY <2>1, <2>2, <3>1, CellSet
    <3>3. QED BY <3>2
  <2>3. QED BY <2>1, <2>2
<1>3. RunsTypeOK' BY <1>1, <1>2 DEF RunsTypeOK
<1>4. Forward BY <1>1, <1>2 DEF Forward, EpisodeEnds
<1>5. ASSUME NEW q \in Run, NEW j \in Index(q) PROVE Staged(q, j)'
  <2>1. Staged(q, j) BY DEF RecordsOK
  <2>2. CASE q = r /\ j = i
    <3>1. guard[q][j] = "none" /\ ~target[q][j]
      BY <2>1, <2>2 DEF Staged, EpisodeEnds
    <3>2. QED BY <2>1, <3>1 DEF Staged, Decided
  <2>3. CASE ~(q = r /\ j = i)
    <3>1. episode'[q][j] = episode[q][j] BY <1>1, <2>3
    <3>2. QED BY <2>1, <3>1 DEF Staged, Decision
  <2>4. QED BY <2>2, <2>3
<1>6. \A q \in Run : \A j \in Index(q) : episode[q][j] = "new" /\ episode'[q][j] # "new" =>
          \A k \in 1..(j - 1) : RecordedSubmission(q, k) \in Passed
  BY <1>1
<1>7. RecordsOK' /\ SubmissionsStay /\ OutcomesStay
  BY <1>4, <1>5, <1>6, RecordsForward
<1>8. OthersStay(r) BY <1>1, OutcomeUnchanged DEF OthersStay
<1>9. QED BY <1>3, <1>7, <1>8 DEF RecordsStep

LEMMA GuardSet ==
    ASSUME RunsTypeOK, RecordsOK, NEW r \in Run, NEW i \in Index(r),
           NEW verdict \in {"allowed", "refused"},
           guard' = [guard EXCEPT ![r][i] = verdict],
           guard[r][i] = "none", r \in Guarded, episode[r][i] = "submitted",
           verdict = "refused" => \E j \in 1..(i - 1) : RepeatOf(r, i, j),
           verdict = "allowed" /\ ExactRepeats <= Window /\ i > ExactRepeats =>
               ~LoopBefore(r, i),
           UNCHANGED <<started, episode, candidate, target, check, decision, executions>>,
           DOMAIN result' = Run
    PROVE  RecordsStep(r)
<1>1. /\ DOMAIN guard' = Run
      /\ \A q \in Run : guard'[q] \in [Index(q) -> {"none", "allowed", "refused"}]
      /\ \A q \in Run : \A j \in Index(q) :
            guard'[q][j] = IF q = r /\ j = i THEN verdict ELSE guard[q][j]
      /\ \A q \in Run \ {r} : guard'[q] = guard[q]
  <2>1. /\ DOMAIN guard = Run /\ verdict \in {"none", "allowed", "refused"}
        /\ \A q \in Run : guard[q] \in [Index(q) -> {"none", "allowed", "refused"}]
    BY DEF RunsTypeOK
  <2>2. QED BY <2>1, CellSet
<1>2. RunsTypeOK' BY <1>1 DEF RunsTypeOK
<1>3. Forward BY <1>1 DEF Forward
<1>4. ASSUME NEW q \in Run, NEW j \in Index(q) PROVE Staged(q, j)'
  <2>1. Staged(q, j) BY DEF RecordsOK
  <2>2. CASE q = r /\ j = i
    <3>1. ~target[q][j] BY <2>1, <2>2 DEF Staged
    <3>2. guard'[q][j] = verdict /\ decision'[q][j] = "absent" /\ ~target'[q][j]
      BY <1>1, <2>1, <2>2, <3>1 DEF Staged
    <3>3. QED BY <2>1, <2>2, <3>2 DEF Staged, Decided
  <2>3. CASE ~(q = r /\ j = i)
    <3>1. guard'[q][j] = guard[q][j] BY <1>1, <2>3
    <3>2. QED BY <2>1, <3>1, ZenonT(60) DEF Staged, Decision
  <2>4. QED BY <2>2, <2>3
<1>5. \A q \in Run : \A j \in Index(q) : guard[q][j] = "none" /\ guard'[q][j] # "none" =>
          q = r /\ j = i /\ guard'[q][j] = verdict
  BY <1>1
<1>6. RecordsOK' /\ SubmissionsStay /\ OutcomesStay
  BY <1>3, <1>4, <1>5, RecordsForward
<1>7. OthersStay(r) BY <1>1, OutcomeUnchanged DEF OthersStay
<1>8. QED BY <1>2, <1>6, <1>7 DEF RecordsStep

LEMMA TargetSet ==
    ASSUME RunsTypeOK, RecordsOK, NEW r \in Run, NEW i \in Index(r),
           target' = [target EXCEPT ![r][i] = TRUE],
           episode[r][i] = "submitted", r \in Guarded => guard[r][i] = "allowed",
           UNCHANGED <<started, episode, candidate, guard, check, decision, executions>>,
           DOMAIN result' = Run
    PROVE  RecordsStep(r)
<1>1. /\ DOMAIN target' = Run
      /\ \A q \in Run : target'[q] \in [Index(q) -> BOOLEAN]
      /\ \A q \in Run : \A j \in Index(q) :
            target'[q][j] <=> target[q][j] \/ (q = r /\ j = i)
      /\ \A q \in Run \ {r} : target'[q] = target[q]
  <2>1. /\ DOMAIN target = Run
        /\ \A q \in Run : target[q] \in [Index(q) -> BOOLEAN]
    BY DEF RunsTypeOK
  <2>2. /\ DOMAIN target' = Run /\ target'[r] = [target[r] EXCEPT ![i] = TRUE]
        /\ \A q \in Run \ {r} : target'[q] = target[q]
    BY <2>1
  <2>3. target[r] \in [Index(r) -> BOOLEAN] BY <2>1
  <2>4. /\ target'[r] \in [Index(r) -> BOOLEAN] /\ target'[r][i]
        /\ \A j \in Index(r) \ {i} : target'[r][j] = target[r][j]
    BY <2>2, <2>3
  <2>5. QED BY <2>1, <2>2, <2>4
<1>2. RunsTypeOK' BY <1>1 DEF RunsTypeOK
<1>3. Forward BY <1>1 DEF Forward
<1>4. ASSUME NEW q \in Run, NEW j \in Index(q) PROVE Staged(q, j)'
  <2>1. Staged(q, j) BY DEF RecordsOK
  <2>2. target'[q][j] <=> target[q][j] \/ (q = r /\ j = i) BY <1>1
  <2>3. QED BY <2>1, <2>2 DEF Staged, Decision
<1>5. RecordsOK' /\ SubmissionsStay /\ OutcomesStay
  BY <1>3, <1>4, RecordsForward
<1>6. OthersStay(r) BY <1>1, OutcomeUnchanged DEF OthersStay
<1>7. QED BY <1>2, <1>5, <1>6 DEF RecordsStep

(* The states a check goes through; it is executed as it becomes unknown. *)
CheckMoves(r, i, c, state) ==
    \/ /\ check[r][i][c] = "absent" /\ state = "pending"
       /\ UNCHANGED executions
    \/ /\ check[r][i][c] = "pending" /\ state = "unknown"
       /\ executions' = [executions EXCEPT ![r][i][c] = @ + 1]
    \/ /\ check[r][i][c] = "unknown" /\ state \in Verdicts
       /\ UNCHANGED executions

CheckChanges(r, i, c, state) == check' = [check EXCEPT ![r][i][c] = state]

LEMMA CheckSet ==
    ASSUME RunsTypeOK, RecordsOK, NEW r \in Run, NEW i \in Index(r), NEW c \in Checks,
           NEW state, CheckChanges(r, i, c, state),
           CheckMoves(r, i, c, state), target[r][i],
           UNCHANGED <<started, episode, candidate, guard, target, decision>>,
           DOMAIN result' = Run
    PROVE  /\ RecordsStep(r)
           /\ \A d \in Checks : check'[r][i][d] = IF d = c THEN state ELSE check[r][i][d]
<1>1. Verdicts \cap Marks = {} BY RunsAssumption DEF Marks
<1>2. state \in Marks \cup Verdicts /\ check[r][i][c] \notin Verdicts
  BY <1>1 DEF CheckMoves, Marks
<1>3. /\ DOMAIN check' = Run
      /\ \A q \in Run : check'[q] \in [Index(q) -> [Checks -> Marks \cup Verdicts]]
      /\ \A q \in Run : \A j \in Index(q) :
            check'[q][j] = IF q = r /\ j = i THEN [check[r][i] EXCEPT ![c] = state]
                           ELSE check[q][j]
      /\ check[r][i] \in [Checks -> Marks \cup Verdicts]
  <2>1. /\ DOMAIN check = Run
        /\ \A q \in Run : check[q] \in [Index(q) -> [Checks -> Marks \cup Verdicts]]
    BY DEF RunsTypeOK
  <2>2. check[r][i] \in [Checks -> Marks \cup Verdicts] BY <2>1
  <2>3. [check[r][i] EXCEPT ![c] = state] \in [Checks -> Marks \cup Verdicts]
    BY <1>2, <2>2
  <2>4. check' = [check EXCEPT ![r][i] = [check[r][i] EXCEPT ![c] = state]]
    BY <2>1 DEF CheckChanges
  <2>5. QED BY <2>1, <2>2, <2>3, <2>4, CellSet
<1>4. \A d \in Checks : check'[r][i][d] = IF d = c THEN state ELSE check[r][i][d]
  BY <1>3
<1>5. /\ DOMAIN executions' = Run
      /\ \A q \in Run : executions'[q] \in [Index(q) -> [Checks -> Nat]]
      /\ \A q \in Run : \A j \in Index(q) :
            ~(q = r /\ j = i) => executions'[q][j] = executions[q][j]
      /\ \A d \in Checks : executions'[r][i][d] =
            IF d = c /\ state = "unknown" THEN executions[r][i][d] + 1
            ELSE executions[r][i][d]
  <2>1. /\ DOMAIN executions = Run
        /\ \A q \in Run : executions[q] \in [Index(q) -> [Checks -> Nat]]
    BY DEF RunsTypeOK
  <2>2. CASE UNCHANGED executions
    <3>1. state # "unknown" BY <1>1, <2>2, <2>1 DEF CheckMoves, Marks
    <3>2. QED BY <2>1, <2>2, <3>1
  <2>3. CASE state = "unknown"
                /\ executions' = [executions EXCEPT ![r][i][c] = @ + 1]
    <3>1. executions[r][i] \in [Checks -> Nat] BY <2>1
    <3>2. PICK row : row = [executions[r][i] EXCEPT ![c] = executions[r][i][c] + 1] OBVIOUS
    <3>3. row \in [Checks -> Nat] BY <3>1, <3>2
    <3>4. executions' = [executions EXCEPT ![r][i] = row]
      BY <2>1, <2>3, <3>2
    <3>5. /\ DOMAIN executions' = Run
          /\ \A q \in Run : executions'[q] \in [Index(q) -> [Checks -> Nat]]
          /\ \A q \in Run : \A j \in Index(q) :
                executions'[q][j] = IF q = r /\ j = i THEN row ELSE executions[q][j]
      BY <2>1, <3>3, <3>4, CellSet
    <3>6. \A d \in Checks : row[d] = IF d = c THEN executions[r][i][d] + 1
                                     ELSE executions[r][i][d]
      BY <3>1, <3>2
    <3>7. QED BY <2>3, <3>5, <3>6
  <2>4. QED BY <2>2, <2>3 DEF CheckMoves
<1>6. RunsTypeOK' BY <1>3, <1>5 DEF RunsTypeOK
<1>7. Forward BY DEF Forward
<1>8. ASSUME NEW q \in Run, NEW j \in Index(q) PROVE Staged(q, j)'
  <2>1. Staged(q, j) BY DEF RecordsOK
  <2>2. CASE q = r /\ j = i
    <3>1. c \in Required(r, i) => decision[r][i] = "absent"
      BY <1>2, <2>1, <2>2 DEF Staged
    <3>2. Required(r, i) \subseteq Checks BY RequiredFacts
    <3>3. c \notin Required(r, i) => \A d \in Required(r, i) : check'[r][i][d] = check[r][i][d]
      BY <1>4, <3>2
    <3>4. c \notin Required(r, i) => Decision(r, i)' = Decision(r, i)
      BY <3>3 DEF Decision
    <3>5. \A d \in Checks : executions'[r][i][d] =
              IF check'[r][i][d] \in {"absent", "pending"} THEN 0 ELSE 1
      <4> SUFFICES ASSUME NEW d \in Checks
                   PROVE  executions'[r][i][d] =
                            IF check'[r][i][d] \in {"absent", "pending"} THEN 0 ELSE 1
        OBVIOUS
      <4>1. executions[r][i][d] = IF check[r][i][d] \in {"absent", "pending"} THEN 0 ELSE 1
        BY <2>1, <2>2 DEF Staged
      <4>2. CASE d # c BY <1>4, <1>5, <4>1, <4>2
      <4>3. CASE d = c BY <1>1, <1>4, <1>5, <4>1, <4>3 DEF CheckMoves, Marks
      <4>4. QED BY <4>2, <4>3
    <3>6. (decision[r][i] # "absent" =>
              target[r][i] /\ \A d \in Required(r, i) : check[r][i][d] \in Verdicts)'
      BY <2>1, <2>2, <3>1, <3>3 DEF Staged
    <3>7. (decision[r][i] \in Decided => decision[r][i] = Decision(r, i))'
      BY <2>1, <2>2, <3>1, <3>4 DEF Staged, Decided
    <3>8. QED BY <2>1, <2>2, <3>5, <3>6, <3>7 DEF Staged
  <2>3. CASE ~(q = r /\ j = i)
    <3>1. check'[q][j] = check[q][j] /\ executions'[q][j] = executions[q][j]
      BY <1>3, <1>5, <2>3
    <3>2. Decision(q, j)' = Decision(q, j) BY <3>1 DEF Decision
    <3>3. QED BY <2>1, <3>1, <3>2 DEF Staged
  <2>4. QED BY <2>2, <2>3
<1>9. RecordsOK' /\ SubmissionsStay /\ OutcomesStay
  BY <1>7, <1>8, RecordsForward
<1>10. OthersStay(r) BY OutcomeUnchanged DEF OthersStay
<1>11. QED BY <1>4, <1>6, <1>9, <1>10 DEF RecordsStep

DecisionChanges(r, i, state) == decision' = [decision EXCEPT ![r][i] = state]

LEMMA DecisionSet ==
    ASSUME RunsTypeOK, RecordsOK, NEW r \in Run, NEW i \in Index(r),
           NEW state, DecisionChanges(r, i, state),
           \/ state \in {"pending", "unknown"}
           \/ state = Decision(r, i),
           decision[r][i] \in Marks,
           target[r][i], \A c \in Required(r, i) : check[r][i][c] \in Verdicts,
           UNCHANGED <<started, episode, candidate, guard, target, check, executions>>,
           DOMAIN result' = Run
    PROVE  RecordsStep(r) /\ decision'[r][i] = state
<1>1. Decision(r, i) \in Decided BY DEF Decision, Decided
<1>2. Marks \cap Decided = {} BY DEF Marks, Decided
<1>3. /\ DOMAIN decision' = Run
      /\ \A q \in Run : decision'[q] \in [Index(q) -> Marks \cup Decided]
      /\ \A q \in Run : \A j \in Index(q) :
            decision'[q][j] = IF q = r /\ j = i THEN state ELSE decision[q][j]
      /\ \A q \in Run \ {r} : decision'[q] = decision[q]
  <2>1. /\ DOMAIN decision = Run /\ state \in Marks \cup Decided
        /\ \A q \in Run : decision[q] \in [Index(q) -> Marks \cup Decided]
    BY <1>1 DEF RunsTypeOK, Marks
  <2>2. QED BY <2>1, CellSet DEF DecisionChanges
<1>4. RunsTypeOK' BY <1>3 DEF RunsTypeOK
<1>5. Forward BY <1>2, <1>3 DEF Forward
<1>6. ASSUME NEW q \in Run, NEW j \in Index(q) PROVE Staged(q, j)'
  <2>1. Staged(q, j) BY DEF RecordsOK
  <2>2. CASE q = r /\ j = i
    <3>1. decision'[r][i] = state BY <1>3
    <3>2. state \in Decided => state = Decision(r, i) BY <1>2 DEF Marks, Decided
    <3>3. Decision(r, i)' = Decision(r, i) BY DEF Decision
    <3>4. QED BY <2>1, <2>2, <3>1, <3>2, <3>3 DEF Staged
  <2>3. CASE ~(q = r /\ j = i)
    <3>1. decision'[q][j] = decision[q][j] BY <1>3, <2>3
    <3>2. QED BY <2>1, <3>1, SMTT(30) DEF Staged, Decision
  <2>4. QED BY <2>2, <2>3
<1>7. RecordsOK' /\ SubmissionsStay /\ OutcomesStay
  BY <1>5, <1>6, RecordsForward
<1>8. OthersStay(r) BY <1>3, OutcomeUnchanged DEF OthersStay
<1>9. QED BY <1>3, <1>4, <1>7, <1>8 DEF RecordsStep

-----------------------------------------------------------------------------
(* What the process knows, and what it reports.                            *)

LEMMA TodoFacts ==
    ASSUME NEW s \in Seq(Checks), s # <<>>
    PROVE  /\ Head(s) \in Checks /\ Head(s) \in {s[n] : n \in DOMAIN s}
           /\ Tail(s) \in Seq(Checks)
           /\ {Tail(s)[n] : n \in DOMAIN Tail(s)} \subseteq {s[n] : n \in DOMAIN s}
           /\ {s[n] : n \in DOMAIN s} \ {Tail(s)[n] : n \in DOMAIN Tail(s)} \subseteq {Head(s)}
<1>1. Len(s) \in Nat \ {0} /\ DOMAIN s = 1..Len(s) OBVIOUS
<1>2. Head(s) = s[1] /\ 1 \in DOMAIN s /\ s[1] \in Checks BY <1>1
<1>3. /\ Tail(s) \in Seq(Checks) /\ DOMAIN Tail(s) = 1..(Len(s) - 1)
      /\ \A n \in 1..(Len(s) - 1) : Tail(s)[n] = s[n + 1]
  BY <1>1
<1>4. ASSUME NEW n \in DOMAIN Tail(s) PROVE Tail(s)[n] \in {s[m] : m \in DOMAIN s}
  <2>1. n + 1 \in DOMAIN s BY <1>1, <1>3
  <2>2. QED BY <1>3, <2>1
<1>5. ASSUME NEW n \in DOMAIN s, s[n] # Head(s)
      PROVE  s[n] \in {Tail(s)[m] : m \in DOMAIN Tail(s)}
  <2>1. n # 1 BY <1>2, <1>5
  <2>2. n - 1 \in DOMAIN Tail(s) /\ (n - 1) + 1 = n BY <1>1, <1>3, <2>1
  <2>3. QED BY <1>3, <2>2
<1>6. QED BY <1>2, <1>3, <1>4, <1>5

LEMMA ResultsKept ==
    ASSUME RunsTypeOK, ResultsOK, NEW r \in Run, result[r] = "none",
           UNCHANGED result, OthersStay(r), overrun \subseteq overrun',
           \A q \in Run : Loadable(q) => Loadable(q)'
    PROVE  ResultsOK'
BY DEF ResultsOK, OthersStay, Stopped, Outcomes, Final

LEMMA ResultsReturned ==
    ASSUME RunsTypeOK, RecordsOK, ResultsOK, NEW r \in Run, Loadable(r),
           NEW outcome, result' = [result EXCEPT ![r] = outcome],
           UNCHANGED <<recordVars, executions>>,
           outcome \in Outcomes => RecordedOutcome(r) = outcome,
           outcome = "exhausted" /\ ~Stopped(r) => RecordedOutcome(r) = "none"
    PROVE  RunsTypeOK' /\ RecordsOK' /\ ResultsOK' /\ OutcomesStay /\ SubmissionsStay
           /\ \A q \in Run : \A i : RecordedSubmission(q, i)' = RecordedSubmission(q, i)
<1>1. DOMAIN result' = Run /\ \A q \in Run : result'[q] = IF q = r THEN outcome ELSE result[q]
  BY DEF RunsTypeOK
<1>2. /\ UNCHANGED <<started, episode, candidate, guard, target, check, decision,
                     overrun, executions>>
      /\ \A q \in Run : started'[q] \in {"none", "scope", "spec", "policy"}
      /\ DOMAIN started' = Run
  BY DEF recordVars, RunsTypeOK
<1>3. /\ RunsTypeOK' /\ RecordsOK' /\ SubmissionsStay /\ OutcomesStay
      /\ \A q \in Run : RecordedOutcome(q)' = RecordedOutcome(q)
      /\ \A q \in Run : \A i : RecordedSubmission(q, i)' = RecordedSubmission(q, i)
  BY <1>1, <1>2, RecordsUnchanged
<1>4. \A q \in Run : (Loadable(q)' <=> Loadable(q)) /\ (Stopped(q)' <=> Stopped(q))
  BY <1>2 DEF Loadable, Stopped
<1>5. ResultsOK' BY <1>1, <1>3, <1>4 DEF ResultsOK
<1>6. QED BY <1>3, <1>5

LEMMA HostDown ==
    ASSUME host' = Down PROVE HostTypeOK' /\ HostOK'
<1>1. host' \in [pc : PCs, run : Run \cup {"none"}, index : Nat \ {0},
                 subs : Seq(Passed), todo : Seq(Checks)]
  <2>1. <<>> \in Seq(Passed) /\ <<>> \in Seq(Checks) OBVIOUS
  <2>2. QED BY <2>1 DEF Down, PCs
<1>2. host'.pc = "down" BY DEF Down
<1>3. QED BY <1>1, <1>2 DEF HostTypeOK, HostOK, At

(* The process is at a submission. *)
Here(r, i) ==
    /\ r \in Run /\ i \in Index(r) /\ host.run = r /\ host.index = i /\ ~At("down")
    /\ HostAt(r, i)

LEMMA SomewhereHere ==
    ASSUME RunsInv, ~At("down") PROVE \E r \in Run : \E i \in Index(r) : Here(r, i)
BY DEF RunsInv, HostTypeOK, HostOK, Here

(* What the records say of the run when all the submissions before the     *)
(* present one were refused or rejected.                                   *)
LEMMA OutcomeHere ==
    ASSUME RunsInv, NEW r \in Run, NEW i \in Index(r), Here(r, i)
    PROVE  /\ RecordedSubmission(r, i) = "none" =>
                 RecordedOutcome(r) = IF i > 1 /\ EndedWithout(r, i) = "incomplete"
                                      THEN "rejected" ELSE EndedWithout(r, i)
           /\ RecordedSubmission(r, i) \in Final =>
                 RecordedOutcome(r) = RecordedSubmission(r, i)
           /\ RecordedSubmission(r, i) \in Passed /\ i = Submissions(r) =>
                 RecordedOutcome(r) = "rejected"
<1> DEFINE N == Submissions(r)
<1>1. N \in Nat \ {0} /\ i \in 1..N BY IndexFacts
<1>2. \A j \in 1..(i - 1) : RecordedSubmission(r, j) \in Passed
  <2>1. host.subs \in Seq(Passed) /\ Len(host.subs) = i - 1
        /\ \A j \in 1..(i - 1) : host.subs[j] = RecordedSubmission(r, j)
    BY DEF RunsInv, HostTypeOK, Here, HostAt
  <2>2. \A j \in 1..(i - 1) : host.subs[j] \in Passed BY <2>1
  <2>3. QED BY <2>1, <2>2
<1>3. \A j \in 1..(i - 1) : RecordedSubmission(r, j) # "none" BY <1>2 DEF Passed
<1>4. ASSUME RecordedSubmission(r, i) = "none"
      PROVE  RecordedOutcome(r) = IF i > 1 /\ EndedWithout(r, i) = "incomplete"
                                  THEN "rejected" ELSE EndedWithout(r, i)
  <2>1. UsedExactly(r, i - 1) BY <1>1, <1>3, <1>4 DEF UsedExactly
  <2>2. Used(r) = i - 1 BY <2>1, UsedFacts
  <2>3. i - 1 # 0 => RecordedSubmission(r, i - 1) \notin Final
    <3>1. i - 1 # 0 => i - 1 \in 1..(i - 1) BY <1>1
    <3>2. QED BY <1>2, <3>1 DEF Passed, Final
  <2>4. i - 1 # N /\ (i - 1) + 1 = i /\ (i > 1 <=> i - 1 > 0) /\ "none" \notin Final
    BY <1>1 DEF Final
  <2>5. QED BY <2>2, <2>3, <2>4 DEF RecordedOutcome
<1>5. ASSUME RecordedSubmission(r, i) # "none",
             i < N => RecordedSubmission(r, i + 1) = "none"
      PROVE  Used(r) = i
  <2>1. UsedExactly(r, i) BY <1>1, <1>3, <1>5 DEF UsedExactly
  <2>2. QED BY <2>1, UsedFacts
<1>6. ASSUME RecordedSubmission(r, i) \in Final
      PROVE  RecordedOutcome(r) = RecordedSubmission(r, i)
  <2>1. RecordedSubmission(r, i) # "none" /\ RecordedSubmission(r, i) \notin Passed
    BY <1>6 DEF Final, Passed
  <2>2. ASSUME i < N PROVE RecordedSubmission(r, i + 1) = "none"
    <3>1. i + 1 \in Index(r) /\ i \in 1..((i + 1) - 1) BY <1>1, <2>2, IndexFacts
    <3>2. Staged(r, i + 1) /\ InSequence(r, i + 1) BY <3>1 DEF RunsInv, RecordsOK
    <3>3. episode[r][i + 1] = "new" BY <2>1, <3>1, <3>2 DEF InSequence
    <3>4. QED BY <3>1, <3>2, <3>3, Undecided
  <2>3. Used(r) = i BY <1>5, <2>1, <2>2
  <2>4. QED BY <1>1, <1>6, <2>3 DEF RecordedOutcome
<1>7. ASSUME RecordedSubmission(r, i) \in Passed, i = N
      PROVE  RecordedOutcome(r) = "rejected"
  <2>1. RecordedSubmission(r, i) # "none" /\ RecordedSubmission(r, i) \notin Final
    BY <1>7 DEF Final, Passed
  <2>2. Used(r) = i BY <1>1, <1>5, <1>7, <2>1
  <2>3. QED BY <1>1, <1>7, <2>1, <2>2 DEF RecordedOutcome
<1>8. QED BY <1>4, <1>6, <1>7

-----------------------------------------------------------------------------
(* Steps of the process.                                                   *)

Kept == RunsInv' /\ OutcomesStay

(* It stays at its submission and may go on in the list of checks. *)
HostMoves(pc, todo) ==
    /\ host'.pc = pc /\ host'.run = host.run /\ host'.index = host.index
    /\ host'.subs = host.subs /\ host'.todo = todo

LEMMA HostMoved ==
    ASSUME HostTypeOK, ~At("down"), NEW pc \in PCs, NEW todo \in Seq(Checks),
           \/ host' = [host EXCEPT !.pc = pc] /\ todo = host.todo
           \/ host' = [host EXCEPT !.pc = pc, !.todo = todo]
           \/ host' = [host EXCEPT !.todo = todo] /\ pc = host.pc
           \/ UNCHANGED host /\ pc = host.pc /\ todo = host.todo
    PROVE  HostTypeOK' /\ HostMoves(pc, todo)
<1>1. host = [pc |-> host.pc, run |-> host.run, index |-> host.index,
              subs |-> host.subs, todo |-> host.todo]
  BY DEF HostTypeOK
<1>2. host' = [pc |-> pc, run |-> host.run, index |-> host.index,
               subs |-> host.subs, todo |-> todo]
  BY <1>1
<1>3. HostMoves(pc, todo) BY <1>2 DEF HostMoves
<1>4. host' \in [pc : PCs, run : Run \cup {"none"}, index : Nat \ {0},
                 subs : Seq(Passed), todo : Seq(Checks)]
  BY <1>2 DEF HostTypeOK
<1>5. \E r \in Run : host'.run = r /\ host'.index \in Index(r)
  BY <1>2 DEF HostTypeOK
<1>6. QED BY <1>3, <1>4, <1>5 DEF HostTypeOK

LEMMA RecordStep ==
    ASSUME RunsInv, NEW r \in Run, NEW i \in Index(r), Here(r, i), RecordsStep(r),
           UNCHANGED <<started, result>>, overrun \subseteq overrun',
           host.pc \notin {"spec", "policy"},
           NEW pc \in PCs, NEW todo, HostTypeOK', HostMoves(pc, todo), Placed(r, i)'
    PROVE  Kept
<1>1. /\ host'.run = r /\ host'.index = i /\ host'.subs = host.subs
      /\ result[r] = "none" /\ Loadable(r) /\ Len(host.subs) = i - 1
      /\ \A j \in 1..(i - 1) : host.subs[j] = RecordedSubmission(r, j)
  BY DEF HostMoves, Here, HostAt
<1>2. \A j \in 1..(i - 1) : RecordedSubmission(r, j)' = RecordedSubmission(r, j)
  <2> SUFFICES ASSUME NEW j \in 1..(i - 1)
               PROVE  RecordedSubmission(r, j)' = RecordedSubmission(r, j)
    OBVIOUS
  <2>1. j \in Index(r) /\ i - 1 \in Nat BY IndexFacts
  <2>2. host.subs \in Seq(Passed) BY DEF RunsInv, HostTypeOK
  <2>3. host.subs[j] \in Passed BY <1>1, <2>1, <2>2
  <2>4. RecordedSubmission(r, j) # "none" BY <1>1, <2>3 DEF Passed
  <2>5. QED BY <2>1, <2>4 DEF RecordsStep, SubmissionsStay
<1>3. Loadable(r)' /\ \A q \in Run : Loadable(q) => Loadable(q)' BY <1>1 DEF Loadable
<1>4. HostAt(r, i)' BY <1>1, <1>2, <1>3 DEF HostAt
<1>5. HostOK' BY <1>1, <1>4 DEF HostOK
<1>6. ResultsOK' BY <1>1, <1>3, ResultsKept DEF RunsInv, RecordsStep
<1>7. QED BY <1>5, <1>6 DEF Kept, RunsInv, RecordsStep

LEMMA ReturnStep ==
    ASSUME RunsInv, NEW r \in Run, NEW i \in Index(r), Here(r, i),
           host.pc \notin {"spec", "policy"}, NEW outcome, Return(outcome),
           UNCHANGED <<recordVars, executions>>,
           outcome \in Outcomes => RecordedOutcome(r) = outcome,
           outcome = "exhausted" /\ ~Stopped(r) => RecordedOutcome(r) = "none"
    PROVE  Kept
<1>1. /\ result' = [result EXCEPT ![r] = outcome] /\ host' = Down /\ Loadable(r)
  BY DEF Return, r0, Here, HostAt
<1>2. RunsTypeOK' /\ RecordsOK' /\ ResultsOK' /\ OutcomesStay
  BY <1>1, ResultsReturned DEF RunsInv
<1>3. QED BY <1>1, <1>2, HostDown DEF Kept, RunsInv

(* To the first submission of a run that is loaded. *)
LEMMA EnterStep ==
    ASSUME RunsInv, NEW r \in Run, Enter(r),
           UNCHANGED <<episode, candidate, guard, target, check, decision, overrun,
                       executions>>,
           result' \in {result, [result EXCEPT ![r] = "none"]}, result'[r] = "none",
           started' \in {started, [started EXCEPT ![r] = "policy"]}, Loadable(r)'
    PROVE  Kept
<1>1. host' = [pc |-> "episode", run |-> r, index |-> 1, subs |-> <<>>, todo |-> <<>>]
  BY DEF Enter, Down
<1>2. /\ DOMAIN started' = Run /\ DOMAIN result' = Run
      /\ \A q \in Run : started'[q] \in {"none", "scope", "spec", "policy"}
      /\ \A q \in Run \ {r} : result'[q] = result[q]
      /\ \A q \in Run : Loadable(q) => Loadable(q)'
  BY DEF RunsInv, RunsTypeOK, Loadable
<1>3. /\ RunsTypeOK' /\ RecordsOK' /\ OutcomesStay
      /\ \A q \in Run : RecordedOutcome(q)' = RecordedOutcome(q)
  BY <1>2, RecordsUnchanged DEF RunsInv
<1>4. ResultsOK' BY <1>2, <1>3 DEF RunsInv, ResultsOK, Stopped, Outcomes, Final
<1>5. 1 \in Index(r) BY IndexFacts
<1>6. HostTypeOK'
  <2>1. <<>> \in Seq(Passed) /\ <<>> \in Seq(Checks) OBVIOUS
  <2>2. host' \in [pc : PCs, run : Run \cup {"none"}, index : Nat \ {0},
                   subs : Seq(Passed), todo : Seq(Checks)]
    BY <1>1, <2>1 DEF PCs
  <2>3. QED BY <1>1, <1>5, <2>2 DEF HostTypeOK
<1>7. HostOK'
  <2>1. Len(host'.subs) = 1 - 1 /\ host'.pc = "episode" BY <1>1
  <2>2. HostAt(r, 1)' BY <2>1 DEF HostAt, Placed, At, Assessing
  <2>3. QED BY <1>1, <2>2 DEF HostOK
<1>8. QED BY <1>3, <1>4, <1>6, <1>7 DEF Kept, RunsInv

(* The present submission was refused or rejected: on to the next one, or  *)
(* to the end of the run.                                                  *)
LEMMA AdvanceStep ==
    ASSUME RunsInv, NEW r \in Run, NEW i \in Index(r), Here(r, i),
           host.pc \notin {"spec", "policy"}, NEW status \in Passed,
           RecordedSubmission(r, i) = status, Advance(status),
           UNCHANGED <<recordVars, executions>>
    PROVE  Kept
<1>1. r0 = r /\ i0 = i BY DEF Here, r0, i0
<1>2. CASE i = Submissions(r)
  <2>1. Return("rejected") BY <1>1, <1>2 DEF Advance
  <2>2. RecordedOutcome(r) = "rejected" BY <1>2, OutcomeHere
  <2>3. QED BY <2>1, <2>2, ReturnStep
<1>3. CASE i # Submissions(r)
  <2>1. i + 1 \in Index(r) /\ i \in Nat \ {0} BY <1>3, IndexFacts
  <2>2. /\ host' = [pc |-> "episode", run |-> r, index |-> i + 1,
                    subs |-> Append(host.subs, status), todo |-> <<>>]
        /\ UNCHANGED result
    BY <1>1, <1>3 DEF Advance, Down
  <2>3. /\ UNCHANGED <<started, episode, candidate, guard, target, check, decision,
                       overrun, executions>>
        /\ DOMAIN started' = Run /\ DOMAIN result' = Run
        /\ \A q \in Run : started'[q] \in {"none", "scope", "spec", "policy"}
    BY <2>2 DEF recordVars, RunsInv, RunsTypeOK
  <2>4. /\ RunsTypeOK' /\ RecordsOK' /\ OutcomesStay
        /\ \A q \in Run : RecordedOutcome(q)' = RecordedOutcome(q)
        /\ \A q \in Run : \A j : RecordedSubmission(q, j)' = RecordedSubmission(q, j)
    BY <2>3, RecordsUnchanged DEF RunsInv
  <2>5. ResultsOK' BY <2>2, <2>3, <2>4 DEF RunsInv, ResultsOK, Stopped, Loadable
  <2>6. /\ host.subs \in Seq(Passed) /\ Len(host.subs) = i - 1 /\ result[r] = "none"
        /\ Loadable(r) /\ \A j \in 1..(i - 1) : host.subs[j] = RecordedSubmission(r, j)
    BY DEF RunsInv, HostTypeOK, Here, HostAt
  <2>7. PICK subs : subs = Append(host.subs, status) OBVIOUS
  <2>8. /\ subs \in Seq(Passed) /\ Len(subs) = i
        /\ \A j \in 1..i : subs[j] = RecordedSubmission(r, j)
    BY <2>1, <2>6, <2>7
  <2>9. HostTypeOK'
    <3>1. <<>> \in Seq(Checks) OBVIOUS
    <3>2. host' \in [pc : PCs, run : Run \cup {"none"}, index : Nat \ {0},
                     subs : Seq(Passed), todo : Seq(Checks)]
      BY <2>1, <2>2, <2>7, <2>8, <3>1 DEF PCs
    <3>3. QED BY <2>1, <2>2, <3>2 DEF HostTypeOK
  <2>10. HostOK'
    <3>1. PICK k \in Index(r) : k = i + 1 BY <2>1
    <3>2. /\ host'.pc = "episode" /\ host'.subs = subs /\ k - 1 = i
          /\ result'[r] = "none" /\ Loadable(r)'
      BY <2>1, <2>2, <2>3, <2>6, <2>7, <3>1 DEF Loadable
    <3>3. HostAt(r, k)' BY <2>4, <2>8, <3>2 DEF HostAt, Placed, At, Assessing
    <3>4. host'.run = r /\ host'.index = k BY <2>2, <3>1
    <3>5. QED BY <3>3, <3>4 DEF HostOK
  <2>11. QED BY <2>4, <2>5, <2>9, <2>10 DEF Kept, RunsInv
<1>4. QED BY <1>2, <1>3

LEMMA StartStep == ASSUME RunsInv, NEW r \in Run, Start(r) PROVE Kept
<1>1. /\ host' = [pc |-> "spec", run |-> r, index |-> 1, subs |-> <<>>, todo |-> <<>>]
      /\ started' = [started EXCEPT ![r] = "scope"] /\ ~Listed(r)
      /\ UNCHANGED <<episode, candidate, guard, target, check, decision, overrun,
                     executions, result>>
  BY DEF Start, Down
<1>2. /\ DOMAIN started' = Run /\ DOMAIN result' = Run /\ result[r] = "none"
      /\ \A q \in Run : started'[q] \in {"none", "scope", "spec", "policy"}
      /\ \A q \in Run : Loadable(q)' <=> Loadable(q)
  BY <1>1 DEF RunsInv, RunsTypeOK, ResultsOK, Loadable, Listed
<1>3. /\ RunsTypeOK' /\ RecordsOK' /\ OutcomesStay
      /\ \A q \in Run : RecordedOutcome(q)' = RecordedOutcome(q)
  BY <1>1, <1>2, RecordsUnchanged DEF RunsInv
<1>4. ResultsOK' BY <1>1, <1>2, <1>3 DEF RunsInv, ResultsOK, Stopped
<1>5. 1 \in Index(r) BY IndexFacts
<1>6. HostTypeOK'
  <2>1. <<>> \in Seq(Passed) /\ <<>> \in Seq(Checks) OBVIOUS
  <2>2. host' \in [pc : PCs, run : Run \cup {"none"}, index : Nat \ {0},
                   subs : Seq(Passed), todo : Seq(Checks)]
    BY <1>1, <2>1 DEF PCs
  <2>3. QED BY <1>1, <1>5, <2>2 DEF HostTypeOK
<1>7. HostOK'
  <2>1. Len(host'.subs) = 1 - 1 /\ host'.pc = "spec" /\ result'[r] = "none"
    BY <1>1, <1>2
  <2>2. HostAt(r, 1)' BY <2>1 DEF HostAt, Placed, At, Assessing
  <2>3. QED BY <1>1, <2>2 DEF HostOK
<1>8. QED BY <1>3, <1>4, <1>6, <1>7 DEF Kept, RunsInv

LEMMA RecordSpecStep ==
    ASSUME RunsInv, NEW r \in Run, NEW i \in Index(r), Here(r, i), RecordSpec
    PROVE  Kept
<1>1. /\ started' = [started EXCEPT ![r] = "spec"] /\ host' = [host EXCEPT !.pc = "policy"]
      /\ UNCHANGED <<episode, candidate, guard, target, check, decision, overrun,
                     executions, result>>
  BY DEF RecordSpec, Here, GoTo, r0
<1>2. /\ DOMAIN started' = Run /\ DOMAIN result' = Run /\ result[r] = "none"
      /\ \A q \in Run : started'[q] \in {"none", "scope", "spec", "policy"}
      /\ \A q \in Run \ {r} : Loadable(q)' <=> Loadable(q)
  BY <1>1 DEF RunsInv, RunsTypeOK, Loadable, Here, HostAt
<1>3. /\ RunsTypeOK' /\ RecordsOK' /\ OutcomesStay
      /\ \A q \in Run : RecordedOutcome(q)' = RecordedOutcome(q)
      /\ \A q \in Run : \A j : RecordedSubmission(q, j)' = RecordedSubmission(q, j)
  BY <1>1, <1>2, RecordsUnchanged DEF RunsInv
<1>4. ResultsOK'
  BY <1>1, <1>2, <1>3 DEF RunsInv, ResultsOK, Stopped, Outcomes, Final
<1>5. HostTypeOK' /\ HostMoves("policy", host.todo)
  <2>1. /\ HostTypeOK /\ ~At("down") /\ "policy" \in PCs /\ host.todo \in Seq(Checks)
    BY DEF RunsInv, Here, PCs, HostTypeOK
  <2>2. QED BY <1>1, <2>1, HostMoved
<1>6. HostOK'
  <2>1. /\ host'.pc = "policy" /\ host'.run = r /\ host'.index = i
        /\ host'.subs = host.subs /\ Len(host.subs) = i - 1
        /\ \A j \in 1..(i - 1) : host.subs[j] = RecordedSubmission(r, j)
    BY <1>5 DEF HostMoves, Here, HostAt
  <2>2. HostAt(r, i)' BY <1>1, <1>2, <1>3, <2>1 DEF HostAt, Placed, At, Assessing
  <2>3. QED BY <2>1, <2>2 DEF HostOK
<1>7. QED BY <1>3, <1>4, <1>5, <1>6 DEF Kept, RunsInv

(* The episode's steps. *)
LEMMA EpisodeStep ==
    ASSUME RunsInv, NEW r \in Run, NEW i \in Index(r), Here(r, i),
           Reconcile \/ Attempt \/ AttemptCompletes \/ FinishEpisode
    PROVE  Kept
<1>1. /\ r0 = r /\ i0 = i /\ RunsTypeOK /\ RecordsOK /\ HostTypeOK
      /\ host.todo \in Seq(Checks) /\ ~At("down")
  BY DEF Here, r0, i0, RunsInv, HostTypeOK
<1>2. /\ UNCHANGED <<started, guard, target, check, decision, executions, result>>
      /\ host.pc \in {"episode", "attempt"}
  BY DEF Reconcile, Attempt, AttemptFrom, AttemptCompletes, FinishEpisode, At
<1>3. DOMAIN result' = Run BY <1>1, <1>2 DEF RunsTypeOK
<1>4. "episode" \in PCs /\ "attempt" \in PCs BY DEF PCs
<1>5. \A j \in 1..(i - 1) : RecordedSubmission(r, j) \in Passed
  <2>1. /\ host.subs \in Seq(Passed) /\ Len(host.subs) = i - 1
        /\ \A j \in 1..(i - 1) : host.subs[j] = RecordedSubmission(r, j)
    BY DEF RunsInv, HostTypeOK, Here, HostAt
  <2>2. \A j \in 1..(i - 1) : host.subs[j] \in Passed BY <2>1
  <2>3. QED BY <2>1, <2>2
<1>6. CASE Reconcile
  <2>1. PICK k \in Index(r) :
            /\ episode[r][k] = "unknown" /\ episode' = [episode EXCEPT ![r][k] = "open"]
            /\ overrun \subseteq overrun'
    BY <1>1, <1>6 DEF Reconcile, Completes, SetEpisode
  <2>2. UNCHANGED <<candidate, host>> /\ host.pc = "episode" BY <1>6 DEF Reconcile, At
  <2>3. RecordsStep(r)
    <3>1. "open" \in {"open", "unknown"} \cup EpisodeEnds /\ episode[r][k] \notin EpisodeEnds
      BY <2>1 DEF EpisodeEnds
    <3>2. QED BY <1>1, <1>2, <1>3, <2>1, <2>2, <3>1, EpisodeSet
  <2>4. HostTypeOK' /\ HostMoves("episode", host.todo)
    BY <1>1, <1>4, <2>2, HostMoved
  <2>5. Placed(r, i)' BY <2>2 DEF Placed, At, Assessing
  <2>6. QED BY <1>2, <1>4, <2>1, <2>3, <2>4, <2>5, RecordStep
<1>7. CASE Attempt
  <2>1. /\ episode[r][i] \in {"new", "open"} /\ UNCHANGED <<candidate, overrun>>
        /\ episode' = [episode EXCEPT ![r][i] = "unknown"]
        /\ host' = [host EXCEPT !.pc = "attempt"]
    BY <1>1, <1>7 DEF Attempt, AttemptFrom, SetEpisode, GoTo
  <2>2. RecordsStep(r)
    <3>1. "unknown" \in {"open", "unknown"} \cup EpisodeEnds /\ episode[r][i] \notin EpisodeEnds
      BY <2>1 DEF EpisodeEnds
    <3>2. QED BY <1>1, <1>2, <1>3, <1>5, <2>1, <3>1, EpisodeSet
  <2>3. HostTypeOK' /\ HostMoves("attempt", host.todo)
    BY <1>1, <1>4, <2>1, HostMoved
  <2>4. episode'[r][i] = "unknown" BY <1>1, <2>1 DEF RunsTypeOK
  <2>5. Placed(r, i)' BY <2>3, <2>4 DEF Placed, At, Assessing, HostMoves
  <2>6. QED BY <1>2, <1>4, <2>1, <2>2, <2>3, <2>5, RecordStep
<1>8. CASE AttemptCompletes
  <2>1. PICK state \in {"open", "failed", "infrastructure_failure"} :
            episode' = [episode EXCEPT ![r][i] = state]
    BY <1>1, <1>8 DEF AttemptCompletes, Completes, SetEpisode
  <2>2. /\ overrun \subseteq overrun' /\ UNCHANGED candidate
        /\ episode[r][i] = "unknown" /\ host' = [host EXCEPT !.pc = "episode"]
    BY <1>8 DEF AttemptCompletes, Completes, GoTo, Here, HostAt, Placed
  <2>3. RecordsStep(r)
    <3>1. state \in {"open", "unknown"} \cup EpisodeEnds /\ episode[r][i] \notin EpisodeEnds
      BY <2>2 DEF EpisodeEnds
    <3>2. QED BY <1>1, <1>2, <1>3, <2>1, <2>2, <3>1, EpisodeSet
  <2>4. HostTypeOK' /\ HostMoves("episode", host.todo)
    BY <1>1, <1>4, <2>2, HostMoved
  <2>5. Placed(r, i)' BY <2>4 DEF Placed, At, Assessing, HostMoves
  <2>6. QED BY <1>2, <1>4, <2>2, <2>3, <2>4, <2>5, RecordStep
<1>9. CASE FinishEpisode
  <2>1. PICK state \in {"finished", "submitted"} :
            /\ episode' = [episode EXCEPT ![r][i] = state]
            /\ \/ UNCHANGED candidate
               \/ \E c \in Candidates[r] : candidate' = [candidate EXCEPT ![r][i] = c]
    BY <1>1, <1>9 DEF FinishEpisode, SetEpisode
  <2>2. UNCHANGED <<host, overrun>> /\ host.pc = "episode" /\ episode[r][i] = "open"
    BY <1>1, <1>9 DEF FinishEpisode, At
  <2>3. RecordsStep(r)
    <3>1. state \in {"open", "unknown"} \cup EpisodeEnds /\ episode[r][i] \notin EpisodeEnds
      BY <2>2 DEF EpisodeEnds
    <3>2. QED BY <1>1, <1>2, <1>3, <2>1, <2>2, <3>1, EpisodeSet
  <2>4. HostTypeOK' /\ HostMoves("episode", host.todo)
    BY <1>1, <1>4, <2>2, HostMoved
  <2>5. Placed(r, i)' BY <2>2 DEF Placed, At, Assessing
  <2>6. QED BY <1>2, <1>4, <2>2, <2>3, <2>4, <2>5, RecordStep
<1>10. QED BY <1>6, <1>7, <1>8, <1>9

-----------------------------------------------------------------------------
(* The guard's decision: a refusal has a repeat to show, and a loop as     *)
(* long as the guard tolerates is refused.                                 *)
LEMMA GuardVerdict ==
    ASSUME RunsInv, NEW r \in Run, NEW i \in Index(r), Here(r, i)
    PROVE  /\ Repeat => \E j \in 1..(i - 1) : RepeatOf(r, i, j)
           /\ ExactRepeats <= Window /\ i > ExactRepeats /\ LoopBefore(r, i) => Repeat
<1> DEFINE R == RejectedUnder({Version[r][i]})
           C == LastOf(R, Window)
           this == candidate[r][i]
           Exact == {j \in C : candidate[r][j] = this}
           Nearly == {j \in C : <<candidate[r][j], this>> \in Near}
<1>1. r0 = r /\ i0 = i /\ i \in Nat \ {0} BY IndexFacts DEF Here, r0, i0
<1>2. /\ ExactRepeats \in Nat \ {0} /\ NearRepeats \in Nat \ {0} /\ Window \in Nat \ {0}
  BY RunsAssumption
<1>3. /\ host.subs \in Seq(Passed) /\ DOMAIN host.subs = 1..(i - 1)
      /\ \A j \in 1..(i - 1) : host.subs[j] = RecordedSubmission(r, j)
  <2>1. host.subs \in Seq(Passed) /\ Len(host.subs) = i - 1
    BY DEF RunsInv, HostTypeOK, Here, HostAt
  <2>2. QED BY <2>1 DEF Here, HostAt
<1>4. \A j : j \in R <=> /\ j \in 1..(i - 1) /\ RecordedSubmission(r, j) = "rejected"
                         /\ Version[r][j] = Version[r][i]
  BY <1>1, <1>3 DEF RejectedUnder
<1>5. \A j : j \in C <=> j \in R /\ Cardinality({k \in R : k > j}) < Window
  BY DEF LastOf
<1>6. Compared = C BY <1>1 DEF Compared
<1>7. Repeat <=> \/ Cardinality(Exact) >= ExactRepeats
                 \/ Cardinality(Exact) + Cardinality(Nearly) >= NearRepeats
  BY <1>1, <1>6 DEF Repeat, Repeats
<1> HIDE DEF R, C
<1>8. ASSUME Repeat PROVE \E j \in 1..(i - 1) : RepeatOf(r, i, j)
  <2>1. Exact # {} \/ Nearly # {}
    <3>1. SUFFICES ASSUME Exact = {}, Nearly = {} PROVE FALSE OBVIOUS
    <3>2. Cardinality(Exact) = 0 /\ Cardinality(Nearly) = 0 BY <3>1, FS_EmptySet
    <3> HIDE DEF Exact, Nearly
    <3>3. QED BY <1>2, <1>7, <1>8, <3>2
  <2>2. PICK j \in C : candidate[r][j] = this \/ <<candidate[r][j], this>> \in Near
    BY <2>1
  <2>3. /\ j \in 1..(i - 1) /\ RecordedSubmission(r, j) = "rejected"
        /\ Version[r][j] = Version[r][i]
    BY <1>4, <1>5
  <2>4. decision[r][j] = "rejected" BY <2>3 DEF RecordedSubmission
  <2>5. QED BY <2>2, <2>3, <2>4 DEF RepeatOf
<1>9. ASSUME ExactRepeats <= Window, i > ExactRepeats, LoopBefore(r, i)
      PROVE  Repeat
  <2> DEFINE J == (i - ExactRepeats)..(i - 1)
  <2>1. \A j \in J : j \in 1..(i - 1) /\ j \in Index(r)
    BY <1>1, <1>2, <1>9, IndexFacts
  <2>2. \A j \in J : j \in R
    <3> SUFFICES ASSUME NEW j \in J PROVE j \in R OBVIOUS
    <3>1. /\ decision[r][j] = "rejected" /\ Version[r][j] = Version[r][i] /\ Staged(r, j)
      BY <1>9, <2>1 DEF LoopBefore, RunsInv, RecordsOK
    <3>2. RecordedSubmission(r, j) = "rejected"
      BY <3>1 DEF Staged, RecordedSubmission, Decided
    <3>3. QED BY <1>4, <2>1, <3>1, <3>2
  <2>3. ASSUME NEW j \in J PROVE Cardinality({k \in R : k > j}) < Window
    <3>1. j + 1 \in Int /\ i - 1 \in Int /\ j \in Int BY <1>1, <2>1
    <3>2. /\ IsFiniteSet((j + 1)..(i - 1))
          /\ Cardinality((j + 1)..(i - 1)) =
               IF j + 1 > i - 1 THEN 0 ELSE (i - 1) - (j + 1) + 1
      BY <3>1, FS_Interval
    <3>3. {k \in R : k > j} \in SUBSET ((j + 1)..(i - 1)) BY <1>1, <1>4, <3>1
    <3>4. Cardinality({k \in R : k > j}) <= Cardinality((j + 1)..(i - 1))
          /\ IsFiniteSet({k \in R : k > j})
      BY <3>2, <3>3, FS_Subset
    <3>5. Cardinality({k \in R : k > j}) \in Nat BY <3>4, FS_CardinalityType
    <3>6. j \in (i - ExactRepeats)..(i - 1) OBVIOUS
    <3>7. QED BY <1>1, <1>2, <1>9, <3>1, <3>2, <3>4, <3>5, <3>6
  <2>4. \A j \in J : j \in Exact BY <1>5, <1>9, <2>2, <2>3 DEF LoopBefore
  <2>5. IsFiniteSet(Exact) /\ IsFiniteSet(Nearly)
    <3>1. IsFiniteSet(1..(i - 1)) BY <1>1, FS_Interval
    <3>2. Exact \in SUBSET (1..(i - 1)) /\ Nearly \in SUBSET (1..(i - 1)) BY <1>4, <1>5
    <3>3. QED BY <3>1, <3>2, FS_Subset
  <2>6. Cardinality(J) = ExactRepeats
    <3>1. i - ExactRepeats \in Int /\ i - 1 \in Int BY <1>1, <1>2
    <3>2. Cardinality(J) = IF i - ExactRepeats > i - 1 THEN 0
                           ELSE (i - 1) - (i - ExactRepeats) + 1
      BY <3>1, FS_Interval
    <3>3. QED BY <1>1, <1>2, <3>2
  <2>7. Cardinality(J) <= Cardinality(Exact)
    <3>1. J \in SUBSET Exact BY <2>4
    <3>2. QED BY <2>5, <3>1, FS_Subset
  <2>8. Cardinality(Exact) \in Nat BY <2>5, FS_CardinalityType
  <2> HIDE DEF Exact, Nearly, J
  <2>9. QED BY <1>2, <1>7, <2>6, <2>7, <2>8
<1>10. QED BY <1>8, <1>9

(* The episode ends the run, or a budget or an unknown operation stops it. *)
LEMMA EpisodeReturns ==
    ASSUME RunsInv, NEW r \in Run, NEW i \in Index(r), Here(r, i),
           EpisodeBlocked \/ EpisodeExhausted \/ EpisodeEnded
    PROVE  Kept
<1>1. /\ r0 = r /\ i0 = i /\ i \in Nat \ {0} /\ Staged(r, i)
  BY IndexFacts DEF Here, r0, i0, RunsInv, RecordsOK
<1>2. host.pc = "episode" BY DEF EpisodeBlocked, EpisodeExhausted, EpisodeEnded, At
<1>3. CASE EpisodeBlocked
  <2>1. "unknown" \notin Outcomes BY DEF Outcomes, Final
  <2>2. QED BY <1>2, <1>3, <2>1, ReturnStep DEF EpisodeBlocked
<1>4. CASE EpisodeExhausted
  <2>1. /\ episode[r][i] \in {"new", "open"} /\ Return("exhausted")
        /\ UNCHANGED <<recordVars, executions>>
    BY <1>1, <1>4 DEF EpisodeExhausted
  <2>2. RecordedSubmission(r, i) = "none" BY <1>1, <2>1, Undecided
  <2>3. EndedWithout(r, i) = "none" BY <2>1 DEF EndedWithout
  <2>4. RecordedOutcome(r) = "none" BY <2>2, <2>3, OutcomeHere
  <2>5. "exhausted" \notin Outcomes BY DEF Outcomes, Final
  <2>6. QED BY <1>2, <2>1, <2>4, <2>5, ReturnStep
<1>5. CASE EpisodeEnded
  <2>1. UNCHANGED <<recordVars, executions>> BY <1>5 DEF EpisodeEnded, Ends
  <2>2. CASE episode[r][i] = "submitted"
    <3>1. host' = [host EXCEPT !.pc = "guard"] /\ UNCHANGED result
      BY <1>1, <1>5, <2>2 DEF EpisodeEnded, Ends, GoTo
    <3>2. HostTypeOK' /\ HostMoves("guard", host.todo)
      <4>1. /\ HostTypeOK /\ ~At("down") /\ "guard" \in PCs /\ host.todo \in Seq(Checks)
        BY DEF RunsInv, Here, PCs, HostTypeOK
      <4>2. QED BY <3>1, <4>1, HostMoved
    <3>3. /\ UNCHANGED <<started, episode, candidate, guard, target, check, decision,
                         overrun, executions>>
          /\ DOMAIN started' = Run /\ DOMAIN result' = Run
          /\ \A q \in Run : started'[q] \in {"none", "scope", "spec", "policy"}
      BY <2>1, <3>1 DEF recordVars, RunsInv, RunsTypeOK
    <3>4. RecordsStep(r)
      BY <3>3, RecordsUnchanged DEF RunsInv, RecordsStep, OthersStay
    <3>5. Placed(r, i)' BY <2>2, <3>2, <3>3 DEF Placed, At, Assessing, HostMoves
    <3>6. "guard" \in PCs BY DEF PCs
    <3>7. QED BY <1>2, <3>1, <3>2, <3>3, <3>4, <3>5, <3>6, RecordStep
  <2>3. CASE episode[r][i] # "submitted"
    <3>1. RecordedSubmission(r, i) = "none" BY <1>1, <2>3, Undecided
    <3>2. RecordedOutcome(r) = IF i > 1 /\ EndedWithout(r, i) = "incomplete"
                               THEN "rejected" ELSE EndedWithout(r, i)
      BY <3>1, OutcomeHere
    <3>3. host.subs # <<>> <=> i > 1
      <4>1. host.subs \in Seq(Passed) /\ Len(host.subs) = i - 1
        BY DEF RunsInv, HostTypeOK, Here, HostAt
      <4>2. QED BY <1>1, <4>1
    <3>4. CASE episode[r][i] = "infrastructure_failure"
      <4>1. Return("infrastructure_failure")
        BY <1>1, <1>5, <3>4 DEF EpisodeEnded, Ends
      <4>2. RecordedOutcome(r) = "infrastructure_failure"
        BY <3>2, <3>4 DEF EndedWithout
      <4>3. QED BY <1>2, <2>1, <4>1, <4>2, ReturnStep
    <3>5. CASE episode[r][i] \in {"failed", "finished"}
      <4>1. PICK out : out = IF host.subs # <<>> THEN "rejected" ELSE "incomplete"
        OBVIOUS
      <4>2. Return(out) BY <1>1, <1>5, <3>5, <4>1 DEF EpisodeEnded, Ends
      <4>3. EndedWithout(r, i) = "incomplete" BY <3>5 DEF EndedWithout
      <4>4. RecordedOutcome(r) = out /\ out # "exhausted" BY <3>2, <3>3, <4>1, <4>3
      <4>5. QED BY <1>2, <2>1, <4>2, <4>4, ReturnStep
    <3>6. QED BY <1>1, <1>5, <2>3, <3>4, <3>5 DEF EpisodeEnded, Ends
  <2>4. QED BY <2>2, <2>3
<1>6. QED BY <1>3, <1>4, <1>5

(* Steps that change no record and leave the process at its submission. *)
LEMMA QuietStep ==
    ASSUME RunsInv, NEW r \in Run, NEW i \in Index(r), Here(r, i),
           UNCHANGED <<recordVars, executions, result>>,
           host.pc \notin {"spec", "policy"},
           NEW pc \in PCs, NEW todo, HostTypeOK', HostMoves(pc, todo), Placed(r, i)'
    PROVE  Kept
<1>1. /\ UNCHANGED <<started, episode, candidate, guard, target, check, decision,
                     overrun, executions>>
      /\ DOMAIN started' = Run /\ DOMAIN result' = Run
      /\ \A q \in Run : started'[q] \in {"none", "scope", "spec", "policy"}
  BY DEF recordVars, RunsInv, RunsTypeOK
<1>2. RecordsStep(r)
  BY <1>1, RecordsUnchanged DEF RunsInv, RecordsStep, OthersStay
<1>3. QED BY <1>1, <1>2, RecordStep

LEMMA GuardStep ==
    ASSUME RunsInv, NEW r \in Run, NEW i \in Index(r), Here(r, i),
           Guard \/ GuardDecided \/ RecordTarget
    PROVE  Kept
<1>1. /\ r0 = r /\ i0 = i /\ Staged(r, i) /\ RunsTypeOK /\ RecordsOK /\ HostTypeOK
      /\ host.todo \in Seq(Checks) /\ ~At("down")
  BY DEF Here, r0, i0, RunsInv, RecordsOK, HostTypeOK
<1>2. /\ host.pc \in {"guard", "target"} /\ episode[r][i] = "submitted"
      /\ At("target") => (r \in Guarded => guard[r][i] = "allowed")
  BY DEF Guard, GuardDecided, RecordTarget, At, Here, HostAt, Placed
<1>3. CASE Guard
  <2>1. PICK verdict \in {"allowed", "refused"} :
            verdict = IF Repeat THEN "refused" ELSE "allowed"
    OBVIOUS
  <2>2. /\ host.pc = "guard" /\ r \in Guarded /\ guard[r][i] = "none"
        /\ guard' = [guard EXCEPT ![r][i] = verdict]
        /\ UNCHANGED <<started, episode, candidate, target, check, decision,
                       overrun, executions, result, host>>
    BY <1>1, <1>3, <2>1 DEF Guard, At
  <2>3. /\ verdict = "refused" => \E j \in 1..(i - 1) : RepeatOf(r, i, j)
        /\ verdict = "allowed" /\ ExactRepeats <= Window /\ i > ExactRepeats =>
              ~LoopBefore(r, i)
    BY <2>1, GuardVerdict
  <2>4. DOMAIN result' = Run BY <1>1, <2>2 DEF RunsTypeOK
  <2>5. RecordsStep(r) BY <1>1, <1>2, <2>2, <2>3, <2>4, GuardSet
  <2>6. "guard" \in PCs BY DEF PCs
  <2>7. HostTypeOK' /\ HostMoves("guard", host.todo) BY <1>1, <2>2, <2>6, HostMoved
  <2>8. Placed(r, i)' BY <1>2, <2>2 DEF Placed, At, Assessing
  <2>9. QED BY <1>2, <2>2, <2>5, <2>6, <2>7, <2>8, RecordStep
<1>4. CASE GuardDecided
  <2>1. /\ host.pc = "guard"
        /\ r \in Guarded => guard[r][i] # "none"
        /\ UNCHANGED <<recordVars, executions>>
    BY <1>1, <1>4 DEF GuardDecided, At
  <2>2. CASE guard[r][i] = "refused"
    <3>1. Advance("duplicate") BY <1>1, <1>4, <2>2 DEF GuardDecided
    <3>2. RecordedSubmission(r, i) = "duplicate" /\ "duplicate" \in Passed
      BY <2>2 DEF RecordedSubmission, Passed
    <3>3. QED BY <2>1, <3>1, <3>2, AdvanceStep
  <2>3. CASE guard[r][i] # "refused"
    <3>1. host' = [host EXCEPT !.pc = "target"] /\ UNCHANGED result
      BY <1>1, <1>4, <2>3 DEF GuardDecided, GoTo
    <3>2. guard[r][i] \in {"none", "allowed", "refused"} BY <1>1 DEF RunsTypeOK
    <3>3. r \in Guarded => guard[r][i] = "allowed" BY <2>1, <2>3, <3>2
    <3>4. "target" \in PCs BY DEF PCs
    <3>5. HostTypeOK' /\ HostMoves("target", host.todo) BY <1>1, <3>1, <3>4, HostMoved
    <3>6. UNCHANGED <<episode, guard>> BY <2>1 DEF recordVars
    <3>7. Placed(r, i)' BY <1>2, <3>3, <3>5, <3>6 DEF Placed, At, Assessing, HostMoves
    <3>8. QED BY <2>1, <3>1, <3>4, <3>5, <3>7, QuietStep
  <2>4. QED BY <2>2, <2>3
<1>5. CASE RecordTarget
  <2>1. PICK todo \in Seq(Checks) : todo = Contract[r][i] /\ todo # <<>>
    BY RequiredFacts
  <2>2. /\ host.pc = "target" /\ target' = [target EXCEPT ![r][i] = TRUE]
        /\ host' = [host EXCEPT !.pc = "checks", !.todo = todo]
        /\ UNCHANGED <<started, episode, candidate, guard, check, decision,
                       overrun, executions, result>>
    BY <1>1, <1>5, <2>1 DEF RecordTarget, At
  <2>3. DOMAIN result' = Run BY <1>1, <2>2 DEF RunsTypeOK
  <2>4. RecordsStep(r)
    BY <1>1, <1>2, <2>2, <2>3, TargetSet DEF At
  <2>5. "checks" \in PCs BY DEF PCs, Assessing
  <2>6. HostTypeOK' /\ HostMoves("checks", todo) BY <1>1, <2>2, <2>5, HostMoved
  <2>7. Placed(r, i)'
    <3>1. target'[r][i]
      <4>1. DOMAIN target = Run /\ target[r] \in [Index(r) -> BOOLEAN]
        BY <1>1 DEF RunsTypeOK
      <4>2. target'[r] = [target[r] EXCEPT ![i] = TRUE] BY <2>2, <4>1
      <4>3. QED BY <4>1, <4>2
    <3>2. Todo' = Required(r, i)
      BY <2>1, <2>6, RequiredFacts DEF HostMoves, Todo
    <3>3. QED BY <2>6, <3>1, <3>2 DEF Placed, At, Assessing, HostMoves
  <2>8. QED BY <1>2, <2>2, <2>4, <2>5, <2>6, <2>7, RecordStep
<1>6. QED BY <1>3, <1>4, <1>5

(* What the process at the checks knows. *)
LEMMA Assessed ==
    ASSUME RunsInv, NEW r \in Run, NEW i \in Index(r), Here(r, i), host.pc \in Assessing
    PROVE  /\ RunsTypeOK /\ RecordsOK /\ HostTypeOK /\ ~At("down") /\ Staged(r, i)
           /\ r0 = r /\ i0 = i /\ host.todo \in Seq(Checks) /\ target[r][i]
           /\ Todo \subseteq Required(r, i) /\ Required(r, i) \subseteq Checks
           /\ \A c \in Required(r, i) \ Todo : check[r][i][c] \in Verdicts
           /\ episode[r][i] = "submitted"
           /\ guard[r][i] # "refused"
           /\ host.todo # <<>> => Head(host.todo) \in Todo
           /\ host.todo = <<>> => Todo = {}
           /\ host.pc \notin {"spec", "policy"} /\ Assessing \subseteq PCs
<1>1. /\ RunsTypeOK /\ RecordsOK /\ HostTypeOK /\ ~At("down") /\ Staged(r, i)
      /\ r0 = r /\ i0 = i /\ host.todo \in Seq(Checks) /\ target[r][i]
      /\ Todo \subseteq Required(r, i)
      /\ \A c \in Required(r, i) \ Todo : check[r][i][c] \in Verdicts
  BY DEF Here, r0, i0, RunsInv, RecordsOK, HostTypeOK, HostAt, Placed
<1>2. Required(r, i) \subseteq Checks BY RequiredFacts
<1>3. episode[r][i] = "submitted" /\ guard[r][i] # "refused" BY <1>1 DEF Staged
<1>4. host.todo # <<>> => Head(host.todo) \in Todo BY <1>1, TodoFacts DEF Todo
<1>5. host.todo = <<>> => Todo = {} BY DEF Todo
<1>6. host.pc \notin {"spec", "policy"} /\ Assessing \subseteq PCs BY DEF Assessing, PCs
<1>7. QED BY <1>1, <1>2, <1>3, <1>4, <1>5, <1>6

LEMMA CheckerStep ==
    ASSUME RunsInv, NEW r \in Run, NEW i \in Index(r), Here(r, i),
           \/ ReserveCheck \/ BeginCheck
           \/ \E verdict \in Verdicts : CompleteCheck(verdict)
    PROVE  Kept
<1>1. host.pc \in {"checks", "begin", "execute"} /\ host.todo # <<>>
  BY DEF ReserveCheck, BeginCheck, CompleteCheck, At, Here, HostAt, Placed
<1>2. host.pc \in Assessing BY <1>1 DEF Assessing
<1>3. /\ RunsTypeOK /\ RecordsOK /\ HostTypeOK /\ ~At("down") /\ Staged(r, i)
      /\ r0 = r /\ i0 = i /\ host.todo \in Seq(Checks) /\ target[r][i]
      /\ Todo \subseteq Required(r, i) /\ Required(r, i) \subseteq Checks
      /\ \A c \in Required(r, i) \ Todo : check[r][i][c] \in Verdicts
      /\ Head(host.todo) \in Todo
      /\ host.pc \notin {"spec", "policy"} /\ Assessing \subseteq PCs
  BY <1>1, <1>2, Assessed
<1>4. PICK c \in Checks : c = Head(host.todo) /\ c \in Required(r, i) BY <1>3
<1>5. now = c /\ CheckState = check[r][i][c] BY <1>3, <1>4 DEF now, CheckState
<1>6. PICK rest \in Seq(Checks) :
          /\ rest = Tail(host.todo)
          /\ {rest[n] : n \in DOMAIN rest} \subseteq Todo
          /\ Todo \ {rest[n] : n \in DOMAIN rest} \subseteq {c}
  BY <1>1, <1>3, <1>4, TodoFacts DEF Todo
<1>7. Verdicts \cap Marks = {} BY RunsAssumption DEF Marks
<1>8. check[r][i] \in [Checks -> Marks \cup Verdicts] BY <1>3 DEF RunsTypeOK
(* A recorded verdict is reused. *)
<1>9. CASE ReserveCheck /\ check[r][i][c] \in Verdicts
  <2>1. /\ host.pc = "checks" /\ host' = [host EXCEPT !.todo = rest]
        /\ UNCHANGED <<recordVars, executions, result>>
    BY <1>5, <1>6, <1>7, <1>9 DEF ReserveCheck, At, recordVars, Marks
  <2>2. HostTypeOK' /\ HostMoves("checks", rest)
    <3>1. "checks" \in PCs BY DEF PCs, Assessing
    <3>2. QED BY <1>3, <2>1, <3>1, HostMoved
  <2>3. Placed(r, i)'
    <3>1. UNCHANGED <<target, check>> BY <2>1 DEF recordVars
    <3>2. Todo' = {rest[n] : n \in DOMAIN rest} BY <2>2 DEF Todo, HostMoves
    <3>3. Todo' \subseteq Required(r, i) BY <1>3, <1>6, <3>2
    <3>4. \A d \in Required(r, i) \ Todo' : check[r][i][d] \in Verdicts
      BY <1>3, <1>6, <1>9, <3>2
    <3>5. QED BY <1>3, <2>2, <3>1, <3>3, <3>4 DEF Placed, At, Assessing, HostMoves
  <2>4. "checks" \in PCs BY DEF PCs, Assessing
  <2>5. QED BY <1>3, <2>1, <2>2, <2>3, <2>4, QuietStep
(* A new one is reserved, *)
<1>10. CASE ReserveCheck /\ check[r][i][c] = "absent"
  <2>1. /\ host.pc = "checks" /\ host' = [host EXCEPT !.pc = "begin"]
        /\ check' = [check EXCEPT ![r][i][c] = "pending"]
        /\ UNCHANGED <<started, episode, candidate, guard, target, decision,
                       overrun, executions, result>>
    <3>1. "absent" \notin Verdicts BY <1>7 DEF Marks
    <3>2. QED BY <1>3, <1>5, <1>10, <3>1 DEF ReserveCheck, At, SetCheck, GoTo
  <2>2. CheckMoves(r, i, c, "pending") BY <1>10, <2>1 DEF CheckMoves
  <2>3. /\ DOMAIN result' = Run
        /\ UNCHANGED <<started, episode, candidate, guard, target, decision>>
    BY <1>3, <2>1 DEF RunsTypeOK
  <2>4. /\ RecordsStep(r)
        /\ \A d \in Checks : check'[r][i][d] = IF d = c THEN "pending" ELSE check[r][i][d]
    <3>1. CheckChanges(r, i, c, "pending") BY <2>1 DEF CheckChanges
    <3>2. RunsTypeOK /\ RecordsOK /\ target[r][i] BY <1>3
    <3>3. QED BY <2>2, <2>3, <3>1, <3>2, CheckSet
  <2>5. "begin" \in PCs BY DEF PCs, Assessing
  <2>6. HostTypeOK' /\ HostMoves("begin", host.todo) BY <1>3, <2>1, <2>5, HostMoved
  <2>7. Placed(r, i)'
    <3>1. Todo' = Todo BY <2>6 DEF Todo, HostMoves
    <3>2. \A d \in Required(r, i) \ Todo : check'[r][i][d] \in Verdicts
      BY <1>3, <1>4, <2>4
    <3>3. check'[r][i][Head(host'.todo)] = "pending" BY <1>4, <2>4, <2>6 DEF HostMoves
    <3>4. target'[r][i] BY <1>3, <2>1
    <3>5. QED
      BY <1>1, <1>3, <2>6, <3>1, <3>2, <3>3, <3>4 DEF Placed, At, Assessing, HostMoves
  <2>8. QED BY <1>3, <2>1, <2>4, <2>5, <2>6, <2>7, RecordStep
(* one under way goes on where it is, *)
<1>11. CASE ReserveCheck /\ check[r][i][c] \in {"pending", "unknown"}
  <2>1. /\ host.pc = "checks" /\ host' = [host EXCEPT !.pc = "begin"]
        /\ UNCHANGED <<recordVars, executions, result>>
    <3>1. check[r][i][c] \notin Verdicts /\ check[r][i][c] # "absent"
      BY <1>7, <1>11 DEF Marks
    <3>2. QED BY <1>5, <1>11, <3>1 DEF ReserveCheck, At, GoTo, recordVars
  <2>2. "begin" \in PCs BY DEF PCs, Assessing
  <2>3. HostTypeOK' /\ HostMoves("begin", host.todo) BY <1>3, <2>1, <2>2, HostMoved
  <2>4. Placed(r, i)'
    <3>1. UNCHANGED <<target, check>> BY <2>1 DEF recordVars
    <3>2. Todo' = Todo BY <2>3 DEF Todo, HostMoves
    <3>3. QED
      BY <1>1, <1>3, <1>4, <1>11, <2>3, <3>1, <3>2 DEF Placed, At, Assessing, HostMoves
  <2>5. QED BY <1>3, <2>1, <2>2, <2>3, <2>4, QuietStep
(* and is executed, *)
<1>12. CASE BeginCheck
  <2>1. /\ host.pc = "begin" /\ host' = [host EXCEPT !.pc = "execute"]
        /\ check[r][i][c] = "pending"
        /\ check' = [check EXCEPT ![r][i][c] = "unknown"]
        /\ executions' = [executions EXCEPT ![r][i][c] = @ + 1]
        /\ UNCHANGED <<started, episode, candidate, guard, target, decision,
                       overrun, result>>
    BY <1>3, <1>5, <1>12 DEF BeginCheck, Dispatch, At, SetCheck, GoTo
  <2>2. CheckMoves(r, i, c, "unknown") BY <2>1 DEF CheckMoves
  <2>3. /\ DOMAIN result' = Run
        /\ UNCHANGED <<started, episode, candidate, guard, target, decision>>
    BY <1>3, <2>1 DEF RunsTypeOK
  <2>4. /\ RecordsStep(r)
        /\ \A d \in Checks : check'[r][i][d] = IF d = c THEN "unknown" ELSE check[r][i][d]
    <3>1. CheckChanges(r, i, c, "unknown") BY <2>1 DEF CheckChanges
    <3>2. RunsTypeOK /\ RecordsOK /\ target[r][i] BY <1>3
    <3>3. QED BY <2>2, <2>3, <3>1, <3>2, CheckSet
  <2>5. "execute" \in PCs BY DEF PCs, Assessing
  <2>6. HostTypeOK' /\ HostMoves("execute", host.todo) BY <1>3, <2>1, <2>5, HostMoved
  <2>7. Placed(r, i)'
    <3>1. Todo' = Todo BY <2>6 DEF Todo, HostMoves
    <3>2. \A d \in Required(r, i) \ Todo : check'[r][i][d] \in Verdicts
      BY <1>3, <1>4, <2>4
    <3>3. check'[r][i][Head(host'.todo)] = "unknown" BY <1>4, <2>4, <2>6 DEF HostMoves
    <3>4. target'[r][i] BY <1>3, <2>1
    <3>5. QED
      BY <1>1, <1>3, <2>6, <3>1, <3>2, <3>3, <3>4 DEF Placed, At, Assessing, HostMoves
  <2>8. QED BY <1>3, <2>1, <2>4, <2>5, <2>6, <2>7, RecordStep
(* and its verdict is recorded. *)
<1>13. ASSUME NEW verdict \in Verdicts, CompleteCheck(verdict) PROVE Kept
  <2>1. /\ host.pc = "execute" /\ host' = [host EXCEPT !.pc = "checks", !.todo = rest]
        /\ check[r][i][c] = "unknown"
        /\ check' = [check EXCEPT ![r][i][c] = verdict]
        /\ UNCHANGED <<started, episode, candidate, guard, target, decision,
                       overrun, executions, result>>
    BY <1>3, <1>4, <1>5, <1>6, <1>13
       DEF CompleteCheck, At, SetCheck, Here, HostAt, Placed
  <2>2. CheckMoves(r, i, c, verdict) BY <2>1 DEF CheckMoves
  <2>3. /\ DOMAIN result' = Run
        /\ UNCHANGED <<started, episode, candidate, guard, target, decision>>
    BY <1>3, <2>1 DEF RunsTypeOK
  <2>4. /\ RecordsStep(r)
        /\ \A d \in Checks : check'[r][i][d] = IF d = c THEN verdict ELSE check[r][i][d]
    <3>1. CheckChanges(r, i, c, verdict) BY <2>1 DEF CheckChanges
    <3>2. RunsTypeOK /\ RecordsOK /\ target[r][i] BY <1>3
    <3>3. QED BY <2>2, <2>3, <3>1, <3>2, CheckSet
  <2>5. "checks" \in PCs BY DEF PCs, Assessing
  <2>6. HostTypeOK' /\ HostMoves("checks", rest) BY <1>3, <2>1, <2>5, HostMoved
  <2>7. Placed(r, i)'
    <3>1. Todo' = {rest[n] : n \in DOMAIN rest} BY <2>6 DEF Todo, HostMoves
    <3>2. \A d \in Required(r, i) \ Todo' : check'[r][i][d] \in Verdicts
      BY <1>3, <1>6, <2>4, <3>1
    <3>3. Todo' \subseteq Required(r, i) BY <1>3, <1>6, <3>1
    <3>4. target'[r][i] BY <1>3, <2>1
    <3>5. QED BY <2>6, <3>2, <3>3, <3>4 DEF Placed, At, Assessing, HostMoves
  <2>8. QED BY <1>3, <2>1, <2>4, <2>5, <2>6, <2>7, RecordStep
<1>14. QED
  <2>1. check[r][i][c] \in Verdicts \cup {"absent", "pending", "unknown"}
    BY <1>8 DEF Marks
  <2>2. QED BY <1>9, <1>10, <1>11, <1>12, <1>13, <2>1

LEMMA DecisionStep ==
    ASSUME RunsInv, NEW r \in Run, NEW i \in Index(r), Here(r, i),
           ReserveDecision \/ BeginDecision \/ CompleteDecision
    PROVE  Kept
<1>1. host.pc \in {"checks", "decide", "commit"} /\ host.todo = <<>>
  BY DEF ReserveDecision, BeginDecision, CompleteDecision, At, Here, HostAt, Placed
<1>2. host.pc \in Assessing BY <1>1 DEF Assessing
<1>3. /\ RunsTypeOK /\ RecordsOK /\ HostTypeOK /\ ~At("down") /\ Staged(r, i)
      /\ r0 = r /\ i0 = i /\ host.todo \in Seq(Checks) /\ target[r][i]
      /\ Todo = {} /\ \A c \in Required(r, i) : check[r][i][c] \in Verdicts
      /\ host.pc \notin {"spec", "policy"} /\ Assessing \subseteq PCs
  BY <1>1, <1>2, Assessed
<1>4. decision[r][i] \in Marks \cup Decided /\ Marks \cap Decided = {}
  BY <1>3 DEF RunsTypeOK, Marks, Decided
<1>5. ASSUME NEW state, NEW pc \in {"decide", "commit", "decided"},
             decision' = [decision EXCEPT ![r][i] = state],
             state \in {"pending", "unknown"} \/ state = Decision(r, i),
             decision[r][i] \in Marks, host' = [host EXCEPT !.pc = pc],
             UNCHANGED <<started, episode, candidate, guard, target, check, overrun,
                         executions, result>>,
             pc = "decide" => state = "pending",
             pc = "commit" => state = "unknown",
             pc = "decided" => state = Decision(r, i)
      PROVE  Kept
  <2>1. DOMAIN result' = Run BY <1>3, <1>5 DEF RunsTypeOK
  <2>2. RecordsStep(r) /\ decision'[r][i] = state
    <3>1. DecisionChanges(r, i, state) BY <1>5 DEF DecisionChanges
    <3>2. RunsTypeOK /\ RecordsOK /\ target[r][i] BY <1>3
    <3>3. \A c \in Required(r, i) : check[r][i][c] \in Verdicts BY <1>3
    <3>4. /\ decision[r][i] \in Marks
          /\ state \in {"pending", "unknown"} \/ state = Decision(r, i)
          /\ UNCHANGED <<started, episode, candidate, guard, target, check, executions>>
      BY <1>5
    <3>5. QED BY <2>1, <3>1, <3>2, <3>3, <3>4, DecisionSet
  <2>3. pc \in PCs BY DEF PCs, Assessing
  <2>4. HostTypeOK' /\ HostMoves(pc, host.todo) BY <1>3, <1>5, <2>3, HostMoved
  <2>5. Decision(r, i) \in Decided BY DEF Decision, Decided
  <2>6. Placed(r, i)'
    <3>1. Todo' = {} BY <1>3, <2>4 DEF Todo, HostMoves
    <3>2. UNCHANGED <<target, check>> BY <1>5
    <3>3. host'.pc = pc /\ host'.todo = <<>> BY <1>1, <2>4 DEF HostMoves
    <3>4. pc \in {"decide", "commit", "decided"} BY <1>5
    <3>5. decision'[r][i] = state BY <2>2
    <3>6. QED
      BY <1>3, <1>5, <2>5, <3>1, <3>2, <3>3, <3>4, <3>5 DEF Placed, At, Assessing
  <2>7. UNCHANGED <<started, result>> /\ overrun \subseteq overrun' BY <1>5
  <2>8. QED BY <1>3, <2>2, <2>3, <2>4, <2>6, <2>7, RecordStep
<1>6. ASSUME NEW pc \in {"decide", "decided"}, host' = [host EXCEPT !.pc = pc],
             UNCHANGED <<recordVars, executions, result>>,
             pc = "decide" => decision[r][i] \in {"pending", "unknown"},
             pc = "decided" => decision[r][i] \in Decided
      PROVE  Kept
  <2>1. pc \in PCs BY DEF PCs, Assessing
  <2>2. HostTypeOK' /\ HostMoves(pc, host.todo) BY <1>3, <1>6, <2>1, HostMoved
  <2>3. Placed(r, i)'
    <3>1. Todo' = {} BY <1>3, <2>2 DEF Todo, HostMoves
    <3>2. UNCHANGED <<target, check, decision>> BY <1>6 DEF recordVars
    <3>3. host'.pc = pc /\ host'.todo = <<>> BY <1>1, <2>2 DEF HostMoves
    <3>4. QED BY <1>3, <1>6, <3>1, <3>2, <3>3 DEF Placed, At, Assessing
  <2>4. QED BY <1>3, <1>6, <2>1, <2>2, <2>3, QuietStep
<1>7. CASE ReserveDecision
  <2>1. UNCHANGED <<started, episode, candidate, guard, target, check, overrun,
                    executions, result>>
    BY <1>7 DEF ReserveDecision
  <2>2. CASE decision[r][i] = "absent"
    <3>1. /\ decision' = [decision EXCEPT ![r][i] = "pending"]
          /\ host' = [host EXCEPT !.pc = "decide"]
      BY <1>3, <1>7, <2>2 DEF ReserveDecision, SetDecision, GoTo, Decided
    <3>2. decision[r][i] \in Marks BY <2>2 DEF Marks
    <3>3. QED BY <1>5, <2>1, <3>1, <3>2
  <2>3. CASE decision[r][i] # "absent"
    <3>1. UNCHANGED <<recordVars, executions, result>>
      BY <1>3, <1>7, <2>1, <2>3 DEF ReserveDecision, recordVars
    <3>2. CASE decision[r][i] \in Decided
      <4>1. host' = [host EXCEPT !.pc = "decided"]
        BY <1>3, <1>7, <3>2 DEF ReserveDecision, GoTo
      <4>2. QED BY <1>6, <3>1, <3>2, <4>1
    <3>3. CASE decision[r][i] \notin Decided
      <4>1. host' = [host EXCEPT !.pc = "decide"]
        BY <1>3, <1>7, <3>3 DEF ReserveDecision, GoTo
      <4>2. decision[r][i] \in {"pending", "unknown"} BY <1>4, <2>3, <3>3 DEF Marks
      <4>3. QED BY <1>6, <3>1, <4>1, <4>2
    <3>4. QED BY <3>2, <3>3
  <2>4. QED BY <2>2, <2>3
<1>8. CASE BeginDecision
  <2>1. /\ decision[r][i] = "pending" /\ decision' = [decision EXCEPT ![r][i] = "unknown"]
        /\ host' = [host EXCEPT !.pc = "commit"]
        /\ UNCHANGED <<started, episode, candidate, guard, target, check, overrun,
                       executions, result>>
    BY <1>3, <1>8 DEF BeginDecision, SetDecision, GoTo
  <2>2. decision[r][i] \in Marks BY <2>1 DEF Marks
  <2>3. QED BY <1>5, <2>1, <2>2
<1>9. CASE CompleteDecision
  <2>1. PICK state : state = Decision(r, i) OBVIOUS
  <2>2. /\ decision' = [decision EXCEPT ![r][i] = state]
        /\ host' = [host EXCEPT !.pc = "decided"]
        /\ UNCHANGED <<started, episode, candidate, guard, target, check, overrun,
                       executions, result>>
    BY <1>3, <1>9, <2>1 DEF CompleteDecision, SetDecision, GoTo
  <2>3. decision[r][i] \in Marks
    BY <1>9 DEF CompleteDecision, Here, HostAt, Placed, Marks
  <2>4. QED BY <1>5, <2>1, <2>2, <2>3
<1>10. QED BY <1>7, <1>8, <1>9

(* The budget ends the run, or its decision does, or it goes on. *)
LEMMA AssessmentReturns ==
    ASSUME RunsInv, NEW r \in Run, NEW i \in Index(r), Here(r, i),
           CheckExhausted \/ DecisionStopped \/ EndSubmission
    PROVE  Kept
<1>1. host.pc \in Assessing
  BY DEF CheckExhausted, DecisionStopped, EndSubmission, At, Assessing
<1>2. /\ RunsTypeOK /\ Staged(r, i) /\ r0 = r /\ i0 = i /\ target[r][i]
      /\ Todo \subseteq Required(r, i)
      /\ episode[r][i] = "submitted" /\ guard[r][i] # "refused"
      /\ host.todo # <<>> => Head(host.todo) \in Todo
      /\ host.pc \notin {"spec", "policy"}
  BY <1>1, Assessed
<1>3. "exhausted" \notin Outcomes BY DEF Outcomes, Final
<1>4. CASE CheckExhausted
  <2>1. /\ host.todo # <<>> /\ CheckState \in {"absent", "pending"}
        /\ Return("exhausted") /\ UNCHANGED <<recordVars, executions>>
    BY <1>4 DEF CheckExhausted, Here, HostAt, Placed, At
  <2>2. check[r][i][Head(host.todo)] \in {"absent", "pending"}
    BY <1>2, <2>1 DEF CheckState, now
  <2>3. check[r][i][Head(host.todo)] \notin Verdicts BY <2>2, RunsAssumption
  <2>4. decision[r][i] = "absent" BY <1>2, <2>1, <2>3 DEF Staged
  <2>5. RecordedSubmission(r, i) = "none"
    BY <1>2, <2>4 DEF RecordedSubmission, Decided
  <2>6. EndedWithout(r, i) = "none" BY <1>2 DEF EndedWithout
  <2>7. RecordedOutcome(r) = "none" BY <2>5, <2>6, OutcomeHere
  <2>8. QED BY <1>2, <1>3, <2>1, <2>7, ReturnStep
<1>5. CASE DecisionStopped
  <2>1. Stopped(r) /\ Return("exhausted") /\ UNCHANGED <<recordVars, executions>>
    BY <1>2, <1>5 DEF DecisionStopped
  <2>2. QED BY <1>2, <1>3, <2>1, ReturnStep
<1>6. CASE EndSubmission
  <2>1. decision[r][i] \in Decided
    BY <1>6 DEF EndSubmission, Here, HostAt, Placed
  <2>2. PICK status : status = decision[r][i] OBVIOUS
  <2>3. RecordedSubmission(r, i) = status BY <1>2, <2>1, <2>2 DEF RecordedSubmission
  <2>4. UNCHANGED <<recordVars, executions>> BY <1>6 DEF EndSubmission
  <2>5. CASE status \in Final
    <3>1. Return(status) BY <1>2, <1>6, <2>2, <2>5 DEF EndSubmission
    <3>2. RecordedOutcome(r) = status /\ status # "exhausted"
      BY <2>3, <2>5, OutcomeHere DEF Final
    <3>3. QED BY <1>2, <2>4, <3>1, <3>2, ReturnStep
  <2>6. CASE status \notin Final
    <3>1. Advance(status) BY <1>2, <1>6, <2>2, <2>6 DEF EndSubmission
    <3>2. status \in Passed BY <2>1, <2>2, <2>6 DEF Decided, Final, Passed
    <3>3. QED BY <1>2, <2>3, <2>4, <3>1, <3>2, AdvanceStep
  <2>7. QED BY <2>5, <2>6
<1>7. QED BY <1>4, <1>5, <1>6

LEMMA CrashStep ==
    ASSUME RunsInv, UNCHANGED <<recordVars, executions, result>>,
           UNCHANGED host \/ host' = Down
    PROVE  Kept
<1>1. /\ UNCHANGED <<started, episode, candidate, guard, target, check, decision,
                     overrun, executions>>
      /\ DOMAIN started' = Run /\ DOMAIN result' = Run
      /\ \A q \in Run : started'[q] \in {"none", "scope", "spec", "policy"}
  BY DEF recordVars, RunsInv, RunsTypeOK
<1>2. /\ RunsTypeOK' /\ RecordsOK' /\ OutcomesStay
      /\ \A q \in Run : RecordedOutcome(q)' = RecordedOutcome(q)
      /\ \A q \in Run : \A j : RecordedSubmission(q, j)' = RecordedSubmission(q, j)
  BY <1>1, RecordsUnchanged DEF RunsInv
<1>3. ResultsOK' BY <1>1, <1>2 DEF RunsInv, ResultsOK, Stopped, Loadable
<1>4. CASE host' = Down BY <1>2, <1>3, <1>4, HostDown DEF Kept, RunsInv
<1>5. CASE UNCHANGED host
  <2>1. HostTypeOK' BY <1>5 DEF RunsInv, HostTypeOK, At
  <2>2. ASSUME NEW r \in Run, NEW i \in Index(r), HostAt(r, i) PROVE HostAt(r, i)'
    <3>1. Todo' = Todo BY <1>5 DEF Todo
    <3>2. QED BY <1>1, <1>2, <1>5, <2>2, <3>1 DEF HostAt, Placed, At, Loadable
  <2>3. HostOK' BY <1>5, <2>2 DEF RunsInv, HostOK, At
  <2>4. QED BY <1>2, <1>3, <2>1, <2>3 DEF Kept, RunsInv
<1>6. QED BY <1>4, <1>5

-----------------------------------------------------------------------------
(* The invariant holds at first and every step keeps it, and what the      *)
(* records say of a run.                                                   *)

LEMMA RunsInitially == RunsInit => RunsInv
<1> SUFFICES ASSUME RunsInit PROVE RunsInv OBVIOUS
<1> USE DEF RunsInit
<1>1. RunsTypeOK
  BY DEF RunsTypeOK, Marks, AnyCandidate
<1>2. ASSUME NEW r \in Run, NEW i \in Index(r)
      PROVE  Staged(r, i) /\ InSequence(r, i) /\ GuardFound(r, i)
  BY DEF Staged, InSequence, GuardFound, Decided
<1>3. RecordsOK BY <1>2 DEF RecordsOK
<1>4. HostTypeOK
  <2>1. <<>> \in Seq(Passed) /\ <<>> \in Seq(Checks) OBVIOUS
  <2>2. QED BY <2>1 DEF HostTypeOK, Down, PCs, At
<1>5. HostOK BY DEF HostOK, Down, At
<1>6. ResultsOK BY DEF ResultsOK, Outcomes, Final
<1>7. QED BY <1>1, <1>3, <1>4, <1>5, <1>6 DEF RunsInv

LEMMA RunsStep == RunsInv /\ [RunsNext]_runsVars => Kept
<1> SUFFICES ASSUME RunsInv, [RunsNext]_runsVars PROVE Kept OBVIOUS
<1>1. ASSUME NEW r \in Run, Start(r) PROVE Kept BY <1>1, StartStep
<1>2. ASSUME NEW r \in Run, Resume(r) PROVE Kept
  <2>1. /\ Loadable(r) /\ result' = [result EXCEPT ![r] = "none"] /\ Enter(r)
        /\ UNCHANGED <<started, episode, candidate, guard, target, check, decision,
                       overrun, executions>>
    BY <1>2 DEF Resume, recordVars
  <2>2. Loadable(r)' /\ result'[r] = "none"
    BY <2>1 DEF Loadable, RunsInv, RunsTypeOK
  <2>3. QED BY <2>1, <2>2, EnterStep
<1>3. CASE HostStep
  <2>1. ~At("down")
    BY <1>3 DEF HostStep, RecordSpec, RecordPolicy, Reconcile, EpisodeBlocked, Attempt,
                AttemptFrom, AttemptCompletes, FinishEpisode, EpisodeExhausted,
                EpisodeEnded, Guard, GuardDecided, RecordTarget, ReserveCheck,
                CheckExhausted, BeginCheck, CompleteCheck, ReserveDecision,
                DecisionStopped, BeginDecision, CompleteDecision, EndSubmission, At
  <2>2a. PICK r \in Run : \E i \in Index(r) : Here(r, i) BY <2>1, SomewhereHere
  <2>2. PICK i \in Index(r) : Here(r, i) BY <2>2a
  <2>3. CASE RecordSpec BY <2>2, <2>3, RecordSpecStep
  <2>4. CASE RecordPolicy
    <3>1. /\ started' = [started EXCEPT ![r] = "policy"] /\ Enter(r)
          /\ UNCHANGED <<episode, candidate, guard, target, check, decision, overrun,
                         executions, result>>
      BY <2>2, <2>4 DEF RecordPolicy, Here, r0
    <3>2. Loadable(r)' /\ result'[r] = "none"
      BY <2>2, <3>1 DEF Loadable, RunsInv, RunsTypeOK, Here, HostAt
    <3>3. QED BY <3>1, <3>2, EnterStep
  <2>5. CASE Reconcile \/ Attempt \/ AttemptCompletes \/ FinishEpisode
    BY <2>2, <2>5, EpisodeStep
  <2>6. CASE EpisodeBlocked \/ EpisodeExhausted \/ EpisodeEnded
    BY <2>2, <2>6, EpisodeReturns
  <2>7. CASE Guard \/ GuardDecided \/ RecordTarget BY <2>2, <2>7, GuardStep
  <2>8. CASE ReserveCheck \/ BeginCheck \/ \E verdict \in Verdicts : CompleteCheck(verdict)
    BY <2>2, <2>8, CheckerStep
  <2>9. CASE ReserveDecision \/ BeginDecision \/ CompleteDecision
    BY <2>2, <2>9, DecisionStep
  <2>10. CASE CheckExhausted \/ DecisionStopped \/ EndSubmission
    BY <2>2, <2>10, AssessmentReturns
  <2>11. QED
    BY <1>3, <2>3, <2>4, <2>5, <2>6, <2>7, <2>8, <2>9, <2>10 DEF HostStep
<1>4. CASE Crash
  BY <1>4, CrashStep DEF Crash
<1>5. CASE UNCHANGED runsVars
  BY <1>5, CrashStep DEF runsVars
<1>6. QED BY <1>1, <1>2, <1>3, <1>4, <1>5 DEF RunsNext

LEMMA RunsInvariant == RunsSpec => []RunsInv
<1>1. RunsInv /\ [RunsNext]_runsVars => RunsInv' BY RunsStep DEF Kept
<1>2. QED BY <1>1, RunsInitially, PTL DEF RunsSpec

-----------------------------------------------------------------------------
(* However often a run dies and is resumed, a checker sees a submission    *)
(* once.                                                                   *)
THEOREM ChecksRunOnce == RunsSpec => []CheckedOnce
<1>1. RunsInv => CheckedOnce
  BY DEF RunsInv, RecordsOK, Staged, CheckedOnce
<1>2. QED BY <1>1, RunsInvariant, PTL

(* An accepted submission passed every check of the contract in force for  *)
(* it, the guard did not refuse it, and it is the last of its run; so is   *)
(* one that could not be judged.                                           *)
THEOREM AcceptancesAreEarned == RunsSpec => []AcceptedIsEarned
<1>1. ASSUME RunsInv, NEW r \in Run, NEW i \in Index(r), decision[r][i] = "accepted"
      PROVE  (\A c \in Required(r, i) : check[r][i][c] = "passed") /\ guard[r][i] # "refused"
  <2>1. Staged(r, i) BY <1>1 DEF RunsInv, RecordsOK
  <2>2. guard[r][i] # "refused" /\ Decision(r, i) = "accepted"
    BY <1>1, <2>1 DEF Staged, Decided
  <2>3. {check[r][i][c] : c \in Required(r, i)} = {"passed"} BY <2>2 DEF Decision
  <2>4. QED BY <2>2, <2>3
<1>2. ASSUME RunsInv, NEW r \in Run, NEW i \in Index(r), decision[r][i] \in Final,
             NEW j \in Index(r), j > i
      PROVE  episode[r][j] = "new"
  <2>1. SUFFICES ASSUME episode[r][j] # "new" PROVE FALSE OBVIOUS
  <2>2. Staged(r, i) /\ InSequence(r, j) BY <1>2 DEF RunsInv, RecordsOK
  <2>3. i \in 1..(j - 1) BY <1>2, IndexFacts
  <2>4. RecordedSubmission(r, i) \in Passed BY <2>1, <2>2, <2>3 DEF InSequence
  <2>5. RecordedSubmission(r, i) = decision[r][i]
    BY <1>2, <2>2 DEF Staged, RecordedSubmission, Final, Decided
  <2>6. QED BY <1>2, <2>4, <2>5 DEF Final, Passed
<1>3. RunsInv => AcceptedIsEarned BY <1>1, <1>2 DEF AcceptedIsEarned
<1>4. QED BY <1>3, RunsInvariant, PTL

(* When the worker starts again, every earlier submission was refused by   *)
(* the guard or has the verdict of each check: its feedback can be given.  *)
THEOREM FeedbackIsAvailable == RunsSpec => []FeedbackAvailable
<1>1. ASSUME RunsInv, At("episode"), NEW j \in 1..(i0 - 1)
      PROVE  guard[r0][j] = "refused"
             \/ \A c \in Required(r0, j) : check[r0][j][c] \in Verdicts
  <2>1. ~At("down") BY <1>1 DEF At
  <2>2a. PICK r \in Run : \E i \in Index(r) : Here(r, i) BY <1>1, <2>1, SomewhereHere
  <2>2. PICK i \in Index(r) : Here(r, i) BY <2>2a
  <2>3. r0 = r /\ i0 = i /\ j \in Index(r) /\ j \in 1..(i - 1)
    BY <1>1, <2>2, IndexFacts DEF Here, r0, i0
  <2>4. host.subs \in Seq(Passed) /\ Len(host.subs) = i - 1
        /\ host.subs[j] = RecordedSubmission(r, j)
    BY <1>1, <2>2, <2>3 DEF RunsInv, HostTypeOK, Here, HostAt
  <2>5. RecordedSubmission(r, j) \in Passed BY <2>3, <2>4
  <2>6. Staged(r, j) BY <1>1, <2>3 DEF RunsInv, RecordsOK
  <2>7. QED BY <2>3, <2>5, <2>6 DEF Staged, RecordedSubmission, Passed, Decided
<1>2. RunsInv => FeedbackAvailable BY <1>1 DEF FeedbackAvailable
<1>3. QED BY <1>2, RunsInvariant, PTL

(* What a resume reported is what status reads from the records.           *)
THEOREM StatusMatchesResult == RunsSpec => []StatusIsTheResult
<1>1. RunsInv => StatusIsTheResult BY DEF RunsInv, ResultsOK, StatusIsTheResult
<1>2. QED BY <1>1, RunsInvariant, PTL

(* The guard refuses only what repeats a candidate rejected under the same *)
(* contract version, and what it refuses is never checked or decided.      *)
THEOREM RefusalsRepeat == RunsSpec => []RefusalsAreRepeats
<1>1. ASSUME RunsInv, NEW r \in Run, NEW i \in Index(r), guard[r][i] = "refused"
      PROVE  /\ ~target[r][i] /\ decision[r][i] = "absent"
             /\ \A c \in Checks : check[r][i][c] = "absent"
             /\ \E j \in 1..(i - 1) : RepeatOf(r, i, j)
  <2>1. Staged(r, i) /\ GuardFound(r, i) BY <1>1 DEF RunsInv, RecordsOK
  <2>2. ~target[r][i] BY <1>1, <2>1 DEF Staged
  <2>3. QED BY <1>1, <2>1, <2>2 DEF Staged, GuardFound
<1>2. RunsInv => RefusalsAreRepeats BY <1>1 DEF RefusalsAreRepeats, RepeatOf
<1>3. QED BY <1>2, RunsInvariant, PTL

(* A guard whose window holds ExactRepeats candidates cuts a loop of one   *)
(* candidate under one contract version.                                   *)
THEOREM LoopsEnd == RunsSpec => []LoopsAreCut
<1>1. ASSUME RunsInv, ExactRepeats <= Window, NEW r \in Guarded \cap Run,
             NEW i \in Index(r), i > ExactRepeats,
             \A j \in (i - ExactRepeats)..i :
                /\ decision[r][j] = "rejected"
                /\ Version[r][j] = Version[r][i] /\ candidate[r][j] = candidate[r][i]
      PROVE  FALSE
  <2>1. i \in Nat /\ ExactRepeats \in Nat \ {0} BY IndexFacts, RunsAssumption
  <2>2. i \in (i - ExactRepeats)..i
        /\ \A j \in (i - ExactRepeats)..(i - 1) : j \in (i - ExactRepeats)..i
    BY <2>1
  <2>3. decision[r][i] = "rejected" /\ LoopBefore(r, i) BY <1>1, <2>2 DEF LoopBefore
  <2>4. Staged(r, i) /\ GuardFound(r, i) BY <1>1 DEF RunsInv, RecordsOK
  <2>5. guard[r][i] = "allowed" BY <2>3, <2>4 DEF Staged
  <2>6. QED BY <1>1, <2>3, <2>4, <2>5 DEF GuardFound
<1>2. Guarded \subseteq Run BY RunsAssumption
<1>3. RunsInv => LoopsAreCut BY <1>1, <1>2 DEF LoopsAreCut
<1>4. QED BY <1>3, RunsInvariant, PTL

(* Once the records say how a run ended, no resume, crash or other run     *)
(* makes them say something else.                                          *)
THEOREM OutcomesAreFinal == RunsSpec => OutcomeIsFinal
<1>1. RunsInv /\ [RunsNext]_runsVars =>
          [\A r \in Run : RecordedOutcome(r) # "none" =>
              RecordedOutcome(r)' = RecordedOutcome(r)]_runsVars
  BY RunsStep DEF Kept, OutcomesStay
<1>2. QED BY <1>1, RunsInvariant, PTL DEF RunsSpec, OutcomeIsFinal
-----------------------------------------------------------------------------
(* Files, rows and exports: the inductive invariants.                      *)

Call == [pc : {"idle", "known", "publish", "link"}, inputs : SUBSET Input,
         raw : Raws \cup {<<>>}, todo : SUBSET Channels,
         linking : SUBSET Channels, late : SUBSET Data]

(* The types of the store, the rows and the calls. *)
ArtifactsTypeOK ==
    /\ store \in [Data -> {"absent", "whole", "other"}]
    /\ rows \in Seq(Row)
    /\ call \in [Writers -> Call]
    /\ damaged \subseteq Data

Publishing(w) == call[w].pc \in {"publish", "link"}

(* What a call that publishes has published already is on disk, and it     *)
(* still asks for what it was asked to record.                             *)
PublishedExist ==
    \A w \in Writers : call[w].pc # "idle" =>
        /\ call[w].raw \in Raws
        /\ call[w].todo \subseteq DOMAIN call[w].raw
        /\ call[w].pc = "known" => call[w].todo = DOMAIN call[w].raw
        /\ call[w].pc = "link" => call[w].linking \subseteq call[w].todo
        /\ \A c \in DOMAIN call[w].raw \ call[w].todo :
              Whole(call[w].raw[c]) \/ call[w].raw[c] \in damaged

(* Bytes that were cited when a call looked for them were there: if they   *)
(* are gone now, they went later.                                          *)
KnownWereWhole ==
    \A w \in Writers : Publishing(w) =>
        \A d \in Range(call[w].raw) \cap Committed : Whole(d) \/ d \in call[w].late

(* An input is what the row it names captured; row 0 is a snapshot. *)
InputsMatch ==
    /\ \A i \in DOMAIN rows : \A input \in rows[i].inputs : Matches(input)
    /\ \A w \in Writers : \A input \in call[w].inputs : Matches(input)

ArtifactsInv ==
    /\ ArtifactsTypeOK
    /\ CommittedBytesExist
    /\ PublishedExist
    /\ KnownWereWhole
    /\ InputsMatch

(* The bytes of a call and of a row are data under channels. *)
LEMMA RawsAreData ==
    \A raw \in Raws : /\ raw = [c \in DOMAIN raw |-> raw[c]]
                      /\ DOMAIN raw \subseteq Channels
                      /\ \A c \in DOMAIN raw : raw[c] \in Data
                      /\ raw \in UNION {[C -> Data] : C \in SUBSET Channels}
                      /\ Range(raw) \subseteq Data
<1> SUFFICES ASSUME NEW raw \in Raws
             PROVE  /\ raw = [c \in DOMAIN raw |-> raw[c]]
                    /\ DOMAIN raw \subseteq Channels
                    /\ \A c \in DOMAIN raw : raw[c] \in Data
                    /\ raw \in UNION {[C -> Data] : C \in SUBSET Channels}
                    /\ Range(raw) \subseteq Data
  OBVIOUS
<1>1. PICK C \in (SUBSET Channels) \ {{}} : raw \in [C -> Data]
  BY ArtifactsAssumption DEF ArtifactsAssumption
<1>2. QED BY <1>1 DEF Range

(* The same of committed rows: everything cited is data. *)
LEMMA RowsAreData ==
    ASSUME rows \in Seq(Row)
    PROVE  /\ Committed \subseteq Data
           /\ \A i \in DOMAIN rows : \A c \in DOMAIN rows[i].artifacts :
                 rows[i].artifacts[c] \in Committed
<1>1. ASSUME NEW i \in DOMAIN rows, NEW c \in DOMAIN rows[i].artifacts
      PROVE  /\ rows[i].artifacts[c] \in Data
             /\ rows[i].artifacts[c] \in Range(rows[i].artifacts)
  <2>1. rows[i] \in Row OBVIOUS
  <2>2. PICK C \in SUBSET Channels : rows[i].artifacts \in [C -> Data]
    BY <2>1 DEF Row
  <2>3. QED BY <2>2 DEF Range
<1>2. QED BY <1>1, ArtifactsAssumption DEF Committed, Range

-----------------------------------------------------------------------------
(* Steps that leave the rows alone leave what is cited alone. *)
LEMMA SameRows ==
    ASSUME UNCHANGED rows
    PROVE  /\ Committed' = Committed
           /\ \A input : Matches(input)' = Matches(input)
BY DEF Committed, Matches

(* A call starts, or has looked at the cited bytes: the store and the rows *)
(* are as they were.                                                       *)
LEMMA CheckOriginStep ==
    ASSUME ArtifactsInv, NEW w \in Writers,
           NEW inputs \in InputChoices, NEW raw \in Raws, CheckOrigin(w, inputs, raw)
    PROVE  ArtifactsInv'
<1> DEFINE begun == [pc |-> "known", inputs |-> inputs, raw |-> raw,
                       todo |-> DOMAIN raw, linking |-> {}, late |-> {}]
<1> USE DEF ArtifactsInv, ArtifactsTypeOK
<1>1. /\ inputs \in SUBSET Input
      /\ DOMAIN raw \subseteq Channels
  BY ArtifactsAssumption, RawsAreData DEF InputChoices, Input
<1>2. /\ UNCHANGED <<store, rows, damaged>>
      /\ call' = [call EXCEPT ![w] = begun]
      /\ \A input \in inputs : Matches(input)
  <2>1. ASSUME NEW r, r = [Idle EXCEPT !.pc = "known", !.inputs = inputs, !.raw = raw,
                                       !.todo = DOMAIN raw]
        PROVE  r = begun
    BY <2>1 DEF Idle
  <2>2. QED BY <2>1 DEF CheckOrigin
<1> HIDE DEF ArtifactsInv
<1>3. ArtifactsTypeOK' BY <1>1, <1>2 DEF Call, ArtifactsInv
<1>4. CommittedBytesExist'
  BY <1>2, SameRows DEF CommittedBytesExist, Whole, ArtifactsInv
<1>5. PublishedExist' BY <1>2 DEF PublishedExist, Whole, ArtifactsInv
<1>6. KnownWereWhole'
  BY <1>2, SameRows DEF KnownWereWhole, Publishing, Whole, ArtifactsInv
<1>7. InputsMatch' BY <1>2, SameRows DEF InputsMatch, ArtifactsInv
<1>8. QED BY <1>3, <1>4, <1>5, <1>6, <1>7 DEF ArtifactsInv

LEMMA CheckKnownStep ==
    ASSUME ArtifactsInv, NEW w \in Writers, CheckKnown(w)
    PROVE  ArtifactsInv'
<1> USE DEF ArtifactsInv, ArtifactsTypeOK
<1>1. /\ UNCHANGED <<store, rows, damaged>>
      /\ call[w].pc = "known"
      /\ call' = [call EXCEPT ![w].pc = "publish"]
      /\ \A d \in Range(call[w].raw) \cap Committed : Whole(d)
  BY DEF CheckKnown
<1>2. ArtifactsTypeOK'
  <2>1. call[w] \in Call BY DEF Call
  <2>2. [call[w] EXCEPT !.pc = "publish"] \in Call BY <2>1 DEF Call
  <2>3. call' \in [Writers -> Call]
    <3>. HIDE DEF Call
    <3>. QED BY <1>1, <2>2
  <2>4. QED BY <1>1, <2>3
<1>3. CommittedBytesExist' BY <1>1, SameRows DEF CommittedBytesExist, Whole
<1>4. PublishedExist' BY <1>1 DEF PublishedExist, Whole
<1>5. KnownWereWhole' BY <1>1, SameRows DEF KnownWereWhole, Publishing, Whole
<1>6. InputsMatch' BY <1>1, SameRows DEF InputsMatch
<1>7. QED BY <1>2, <1>3, <1>4, <1>5, <1>6

(* One artifact is published: a file that is there is whole, and a file    *)
(* that is linked becomes so.                                              *)
LEMMA PublishStep ==
    ASSUME ArtifactsInv, NEW w \in Writers, NEW c \in Channels,
           Reuse(w, c) \/ WriteTemporary(w, c) \/ Link(w, c)
    PROVE  ArtifactsInv'
<1> USE DEF ArtifactsInv, ArtifactsTypeOK
<1>1. CASE Reuse(w, c)
  <2>1. /\ UNCHANGED <<store, rows, damaged>>
        /\ call[w].pc = "publish"
        /\ call' = [call EXCEPT ![w].todo = @ \ {c}]
        /\ Whole(call[w].raw[c])
    BY <1>1 DEF Reuse
  <2>2. ArtifactsTypeOK' BY <2>1 DEF Call
  <2>3. CommittedBytesExist' BY <2>1, SameRows DEF CommittedBytesExist, Whole
  <2>4. PublishedExist' BY <2>1 DEF PublishedExist, Whole
  <2>5. KnownWereWhole' BY <2>1, SameRows DEF KnownWereWhole, Publishing, Whole
  <2>6. InputsMatch' BY <2>1, SameRows DEF InputsMatch
  <2>7. QED BY <2>2, <2>3, <2>4, <2>5, <2>6
<1>2. CASE WriteTemporary(w, c)
  <2>1. /\ UNCHANGED <<store, rows, damaged>>
        /\ call[w].pc = "publish"
        /\ c \in call[w].todo
        /\ call' = [call EXCEPT ![w].pc = "link", ![w].linking = {c}]
    BY <1>2 DEF WriteTemporary
  <2>2. ArtifactsTypeOK'
    <3>1. call[w] \in Call BY DEF Call
    <3>2. [call[w] EXCEPT !.pc = "link", !.linking = {c}] \in Call BY <3>1 DEF Call
    <3>3. call' \in [Writers -> Call]
      <4>. HIDE DEF Call
      <4>. QED BY <2>1, <3>2
    <3>4. QED BY <2>1, <3>3
  <2>3. CommittedBytesExist' BY <2>1, SameRows DEF CommittedBytesExist, Whole
  <2>4. PublishedExist' BY <2>1 DEF PublishedExist, Whole
  <2>5. KnownWereWhole' BY <2>1, SameRows DEF KnownWereWhole, Publishing, Whole
  <2>6. InputsMatch' BY <2>1, SameRows DEF InputsMatch
  <2>7. QED BY <2>2, <2>3, <2>4, <2>5, <2>6
<1>3. CASE Link(w, c)
  <2> DEFINE bytes == call[w].raw[c]
  <2>1. /\ UNCHANGED <<rows, damaged>>
        /\ call[w].pc = "link"
        /\ store' = [store EXCEPT ![bytes] = "whole"]
        /\ call' = [call EXCEPT ![w].pc = "publish", ![w].todo = @ \ {c},
                                ![w].linking = {}]
    BY <1>3 DEF Link
  <2> HIDE DEF bytes
  <2>2. \A d \in Data : Whole(d) => Whole(d)'
    BY <2>1 DEF Whole
  <2>3. Committed \subseteq Data /\ Committed' = Committed
    BY <2>1, RowsAreData, SameRows
  <2>4. ArtifactsTypeOK'
    <3>1. store' \in [Data -> {"absent", "whole", "other"}] BY <2>1
    <3>2. \A r \in Call : [r EXCEPT !.pc = "publish", !.todo = @ \ {c}, !.linking = {}] \in Call
      BY DEF Call
    <3>3. call' \in [Writers -> Call] BY <2>1, <3>2
    <3>4. QED BY <2>1, <3>1, <3>3
  <2>5. CommittedBytesExist'
    BY <2>1, <2>2, <2>3 DEF CommittedBytesExist
  <2>6. PublishedExist'
    <3>1. \A v \in Writers : call[v].pc # "idle" =>
             call[v].raw \in Raws /\ Range(call[v].raw) \subseteq Data
      BY RawsAreData DEF PublishedExist
    <3>2. ASSUME NEW v \in Writers, call'[v].pc # "idle"
          PROVE  /\ call'[v].raw \in Raws
                 /\ call'[v].todo \subseteq DOMAIN call'[v].raw
                 /\ call'[v].pc = "known" => call'[v].todo = DOMAIN call'[v].raw
                 /\ call'[v].pc = "link" => call'[v].linking \subseteq call'[v].todo
                 /\ \A k \in DOMAIN call'[v].raw \ call'[v].todo :
                       store'[call'[v].raw[k]] = "whole" \/ call'[v].raw[k] \in damaged
      <4>1. call[v].pc # "idle" /\ call'[v].raw = call[v].raw
        BY <2>1, <3>2
      <4>2. ASSUME NEW k \in DOMAIN call[v].raw, k \notin call'[v].todo
            PROVE  store'[call[v].raw[k]] = "whole" \/ call[v].raw[k] \in damaged
        <5>1. call[v].raw[k] \in Data BY <3>1, <4>1 DEF Range
        <5>2. CASE v = w /\ k = c BY <2>1, <5>1, <5>2 DEF bytes
        <5>3. CASE k \notin call[v].todo
          BY <2>2, <4>1, <5>1, <5>3 DEF PublishedExist, Whole
        <5>4. QED BY <2>1, <4>2, <5>2, <5>3
      <4>3. QED BY <2>1, <3>1, <4>1, <4>2 DEF PublishedExist
    <3>3. QED BY <2>1, <3>2 DEF PublishedExist, Whole
  <2>7. KnownWereWhole'
    BY <2>1, <2>2, <2>3 DEF KnownWereWhole, Publishing
  <2>8. InputsMatch' BY <2>1, SameRows DEF InputsMatch
  <2>9. QED BY <2>4, <2>5, <2>6, <2>7, <2>8
<1>4. QED BY <1>1, <1>2, <1>3

(* A committed row cites what its call has published, and nobody else is   *)
(* in a call.                                                              *)
LEMMA CommitStep ==
    ASSUME ArtifactsInv, NEW w \in Writers, Commit(w)
    PROVE  /\ ArtifactsInv'
           /\ DOMAIN rows \subseteq DOMAIN rows'
           /\ \A i \in DOMAIN rows : rows'[i] = rows[i]
<1> DEFINE row == [inputs |-> call[w].inputs, artifacts |-> call[w].raw]
<1> USE DEF ArtifactsInv, ArtifactsTypeOK
<1>1. /\ UNCHANGED <<store, damaged>>
      /\ rows' = Append(rows, row)
      /\ call[w].pc = "publish" /\ call[w].todo = {}
      /\ call' = [call EXCEPT ![w] = Idle]
      /\ \A v \in Writers : call'[v].pc = "idle"
  BY DEF Commit, InsertIf, Alone, Idle
<1>2. row \in Row /\ call[w].raw \in Raws
  <2>1. call[w].raw \in Raws /\ call[w].inputs \in SUBSET Input
    BY <1>1 DEF PublishedExist, Call
  <2>2. QED BY <2>1, RawsAreData DEF Row
<1> HIDE DEF row
<1>3. /\ DOMAIN rows' = DOMAIN rows \cup {Len(rows) + 1}
      /\ \A i \in DOMAIN rows : rows'[i] = rows[i]
      /\ rows'[Len(rows) + 1] = row
  BY <1>1, <1>2
<1>4. ArtifactsTypeOK'
  BY <1>1, <1>2 DEF Call, Idle
<1>5. \A d \in Committed' : d \in Committed \/ d \in Range(call[w].raw)
  BY <1>3 DEF Committed, row
<1>6. CommittedBytesExist'
  <2>1. \A d \in Range(call[w].raw) : Whole(d) \/ d \in damaged
    BY <1>1 DEF PublishedExist, Range
  <2>2. QED BY <1>1, <1>5, <2>1 DEF CommittedBytesExist, Whole
<1>7. PublishedExist' /\ KnownWereWhole'
  BY <1>1 DEF PublishedExist, KnownWereWhole, Publishing
<1>8. \A input \in Input : Matches(input) => Matches(input)'
  BY <1>3 DEF Matches
<1>9. InputsMatch'
  <2>1. \A v \in Writers : call[v].inputs \subseteq Input /\ call'[v].inputs \subseteq call[v].inputs
    BY <1>1 DEF Call, Idle
  <2>2. ASSUME NEW i \in DOMAIN rows PROVE rows[i].inputs \subseteq Input
    <3>1. rows[i] \in Row OBVIOUS
    <3>2. QED BY <3>1 DEF Row
  <2>3. \A i \in DOMAIN rows' : \A input \in rows'[i].inputs : Matches(input)'
    BY <1>3, <1>8, <2>1, <2>2 DEF InputsMatch, row
  <2>4. QED BY <1>8, <2>1, <2>3 DEF InputsMatch
<1>10. QED BY <1>3, <1>4, <1>6, <1>7, <1>9

(* A call that ends without a row, and a file that is damaged. *)
LEMMA RollbackStep ==
    ASSUME ArtifactsInv, NEW w \in Writers, Rollback(w)
    PROVE  ArtifactsInv'
<1> USE DEF ArtifactsInv, ArtifactsTypeOK
<1>1. /\ UNCHANGED <<store, rows, damaged>>
      /\ call' = [call EXCEPT ![w] = Idle]
      /\ Idle \in Call /\ Idle.pc = "idle" /\ Idle.inputs = {}
  BY DEF Rollback, Idle, Call
<1>2. ArtifactsTypeOK' BY <1>1
<1>3. CommittedBytesExist' BY <1>1, SameRows DEF CommittedBytesExist, Whole
<1>4. PublishedExist' BY <1>1 DEF PublishedExist, Whole
<1>5. KnownWereWhole' BY <1>1, SameRows DEF KnownWereWhole, Publishing, Whole
<1>6. InputsMatch' BY <1>1, SameRows DEF InputsMatch
<1>7. QED BY <1>2, <1>3, <1>4, <1>5, <1>6

LEMMA DamageStep ==
    ASSUME ArtifactsInv, NEW d \in Data, NEW content \in {"absent", "other"},
           Damage(d, content)
    PROVE  ArtifactsInv'
<1> USE DEF ArtifactsInv, ArtifactsTypeOK
<1>1. /\ UNCHANGED rows
      /\ store' = [store EXCEPT ![d] = content]
      /\ damaged' = damaged \cup {d}
      /\ call' = [w \in Writers |->
                    IF call[w].pc \in {"publish", "link"}
                    THEN [call[w] EXCEPT !.late = @ \cup {d}] ELSE call[w]]
  BY DEF Damage
<1>2. \A w \in Writers :
         /\ call'[w] \in Call
         /\ call'[w].pc = call[w].pc /\ call'[w].raw = call[w].raw
         /\ call'[w].todo = call[w].todo /\ call'[w].inputs = call[w].inputs
         /\ call'[w].linking = call[w].linking
         /\ Publishing(w) => call'[w].late = call[w].late \cup {d}
  BY <1>1 DEF Call, Publishing
<1>3. \A e \in Data : e # d => Whole(e)' = Whole(e)
  BY <1>1 DEF Whole
<1>4. ArtifactsTypeOK' BY <1>1, <1>2
<1>5. Committed \subseteq Data /\ Committed' = Committed
  BY <1>1, RowsAreData, SameRows
<1>6. CommittedBytesExist'
  BY <1>1, <1>3, <1>5 DEF CommittedBytesExist
<1>7. \A w \in Writers : call[w].pc # "idle" => Range(call[w].raw) \subseteq Data
  BY RawsAreData DEF PublishedExist
<1>8. PublishedExist'
  BY <1>1, <1>2, <1>3, <1>7 DEF PublishedExist, Range
<1>9. KnownWereWhole'
  BY <1>2, <1>3, <1>5 DEF KnownWereWhole, Publishing
<1>10. InputsMatch' BY <1>1, <1>2, SameRows DEF InputsMatch
<1>11. QED BY <1>4, <1>6, <1>8, <1>9, <1>10

LEMMA ArtifactsStep == ArtifactsInv /\ [ArtifactsNext]_artifactVars => ArtifactsInv'
<1> SUFFICES ASSUME ArtifactsInv, [ArtifactsNext]_artifactVars PROVE ArtifactsInv'
  OBVIOUS
<1>1. CASE UNCHANGED artifactVars
  <2>1. UNCHANGED <<store, rows, call, damaged>> BY <1>1 DEF artifactVars
  <2>2. QED
    BY <2>1, SameRows DEF ArtifactsInv, ArtifactsTypeOK, CommittedBytesExist, PublishedExist,
                KnownWereWhole, InputsMatch, Publishing, Whole
<1>2. QED
  BY <1>1, CheckOriginStep, CheckKnownStep, PublishStep, CommitStep, RollbackStep, DamageStep
  DEF ArtifactsNext

LEMMA ArtifactsStart == ArtifactsInit => ArtifactsInv
<1> SUFFICES ASSUME ArtifactsInit PROVE ArtifactsInv
  OBVIOUS
<1>1. Committed = Snapshots /\ Snapshots \subseteq Data
  BY ArtifactsAssumption DEF ArtifactsInit, Committed
<1>2. Idle \in Call /\ Idle.pc = "idle" /\ Idle.inputs = {}
  BY DEF Idle, Call
<1>3. ArtifactsTypeOK BY <1>2 DEF ArtifactsInit, ArtifactsTypeOK
<1>4. CommittedBytesExist BY <1>1 DEF ArtifactsInit, CommittedBytesExist, Whole
<1>5. PublishedExist /\ KnownWereWhole /\ InputsMatch
  BY <1>2 DEF ArtifactsInit, PublishedExist, KnownWereWhole, InputsMatch, Publishing
<1>6. QED BY <1>3, <1>4, <1>5 DEF ArtifactsInv

(* Of the steps only Link puts bytes on disk, and its call had looked. *)
LEMMA RepairStep ==
    ASSUME ArtifactsInv, [ArtifactsNext]_artifactVars,
           NEW d \in Committed, ~Whole(d), Whole(d)'
    PROVE  \E w \in Writers : d \in call[w].late
<1>1. d \in Data BY RowsAreData DEF ArtifactsInv, ArtifactsTypeOK
<1>2. PICK w \in Writers, c \in Channels : Link(w, c)
  <2>1. store'[d] # store[d] BY DEF Whole
  <2>2. ASSUME NEW e \in Data, NEW content \in {"absent", "other"}, Damage(e, content)
        PROVE  FALSE
    BY <1>1, <2>1, <2>2 DEF Damage, Whole, ArtifactsInv, ArtifactsTypeOK
  <2>3. QED
    BY <2>1, <2>2 DEF ArtifactsNext, artifactVars, CheckOrigin, CheckKnown, Commit, InsertIf,
                      Rollback, Reuse, WriteTemporary
<1>3. d = call[w].raw[c] /\ call[w].pc = "link" /\ c \in call[w].linking
  BY <1>1, <1>2 DEF Link, Whole, ArtifactsInv, ArtifactsTypeOK
<1>4. c \in DOMAIN call[w].raw
  BY <1>3 DEF ArtifactsInv, PublishedExist
<1>5. QED
  BY <1>2, <1>3, <1>4 DEF ArtifactsInv, KnownWereWhole, Publishing, Range

-----------------------------------------------------------------------------
(* The export under way.  Its names were put together from rows that stay  *)
(* as they are; what it copied and has yet to copy is what they name.      *)
ExportInv ==
    /\ export \in [pc : {"idle", "copy"}, chosen : SUBSET (Nat \X Channels),
                   names : SUBSET (Nat \X Channels \X Data), todo : SUBSET Data,
                   dir : {"none", "partial", "indexed"}, copied : SUBSET Data]
    /\ export.pc = "copy" =>
          /\ export.dir = "partial"
          /\ {n[3] : n \in export.names} = export.todo \cup export.copied
    /\ IndexMeansComplete
    /\ DisclosesShown
    /\ \A s \in export.chosen :
          /\ s[1] \in DOMAIN rows /\ s[2] \in Shown
          /\ s[2] \in DOMAIN rows[s[1]].artifacts
    /\ \A d \in export.todo : \E s \in export.chosen : rows[s[1]].artifacts[s[2]] = d

(* Committed rows are never changed: only Commit writes one, behind them.  *)
LEMMA RowsStay ==
    ASSUME ArtifactsInv, [ArtifactsNext]_artifactVars
    PROVE  DOMAIN rows \subseteq DOMAIN rows' /\ \A i \in DOMAIN rows : rows'[i] = rows[i]
<1>1. CASE UNCHANGED rows BY <1>1
<1>2. ASSUME NEW w \in Writers, Commit(w)
      PROVE  DOMAIN rows \subseteq DOMAIN rows' /\ \A i \in DOMAIN rows : rows'[i] = rows[i]
  BY <1>2, CommitStep
<1>3. QED
  BY <1>1, <1>2 DEF ArtifactsNext, artifactVars, CheckOrigin, CheckKnown, Rollback,
                    Reuse, WriteTemporary, Link, Damage

LEMMA ExportKept ==
    ASSUME ExportInv, UNCHANGED export,
           DOMAIN rows \subseteq DOMAIN rows', \A i \in DOMAIN rows : rows'[i] = rows[i]
    PROVE  ExportInv'
BY DEF ExportInv, IndexMeansComplete, DisclosesShown

(* The selection: an input is named only if what it names is selected, and *)
(* then it names the very bytes that are.                                  *)
LEMMA SelectStep ==
    ASSUME ArtifactsInv, ExportInv, NEW own \in SUBSET DOMAIN rows, SelectEvidence(own)
    PROVE  ExportInv'
<1> DEFINE chosen == Selection(own)
           named == {<<s[1], s[2], rows[s[1]].artifacts[s[2]]>> : s \in chosen}
           inputs == UNION {OriginView(s[1], chosen) : s \in chosen}
           bytes == {rows[s[1]].artifacts[s[2]] : s \in chosen}
<1>1. ASSUME NEW s \in chosen
      PROVE  /\ s[1] \in DOMAIN rows /\ s[2] \in Shown
             /\ s[2] \in DOMAIN rows[s[1]].artifacts
  BY DEF Selection
<1>2. /\ export'.pc = "copy" /\ export'.dir = "partial"
      /\ export'.chosen = chosen /\ export'.names = named \cup inputs
      /\ export'.todo = bytes /\ export'.copied = {}
      /\ UNCHANGED rows
  BY DEF SelectEvidence, NoExport, artifactVars
<1> HIDE DEF chosen
<1>3. ASSUME NEW n \in inputs
      PROVE  <<n[1], n[2]>> \in chosen /\ n[3] = rows[n[1]].artifacts[n[2]]
  <2>1. PICK s \in chosen : n \in OriginView(s[1], chosen) OBVIOUS
  <2>2. PICK m \in rows[s[1]].inputs :
              n = <<m.row, m.channel, m.ref>> /\ <<m.row, m.channel>> \in chosen
    BY <2>1 DEF OriginView
  <2>3. Matches(m) /\ m.row # 0
    BY <1>1, <2>2 DEF ArtifactsInv, ArtifactsTypeOK, InputsMatch
  <2>4. QED BY <2>2, <2>3 DEF Matches
<1>4. ASSUME NEW n \in named \cup inputs
      PROVE  \E s \in chosen : /\ n[1] = s[1] /\ n[2] = s[2]
                               /\ n[3] = rows[s[1]].artifacts[s[2]]
  <2>1. CASE n \in named BY <2>1
  <2>2. CASE n \in inputs
    <3>1. <<n[1], n[2]>> \in chosen /\ n[3] = rows[n[1]].artifacts[n[2]]
      BY <1>3, <2>2
    <3>2. QED BY <3>1
  <2>3. QED BY <2>1, <2>2
<1>5. {n[3] : n \in named \cup inputs} = bytes
  <2>1. ASSUME NEW s \in chosen PROVE \E n \in named : n[3] = rows[s[1]].artifacts[s[2]]
    <3>1. <<s[1], s[2], rows[s[1]].artifacts[s[2]]>> \in named OBVIOUS
    <3> HIDE DEF named
    <3>2. QED BY <3>1
  <2> HIDE DEF named, inputs
  <2>2. QED BY <1>4, <2>1
<1> HIDE DEF named, inputs
<1>7. DisclosesShown' BY <1>1, <1>2, <1>4 DEF DisclosesShown
<1>8. chosen \subseteq Nat \X Channels
  BY ExportsAssumption DEF chosen, Selection, ArtifactsInv, ArtifactsTypeOK
<1>9. bytes \subseteq Data
  BY <1>1, RowsAreData DEF ArtifactsInv, ArtifactsTypeOK
<1>10. named \subseteq Nat \X Channels \X Data
  <2>1. \A s \in chosen : s[1] \in Nat /\ s[2] \in Channels /\ rows[s[1]].artifacts[s[2]] \in Data
    BY <1>8, <1>9
  <2>2. QED BY <2>1 DEF named
<1>11. inputs \subseteq Nat \X Channels \X Data
  <2>1. ASSUME NEW s \in chosen, NEW m \in rows[s[1]].inputs
        PROVE  m.row \in Nat /\ m.channel \in Channels /\ m.ref \in Data
    <3>1. rows[s[1]] \in Row BY <1>1 DEF ArtifactsInv, ArtifactsTypeOK
    <3>2. QED BY <3>1 DEF Row, Input
  <2>2. ASSUME NEW n \in inputs PROVE n \in Nat \X Channels \X Data
    <3>1. PICK s \in chosen : n \in OriginView(s[1], chosen) BY DEF inputs
    <3>2. PICK m \in rows[s[1]].inputs : n = <<m.row, m.channel, m.ref>>
      BY <3>1 DEF OriginView
    <3>3. QED BY <2>1, <3>2
  <2>3. QED BY <2>2
<1>12. export' \in [pc : {"idle", "copy"}, chosen : SUBSET (Nat \X Channels),
                    names : SUBSET (Nat \X Channels \X Data), todo : SUBSET Data,
                    dir : {"none", "partial", "indexed"}, copied : SUBSET Data]
  BY <1>2, <1>8, <1>9, <1>10, <1>11 DEF SelectEvidence, NoExport
<1>13. {n[3] : n \in export'.names} = export'.todo \cup export'.copied
  BY <1>2, <1>5
<1> HIDE DEF bytes
<1>14. QED BY <1>1, <1>2, <1>7, <1>12, <1>13 DEF ExportInv, IndexMeansComplete, bytes

LEMMA ExportStep ==
    ASSUME ArtifactsInv, ExportInv, [ExportsNext]_exportsVars
    PROVE  ExportInv'
<1>1. CASE ArtifactsNext /\ UNCHANGED export
  BY <1>1, RowsStay, ExportKept
<1>2. ASSUME NEW own \in SUBSET DOMAIN rows, SelectEvidence(own) PROVE ExportInv'
  BY <1>2, SelectStep
<1>3. ASSUME NEW d \in Data, CopyArtifact(d) PROVE ExportInv'
  <2>1. /\ export.pc = "copy" /\ d \in export.todo /\ UNCHANGED rows
        /\ export' = [export EXCEPT !.todo = export.todo \ {d},
                                    !.copied = export.copied \cup {d}]
    BY <1>3 DEF CopyArtifact, artifactVars
  <2>2. /\ export'.pc = "copy" /\ export'.dir = "partial"
        /\ export'.chosen = export.chosen /\ export'.names = export.names
        /\ export'.todo = export.todo \ {d} /\ export'.copied = export.copied \cup {d}
    BY <2>1 DEF ExportInv
  <2>3. export'.todo \cup export'.copied = export.todo \cup export.copied
    BY <2>1, <2>2
  <2>4. DisclosesShown'
    BY <2>1, <2>2 DEF ExportInv, DisclosesShown
  <2>5. QED BY <2>1, <2>2, <2>3, <2>4 DEF ExportInv, IndexMeansComplete
<1>4. CASE PublishIndex
  <2>1. /\ export.pc = "copy" /\ export.todo = {} /\ UNCHANGED rows
        /\ export' = [export EXCEPT !.pc = "idle", !.dir = "indexed"]
    BY <1>4 DEF PublishIndex, ReplaceIf, artifactVars
  <2>2. /\ export'.pc = "idle" /\ export'.names = export.names
        /\ export'.chosen = export.chosen /\ export'.copied = export.copied
        /\ export'.todo = {}
    BY <2>1 DEF ExportInv
  <2>3. DisclosesShown' BY <2>1, <2>2 DEF ExportInv, DisclosesShown
  <2>4. {n[3] : n \in export.names} = export.copied BY <2>1 DEF ExportInv
  <2>5. QED BY <2>1, <2>2, <2>3, <2>4 DEF ExportInv, IndexMeansComplete
<1>5. CASE AbandonExport
  <2>1. export.pc = "copy" /\ UNCHANGED rows
    BY <1>5 DEF AbandonExport, artifactVars
  <2>2. CASE export' = NoExport
    BY <2>2 DEF NoExport, ExportInv, IndexMeansComplete, DisclosesShown
  <2>3. CASE export' = [export EXCEPT !.pc = "idle"]
    BY <2>1, <2>3 DEF ExportInv, IndexMeansComplete, DisclosesShown
  <2>4. QED BY <1>5, <2>2, <2>3 DEF AbandonExport
<1>6. CASE UNCHANGED exportsVars
  BY <1>6, ExportKept DEF exportsVars, artifactVars
<1>7. QED BY <1>1, <1>2, <1>3, <1>4, <1>5, <1>6 DEF ExportsNext

LEMMA ExportsInvariant == ExportsSpec => [](ArtifactsInv /\ ExportInv)
<1>1. ExportsInit => ArtifactsInv /\ ExportInv
  <2>1. export = NoExport => ExportInv
    BY DEF NoExport, ExportInv, IndexMeansComplete, DisclosesShown
  <2>2. QED BY <2>1, ArtifactsStart DEF ExportsInit
<1>2. ArtifactsInv /\ ExportInv /\ [ExportsNext]_exportsVars => (ArtifactsInv /\ ExportInv)'
  <2> SUFFICES ASSUME ArtifactsInv, ExportInv, [ExportsNext]_exportsVars
               PROVE  (ArtifactsInv /\ ExportInv)'
    OBVIOUS
  <2>1. [ArtifactsNext]_artifactVars
    BY DEF ExportsNext, exportsVars, SelectEvidence, CopyArtifact, PublishIndex, ReplaceIf,
           AbandonExport
  <2>2. QED BY <2>1, ArtifactsStep, ExportStep
<1>3. QED BY <1>1, <1>2, PTL DEF ExportsSpec

-----------------------------------------------------------------------------
(* Whatever is killed, damaged or written at the same time, a committed    *)
(* row cites only bytes that are on disk, for any number of connections.   *)
THEOREM CommittedBytesAreThere == ExportsSpec => []CommittedBytesExist
BY ExportsInvariant, PTL DEF ArtifactsInv

(* An index is there only when all it names is.                            *)
THEOREM IndexIsComplete == ExportsSpec => []IndexMeansComplete
BY ExportsInvariant, PTL DEF ExportInv

(* An export says nothing of what was not selected for it.                 *)
THEOREM NothingElseDisclosed == ExportsSpec => []DisclosesShown
BY ExportsInvariant, PTL DEF ExportInv

(* No call puts bytes back that were gone before it looked.                *)
THEOREM MissingBytesStayMissing == ExportsSpec => NeverRepaired
<1>1. ArtifactsInv /\ [ExportsNext]_exportsVars
        => [\A d \in Committed :
               ~Whole(d) /\ Whole(d)' => \E w \in Writers : d \in call[w].late]_artifactVars
  <2> SUFFICES ASSUME ArtifactsInv, [ExportsNext]_exportsVars, NEW d \in Committed,
                      ~Whole(d), Whole(d)'
               PROVE  \E w \in Writers : d \in call[w].late
    OBVIOUS
  <2>1. [ArtifactsNext]_artifactVars
    BY DEF ExportsNext, exportsVars, SelectEvidence, CopyArtifact, PublishIndex, ReplaceIf,
           AbandonExport
  <2>2. QED BY <2>1, RepairStep
<1>2. QED BY <1>1, ExportsInvariant, PTL DEF ExportsSpec, NeverRepaired
=============================================================================
