----------------------------- MODULE Campaigns -----------------------------
(***************************************************************************)
(* Campaigns, contract revisions and scoped memory of the task layer       *)
(* (src/warranted/_tasks.py: Project.revise, plan_campaign, run_campaign,  *)
(* campaign_report, memory, _snapshot, and _start and resume as campaigns  *)
(* use them).                                                              *)
(*                                                                         *)
(* A campaign pins the runs it will make; a run pins the contract it was   *)
(* started under and the memory its worker is shown; memory is what the    *)
(* submissions of earlier runs in the scope recorded.  One process writes  *)
(* at a time and may be killed between any two records.                    *)
(*                                                                         *)
(* What happens inside a submission is module Runs; here it leaves facts   *)
(* of some size and a decision.  A configuration stands for the run        *)
(* configuration and the model adapter it is pinned with.                  *)
(***************************************************************************)
EXTENDS Integers, SequencesExt, Sums

CONSTANTS
    Tasks,          \* task ids
    Scope,          \* task -> its memory scope, or None
    Depends,        \* task -> the files its memory depends on
    Contracts,      \* task -> per number of revisions, per submission: the files
    Specs,          \* campaign specifications: id, rows, repetitions, config
    SoloStarts,     \* runs a host may start outside campaigns
    FactSizes,      \* sizes of what a submission may leave in memory
    MemoryLimit,    \* MEMORY_LIMIT
    None            \* no scope, no campaign, no split

CampaignIds == {spec.id : spec \in Specs}

(* The task under its first n revisions, as its record shows it. *)
Contract(t, n) == Contracts[t][n + 1]
MaxRevisions(t) == Len(Contracts[t]) - 1
Submissions(t) == Len(Contracts[t][1])

(* TaskSpec and CampaignSpec.__post_init__: a task has submissions; a      *)
(* campaign has tasks and repetitions, its tasks are distinct and a scope  *)
(* has one split.                                                          *)
ASSUME CampaignsAssumption ==
    /\ MemoryLimit \in Nat /\ FactSizes \subseteq Nat
    /\ None \notin CampaignIds /\ None \notin Specs
    /\ \A start \in SoloStarts : start.task \in Tasks
    /\ \A t \in Tasks :
          /\ Submissions(t) \in Nat \ {0}
          /\ \A n \in DOMAIN Contracts[t] : Len(Contracts[t][n]) = Submissions(t)
    /\ \A spec \in Specs :
          /\ spec.repetitions \in 1..1000
          /\ Len(spec.rows) \in Nat \ {0} /\ DOMAIN spec.rows = 1..Len(spec.rows)
          /\ \A i \in DOMAIN spec.rows : spec.rows[i].task \in Tasks
    /\ \A spec \in Specs : \A i, j \in DOMAIN spec.rows :
          /\ spec.rows[i].task = spec.rows[j].task => i = j
          /\ /\ Scope[spec.rows[i].task] # None
             /\ Scope[spec.rows[i].task] = Scope[spec.rows[j].task]
             => spec.rows[i].split = spec.rows[j].split

VARIABLES
    revised,        \* task -> how many revisions are recorded
    plans,          \* campaign -> its pinned entries, or <<>>
    runs,           \* run -> what its specification recorded
    order,          \* runs in the order their specifications were recorded
    submissions,    \* run -> submission -> decision and size of its facts
    ended,          \* runs whose episode ended them without a decision
    memory,         \* memory entries in the order they were captured
    host            \* the process: what it is doing, and for which campaign

campaignsVars ==
    <<revised, plans, runs, order, submissions, ended, memory, host>>

Idle == [pc |-> "idle", spec |-> None, entry |-> 0, run |-> None,
         task |-> None, config |-> None]

-----------------------------------------------------------------------------
(* What the ledger says.                                                   *)

Listed == ToSet(order)                                  \* Project.runs
Loadable(r) == r \in Listed /\ runs[r].policy           \* Project._load

NotStarted == [task |-> None, revisions |-> 0, contract |-> <<>>,
               config |-> None, campaign |-> None, split |-> None,
               snapshot |-> <<>>, policy |-> FALSE]
Undecided == [decision |-> "none", facts |-> 0]

Index(r) == DOMAIN submissions[r]
Decision(r, i) == submissions[r][i].decision

(* Project.status has no outcome, or an unknown one. *)
Open(r) ==
    /\ r \notin ended
    /\ \E i \in Index(r) : Decision(r, i) \in {"none", "checked"}
    /\ ~ \E i \in Index(r) : Decision(r, i) = "accepted"

(* The entries plan_campaign computes for a specification now. *)
PlanEntries(spec) ==
    [k \in 1..(spec.repetitions * Len(spec.rows)) |->
        LET row == spec.rows[((k - 1) % Len(spec.rows)) + 1]
        IN  [task |-> row.task, contract |-> Contract(row.task, revised[row.task]),
             split |-> row.split, scope |-> Scope[row.task],
             config |-> spec.config]]

(* Run ids are drawn at random: an entry's is named after its place. *)
PlannedRun(id, k) == <<id, k>>
RunIds == {start.run : start \in SoloStarts} \cup
    UNION {{PlannedRun(spec.id, k) : k \in 1..(spec.repetitions * Len(spec.rows))}
             : spec \in Specs}

(* _planned: the run was started by the campaign for this very entry. *)
Planned(id, k) ==
    LET r == PlannedRun(id, k)
        entry == plans[id][k]
    IN  /\ Loadable(r)
        /\ runs[r].campaign = id /\ runs[r].split = entry.split
        /\ runs[r].task = entry.task /\ runs[r].contract = entry.contract
        /\ runs[r].config = entry.config

-----------------------------------------------------------------------------
(* Scoped memory.                                                          *)

(* _sources, record_once: what a submission recorded becomes an entry, if  *)
(* it left facts, once and under its own identity.                         *)
Record(known, e) ==
    IF submissions[e[1]][e[2]].facts > 0 /\ e \notin ToSet(known)
    THEN Append(known, e) ELSE known

(* The submissions of a run, in their order. *)
Sources(known, r) ==
    LET after[i \in 0..Len(submissions[r])] ==
            IF i = 0 THEN known ELSE Record(after[i - 1], <<r, i>>)
    IN  after[Len(submissions[r])]

(* _memory goes through the runs of the scope in the order they were made. *)
Remembered(scope) ==
    LET after[n \in 0..Len(order)] ==
            IF n = 0 THEN memory
            ELSE IF Scope[runs[order[n]].task] # scope THEN after[n - 1]
            ELSE Sources(after[n - 1], order[n])
    IN  after[Len(order)]

(* _memory reads every listed run, and raises if one cannot be loaded. *)
MemoryReadable == \A r \in Listed : Loadable(r)

(* The entry's claim assumes the versions of the files its task's memory   *)
(* depends on, as its own contract had them.                               *)
Applicable(e, files) ==
    LET own == runs[e[1]].contract[e[2]]
    IN  \A name \in Depends[runs[e[1]].task] \cap DOMAIN own :
            name \in DOMAIN files /\ files[name] = own[name]

(* Mutant of Shown: the memory of the whole scope is shown. *)
ShownAcrossSplits(e, scope, split, files) ==
    /\ Scope[runs[e[1]].task] = scope
    /\ Decision(e[1], e[2]) = "accepted"
    /\ Applicable(e, files)

Shown(e, scope, split, files) ==
    /\ Scope[runs[e[1]].task] = scope
    /\ runs[e[1]].split = split
    /\ Decision(e[1], e[2]) = "accepted"
    /\ Applicable(e, files)

FactSize(e) == submissions[e[1]][e[2]].facts

(* _snapshot: newest first, skipping what no longer fits. *)
Snapshot(scope, split, files) ==
    LET taken[n \in 0..Len(memory)] ==
            IF n = 0 THEN [size |-> 0, entries |-> {}]
            ELSE LET e == memory[Len(memory) - n + 1]
                     before == taken[n - 1]
                 IN  IF /\ Shown(e, scope, split, files)
                        /\ before.size + FactSize(e) <= MemoryLimit
                     THEN [size |-> before.size + FactSize(e),
                           entries |-> before.entries \cup {e}]
                     ELSE before
    IN  taken[Len(memory)].entries

(* Mutant of Snapshots: one snapshot serves every contract version. *)
SnapshotsOfFirst(t, n, split) ==
    [i \in 1..Submissions(t) |->
        IF Scope[t] = None THEN {}
        ELSE Snapshot(Scope[t], split, Contract(t, n)[1])]

(* One snapshot for each contract of the task's schedule. *)
Snapshots(t, n, split) ==
    [i \in 1..Submissions(t) |->
        IF Scope[t] = None THEN {}
        ELSE Snapshot(Scope[t], split, Contract(t, n)[i])]

-----------------------------------------------------------------------------
Init ==
    /\ revised = [t \in Tasks |-> 0]
    /\ plans = [id \in CampaignIds |-> <<>>]
    /\ runs = [r \in RunIds |-> NotStarted]
    /\ order = <<>>
    /\ submissions = [r \in RunIds |-> <<>>]
    /\ ended = {}
    /\ memory = <<>>
    /\ host = Idle

(* The campaign's loop goes on, or the call outside one returns. *)
Return ==
    host' = IF host.spec = None THEN Idle
            ELSE [Idle EXCEPT !.pc = "loop", !.spec = host.spec,
                              !.entry = host.entry + 1]

Raise == host' = Idle

(* Project.revise with the task's next revision. *)
Revise(t) ==
    /\ host = Idle
    /\ revised[t] < MaxRevisions(t)
    /\ revised' = [revised EXCEPT ![t] = @ + 1]
    /\ UNCHANGED <<plans, runs, order, submissions, ended, memory, host>>

(* Project.memory: derived records only. *)
ReadMemory(t) ==
    /\ host = Idle
    /\ Scope[t] # None /\ MemoryReadable
    /\ memory' = Remembered(Scope[t])
    /\ UNCHANGED <<revised, plans, runs, order, submissions, ended, host>>

-----------------------------------------------------------------------------
(* Campaigns.                                                              *)

(* Mutant of Compatible: memory scopes are compared within a campaign only. *)
CompatibleTasks(id, entries) ==
    \A other \in CampaignIds \ {id} :
        \A i \in DOMAIN plans[other], j \in DOMAIN entries :
            entries[j].task = plans[other][i].task
              => entries[j].split = plans[other][i].split

(* No other campaign uses a task or a memory scope in another split. *)
Compatible(id, entries) ==
    \A other \in CampaignIds \ {id} :
        \A i \in DOMAIN plans[other], j \in DOMAIN entries :
            LET entry == entries[j]
                planned == plans[other][i]
            IN  \/ entry.task = planned.task
                \/ entry.scope # None /\ entry.scope = planned.scope
                => entry.split = planned.split

(* Mutant of SamePlan: the tasks are compared by their ids. *)
SamePlanIds(id, entries) ==
    /\ DOMAIN entries = DOMAIN plans[id]
    /\ \A k \in DOMAIN entries :
          /\ entries[k].task = plans[id][k].task
          /\ entries[k].split = plans[id][k].split
          /\ entries[k].config = plans[id][k].config

SamePlan(id, entries) == plans[id] = entries

(* run_campaign begins with plan_campaign, which pins the plan or finds it *)
(* pinned; a plan that is refused changes nothing.                         *)
RunCampaign(spec) ==
    LET entries == PlanEntries(spec)
    IN  /\ host = Idle
        /\ Compatible(spec.id, entries)
        /\ \/ /\ plans[spec.id] = <<>>
              /\ plans' = [plans EXCEPT ![spec.id] = entries]
           \/ /\ plans[spec.id] # <<>>
              /\ SamePlan(spec.id, entries)
              /\ UNCHANGED plans
        /\ host' = [Idle EXCEPT !.pc = "loop", !.spec = spec, !.entry = 1]
        /\ UNCHANGED <<revised, runs, order, submissions, ended, memory>>

(* The next entry of the plan: start its run, resume it, or leave it. *)
NextEntry ==
    /\ host.pc = "loop"
    /\ LET id == host.spec.id
           k == host.entry
           r == PlannedRun(id, k)
           entry == plans[id][k]
       IN  /\ k <= Len(plans[id])
           /\ host' =
                IF r \notin Listed
                THEN [host EXCEPT !.pc = "start", !.run = r, !.task = entry.task,
                                  !.config = entry.config]
                ELSE IF ~Planned(id, k) THEN Idle
                ELSE IF Open(r) THEN [host EXCEPT !.pc = "resume", !.run = r]
                ELSE [host EXCEPT !.entry = k + 1]
    /\ UNCHANGED <<revised, plans, runs, order, submissions, ended, memory>>

(* campaign_report, which raises or returns. *)
EndCampaign ==
    /\ host.pc = "loop"
    /\ host.entry > Len(plans[host.spec.id])
    /\ host' = Idle
    /\ UNCHANGED <<revised, plans, runs, order, submissions, ended, memory>>

-----------------------------------------------------------------------------
(* Starting and resuming a run.                                            *)

(* Project.start outside any campaign, a planned id included. *)
StartSolo(start) ==
    /\ host = Idle
    /\ start.run \notin Listed
    /\ host' = [Idle EXCEPT !.pc = "start", !.run = start.run,
                            !.task = start.task, !.config = start.config]
    /\ UNCHANGED <<revised, plans, runs, order, submissions, ended, memory>>

ResumeSolo(r) ==
    /\ host = Idle
    /\ Loadable(r)
    /\ host' = [Idle EXCEPT !.pc = "resume", !.run = r]
    /\ UNCHANGED <<revised, plans, runs, order, submissions, ended, memory>>

(* _start reads the memory of the task's scope, or raises. *)
Remember ==
    /\ host.pc = "start"
    /\ IF Scope[host.task] = None
       THEN host' = [host EXCEPT !.pc = "spec"] /\ UNCHANGED memory
       ELSE IF MemoryReadable
       THEN /\ memory' = Remembered(Scope[host.task])
            /\ host' = [host EXCEPT !.pc = "spec"]
       ELSE Raise /\ UNCHANGED memory
    /\ UNCHANGED <<revised, plans, runs, order, submissions, ended>>

(* The specification: contract, configuration, campaign and snapshots. *)
RecordSpec ==
    /\ host.pc = "spec"
    /\ LET t == host.task
           n == revised[t]
           campaign == IF host.spec = None THEN None ELSE host.spec.id
           split == IF host.spec = None THEN None
                    ELSE plans[host.spec.id][host.entry].split
       IN  /\ runs' = [runs EXCEPT ![host.run] =
                         [task |-> t, revisions |-> n, contract |-> Contract(t, n),
                          config |-> host.config, campaign |-> campaign,
                          split |-> split, snapshot |-> Snapshots(t, n, split),
                          policy |-> FALSE]]
           /\ submissions' = [submissions EXCEPT ![host.run] =
                                [i \in 1..Submissions(t) |-> Undecided]]
    /\ order' = Append(order, host.run)
    /\ host' = [host EXCEPT !.pc = "policy"]
    /\ UNCHANGED <<revised, plans, ended, memory>>

RecordPolicy ==
    /\ host.pc = "policy"
    /\ runs' = [runs EXCEPT ![host.run].policy = TRUE]
    /\ host' = [host EXCEPT !.pc = "resume"]
    /\ UNCHANGED <<revised, plans, order, submissions, ended, memory>>

(* Mutant of Resume: the revisions recorded since are not looked at. *)
ResumeRevised ==
    /\ host.pc = "resume"
    /\ host' = [host EXCEPT !.pc = "running"]
    /\ UNCHANGED <<revised, plans, runs, order, submissions, ended, memory>>

(* resume refuses a run whose task was revised since; within a campaign it *)
(* also compares the task, which _planned and the plan have compared.      *)
Resume ==
    /\ host.pc = "resume"
    /\ IF revised[runs[host.run].task] = runs[host.run].revisions
       THEN host' = [host EXCEPT !.pc = "running"]
       ELSE Raise
    /\ UNCHANGED <<revised, plans, runs, order, submissions, ended, memory>>

(* The first submission of the run without a decision that ends it. *)
Working(i) ==
    /\ host.pc = "running" /\ Open(host.run)
    /\ i \in Index(host.run)
    /\ \A j \in 1..(i - 1) : Decision(host.run, j) = "rejected"

(* The submission and the results of its checks are recorded. *)
Check(i, facts) ==
    /\ Working(i) /\ Decision(host.run, i) = "none"
    /\ submissions' = [submissions EXCEPT ![host.run][i] =
                         [decision |-> "checked", facts |-> facts]]
    /\ UNCHANGED <<revised, plans, runs, order, ended, memory, host>>

(* Its decision is recorded; it ends the run, or the next one begins. *)
Decide(i, decision) ==
    /\ Working(i) /\ Decision(host.run, i) = "checked"
    /\ submissions' = [submissions EXCEPT ![host.run][i].decision = decision]
    /\ UNCHANGED <<revised, plans, runs, order, ended, memory, host>>

(* An episode ends the run without a submission. *)
EndRun(i) ==
    /\ Working(i) /\ Decision(host.run, i) = "none"
    /\ ended' = ended \cup {host.run}
    /\ UNCHANGED <<revised, plans, runs, order, submissions, memory, host>>

(* resume returns: the run is over, or blocked or out of budget. *)
EndResume ==
    /\ host.pc = "running"
    /\ Return
    /\ UNCHANGED <<revised, plans, runs, order, submissions, ended, memory>>

(* The process is killed. *)
Crash ==
    /\ host # Idle
    /\ host' = Idle
    /\ UNCHANGED <<revised, plans, runs, order, submissions, ended, memory>>

Next ==
    \/ \E t \in Tasks : Revise(t)
    \/ \E t \in Tasks : ReadMemory(t)
    \/ \E spec \in Specs : RunCampaign(spec)
    \/ NextEntry
    \/ EndCampaign
    \/ \E start \in SoloStarts : StartSolo(start)
    \/ \E r \in RunIds : ResumeSolo(r)
    \/ Remember
    \/ RecordSpec
    \/ RecordPolicy
    \/ Resume
    \/ \E r \in RunIds : \E i \in Index(r), facts \in FactSizes : Check(i, facts)
    \/ \E r \in RunIds : \E i \in Index(r), d \in {"accepted", "rejected"} :
          Decide(i, d)
    \/ \E r \in RunIds : \E i \in Index(r) : EndRun(i)
    \/ EndResume
    \/ Crash

CampaignsSpec == Init /\ [][Next]_campaignsVars

-----------------------------------------------------------------------------
(* Properties.                                                             *)

(* The entries a run's worker is shown, and the runs they come from,       *)
(* directly or through what those were shown.                              *)
Seen(r) == UNION {runs[r].snapshot[i] : i \in DOMAIN runs[r].snapshot}
Lineage(r) ==
    LET from[k \in 0..Len(order)] ==
            IF k = 0 THEN {e[1] : e \in Seen(r)}
            ELSE from[k - 1] \cup UNION {{e[1] : e \in Seen(q)} : q \in from[k - 1]}
    IN  from[Len(order)]

(* A held-out run never learns from training or development runs, nor from *)
(* runs outside campaigns, whichever campaigns shared the memory scope and *)
(* through however many runs a fact travelled.                             *)
SplitsStayApart ==
    \A r \in Listed : \A q \in Lineage(r) : runs[q].split = runs[r].split

(* A task, and a memory scope, keeps one split across every campaign the   *)
(* project has pinned.                                                     *)
OneSplit ==
    \A c, d \in CampaignIds : \A i \in DOMAIN plans[c], j \in DOMAIN plans[d] :
        \/ plans[c][i].task = plans[d][j].task
        \/ plans[c][i].scope # None /\ plans[c][i].scope = plans[d][j].scope
        => plans[c][i].split = plans[d][j].split

(* What a worker is shown for a submission was accepted, fits the limit,   *)
(* and rests on files that are byte for byte those of the contract that    *)
(* submission is made under.                                               *)
ShownFactsHold ==
    \A r \in Listed : \A i \in Index(r) :
        /\ Total([e \in runs[r].snapshot[i] |-> FactSize(e)]) <= MemoryLimit
        /\ \A e \in runs[r].snapshot[i] :
              /\ Decision(e[1], e[2]) = "accepted"
              /\ \A name \in Depends[runs[e[1]].task] :
                    name \in DOMAIN runs[e[1]].contract[e[2]] =>
                      /\ name \in DOMAIN runs[r].contract[i]
                      /\ runs[r].contract[i][name] = runs[e[1]].contract[e[2]][name]

(* Every run a campaign made is the run it planned: same task, contract,   *)
(* configuration and split, across crashes, reruns and revisions.          *)
RunsMatchThePlan ==
    \A id \in CampaignIds : \A k \in DOMAIN plans[id] :
        LET run == runs[PlannedRun(id, k)]
        IN  run.campaign = id =>
              /\ run.task = plans[id][k].task
              /\ run.contract = plans[id][k].contract
              /\ run.config = plans[id][k].config
              /\ run.split = plans[id][k].split

(* No submission is worked on under a contract that was revised after its  *)
(* run started.                                                            *)
WorkUnderCurrentContract ==
    host.pc = "running" =>
        runs[host.run].revisions = revised[runs[host.run].task]

=============================================================================
