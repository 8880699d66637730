-------------------------------- MODULE Runs --------------------------------
(***************************************************************************)
(* Runs of the task layer (src/warranted/_tasks.py: Project._start,        *)
(* resume, _guard, _run_check, _assess, status, and the campaign loop that *)
(* calls them).  A run is a sequence of submissions: an episode, the       *)
(* duplicate guard, the checks and the acceptance decision of each, until  *)
(* one ends the run.                                                       *)
(*                                                                         *)
(* Everything is recorded as it happens and read back by the next resume,  *)
(* which starts again at the first submission.  One process writes at a    *)
(* time; it may die between any two records, and whoever restarts it       *)
(* chooses which run to start or to resume.                                *)
(*                                                                         *)
(* An episode (module Episode) is reduced to the state of its last attempt *)
(* and the way it ended, and the budgets of its attempts to the choice of  *)
(* a recorded overrun; a decision over gates only (module Acceptance) is   *)
(* reduced to the worst verdict.                                           *)
(***************************************************************************)
EXTENDS Integers, FiniteSets, SequencesExt

CONSTANTS
    Run,            \* run ids
    Version,        \* run -> for each submission its task allows, the
                    \*   version of the contract in force for it
    Contract,       \* run -> submission -> its contract's checks, in order
    Isolated,       \* checks that run in the run's own scope
    Candidates,     \* run -> what its worker may submit, normalised
    Returns,        \* check -> the verdicts its checker may return
    CheckBudget,    \* the run scope's cap on check units
    CheckAllowance, \* the project's allowance of check units
    Guarded,        \* runs whose task has a duplicate guard
    Near,           \* pairs of candidates within its edit threshold
    ExactRepeats,   \* DuplicateGuard.exact_repeats
    NearRepeats,    \* DuplicateGuard.near_repeats
    Window          \* DuplicateGuard.window

Submissions(r) == Len(Version[r])       \* TaskSpec.submissions
Index(r) == 1..Submissions(r)
Required(r, i) == ToSet(Contract[r][i])
Checks == DOMAIN Returns
Verdicts == UNION {Returns[c] : c \in Checks}   \* of VerdictStatus

ASSUME RunsAssumption ==
    /\ Verdicts \subseteq {"passed", "rejected", "unproved", "unsupported",
                           "infrastructure_failure"}
    /\ \A r \in Run : /\ Version[r] \in Seq(Nat) \ {<<>>}
                      /\ DOMAIN Contract[r] = Index(r)
                      /\ \A i \in Index(r) : Contract[r][i] \in Seq(Checks) \ {<<>>}
    /\ Guarded \subseteq Run
    /\ CheckBudget \in Nat /\ CheckAllowance \in Nat
    /\ {ExactRepeats, NearRepeats, Window} \subseteq Nat \ {0}
    (* _start refuses a check budget unless every check is isolated. *)
    /\ Checks \subseteq Isolated \/ CheckBudget >= CheckAllowance

VARIABLES
    started,        \* run -> how much of its start is recorded
    episode,        \* run -> submission -> how its episode stands
    candidate,      \* run -> submission -> what it submitted
    guard,          \* run -> submission -> the recorded guard decision
    target,         \* run -> submission -> the submission is recorded
    check,          \* run -> submission -> check -> state of its operation
    decision,       \* run -> submission -> state of its decision
    overrun,        \* runs that breached a reservation, and the project
    executions,     \* run -> submission -> check -> times it was executed
    result,         \* run -> what the last resume to end returned
    host            \* the process: program counter and volatile state

recordVars == <<started, episode, candidate, guard, target, check, decision,
                overrun>>
runsVars == <<recordVars, executions, result, host>>

NoCandidate == "none"

(* subs: the decisions on the submissions this resume has been through;    *)
(* todo: the checks it has still to see completed.                         *)
Down == [pc |-> "down", run |-> "none", index |-> 1, subs |-> <<>>, todo |-> <<>>]

At(pc) == host.pc = pc
GoTo(pc) == host' = [host EXCEPT !.pc = pc]
r0 == host.run
i0 == host.index

-----------------------------------------------------------------------------
(* What the ledger says.                                                   *)

Listed(r) == started[r] \in {"spec", "policy"}        \* Project.runs
Loadable(r) == started[r] = "policy"                  \* Project._load

(* An unknown operation of the run's scope, or of the root, where checks   *)
(* that are not isolated run.                                              *)
BlockedIn(r, q, i) ==
    \/ q = r /\ (episode[q][i] = "unknown" \/ decision[q][i] = "unknown")
    \/ \E c \in Checks : check[q][i][c] = "unknown" /\ (q = r \/ c \notin Isolated)
Blocked(r) == \E q \in Run : \E i \in Index(q) : BlockedIn(r, q, i)

(* Check units reserved or spent, by a run in its scope and by all. *)
ReservedChecks(r, C) == {x \in Index(r) \X C : check[r][x[1]][x[2]] # "absent"}
AllChecks == UNION {{r} \X ReservedChecks(r, Checks) : r \in Run}
CheckFits(r, c) ==
    /\ Cardinality(AllChecks) < CheckAllowance
    /\ c \in Isolated => Cardinality(ReservedChecks(r, Isolated)) < CheckBudget

(* _check_budget: a breach in the scope or a project total overrun. *)
Project == "project"
Stopped(r) == overrun \cap {r, Project} # {}
CheckStopped(r, c) == IF c \in Isolated THEN Stopped(r) ELSE Project \in overrun

Decided == {"accepted", "rejected", "unsupported", "infrastructure_failure"}

(* The decisions that end a run, as resume and status agree on them. *)
Final == {"accepted", "unsupported", "infrastructure_failure"}

(* _recorded_submission: a submission's decision, if one is recorded. *)
RecordedSubmission(r, i) ==
    IF guard[r][i] = "refused" THEN "duplicate"
    ELSE IF target[r][i] /\ decision[r][i] \in Decided THEN decision[r][i]
    ELSE "none"

(* How many submissions, from the first, have a recorded decision. *)
Used(r) ==
    CHOOSE n \in 0..Submissions(r) :
        /\ \A i \in 1..n : RecordedSubmission(r, i) # "none"
        /\ n < Submissions(r) => RecordedSubmission(r, n + 1) = "none"

(* _ended_without_submission of an episode that no host operation failed   *)
(* in (see module HostOperations).                                         *)
EndedWithout(r, i) ==
    CASE episode[r][i] = "infrastructure_failure" -> "infrastructure_failure"
      [] episode[r][i] \in {"failed", "finished"} -> "incomplete"
      [] OTHER -> "none"

(* Mutant of RecordedOutcome: an episode that ends is never a rejection. *)
RecordedOutcomeIncomplete(r) ==
    LET n == Used(r)
        last == IF n = 0 THEN "none" ELSE RecordedSubmission(r, n)
    IN  IF last \in Final THEN last
        ELSE IF n = Submissions(r) THEN "rejected"
        ELSE EndedWithout(r, n + 1)

(* Project.status, without its look at what blocks the run. *)
RecordedOutcome(r) ==
    LET n == Used(r)
        last == IF n = 0 THEN "none" ELSE RecordedSubmission(r, n)
    IN  IF last \in Final THEN last
        ELSE IF n = Submissions(r) THEN "rejected"
        ELSE IF n > 0 /\ EndedWithout(r, n + 1) = "incomplete" THEN "rejected"
        ELSE EndedWithout(r, n + 1)

Status(r) == IF Blocked(r) THEN "unknown" ELSE RecordedOutcome(r)

-----------------------------------------------------------------------------
RunsInit ==
    /\ started = [r \in Run |-> "none"]
    /\ episode = [r \in Run |-> [i \in Index(r) |-> "new"]]
    /\ candidate = [r \in Run |-> [i \in Index(r) |-> NoCandidate]]
    /\ guard = [r \in Run |-> [i \in Index(r) |-> "none"]]
    /\ target = [r \in Run |-> [i \in Index(r) |-> FALSE]]
    /\ check = [r \in Run |-> [i \in Index(r) |-> [c \in Checks |-> "absent"]]]
    /\ decision = [r \in Run |-> [i \in Index(r) |-> "absent"]]
    /\ overrun = {}
    /\ executions = [r \in Run |-> [i \in Index(r) |-> [c \in Checks |-> 0]]]
    /\ result = [r \in Run |-> "none"]
    /\ host = Down

(* resume begins: it loads the run and goes to the first submission. *)
Enter(r) == host' = [Down EXCEPT !.pc = "episode", !.run = r]

(* resume ends and reports an outcome. *)
Return(outcome) ==
    /\ result' = [result EXCEPT ![r0] = outcome]
    /\ host' = Down

(* _start refuses a run id that is listed.  It records the scope, then the *)
(* specification, then the policy, and goes on as resume does.             *)
Start(r) ==
    /\ At("down") /\ ~Listed(r)
    /\ started' = [started EXCEPT ![r] = "scope"]
    /\ host' = [Down EXCEPT !.pc = "spec", !.run = r]
    /\ UNCHANGED <<episode, candidate, guard, target, check, decision,
                   overrun, executions, result>>

RecordSpec ==
    /\ At("spec")
    /\ started' = [started EXCEPT ![r0] = "spec"]
    /\ GoTo("policy")
    /\ UNCHANGED <<episode, candidate, guard, target, check, decision,
                   overrun, executions, result>>

RecordPolicy ==
    /\ At("policy")
    /\ started' = [started EXCEPT ![r0] = "policy"]
    /\ Enter(r0)
    /\ UNCHANGED <<episode, candidate, guard, target, check, decision,
                   overrun, executions, result>>

(* resume raises for a run it cannot load. *)
Resume(r) ==
    /\ At("down") /\ Loadable(r)
    /\ result' = [result EXCEPT ![r] = "none"]
    /\ Enter(r)
    /\ UNCHANGED <<recordVars, executions>>

-----------------------------------------------------------------------------
(* run_workflow for the current submission.                                *)

SetEpisode(i, state) == episode' = [episode EXCEPT ![r0][i] = state]

(* An operation of an episode completes and leaves it in one of `states`.  *)
(* What it used may exceed what it reserved, or the whole allowance.       *)
Completes(i, states) ==
    /\ \E state \in states : SetEpisode(i, state)
    /\ \E over \in {{}, {r0}, {r0, Project}} : overrun' = overrun \cup over

(* Mutant of Reconcile: an unknown check is released for another try. *)
ReconcileRetries ==
    /\ At("episode")
    /\ \E i \in Index(r0), c \in Checks :
          /\ check[r0][i][c] = "unknown"
          /\ check' = [check EXCEPT ![r0][i][c] = "pending"]
    /\ UNCHANGED <<started, episode, candidate, guard, target, decision, overrun,
                   executions, result, host>>

(* What is unknown in an episode of this run, if it was a host operation,  *)
(* is settled: the episode goes on, whatever the operation came to.  A     *)
(* model or tool attempt is never settled by a project.                    *)
Reconcile ==
    /\ At("episode")
    /\ \E i \in Index(r0) : episode[r0][i] = "unknown" /\ Completes(i, {"open"})
    /\ UNCHANGED <<started, candidate, guard, target, check, decision,
                   executions, result, host>>

(* What cannot be settled stops the run, whichever run it belongs to if it *)
(* is in the root scope.                                                   *)
EpisodeBlocked ==
    /\ At("episode") /\ Blocked(r0)
    /\ Return("unknown")
    /\ UNCHANGED <<recordVars, executions>>

AttemptFrom(states) ==
    /\ At("episode") /\ ~Blocked(r0) /\ ~Stopped(r0)
    /\ episode[r0][i0] \in states
    /\ SetEpisode(i0, "unknown")
    /\ GoTo("attempt")
    /\ UNCHANGED <<started, candidate, guard, target, check, decision,
                   overrun, executions, result>>

(* Mutant of Attempt: a resume tries a failed model attempt again. *)
AttemptFailedAgain == AttemptFrom({"new", "open", "failed"})

(* The worker's next attempt, or a host operation for it, is dispatched, *)
Attempt == AttemptFrom({"new", "open"})

(* and completes: the episode can go on, or a model attempt that failed,   *)
(* or any that the infrastructure failed, has ended it.                    *)
AttemptCompletes ==
    /\ At("attempt")
    /\ Completes(i0, {"open", "failed", "infrastructure_failure"})
    /\ GoTo("episode")
    /\ UNCHANGED <<started, candidate, guard, target, check, decision,
                   executions, result>>

(* The episode ends: the worker submitted, or it ran out of steps. *)
FinishEpisode ==
    /\ At("episode") /\ ~Blocked(r0) /\ episode[r0][i0] = "open"
    /\ \/ SetEpisode(i0, "finished") /\ UNCHANGED candidate
       \/ \E c \in Candidates[r0] :
            /\ SetEpisode(i0, "submitted")
            /\ candidate' = [candidate EXCEPT ![r0][i0] = c]
    /\ UNCHANGED <<started, guard, target, check, decision, overrun,
                   executions, result, host>>

(* A budget ends the run before the next attempt could start.  Nothing     *)
(* records it.                                                             *)
EpisodeExhausted ==
    /\ At("episode") /\ ~Blocked(r0) /\ episode[r0][i0] \in {"new", "open"}
    /\ Return("exhausted")
    /\ UNCHANGED <<recordVars, executions>>

Ends ==
    /\ CASE episode[r0][i0] = "submitted" -> GoTo("guard") /\ UNCHANGED result
         [] episode[r0][i0] = "infrastructure_failure" ->
              Return("infrastructure_failure")
         [] episode[r0][i0] \in {"failed", "finished"} ->
              Return(IF host.subs # <<>> THEN "rejected" ELSE "incomplete")
         [] OTHER -> FALSE
    /\ UNCHANGED <<recordVars, executions>>

(* A finished episode, now or on every replay. *)
EpisodeEnded == At("episode") /\ ~Blocked(r0) /\ Ends

-----------------------------------------------------------------------------
(* The duplicate guard, before any check.                                  *)

(* On to the next submission, or the end when all are used. *)
Advance(status) ==
    IF i0 = Submissions(r0) THEN Return("rejected")
    ELSE /\ host' = [Down EXCEPT !.pc = "episode", !.run = r0, !.index = i0 + 1,
                                 !.subs = Append(host.subs, status)]
         /\ UNCHANGED result

(* The last n of a set of submissions. *)
LastOf(js, n) == {j \in js : Cardinality({k \in js : k > j}) < n}

(* The submissions rejected under one of some contract versions. *)
RejectedUnder(versions) ==
    {j \in DOMAIN host.subs : host.subs[j] = "rejected" /\ Version[r0][j] \in versions}

(* Mutant of Compared: candidates of every contract version count. *)
ComparedAllVersions == LastOf(RejectedUnder(ToSet(Version[r0])), Window)

(* The last submissions rejected under the contract now in force. *)
Compared == LastOf(RejectedUnder({Version[r0][i0]}), Window)

(* The candidate was submitted, or nearly, some number of times before. *)
Repeats(exactly, nearly) ==
    LET this == candidate[r0][i0]
        exact == Cardinality({j \in Compared : candidate[r0][j] = this})
        near == Cardinality({j \in Compared : <<candidate[r0][j], this>> \in Near})
    IN  exact >= exactly \/ exact + near >= nearly

(* Mutant of Repeat: one repeat more than allowed goes through. *)
RepeatOneMore == Repeats(ExactRepeats + 1, NearRepeats)

(* DuplicateGuard.verdict *)
Repeat == Repeats(ExactRepeats, NearRepeats)

(* _guard: decide once and record it; a resume reads the record. *)
Guard ==
    /\ At("guard") /\ r0 \in Guarded /\ guard[r0][i0] = "none"
    /\ guard' = [guard EXCEPT ![r0][i0] = IF Repeat THEN "refused" ELSE "allowed"]
    /\ UNCHANGED <<started, episode, candidate, target, check, decision,
                   overrun, executions, result, host>>

(* "Refused before any check; it still uses a submission." *)
GuardDecided ==
    /\ At("guard") /\ (r0 \in Guarded => guard[r0][i0] # "none")
    /\ IF guard[r0][i0] = "refused" THEN Advance("duplicate")
       ELSE GoTo("target") /\ UNCHANGED result
    /\ UNCHANGED <<recordVars, executions>>

-----------------------------------------------------------------------------
(* _assess: the checks of the contract in force, then the decision.        *)

RecordTarget ==
    /\ At("target")
    /\ target' = [target EXCEPT ![r0][i0] = TRUE]
    /\ host' = [host EXCEPT !.pc = "checks", !.todo = Contract[r0][i0]]
    /\ UNCHANGED <<started, episode, candidate, guard, check, decision,
                   overrun, executions, result>>

now == Head(host.todo)
CheckState == check[r0][i0][now]
SetCheck(state) == check' = [check EXCEPT ![r0][i0][now] = state]

(* reserve: a recorded verdict is reused, a new check needs budget. *)
ReserveCheck ==
    /\ At("checks") /\ host.todo # <<>>
    /\ CASE CheckState \in Verdicts ->
              host' = [host EXCEPT !.todo = Tail(@)] /\ UNCHANGED check
         [] CheckState = "absent" ->
              /\ ~CheckStopped(r0, now) /\ CheckFits(r0, now)
              /\ SetCheck("pending") /\ GoTo("begin")
         [] OTHER -> GoTo("begin") /\ UNCHANGED check
    /\ UNCHANGED <<started, episode, candidate, guard, target, decision,
                   overrun, executions, result>>

(* BudgetExceeded, from reserve or from begin. *)
CheckExhausted ==
    /\ \/ /\ At("checks") /\ host.todo # <<>> /\ CheckState = "absent"
          /\ CheckStopped(r0, now) \/ ~CheckFits(r0, now)
       \/ At("begin") /\ CheckState = "pending" /\ CheckStopped(r0, now)
    /\ Return("exhausted")
    /\ UNCHANGED <<recordVars, executions>>

Dispatch ==
    /\ SetCheck("unknown")
    /\ executions' = [executions EXCEPT ![r0][i0][now] = @ + 1]
    /\ GoTo("execute")
    /\ UNCHANGED <<started, episode, candidate, guard, target, decision, overrun,
                   result>>

(* begin, and the checker runs. *)
BeginCheck ==
    /\ At("begin") /\ CheckState = "pending"
    /\ ~Blocked(r0) /\ ~CheckStopped(r0, now)
    /\ Dispatch

(* Mutant of CompleteCheck: the first check that does not pass is the last. *)
CompleteCheckFirstFailure(verdict) ==
    /\ At("execute") /\ verdict \in Returns[now]
    /\ SetCheck(verdict)
    /\ host' = [host EXCEPT !.pc = "checks",
                            !.todo = IF verdict = "passed" THEN Tail(@) ELSE <<>>]
    /\ UNCHANGED <<started, episode, candidate, guard, target, decision,
                   overrun, executions, result>>

(* Every way a checker can fail is a verdict too; the unit is spent. *)
CompleteCheck(verdict) ==
    /\ At("execute") /\ verdict \in Returns[now]
    /\ SetCheck(verdict)
    /\ host' = [host EXCEPT !.pc = "checks", !.todo = Tail(@)]
    /\ UNCHANGED <<started, episode, candidate, guard, target, decision,
                   overrun, executions, result>>

(* Mutant of Decision: what is not rejected is accepted. *)
DecisionLenient(r, i) ==
    IF \E c \in Required(r, i) : check[r][i][c] = "rejected" THEN "rejected"
    ELSE "accepted"

(* accept over gates: the worst verdict; what is unproved is not passed. *)
Decision(r, i) ==
    LET verdicts == {check[r][i][c] : c \in Required(r, i)}
    IN  IF "unsupported" \in verdicts THEN "unsupported"
        ELSE IF "infrastructure_failure" \in verdicts THEN "infrastructure_failure"
        ELSE IF verdicts # {"passed"} THEN "rejected"
        ELSE "accepted"

SetDecision(state) == decision' = [decision EXCEPT ![r0][i0] = state]

ReserveDecision ==
    /\ At("checks") /\ host.todo = <<>> /\ ~Stopped(r0)
    /\ IF decision[r0][i0] = "absent" THEN SetDecision("pending")
       ELSE UNCHANGED decision
    /\ GoTo(IF decision[r0][i0] \in Decided THEN "decided" ELSE "decide")
    /\ UNCHANGED <<started, episode, candidate, guard, target, check,
                   overrun, executions, result>>

(* A later breach also bars a decision that is recorded. *)
DecisionStopped ==
    /\ At("checks") /\ host.todo = <<>> /\ Stopped(r0)
    /\ Return("exhausted")
    /\ UNCHANGED <<recordVars, executions>>

BeginDecision ==
    /\ At("decide") /\ decision[r0][i0] = "pending" /\ ~Blocked(r0)
    /\ SetDecision("unknown")
    /\ GoTo("commit")
    /\ UNCHANGED <<started, episode, candidate, guard, target, check,
                   overrun, executions, result>>

CompleteDecision ==
    /\ At("commit")
    /\ SetDecision(Decision(r0, i0))
    /\ GoTo("decided")
    /\ UNCHANGED <<started, episode, candidate, guard, target, check,
                   overrun, executions, result>>

EndSubmission ==
    /\ At("decided")
    /\ IF decision[r0][i0] \in Final THEN Return(decision[r0][i0])
       ELSE Advance(decision[r0][i0])
    /\ UNCHANGED <<recordVars, executions>>

Crash ==
    /\ ~At("down")
    /\ host' = Down
    /\ UNCHANGED <<recordVars, executions, result>>

HostStep ==
    \/ RecordSpec \/ RecordPolicy
    \/ Reconcile \/ EpisodeBlocked \/ Attempt \/ AttemptCompletes
    \/ FinishEpisode \/ EpisodeExhausted \/ EpisodeEnded
    \/ Guard \/ GuardDecided \/ RecordTarget
    \/ ReserveCheck \/ CheckExhausted \/ BeginCheck
    \/ \E verdict \in Verdicts : CompleteCheck(verdict)
    \/ ReserveDecision \/ DecisionStopped \/ BeginDecision \/ CompleteDecision
    \/ EndSubmission

RunsNext ==
    \/ \E r \in Run : Start(r) \/ Resume(r)
    \/ HostStep
    \/ Crash

RunsSpec == RunsInit /\ [][RunsNext]_runsVars

-----------------------------------------------------------------------------
Outcomes == Final \cup {"rejected", "incomplete"}
(* "Completed episodes and checks are reused, never repeated": however     *)
(* often a run dies and is resumed, a checker sees a submission once.      *)
CheckedOnce ==
    \A r \in Run : \A i \in Index(r), c \in Checks : executions[r][i][c] <= 1

(* An accepted submission passed every check of the contract in force for  *)
(* it and was not refused by the guard.  It is the last of its run, and so *)
(* is one that could not be judged: the worker is not asked again because  *)
(* a checker failed.                                                       *)
AcceptedIsEarned ==
    \A r \in Run : \A i \in Index(r) :
        /\ decision[r][i] = "accepted" =>
              /\ \A c \in Required(r, i) : check[r][i][c] = "passed"
              /\ guard[r][i] # "refused"
        /\ decision[r][i] \in Final =>
              \A j \in Index(r) : j > i => episode[r][j] = "new"

(* The guard refuses only what repeats a candidate rejected under the same *)
(* contract version, and what it refuses is never checked or decided.      *)
RefusalsAreRepeats ==
    \A r \in Run : \A i \in Index(r) : guard[r][i] = "refused" =>
        /\ ~target[r][i] /\ decision[r][i] = "absent"
        /\ \A c \in Checks : check[r][i][c] = "absent"
        /\ \E j \in 1..i-1 :
              /\ decision[r][j] = "rejected" /\ Version[r][j] = Version[r][i]
              /\ \/ candidate[r][j] = candidate[r][i]
                 \/ <<candidate[r][j], candidate[r][i]>> \in Near

(* A guard whose window holds ExactRepeats candidates cuts a loop: no more *)
(* than that many submissions in a row with one candidate and one contract *)
(* are checked and rejected.                                               *)
LoopsAreCut ==
    ExactRepeats <= Window =>
        \A r \in Guarded : \A i \in Index(r) : i > ExactRepeats =>
            ~ \A j \in (i - ExactRepeats)..i :
                /\ decision[r][j] = "rejected"
                /\ Version[r][j] = Version[r][i] /\ candidate[r][j] = candidate[r][i]

(* When the worker of a later submission starts, the feedback on every     *)
(* earlier one can be written: it was refused by the guard, or each check  *)
(* of its contract has a verdict.                                          *)
FeedbackAvailable ==
    At("episode") =>
        \A j \in 1..i0-1 : \/ guard[r0][j] = "refused"
                           \/ \A c \in Required(r0, j) : check[r0][j][c] \in Verdicts

(* status, which only reads, and resume, which replays, agree on how a run *)
(* ended; where resume stopped at a budget, status reports no outcome,     *)
(* unless a breach came after the outcome.                                 *)
StatusIsTheResult ==
    \A r \in Run :
        /\ result[r] \in Outcomes => RecordedOutcome(r) = result[r]
        /\ result[r] = "exhausted" /\ ~Stopped(r) => RecordedOutcome(r) = "none"

(* Once the records say how a run ended, no resume, crash or other run     *)
(* makes them say something else.                                          *)
OutcomeIsFinal ==
    [][\A r \in Run : RecordedOutcome(r) # "none" =>
          RecordedOutcome(r)' = RecordedOutcome(r)]_runsVars

(* A run that died is resumed: what Project.runs lists, and _start refuses *)
(* to start again with "already exists; resume it instead", can be loaded. *)
ListedRunsResume == \A r \in Run : At("down") /\ Listed(r) => Loadable(r)
=============================================================================
