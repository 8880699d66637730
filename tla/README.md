# A TLA+ verification of Warranted

Warranted (`src/warranted`) lets a language-model worker act in a contained
shell while a trusted host records what happened, charges it to budgets and
accepts work only on recorded checks. One process writes a project at a time
(`docs/reference/cli.md`, `docs/reference/evidence-ledger.md`). What is hard
about it is therefore not parallelism but *dying*: every component is written
so that a host killed between any two transactions can be restarted and will
neither repeat an effect, nor lose a charge, nor decide differently. These
specifications model that, module by module, and state what each component
promises whatever is killed, lost, delayed or resumed.

## The system

| Component | State it keeps | Operations | Hard because |
| --- | --- | --- | --- |
| Evidence ledger (`_ledger.py`) | sessions, scopes with caps, observations, operations (reservation, dispatch marker, completion), artifact files | `create`, `open`, `start_session`, `open_scope`, `record`, `reserve`, `begin`, `complete` | budgets at three levels; unknown and breached operations block; files and rows are committed separately |
| Worker episode (`_worker.py`) | nothing of its own: a journal replayed from the ledger, and a checkpoint in another database | `run_workflow`, `Journal.call`, `record_once` | replay after a crash; late answers; two databases |
| Receipt service (`_attempts.py`) | receipts of executed model attempts | dispatch, read | lost and late messages, attempts that can never be settled |
| Host operations (`_operations.py`) | captured inputs, reuses, refusals, operations | `Requests.__call__`, `reconcile_operation` | batches replayed while other runs go on |
| Acceptance (`_acceptance.py`) | exceptions and decisions, named by their content | `record_exception`, `accept` | stale receipts and exceptions, breaches after the fact |
| Task layer, runs (`_tasks.py`) | specification, policy, submissions, guard decisions, check operations | `start`, `resume`, `status`, `runs` | a chain of recorded steps that each resume walks again |
| Duplicate guard (`_guard.py`) | recorded decisions | `verdict` | windows, versions |
| Campaigns, memory, revisions (`_tasks.py`) | plans, snapshots, revisions | `plan_campaign`, `run_campaign`, `revise`, `memory` | pinned plans, splits |
| Claims (`_claims.py`) | claims and validations | `record`, `assess` | staleness over a graph |
| Exports (`_exports.py`, `Project.export`) | a directory that is a copy | `export_evidence` | killed half-way; what a record's inputs give away |
| Containment, jobs (`_sandbox.py`, `_containers.py`, `_jobs.py`) | a container per episode or job | prepare, execute, capture, deliver, close | clients that fail, are cut off, or go on after their host; a worker that goes on while it is captured |
| Model adapters (`_chat_completions.py`, `_litellm.py`, `_openrouter.py`) | a recorded preflight | one attempt | what to charge when the answer does not say; keys and models that change under way |
| Lean verification (`_proofs.py`, `_proof_checks.py`, `_proof_receipts.py`, `proof/`) | proof receipts, a container | `check`, `verify` | whom to blame for a timeout |
| Contexts (`_contexts.py`), command line (`_cli.py`) | none | - | - |

How they meet: everything above the ledger writes through it. An episode, a
host operation, a check and a decision are all *operations*: reserved, then
dispatched (`begin` commits a marker before anything is done), then completed.
An operation dispatched and not completed is *unknown*; it blocks its scope,
or, in the root scope, every scope, until it is settled from evidence. A run
has a scope of its own; shared host operations and checkers of shared state use
the root. `resume` starts at the first submission and replays: whatever is
recorded is read back and the first thing that is not is done.

## Modules

| Module | Models | Extends |
| --- | --- | --- |
| `Sums` | totals of a charge over operations, of sizes over memory entries | |
| `Ledger` | `Ledger`, one action per method, each one transaction | `Sums` |
| `Artifacts` | the inside of `record`/`complete`: from input checks over file publication to commit | |
| `Exports` | `Project.export`, `export_evidence` over those rows and files | `Artifacts` |
| `Records` | `record_once` and the blocking test over the ledger | `Ledger` |
| `Attempts` | abstract: what a caller may rely on when the host acts outside the ledger | |
| `Episode` | `run_workflow`, `Journal`, the checkpoint and a receipt service | `Records`; implements `Attempts` |
| `HostOperations` | `Requests` and `reconcile_operation` | `Records`; implements `Attempts` |
| `Acceptance` | `Acceptance` over an abstract ledger | |
| `Runs` | `Project._start`, `resume`, `_guard`, `_run_check`, `_assess`, `status`, `runs` | |
| `Campaigns` | `Project.revise`, `plan_campaign`, `run_campaign`, `memory`, `_snapshot`, over runs reduced to facts and decisions | `Sums` |
| `Claims` | `Claims.record`, `assess`, and `Proofs.check` with its receipts | |
| `Boundary` | the host process of one submission and what the ledger holds of its attempts | |
| `Sandbox` | the worker's container: `Sandbox`, the podman client, the programs inside | `Boundary` |
| `Adapters` | the three model adapters | `Boundary` |
| `Verifier` | `LeanProof`, `_proofs._verify`, the supervisor, checker jobs, `_run_check` | `Boundary` |
| `Submission` | the episode loop in the container's `with` block of `resume`, and its check | `Sandbox`, `Adapters`, `Verifier` |
| `LedgerProofs`, `EpisodeProofs`, `HostOperationsProofs`, `AcceptanceProofs`, `ClaimsProofs`, `CampaignsProofs`, `SubmissionProofs` | theorems about the module they are named for | that module; those about episodes and host operations also `LedgerProofs` |
| `ProjectProofs` | theorems about a project's runs and about its rows, files and exports | `Runs`, `Exports` |

`Episode` and `HostOperations` compose with the ledger itself: their actions
are conjunctions of a ledger action and a host step. `Runs` takes what those
modules establish for granted: an episode is the state of its last operation
and how it ended. `Submission` goes the other way: it takes from `Attempts`
that an attempt begins before it is sent and settles once, reduces the ledger
to that, and composes the three boundaries around it.

### Attempts and its refinements

`Attempts` has four steps for an attempt: `Reserve`, `Dispatch` (nothing in
doubt in its scope or the root), `Perform` (outside, once) and `Settle` (as what
it came to, or, where nothing is left outside the host, as lost). There are no
crashes, no messages, no replay. `Episode` and `HostOperations` instantiate it
(`Abstract`): `phase` and `settlement` are read off the ledger (`Phase`,
`Settlement` in `Records`), `performed` and `answer` off what the service
executed or the executions. `ImplementsAttempts` is its specification, checked as a
property. It replaces the separate statements that nothing is performed twice,
that a completion is what the service answered, and that effects are settled by
receipts only.

### Ledger

A row is an entry of a function from operation ids: `operations` (request,
reservation, scope, session), `dispatched`, `completions` (result and the
number of the observation); `history` is the sequence of observations. Requests
have an id and a body, so that "same id, different request" (`_lookup`) is a
case. A charge is the reservation until completion, the recorded usage after
(`_accounting`); a completion breaches when it uses more than was reserved.
`Reserve`, `Begin` and `Complete` have the guards of the code: known session
and scope, units declared, budget of the project and of the scope, nothing
unknown in the scope or the root, no breach there, no project total exceeded.
A call whose guard fails raises and rolls back, which is a stuttering step.

### Artifacts

A call is `CheckOrigin`, `CheckKnown`, then for each channel `Reuse` or
`WriteTemporary` and `Link`, then `Commit`; `Rollback` is an exception or a
kill at any point, after which published files stay. Two connections
interleave; SQLite's rollback journal lets a transaction commit only when no
other holds its read lock (`Alone`). `Damage` is somebody else removing or
altering a file. A digest is the bytes it is the digest of.

### Exports

`SelectEvidence` puts the view together and makes the directory;
`CopyArtifact` reads and verifies one file; `PublishIndex` renames the index
into place; `AbandonExport` is an exception, after which the directory is
removed, or a kill, after which it stays. `export.names` is what the index says,
the names of inputs included. Calls of `Artifacts` and damage go on meanwhile.

### Episode

A host has a program counter for each point between two transactions. An
attempt is named by its number in the replay; the service executes a request
at most once per delivery and answers; the network loses requests (`Lose`) and
a killed host leaves the answer with the service. `answers` holds what every
executed request came to; `Receipts` are those of them that can still be had,
which are the model attempts' (`Receipted`): `ReceiptService.reconcile` returns
`None` for any other kind. So a tool attempt whose host died stays unknown and
blocks its scope for good (`AbandonedStays`). A lookup that fails ends the
resume (`ReceiptUnread`).
`SaveCheckpoint` and the ledger are separate databases, so a crash separates
them.

### HostOperations

One batch per run, items in order, each named by operation and arguments (the
key). `views` collects every observation a worker was ever given for an item:
replay is deterministic if it stays a singleton. An execution has any outcome
and usage; an exception leaves the operation unknown.

### Acceptance

Exceptions and decisions are named by a digest of their content, so the
content is the key of `entries`. A revision stands for the policy and the check
requests the host's resolver returns. Callers cite any receipt or exception.

### Runs

Two levels: the records (`started`, `episode`, `candidate`, `guard`, `target`,
`check`, `decision`, `overrun`) and the process (`host`), which a crash clears.
`result` is what the last resume to end returned; `RecordedOutcome` is the
read-only `status`. Budgets of attempts are reduced to the choice of a
recorded overrun, check units are counted.

### Campaigns

One process: idle, or working through a plan, or starting, resuming or running
a run. `Contracts` gives the files of each task for every number of recorded
revisions and every submission (the schedule), so "same digest" is equality of
contracts. `memory` is the sequence of memory entries in the order `_memory`
captured them, which is the order `_snapshot` reads backwards until its limit;
`Remembered` goes through the runs, `Sources` through a run's submissions, and
`Record` adds what is not there yet.
A run records its contract, the number of revisions there were, its campaign,
split and one snapshot per submission; after that only decisions are added. A
start is three steps, so a crash may leave a run without its policy, and then
`MemoryReadable` is false for every later start of a task with memory.
A plan is compared by contract and a resume by the number of revisions, as in
the code: a revision that leaves a task's bytes as they were refuses the open
runs of a campaign and not the campaign.

### Claims

A claim is a place in the history, as an evidence name contains the sequence
number; `host` tells the host's captures from copies by other producers. A
draft is everything of a claim but its parents, which are any earlier claims.
Two requests may share an operation id. `Assess` is a recursive function over
the history, like the memoised `visit`. `Proofs.check` is reserve, begin, the
verifier's run and the record, with a crash possible between any two;
`attempts` and `reported` are history variables about the verifier.

### Submission: Boundary, Sandbox, Adapters, Verifier

`host.at` is the place the host process is in, one for each client it starts;
`host.then` is where it goes once `close` is through, as `close` is called from
the end of a submission, from a failure, and from `__exit__`. `box` is the
container, `delivering` the delivery processes in it, and `strays` the orders of
clients whose host was killed, which may still be carried out. A file is
the number of the change last made to the workspace, so the parts of a candidate
agree exactly if they were read at one moment. Each client fails, is cut off, or
returns; an order that fails may have been carried out all the same.

`Adapters` follows each adapter's `__call__` in order. Every look at a key,
an installed model or a provider's metadata may find anything, as they can
change at any time. `adapter.bounded` is `token_bounded`. `sends` records what
reached the provider and what it used, whatever the reply says. litellm catches
whatever its library raises, before the request leaves or after, and settles it
as a failure charged the whole reservation (`LibraryFails`).

`Verifier` fixes what a submission deserves when its check begins (`facts`)
and lets every client on the way fail or be cut off. A source that does not
build or export is decided `unproved` by `Verify.lean` itself, one that builds
and does not match, uses an illegal axiom or fails the kernel is `rejected`, and
trouble with the challenge is an infrastructure failure (`Decisions`); the host
takes a well-formed decision as it is and anything else as `unsupported`
(`Validated`). A job's container has no
name and ends by itself (`ContainerExpires`); the verifier's is removed, or
`verify` raises.

## What the runs check

| Run | Bounds | What it shows |
| --- | --- | --- |
| `ledger` | 3 operations, 2 scopes and the root, 1 plain capture | `WithinBudgets`: balances of the project and of each scope exceed limits by recorded overruns only. `DoubtAndBreachStop`: a scope stops at the first operation in doubt and at the first breach, pending reservations included. `RowsLoad`: what is committed can be loaded |
| `artifacts` | 2 connections, 2 byte strings, 2 channels (one disclosed), 2 rows, 1 export of both, 1 damaged file, symmetric connections | `CommittedBytesExist`, `NeverRepaired`; `IndexMeansComplete`: an index names exactly the bytes that are there; `DisclosesShown`: neither bytes nor names of what was not selected |
| `episode` | 2 episodes (one in the root scope), 2 steps, 1 crash | `ImplementsAttempts`, `ReplayNeverConflicts`, `FinishedIsFinal`; `AbandonedStays`: a tool attempt nobody waits for is never settled, resent or waited for again; `EveryEpisodeSettles` under the fairness below; and that the host is never stuck (deadlock) |
| `host_operations` | 2 runs, 5 items, 2 crashes, allowance for two computations | `ImplementsAttempts`, `ReplayIsExact`, `ReuseIsMeasured`, `RefusalEndsBatch` |
| `host_operations_status` | the same | a violation: see Findings |
| `acceptance` | 1 target, 2 revisions, a gate and a rule, 2 recorded exceptions or decisions | `AcceptedIsJustified`, `BreachBlocksAcceptance` |
| `runs` | 2 guarded runs: 3 submissions of two near candidates, and 2 submissions under a contract revised in between; 2 checks (one of shared state), all verdicts | `CheckedOnce`, `AcceptedIsEarned`, `FeedbackAvailable`, `StatusIsTheResult`, `RefusalsAreRepeats`, `LoopsAreCut`, `OutcomeIsFinal` |
| `runs_start` | as `runs` | a violation: see Findings |
| `campaigns` | 2 campaigns (one of 2 repetitions that may be planned in either split), 2 tasks in one scope, a scheduled and a project revision, memory for one entry, one planned id used outside | `SplitsStayApart`, `OneSplit`, `ShownFactsHold`, `RunsMatchThePlan`, `WorkUnderCurrentContract` |
| `claims` | 3 captures of 5 drafts with any parents, 2 requests under one id, 1 proof, 1 proof unit | `SupportMatchesAncestry` for every assignment of current versions, `PassedIsEarned`, `OneAttemptPerUnit` |
| `submission` | 2 steps, 2 sessions (so one crash anywhere, or one resume), 1 change by the worker, all adapters, ordinary and oversized answers, every proof and job | `KnownIsStopped`, `CandidateIsWhole`, `CommandsInOrder` (container); `ChargedAsSent`, `DispatchIsPinned` (adapters); `VerdictIsDeserved` (check); `EverySessionEnds` under the fairness below |
| `submission_outcome` | the same, one session | a violation: see Findings |

Why these bounds are enough to be interesting: three operations are what it
takes for one to breach, one to be pending across the breach and one to be
refused. Two crashes interrupt a resume of an interrupted batch; `episode` has
one, which keeps its liveness check short, as its safety and its refinement are
proved for any number. Two runs are
what blocking through the root needs. Three submissions of two candidates are
an exact loop with one repeat allowed, and a second contract version is what the
guard must not look across. Two steps of an episode put a delivery between two
commands and a failed step before a submission; the safety properties of
`submission` also hold with three sessions, which takes longer. Three claims make a
chain with a grandparent; three runs in one scope let a fact travel twice and
overflow the memory limit.
Records only grow, so `Runs`, `Campaigns` and `Claims` need
no bound on crashes. Each property has a mutant, a plausible slip in the code, under which
the run finds it violated; the mutants stand before the definitions they
replace.

Deadlock is not checked where the system may simply stop: a ledger nobody
calls, calls that have all failed, bounded entries used up, runs that cannot
be started or resumed (see Findings), a submission whose sessions are used up.
`Episode` and `HostOperations` never stop and are checked for deadlock.

### Fairness

`EveryEpisodeSettles` assumes weak fairness of the host's own steps (a running
process goes on), strong fairness of resuming each episode (its owner resumes
it again as long as it is not finished), weak fairness of the service executing
what it received, and strong fairness of looking up a receipt that is there:
lookups may fail (`ReceiptUnread`) again and again, but not forever. It does not
assume that requests arrive, that hosts survive (up to the bound on crashes) or
that attempts succeed: an episode settles by finishing, or stays stopped by an
operation no receipt can settle (a lost request, an abandoned tool attempt), by
a recorded failure, or by a budget that is used up.

`EverySessionEnds` assumes weak fairness of the host's steps only. Nothing is
assumed of commands, deliveries, verifiers or podman: what ends a wait is the
client's deadline (`_run`), a step of the host itself.

## What is proved

TLAPS proves every safety invariant and every action property that the passing
runs check, and both refinements of `Attempts`, for every value of the
constants that the modules' assumptions allow: any operations, scopes,
allowances, episodes, batches, policies, runs, contracts, claims, campaigns,
steps, sessions, connections and crashes. The bounds of a model are constants
too, so the theorems hold for any of them.

Every theorem has the same argument. A property is seldom inductive; what makes
it so is a statement, about every place the process can be in, of how far the
records have come and what the process may rely on there. The invariant of a
module joins that to the properties, and one lemma per action shows that the
action keeps it. For the modules that compose others, the properties of a part
are lemmas about its actions alone, and the composition only adds that a step
of one part leaves the invariants of the others alone.

**Ledger** (`LedgerProofs`: `TypeCorrect`, `BudgetsHold`, `RowsAlwaysLoad`,
`ScopesStop`, `RowsAreWrittenOnce`). `LedgerInv` joins `TypeOK`, the two budget
bounds, `RowsLoad` and the blocking invariants. The bounds are not statements
about one guard: `Complete` may raise a charge beyond the reservation, and the
overrun recorded in that row balances it, so they are stated as *total charge
<= limit + total overrun* and need to know how a total changes when one
operation's charge does. The lemmas on `Total` prove that from the library's
facts on finite sets: a total is the cardinality of a set of tokens,
`TotalSplit` takes one operation out of it and `TotalUpdate` compares two
charges that differ at one. `TypeCorrect` and
`RowsAreWrittenOnce` (`WriteOnce`: no session, scope, reservation, dispatch
marker, completion or observation is changed or removed) are proved only; no run
repeats them.

**Episodes** (`EpisodeProofs`: `EpisodesUseTheLedger`, `ReplaysDoNotConflict`,
`FinishedStaysFinal`, `AbandonedAttemptsStay`, `EpisodesImplementAttempts`). Every step is a ledger step
or leaves the ledger alone, so `LedgerInv` comes for free. `EpisodeInv` adds
that a capture under an attempt is a replay that leads to just that attempt
(`CapturesAreReplays`), that the running host's replay agrees with every capture
as far as both go (`HostReplays`), that requests and answers are of dispatched
operations, one or the other (`WorldMatches`), and that a finished record and
the checkpoint mean there is nothing left to settle (`FinishedMatches`). That
two replays of one episode agree rests on a replay being determined by the
completions, which never change. An abandoned attempt stays one because only the
host that sent it can settle it without a receipt, and no host goes back to an
attempt that is dispatched (`AbandonedStep`). The refinement is proved step by step: each
host or service step is the step of `Attempts` that its mapping names, or
leaves the abstract variables alone.

**Host operations** (`HostOperationsProofs`: `OperationsUseTheLedger`,
`ReplaysAreExact`, `ReusesAreMeasured`, `RefusalsEndBatches`,
`OperationsImplementAttempts`). `OperationsInv`: an item has one answer, a
completion or one reuse or one refusal (`OneAnswer`), items are answered in
order and nothing is touched after a refusal (`InOrder`), the running host is
past answered items only (`Progress`), and every view ever shown is of the
recorded answer (`ViewsMatch`), from which exact replay follows.

**Acceptance** (`AcceptanceProofs`: `AcceptancesAreJustified`, `BreachBlocks`).
`AcceptanceInv`: an entry that accepts is justified from the moment it is
computed, which persists because receipts and completed exceptions do, and no
call is under way in a breached scope.

**Runs and exports** (`ProjectProofs`). Runs: `ChecksRunOnce`,
`AcceptancesAreEarned`, `FeedbackIsAvailable`, `StatusMatchesResult`,
`RefusalsRepeat`, `LoopsEnd`, `OutcomesAreFinal`. `RunsInv` says in which order
one submission is recorded (`Staged`), that a worker starts again only after
refusals and rejections (`InSequence`), what the guard found when it decided
(`GuardFound`), and where the process is in all that (`HostOK`). `LoopsEnd`
has the hypothesis of `LoopsAreCut` that the guard's window is at least as long
as the repeats it allows. `DuplicateGuard` does not require that; with a
shorter window it never counts enough exact repeats. Exports: `CommittedBytesAreThere`,
`MissingBytesStayMissing`, `IndexIsComplete`, `NothingElseDisclosed`. The
invariant of calls says that what a call has published is on disk and that
cited bytes it found were whole when it looked; the invariant of exports, that
the copies made so far are of the names the index will have.

**Claims** (`ClaimsProofs`: `PassesAreEarned`, `AttemptsAreBought`,
`SupportIsConservative`). `ClaimsInv` ties attempts, reports and operations to
the place `Proofs.check` is in, and the reserved units to the proof requests
held. `SupportMatchesAncestry` compares two recursive functions. As the prover
has no induction on data, it is proved by the least counterexample: parents come
earlier in the history, so a least claim at which the two differ would have
parents at which they agree.

**Campaigns and memory** (`CampaignsProofs`: `CampaignsInvariant`,
`SplitsArePinned`, `CampaignsMakeTheirRuns`, `WorkIsCurrent`,
`ShownFactsAreSound`, `HeldOutStaysApart`). `CampaignsInv`: memory holds what
listed runs recorded (`MemoryOK`), a snapshot holds accepted facts of its own
split, within the limit and applicable (`SnapshotsOK`), a pinned plan has the
rows of a specification (`PlansOK`), and while the process works through a
campaign its plan is what would be planned now, and the run it makes is the
one of its entry (`HostOK`). Here reading memory, cutting a snapshot and a
lineage are recursive functions over `0..N`. `Iteration` proves that such a
function exists, which the recursive definition alone does not give, and `Climb`
proves what its values have in common, by "no least counterexample"
(`Smallest`). `HeldOutStaysApart` climbs a lineage: what one snapshot may show
bounds chains of any length.

**Submission** (`SubmissionProofs`: `SubmissionInvariant`, `StoppedIsGone`,
`CandidatesAreWhole`, `CommandsRunInOrder`, `ChargesAreAsSent`,
`DispatchesArePinned`, `VerdictsAreDeserved`). `SubmissionInv` is `TypeOK` and
one invariant per part. `SandboxInv` is the hard one. What a killed host leaves
is an order that may still be carried out, so "recorded as stopped" can only
mean "gone" because an attempt in doubt blocks all later ones: orders that start
a container exist only while the attempt they belong to is unknown, and nothing
settles it before they are dealt with. `AdapterInv` says for each place in an
adapter what was preflighted and sent, and of what is settled that only a failed
litellm call is charged without a send; `VerifierInv`, what is known of the
submission at each place of its check.

The assumptions are the named `ASSUME`s of the modules, each of which says what
the code validates or how it names things (finite sets of ids, natural
allowances, the root no run's scope, record ids that exist, one split per scope
within a campaign, a task with at least one submission, a campaign with rows and
1 to 1000 repetitions). TLC evaluates them on every run.

The models are written so that they can be reasoned about: recursion only as
functions over finite domains (`Ancestry`, `Remembered`, `Snapshot`,
`Lineage`), selections as filtered sets, named index sets (`Slots`, `Items`).
One slip came to light in that: four `CASE`s in `Adapters`, `Verifier`,
`Submission` and `Claims` had alternatives that overlap, so that their value was
TLC's choice of the first one and undetermined in a proof; they are conditionals
now.

Only model-checked:

- liveness, `EveryEpisodeSettles` and `EverySessionEnds`, which rest on fairness
  and so on `ENABLED`, which the prover does not handle, and the absence of
  deadlock;
- the three violations below, which are counterexamples.

## Findings

1. `Project._ended_without_submission` takes any failed operation of an episode
   for its end, host operations included, though its docstring promises `None`
   for "An episode still in progress". A host operation that fails is shown to
   the worker, who goes on and may well be accepted. Until then `status` reports
   an infrastructure failure and a campaign leaves the run alone. Run
   `host_operations_status`.
2. `Project._start` records a run's specification and its policy in two
   transactions. Killed in between, the run is listed and cannot be started
   ("already exists; resume it instead") nor loaded ("unknown run"); a campaign
   that planned it raises each time it is rerun, and `_memory`, which loads
   every listed run, raises for every later start of a task with memory. Run
   `runs_start`.
3. `Project._failed_attempt` explains why an episode stopped by the completed
   operations under its prefix, its host operations included, though its
   docstring speaks of model and tool attempts and says of anything else that it
   "is a host error and is re-raised". So a host operation that failed, which
   the worker was told of and survived, turns a later failed model attempt or a
   raised host error into an infrastructure failure of the run. Run
   `submission_outcome`.

## Not modelled

- Concurrent writers: the repository excludes them. `record_once` is one step
  for that reason.
- Contracts as data: how a task's files and checks follow from its revisions
  (`TaskSpec.contract`, `_Run.files`) and the loading of TOML tasks. `Runs` and
  `Campaigns` take the contract of each submission as a constant.
- Imports, the command line and `_contexts`: reading and validation before a
  single ledger call, or a choice of recorded evidence; no state of their own.
- Formats and transport: JSON, digests, prompts, HTTP and TLS, and what litellm
  does between a request and a response, are the values they come to.
- What Podman's flags, seccomp and Landlock guarantee, and what Lean finds of a
  source: both belong to others. `Isolate` may fail, and is otherwise trusted.
- An interrupt between `os.replace` and the return of `export_evidence`, which
  would remove a directory that has its index; it takes an asynchronous
  exception in one instant and a kill in the next.
- The capture of an unfinished episode, which only an example asks for
  (`examples/m5/diagnostics.py`), and the examples themselves.

## Plan

1. *(done)* Ledger and its proofs; artifact publication; episodes; host
   operations; acceptance; runs and the duplicate guard.
2. *(done)* `Campaigns` with revisions and scoped memory; `Claims` with proof
   receipts.
3. *(done)* `Attempts`, implemented by `Episode` and `HostOperations`;
   `Exports`; `Sandbox`, `Adapters` and `Verifier`, composed in `Submission`.
4. *(done)* Proofs of every safety invariant and action property the runs
   check, and of both refinements of `Attempts`.
5. Left: what the composition of `Submission` assumes of attempts (`Attempts`)
   stated as a refinement of its own, so that the theorems of `EpisodeProofs`
   and `SubmissionProofs` join; `Runs` over the ledger in the same way.
