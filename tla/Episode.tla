------------------------------ MODULE Episode -------------------------------
(***************************************************************************)
(* One host process running worker episodes over the ledger               *)
(* (src/warranted/_worker.py: run_workflow, Journal, record_once), with    *)
(* crashes, restarts, lost requests, late answers and reconciliation       *)
(* (src/warranted/_attempts.py: ReceiptService).                           *)
(*                                                                         *)
(* "One process at a time may write a project" (docs/reference/cli.md), so *)
(* there is one host; it may die between any two ledger transactions, and  *)
(* whoever restarts it chooses which episode it resumes.                   *)
(*                                                                         *)
(* An episode alternates model attempts and tool attempts.  What the agent *)
(* does next is a function of the raw results it has seen, and on a resume *)
(* it is run again from the start: completed attempts answer from the      *)
(* ledger.  The body of a request is the sequence of results the attempt   *)
(* was computed from, so a replay that saw anything else shows as a        *)
(* different request.                                                      *)
(*                                                                         *)
(* An attempt cut short by a crash is settled later only from a receipt,   *)
(* and only some boundaries keep receipts: the service of ReceiptService   *)
(* keeps one of every model attempt it executed; nothing keeps one of a    *)
(* tool attempt, whose reply only the host that waits for it can record.   *)
(***************************************************************************)
EXTENDS Records

CONSTANTS
    Episodes,       \* episode ids
    ScopeOf,        \* the scope each episode runs in
    MaxSteps,       \* Episode.max_steps: model attempts of one episode
    Receipted,      \* the kinds of attempts whose service keeps receipts
    MaxCrashes      \* bound on how often the host is killed

VARIABLES
    host,           \* the process: program counter and volatile state
    checkpoint,     \* LangGraph's checkpoint database, per episode
    wire,           \* dispatched requests that may still reach the service
    answers,        \* what each executed request came to
    effects,        \* how often the service executed each operation
    crashes

worldVars == <<wire, answers, effects>>
ledgerVars == vars
episodeVars == <<vars, host, checkpoint, worldVars, crashes>>

-----------------------------------------------------------------------------
(* The agent: what the results seen so far lead to.                        *)

ModelRaw == {"command", "malformed"}
ToolRaw == {"output", "submit"}
Failure == "error"      \* the raw evidence of an infrastructure failure

(* How many of the seen results are in a set. *)
CountIn(seen, S) == Cardinality({i \in DOMAIN seen : seen[i] \in S})

(* A command is executed; anything else goes back to the model. *)
Kind(seen) ==
    IF seen # <<>> /\ seen[Len(seen)] = "command" THEN "tool" ELSE "model"

(* Mutant of Attempt: the index is never increased. *)
AttemptOneSlot(e, seen) == <<e, Kind(seen), 1>>

(* The stable slot of the next attempt: kind and index within the kind. *)
Attempt(e, seen) ==
    IF Kind(seen) = "tool" THEN <<e, "tool", CountIn(seen, ToolRaw) + 1>>
    ELSE <<e, "model", CountIn(seen, ModelRaw) + 1>>

(* The agent stops on a submission or at its step limit. *)
Ended(seen) ==
    /\ seen # <<>>
    /\ \/ seen[Len(seen)] = "submit"
       \/ Kind(seen) = "model" /\ CountIn(seen, ModelRaw) >= MaxSteps

(* The slots there are: an attempt of an episode that is within its limit. *)
Slots == Episodes \X {"model", "tool"} \X (1..MaxSteps)

AttemptRequest(e, seen) == [id |-> Attempt(e, seen), body |-> seen]
AttemptReservation(e, seen) == [k \in {Kind(seen)} |-> 1]

EpisodeRecord(e) == <<e, "episode">>
FinishedRecord(e) == <<e, "finished">>
RequestRecord(o) == <<o, "request">>

(* The ledger's constants have room for what an episode asks of it: its    *)
(* ids, its requests, its evidence and one unit of each kind.              *)
ASSUME EpisodeAssumption ==
    /\ MaxSteps \in Nat \ {0}
    /\ Receipted \subseteq {"model"}
    /\ ScopeOf \in [Episodes -> Scopes \cup {Root}]
    /\ Slots \subseteq OpIds
    /\ \A e \in Episodes : {EpisodeRecord(e), FinishedRecord(e)} \subseteq RecordIds
    /\ \A o \in Slots : RequestRecord(o) \in RecordIds
    /\ \A n \in 0..(2 * MaxSteps) : [1..n -> ModelRaw \cup ToolRaw] \subseteq Bodies
    /\ ModelRaw \cup ToolRaw \cup {Failure} \subseteq Raw
    /\ \A k \in {"model", "tool"} : [u \in {k} |-> 1] \in Reservations

-----------------------------------------------------------------------------
Down == [pc |-> "down", episode |-> "none", seen |-> <<>>, todo |-> {}]

EpisodeInit ==
    /\ Init
    /\ host = Down
    /\ checkpoint = [e \in Episodes |-> "none"]
    /\ wire = {}
    /\ answers = [o \in {} |-> {}]
    /\ effects = [o \in OpIds |-> 0]
    /\ crashes = 0

At(pc) == host.pc = pc
GoTo(pc) == host' = [host EXCEPT !.pc = pc]
Stop == host' = Down
Scope == ScopeOf[host.episode]

(* Opening the ledger starts a session; an episode's scope is recorded     *)
(* before it runs.                                                         *)
OpenRun(e) ==
    /\ At("down")
    /\ ScopeOf[e] # Root
    /\ \E s \in Sessions, caps \in CapChoices : OpenScope(s, ScopeOf[e], caps)
    /\ UNCHANGED <<host, checkpoint, worldVars, crashes>>

NewSession ==
    /\ At("down")
    /\ \E s \in Sessions : StartSession(s)
    /\ UNCHANGED <<host, checkpoint, worldVars, crashes>>

(* run_workflow starts by listing what is unresolved in its own scope and  *)
(* in the root.                                                            *)
Resume(e) ==
    /\ At("down")
    /\ sessions # {}
    /\ KnownScope(ScopeOf[e])
    /\ host' = [pc |-> "reconcile", episode |-> e, seen |-> <<>>,
                todo |-> {o \in DOMAIN operations : BlockedBy(o, ScopeOf[e])}]
    /\ UNCHANGED <<vars, checkpoint, worldVars, crashes>>

(* Mutant of Reconcile: a receipt that is there is not used. *)
ReconcileSkip(o) ==
    /\ At("reconcile") /\ o \in host.todo
    /\ host' = [host EXCEPT !.todo = @ \ {o}]
    /\ UNCHANGED <<vars, checkpoint, worldVars, crashes>>

(* Mutant of Receipts: a tool attempt is taken to have one, too. *)
ReceiptsOfAll == DOMAIN answers

(* The receipts that can be had, after whatever crashes: reconcile returns *)
(* None for a kind its service keeps none of.                              *)
Receipts == {o \in DOMAIN answers : o[2] \in Receipted}

(* Ask for the receipt of one unresolved operation, and settle it if there *)
(* is one; asking never executes anything.                                 *)
Reconcile(o) ==
    /\ At("reconcile") /\ o \in host.todo
    /\ IF o \in Receipts
       THEN \E s \in sessions :
              Complete(s, operations[o].request, answers[o].result,
                       answers[o].raw)
       ELSE UNCHANGED vars
    /\ host' = [host EXCEPT !.todo = @ \ {o}]
    /\ UNCHANGED <<checkpoint, worldVars, crashes>>

(* The service cannot be asked: any error but a 404 ends the resume. *)
ReceiptUnread ==
    /\ At("reconcile")
    /\ \E o \in host.todo : o[2] \in Receipted
    /\ Stop
    /\ UNCHANGED <<vars, checkpoint, worldVars, crashes>>

(* unresolved(): what could not be settled refuses the episode. *)
Refused ==
    /\ At("reconcile") /\ host.todo = {}
    /\ ~Unblocked(Scope)
    /\ Stop
    /\ UNCHANGED <<vars, checkpoint, worldVars, crashes>>

(* Journal.__init__ records the episode's specification once. *)
OpenJournal ==
    /\ At("reconcile") /\ host.todo = {}
    /\ Unblocked(Scope)
    /\ \E s \in sessions :
          RecordOnce(s, EpisodeRecord(host.episode), <<>>, "command")
    /\ GoTo("invoke")
    /\ UNCHANGED <<checkpoint, worldVars, crashes>>

(* app.invoke: with no checkpoint the input is checkpointed first; a       *)
(* checkpoint of a finished graph is not run again.                        *)
Invoke ==
    /\ At("invoke")
    /\ IF checkpoint[host.episode] = "done"
       THEN GoTo("return") /\ UNCHANGED checkpoint
       ELSE /\ checkpoint' = [checkpoint EXCEPT ![host.episode] = "input"]
            /\ GoTo("work")
    /\ UNCHANGED <<vars, worldVars, crashes>>

(* The node work: a finished receipt in the ledger is all there is to do. *)
Work ==
    /\ At("work")
    /\ Unblocked(Scope)
    /\ GoTo(IF Recorded(FinishedRecord(host.episode)) THEN "checkpoint"
            ELSE "attempt")
    /\ UNCHANGED <<vars, checkpoint, worldVars, crashes>>

(* Journal.call, up to the reservation: capture the exact request first. *)
CaptureRequest ==
    /\ At("attempt") /\ ~Ended(host.seen)
    /\ \E s \in sessions :
          RecordOnce(s, RequestRecord(Attempt(host.episode, host.seen)),
                     host.seen, "command")
    /\ GoTo("reserve")
    /\ UNCHANGED <<checkpoint, worldVars, crashes>>

(* reserve: a new row, or the stored row of the identical request. *)
ReserveAttempt ==
    LET request == AttemptRequest(host.episode, host.seen)
        reservation == AttemptReservation(host.episode, host.seen)
    IN  /\ At("reserve")
        /\ IF Reserved(request.id)
           THEN Names(request) /\ UNCHANGED vars
           ELSE \E s \in sessions : Reserve(s, request, reservation, Scope)
        /\ GoTo(IF Completed(request.id) THEN "observe" ELSE "begin")
        /\ UNCHANGED <<checkpoint, worldVars, crashes>>

(* BudgetExceeded, from reserve or from begin, ends the call. *)
BudgetExceeded ==
    LET request == AttemptRequest(host.episode, host.seen)
        reservation == AttemptReservation(host.episode, host.seen)
    IN  /\ \/ /\ At("reserve") /\ ~Reserved(request.id)
              /\ ~(CheckBudget(Scope) /\ Fits(reservation, Scope))
           \/ At("begin") /\ ~CheckBudget(Scope)
        /\ Stop
        /\ UNCHANGED <<vars, checkpoint, worldVars, crashes>>

(* Mutant of BeginAttempt: the dispatch marker is not committed first. *)
BeginNothing ==
    /\ At("begin")
    /\ GoTo("send")
    /\ UNCHANGED <<vars, checkpoint, worldVars, crashes>>

BeginAttempt ==
    /\ At("begin")
    /\ \E s \in sessions : Begin(s, AttemptRequest(host.episode, host.seen))
    /\ GoTo("send")
    /\ UNCHANGED <<checkpoint, worldVars, crashes>>

(* The boundary is called: the request leaves the process. *)
Send ==
    /\ At("send")
    /\ wire' = wire \cup {Attempt(host.episode, host.seen)}
    /\ GoTo("wait")
    /\ UNCHANGED <<vars, checkpoint, answers, effects, crashes>>

(* The reply reaches the host that waits for it, and complete settles the  *)
(* attempt.                                                                *)
CompleteAttempt ==
    LET o == Attempt(host.episode, host.seen)
    IN  /\ At("wait") /\ o \in DOMAIN answers
        /\ \E s \in sessions :
              Complete(s, AttemptRequest(host.episode, host.seen),
                       answers[o].result, answers[o].raw)
        /\ GoTo("observe")
        /\ UNCHANGED <<checkpoint, worldVars, crashes>>

(* The boundary raises: "Exceptions leave the dispatch unknown and its     *)
(* reservation intact."                                                    *)
BoundaryRaises ==
    /\ At("wait")
    /\ Stop
    /\ UNCHANGED <<vars, checkpoint, worldVars, crashes>>

(* The agent sees the recorded result.  A failed attempt raises, now and   *)
(* on every later resume.                                                  *)
Observe ==
    LET o == Attempt(host.episode, host.seen)
        raw == history[completions[o].sequence].raw
    IN  /\ At("observe")
        /\ IF completions[o].result.outcome # "succeeded" THEN Stop
           ELSE host' = [host EXCEPT !.pc = "attempt", !.seen = Append(@, raw)]
        /\ UNCHANGED <<vars, checkpoint, worldVars, crashes>>

EpisodeOps(e) == {o \in DOMAIN operations : o[1] = e}

(* Mutant of Finish: the receipt is recorded however the agent exits. *)
FinishEarly ==
    /\ At("attempt")
    /\ \E s \in sessions :
          RecordOnce(s, FinishedRecord(host.episode), host.seen, "command")
    /\ GoTo("checkpoint")
    /\ UNCHANGED <<checkpoint, worldVars, crashes>>

(* completion_inputs demands a completion of every attempt of the episode; *)
(* then the receipt is recorded.                                           *)
Finish ==
    /\ At("attempt") /\ Ended(host.seen)
    /\ \A o \in EpisodeOps(host.episode) : Completed(o)
    /\ \E s \in sessions :
          RecordOnce(s, FinishedRecord(host.episode), host.seen, "command")
    /\ GoTo("checkpoint")
    /\ UNCHANGED <<checkpoint, worldVars, crashes>>

SaveCheckpoint ==
    /\ At("checkpoint")
    /\ checkpoint' = [checkpoint EXCEPT ![host.episode] = "done"]
    /\ GoTo("return")
    /\ UNCHANGED <<vars, worldVars, crashes>>

(* run_workflow returns only what the ledger's receipt says. *)
Return ==
    /\ At("return")
    /\ Unblocked(Scope)
    /\ Recorded(FinishedRecord(host.episode))
    /\ Stop
    /\ UNCHANGED <<vars, checkpoint, worldVars, crashes>>

Crash ==
    /\ ~At("down")
    /\ crashes < MaxCrashes
    /\ crashes' = crashes + 1
    /\ Stop
    /\ UNCHANGED <<vars, checkpoint, worldVars>>

(* A request that reaches its service or the container is executed, at any *)
(* later time, even after the host that sent it is gone.  What it came to  *)
(* is then known out there; whether a host can still learn it is up to     *)
(* CompleteAttempt and Receipts.                                           *)
Answers(o) ==
    {[result |-> r, raw |-> d] :
        r \in {r \in Result : DOMAIN r.usage = {o[2]}},
        d \in (IF o[2] = "model" THEN ModelRaw ELSE ToolRaw) \cup {Failure}}
Execute(o) ==
    /\ o \in wire
    /\ wire' = wire \ {o}
    /\ effects' = [effects EXCEPT ![o] = @ + 1]
    /\ \E a \in Answers(o) :
          /\ a.result.outcome = "succeeded" <=> a.raw # Failure
          /\ answers' = With(answers, o, a)
    /\ UNCHANGED <<vars, host, checkpoint, crashes>>

(* Or the request never arrives. *)
Lose(o) ==
    /\ o \in wire
    /\ wire' = wire \ {o}
    /\ UNCHANGED <<vars, host, checkpoint, answers, effects, crashes>>

HostStep ==
    \/ \E o \in OpIds : Reconcile(o)
    \/ ReceiptUnread \/ Refused \/ OpenJournal \/ Invoke \/ Work
    \/ CaptureRequest \/ ReserveAttempt \/ BudgetExceeded \/ BeginAttempt
    \/ Send \/ CompleteAttempt \/ BoundaryRaises \/ Observe
    \/ Finish \/ SaveCheckpoint \/ Return

EpisodeNext ==
    \/ NewSession
    \/ \E e \in Episodes : OpenRun(e) \/ Resume(e)
    \/ HostStep
    \/ Crash
    \/ \E o \in OpIds : Execute(o) \/ Lose(o)

EpisodeSpec == EpisodeInit /\ [][EpisodeNext]_episodeVars

-----------------------------------------------------------------------------
(* Fairness: the host's own steps are not abandoned, whoever operates the  *)
(* project keeps resuming every episode (the campaign loop does), the      *)
(* requests in flight are delivered or dropped, and a service that keeps a *)
(* receipt does not fail every host that asks for it.  Nothing makes a     *)
(* request arrive, a boundary answer, or a crash happen.                   *)
Fairness ==
    /\ WF_episodeVars(NewSession)
    /\ \A e \in Episodes : /\ SF_episodeVars(OpenRun(e))
                            /\ SF_episodeVars(Resume(e))
    /\ WF_episodeVars(HostStep)
    /\ SF_episodeVars(\E o \in Receipts : Reconcile(o))
    /\ WF_episodeVars(\E o \in OpIds : Execute(o) \/ Lose(o))

FairEpisodeSpec == EpisodeSpec /\ Fairness

-----------------------------------------------------------------------------
(* Properties.                                                             *)

(* Whatever is killed, lost, delayed or resumed, in any order, the host    *)
(* and its ledger implement module Attempts: no attempt reaches the        *)
(* service before its dispatch is recorded, or twice; each is settled      *)
(* once, by the answer the service gave to that very operation, received   *)
(* or reconciled later ("A host can settle unknown work only from an       *)
(* attributable captured result"); and none is dispatched while another of *)
(* its scope, or of the root, is in doubt.                                 *)
Abstract == INSTANCE Attempts WITH
    Ids <- OpIds,
    AttemptScope <- [o \in OpIds |-> ScopeOf[o[1]]],
    Inert <- {},
    Lost <- <<>>,
    phase <- [o \in OpIds |-> Phase(o)],
    performed <- effects,
    answer <- answers,
    settlement <- [o \in DOMAIN completions |-> Settlement(o)]

ImplementsAttempts == Abstract!AttemptsSpec

(* A replay never disagrees with what earlier hosts recorded: neither      *)
(* record_once nor reserve raises OperationConflict against the program's  *)
(* own resume.                                                             *)
ReplayNeverConflicts ==
    LET request == AttemptRequest(host.episode, host.seen)
    IN  /\ At("attempt") /\ ~Ended(host.seen) =>
              RecordedAs(RequestRecord(request.id), host.seen)
        /\ At("attempt") /\ Ended(host.seen) =>
              RecordedAs(FinishedRecord(host.episode), host.seen)
        /\ At("reserve") /\ Reserved(request.id) => Names(request)

(* "Checkpoint state grants no authority": a finished checkpoint is never  *)
(* ahead of the ledger's receipt, so run_workflow's last check cannot fail *)
(* after a crash, and an episode with a receipt has settled every attempt  *)
(* it made and makes no more.                                              *)
FinishedIsFinal ==
    \A e \in Episodes :
        /\ checkpoint[e] = "done" => Recorded(FinishedRecord(e))
        /\ Recorded(FinishedRecord(e)) => \A o \in EpisodeOps(e) : Completed(o)

(* An attempt that is out with no receipt to be had, and nobody waiting    *)
(* for its reply: its host died, or its boundary raised.                   *)
Waiting(o) ==
    (At("send") \/ At("wait")) /\ o = Attempt(host.episode, host.seen)
Abandoned(o) == Unknown(o) /\ o[2] \notin Receipted /\ ~Waiting(o)

(* "Obtain an exact receipt or remain unknown and reserved": with no       *)
(* receipt to be had an abandoned attempt, executed or not, is never       *)
(* settled, resent or waited for again, and "the block persists through    *)
(* repeated host deaths and fresh sessions".                               *)
AbandonedStays ==
    [][\A o \in OpIds : Abandoned(o) => Abandoned(o)']_episodeVars

(* What legitimately stops an episode: an operation of its scope or of the *)
(* root that no receipt will ever settle, because its request was lost or  *)
(* nothing keeps receipts of its kind; an attempt recorded as failed; or   *)
(* an attempt it has captured and has no budget to reserve or to begin.    *)
LegitimatelyStopped(e) ==
    \/ \E o \in DOMAIN operations :
          BlockedBy(o, ScopeOf[e]) /\ o \notin wire /\ o \notin Receipts
    \/ \E o \in EpisodeOps(e) :
          Completed(o) /\ completions[o].result.outcome # "succeeded"
    \/ \E o \in OpIds :
          /\ o[1] = e /\ Recorded(RequestRecord(o)) /\ o \notin dispatched
          /\ \/ ~CheckBudget(ScopeOf[e])
             \/ ~Reserved(o) /\ ~Fits([u \in {o[2]} |-> 1], ScopeOf[e])

(* An episode that is resumed finishes, unless it is legitimately stopped: *)
(* no crash of the host, late answer or failed lookup blocks a run whose   *)
(* doubtful attempts have receipts, and neither does another run's doubt.  *)
EveryEpisodeSettles ==
    \A e \in Episodes :
        <>[](Recorded(FinishedRecord(e)) \/ LegitimatelyStopped(e))
=============================================================================
