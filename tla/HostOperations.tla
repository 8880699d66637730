--------------------------- MODULE HostOperations ---------------------------
(***************************************************************************)
(* Host operations (src/warranted/_operations.py): trusted code the host   *)
(* runs for a worker that printed a batch of requests.  Requests.__call__  *)
(* takes the items in order; reconcile_operation settles, on a resume, an  *)
(* operation whose host died.                                              *)
(*                                                                         *)
(* Each run has one episode with one batch.  The host may be killed        *)
(* between any two transactions and whoever restarts it chooses the run it *)
(* resumes; the replay starts again at the first item.  A shared operation *)
(* is reserved in the root scope, where it concerns every run.             *)
(*                                                                         *)
(* The key of an item (operation, version, arguments, input digests) is    *)
(* the name of its operation: two items are equal when they name the same. *)
(***************************************************************************)
EXTENDS Records

CONSTANTS
    Batch,          \* run -> the operations its batch names, in order
    Offered,        \* operations the domain declares
    External,       \* those with an effect outside the host
    Receipted,      \* those of External with a reconcile method
    Shared,         \* those reserved in the root scope
    Reusable,       \* those whose recorded results may be reused
    Reserves,       \* operation -> what it reserves
    MaxCrashes      \* bound on how often the host is killed

Runs == DOMAIN Batch

VARIABLES
    host,           \* the process: program counter and volatile state
    effects,        \* how often each operation was executed
    executed,       \* operation -> what its execution did: result and raw
    views,          \* item -> every observation of it a worker was given
    crashes

worldVars == <<effects, executed>>
operationVars == <<vars, host, worldVars, views, crashes>>

Down == [pc |-> "down", run |-> "none", number |-> 0, refused |-> FALSE,
         todo |-> {}, response |-> <<>>]

At(pc) == host.pc = pc
GoTo(pc) == host' = [host EXCEPT !.pc = pc]
Stop == host' = Down

(* The current item, its operation's name, and its ids. *)
Item == <<host.run, host.number>>
Name(o) == Batch[o[1]][o[2]]
ItemRequest(o) == [id |-> o, body |-> Name(o)]
InputRecord(o) == <<o[1], o[2], "input">>
ReuseRecord(o) == <<o[1], o[2], "reuse">>
RefusedRecord(o) == <<o[1], o[2], "refused">>

ScopeOf(o) == IF Name(o) \in Shared THEN Root ELSE o[1]

Outcome(o) == completions[o].result.outcome
Measured == {"succeeded", "failed"}

(* Mutant of Sources: an unmeasured failure may be reused. *)
SourcesUnmeasured(name) ==
    {o \in DOMAIN completions : Name(o) = name}

(* _reusable_source: measured results of an equal request, of any run.  The  *)
(* code takes the one that was reserved first; any of them will do here.     *)
Sources(name) ==
    {o \in DOMAIN completions : Name(o) = name /\ Outcome(o) \in Measured}

(* Raw evidence, told apart by what it is.  A reuse records its source. *)
Captured == <<"captured">>
Shown == <<"shown">>
Unmeasured == <<"unmeasured">>
Earlier == <<"earlier">>
Budget == <<"budget">>

(* What the worker is given for an item: a recorded result (its own or a   *)
(* reused one), a refusal with its reason, or an error.                    *)
ResultView(o) == <<"result", o, Outcome(o)>>
RefusalView(reason) == <<"refused", reason>>
ErrorView == <<"error">>

(* The items there are: one for each place of a batch. *)
Items == UNION {{r} \X DOMAIN Batch[r] : r \in Runs}

(* validate_operations: an operation with an effect cannot be reused.  And *)
(* the ledger has room for what the batches ask of it: the items are its   *)
(* operations, each with its records, and what an item reserves may also   *)
(* be what it is charged with.                                             *)
ASSUME OperationsAssumption ==
    /\ External \cup Shared \cup Reusable \subseteq Offered
    /\ Reusable \cap External = {}
    /\ Receipted \subseteq External
    /\ Runs \subseteq Scopes
    /\ \A r \in Runs : Batch[r] \in Seq({Batch[r][i] : i \in DOMAIN Batch[r]})
    /\ OpIds = Items
    /\ \A o \in Items : {InputRecord(o), ReuseRecord(o), RefusedRecord(o)} \subseteq RecordIds
    /\ Offered \subseteq Bodies
    /\ {Captured, Shown, Unmeasured, Earlier, Budget} \cup Items \subseteq Raw
    /\ Reserves \in [Offered -> Reservations]
    /\ {Reserves[name] : name \in Offered \ External} \subseteq Usages
    /\ "infrastructure_failure" \in Outcomes

(* The observation is added to the batch's results; on to the next item. *)
Show(view, refused) ==
    /\ views' = [views EXCEPT ![Item] = @ \cup {view}]
    /\ host' = [host EXCEPT !.pc = "item", !.number = @ + 1,
                            !.refused = refused, !.response = <<>>]

-----------------------------------------------------------------------------
OperationsInit ==
    /\ Init
    /\ host = Down
    /\ effects = [o \in OpIds |-> 0]
    /\ executed = [o \in {} |-> <<>>]
    /\ views = [o \in OpIds |-> {}]
    /\ crashes = 0

NewSession ==
    /\ At("down")
    /\ \E s \in Sessions : StartSession(s)
    /\ UNCHANGED <<host, worldVars, views, crashes>>

OpenRun(r) ==
    /\ At("down")
    /\ \E s \in Sessions, caps \in CapChoices : OpenScope(s, r, caps)
    /\ UNCHANGED <<host, worldVars, views, crashes>>

Resume(r) ==
    /\ At("down")
    /\ sessions # {} /\ KnownScope(r)
    /\ host' = [Down EXCEPT !.pc = "reconcile", !.run = r, !.number = 1,
                            !.todo = {o \in DOMAIN operations : BlockedBy(o, r)}]
    /\ UNCHANGED <<vars, worldVars, views, crashes>>

(* What an operation's own reconcile finds outside: the effect, if there   *)
(* was one and the operation can ask.                                      *)
Receipts(o) ==
    {executed[p] : p \in {q \in DOMAIN executed : q = o /\ Name(q) \in Receipted}}

(* Mutant of Settlements: an effect is assumed not to have happened. *)
SettlementsAll(o) ==
    {[result |-> [outcome |-> "infrastructure_failure",
                  usage |-> operations[o].reservation],
      raw |-> Unmeasured]}

(* reconcile_operation: without an effect only the usage is unknown, and   *)
(* the whole reservation is charged; with one, only a receipt tells.       *)
Settlements(o) ==
    IF Name(o) \notin External
    THEN {[result |-> [outcome |-> "infrastructure_failure",
                       usage |-> operations[o].reservation],
           raw |-> Unmeasured]}
    ELSE Receipts(o)

Reconcile(o) ==
    /\ At("reconcile") /\ o \in host.todo
    /\ IF Settlements(o) = {} THEN UNCHANGED vars
       ELSE \E s \in sessions, a \in Settlements(o) :
              Complete(s, operations[o].request, a.result, a.raw)
    /\ host' = [host EXCEPT !.todo = @ \ {o}]
    /\ UNCHANGED <<worldVars, views, crashes>>

Blocked ==
    /\ At("reconcile") /\ host.todo = {}
    /\ ~Unblocked(host.run)
    /\ Stop
    /\ UNCHANGED <<vars, worldVars, views, crashes>>

(* The replay reaches the command that printed the batch. *)
StartBatch ==
    /\ At("reconcile") /\ host.todo = {}
    /\ Unblocked(host.run)
    /\ GoTo("item")
    /\ UNCHANGED <<vars, worldVars, views, crashes>>

AtItem == At("item") /\ host.number \in DOMAIN Batch[host.run]

(* An item that names no operation, or arguments parse rejects. *)
BadItem ==
    /\ AtItem /\ Name(Item) \notin Offered
    /\ Show(ErrorView, host.refused)
    /\ UNCHANGED <<vars, worldVars, crashes>>

CaptureInput ==
    /\ AtItem /\ Name(Item) \in Offered
    /\ \E s \in sessions :
          RecordOnce(s, InputRecord(Item), Name(Item), Captured)
    /\ GoTo("look")
    /\ UNCHANGED <<worldVars, views, crashes>>

(* Replay returns what was recorded: a result, a reuse, or a refusal. *)
ReplayResult ==
    /\ At("look") /\ Completed(Item)
    /\ Show(ResultView(Item), host.refused)
    /\ UNCHANGED <<vars, worldVars, crashes>>

ReplayReuse ==
    /\ At("look") /\ ~Completed(Item) /\ Recorded(ReuseRecord(Item))
    /\ Show(ResultView(RawOf(ReuseRecord(Item))), host.refused)
    /\ UNCHANGED <<vars, worldVars, crashes>>

ReplayRefusal ==
    /\ At("look") /\ ~Completed(Item) /\ ~Recorded(ReuseRecord(Item))
    /\ Recorded(RefusedRecord(Item))
    /\ Show(RefusalView(RawOf(RefusedRecord(Item))), TRUE)
    /\ UNCHANGED <<vars, worldVars, crashes>>

Unrecorded ==
    /\ At("look") /\ ~Completed(Item)
    /\ ~Recorded(ReuseRecord(Item)) /\ ~Recorded(RefusedRecord(Item))

(* Nothing is known of the item yet. *)
New == Unrecorded /\ ~Reserved(Item)

(* Mutant of Refuse: later items are tried all the same. *)
RefuseAlone(reason) ==
    /\ \E s \in sessions :
          RecordOnce(s, RefusedRecord(Item), Name(Item), reason)
    /\ Show(RefusalView(reason), host.refused)
    /\ UNCHANGED <<worldVars, crashes>>

(* A refusal is recorded, and refuses every later item of the batch. *)
Refuse(reason) ==
    /\ \E s \in sessions :
          RecordOnce(s, RefusedRecord(Item), Name(Item), reason)
    /\ Show(RefusalView(reason), TRUE)
    /\ UNCHANGED <<worldVars, crashes>>

RefuseLater == New /\ host.refused /\ Refuse(Earlier)

(* Mutant of Reuse: the reuse is shown and not recorded. *)
ReuseUnrecorded ==
    /\ New /\ ~host.refused /\ Name(Item) \in Reusable
    /\ \E source \in Sources(Name(Item)) :
          Show(ResultView(source), host.refused)
    /\ UNCHANGED <<vars, worldVars, crashes>>

Reuse ==
    /\ New /\ ~host.refused /\ Name(Item) \in Reusable
    /\ \E s \in sessions, source \in Sources(Name(Item)) :
          /\ RecordOnce(s, ReuseRecord(Item), Name(Item), source)
          /\ Show(ResultView(source), host.refused)
    /\ UNCHANGED <<worldVars, crashes>>

(* No result to reuse: the item must be executed. *)
MustReserve ==
    /\ New /\ ~host.refused
    /\ Name(Item) \in Reusable => Sources(Name(Item)) = {}

ReserveItem ==
    /\ MustReserve
    /\ \E s \in sessions :
          Reserve(s, ItemRequest(Item), Reserves[Name(Item)], ScopeOf(Item))
    /\ GoTo("begin")
    /\ UNCHANGED <<worldVars, views, crashes>>

RefuseBudget ==
    /\ MustReserve
    /\ ~(CheckBudget(ScopeOf(Item)) /\ Fits(Reserves[Name(Item)], ScopeOf(Item)))
    /\ Refuse(Budget)

(* An earlier host reserved the item and died before it was dispatched. *)
FindReserved ==
    /\ Unrecorded /\ Reserved(Item)
    /\ GoTo("begin")
    /\ UNCHANGED <<vars, worldVars, views, crashes>>

BeginItem ==
    /\ At("begin")
    /\ \E s \in sessions : Begin(s, ItemRequest(Item))
    /\ GoTo("execute")
    /\ UNCHANGED <<worldVars, views, crashes>>

(* begin returns false, or raises for an unknown operation or a budget. *)
BeginRefused ==
    /\ At("begin")
    /\ \/ ~Pending(Item)
       \/ ~Unblocked(ScopeOf(Item))
       \/ ~CheckBudget(ScopeOf(Item))
    /\ Stop
    /\ UNCHANGED <<vars, worldVars, views, crashes>>

(* What an execution may come to: any outcome, with a usage that covers    *)
(* what was reserved.  Too much output makes it an infrastructure failure. *)
Responses(o) ==
    {[result |-> r, raw |-> Shown] :
        r \in {r \in Result : DOMAIN r.usage = DOMAIN Reserves[Name(o)]}}

(* The domain's code runs in the host process. *)
Execute ==
    /\ At("execute")
    /\ effects' = [effects EXCEPT ![Item] = @ + 1]
    /\ \E a \in Responses(Item) :
          /\ executed' = With(executed, Item, a)
          /\ host' = [host EXCEPT !.pc = "complete", !.response = a]
    /\ UNCHANGED <<vars, views, crashes>>

CompleteItem ==
    /\ At("complete")
    /\ \E s \in sessions :
          Complete(s, ItemRequest(Item), host.response.result, host.response.raw)
    /\ views' = [views EXCEPT ![Item] = @ \cup
                    {<<"result", Item, host.response.result.outcome>>}]
    /\ host' = [host EXCEPT !.pc = "item", !.number = @ + 1, !.response = <<>>]
    /\ UNCHANGED <<worldVars, crashes>>

(* An exception, before or after the operation did its work: the outcome   *)
(* stays unknown and the episode stops.                                    *)
ExecuteRaises ==
    /\ At("execute") \/ At("complete")
    /\ Stop
    /\ UNCHANGED <<vars, worldVars, views, crashes>>

(* The batch is done: its results are delivered and the episode goes on,   *)
(* sooner or later to its end.                                             *)
FinishBatch ==
    /\ At("item") /\ ~AtItem
    /\ Stop
    /\ UNCHANGED <<vars, worldVars, views, crashes>>

Crash ==
    /\ ~At("down")
    /\ crashes < MaxCrashes
    /\ crashes' = crashes + 1
    /\ Stop
    /\ UNCHANGED <<vars, worldVars, views>>

HostStep ==
    \/ \E o \in OpIds : Reconcile(o)
    \/ Blocked \/ StartBatch \/ BadItem \/ CaptureInput
    \/ ReplayResult \/ ReplayReuse \/ ReplayRefusal
    \/ RefuseLater \/ Reuse \/ ReserveItem \/ RefuseBudget \/ FindReserved
    \/ BeginItem \/ BeginRefused \/ Execute \/ CompleteItem \/ ExecuteRaises
    \/ FinishBatch

OperationsNext ==
    \/ NewSession
    \/ \E r \in Runs : OpenRun(r) \/ Resume(r)
    \/ HostStep
    \/ Crash

OperationsSpec == OperationsInit /\ [][OperationsNext]_operationVars

-----------------------------------------------------------------------------
(* Properties.                                                             *)

(* However often a batch is replayed and whichever run settles an item,    *)
(* host operations implement module Attempts: an item is executed at most  *)
(* once, after its dispatch is recorded ("it is never executed again",     *)
(* docs/reference/worker-and-containment.md); one with an effect is        *)
(* settled by what it really did; any other that was interrupted is given  *)
(* up at the whole of its reservation, so that no crash makes work free;   *)
(* and a shared one in doubt stops every run.                              *)
Abstract == INSTANCE Attempts WITH
    Ids <- OpIds,
    AttemptScope <- [o \in OpIds |-> ScopeOf(o)],
    Inert <- {o \in OpIds : Name(o) \in Offered \ External},
    Lost <- [o \in {o \in OpIds : Name(o) \in Offered \ External} |->
               [result |-> [outcome |-> "infrastructure_failure",
                            usage |-> Reserves[Name(o)]],
                raw |-> Unmeasured]],
    phase <- [o \in OpIds |-> Phase(o)],
    performed <- effects,
    answer <- executed,
    settlement <- [o \in DOMAIN completions |-> Settlement(o)]

ImplementsAttempts == Abstract!AttemptsSpec

(* "A recorded result, reuse, or refusal for this item's ID is returned    *)
(* unchanged, so replay is deterministic": every replay gives the worker   *)
(* for an item what the first one did, although budgets are freed, other   *)
(* runs complete equal requests and hosts die in between.                  *)
ReplayIsExact == \A o \in OpIds : Cardinality(views[o]) <= 1

(* "Infrastructure failures and unmeasured settlements are never reused",  *)
(* and what is reused is a result of the very same request.                *)
ReuseIsMeasured ==
    \A o \in OpIds : Recorded(ReuseRecord(o)) =>
        LET source == RawOf(ReuseRecord(o))
        IN  /\ Completed(source) /\ Name(source) = Name(o)
            /\ Outcome(source) \in Measured
            /\ effects[source] = 1

(* "A refusal is recorded, and every later item in the batch is refused    *)
(* too": nothing after a refused item is ever reserved or reused.          *)
RefusalEndsBatch ==
    \A o, p \in OpIds :
        /\ o[1] = p[1] /\ o[2] < p[2]
        /\ Recorded(RefusedRecord(o))
        => ~Reserved(p) /\ ~Recorded(ReuseRecord(p))

(* Project.status reads an episode's end off the ledger                    *)
(* (_ended_without_submission): any completed operation under the          *)
(* episode's prefix that is an infrastructure failure ends it.             *)
EndedWithoutSubmission(r) ==
    \E o \in DOMAIN completions :
        o[1] = r /\ Outcome(o) = "infrastructure_failure"

(* "An episode still in progress, or one that submitted, gives None"       *)
(* (src/warranted/_tasks.py:1211): while the host is working through the   *)
(* batch, status does not report that the episode has ended.               *)
InProgressHasNotEnded == At("item") => ~EndedWithoutSubmission(host.run)
=============================================================================
