------------------------------- MODULE Ledger -------------------------------
(***************************************************************************)
(* The evidence ledger of src/warranted/_ledger.py: one SQLite database in *)
(* which a trusted host records scopes, operations and raw observations.   *)
(*                                                                         *)
(* Every method of the class Ledger is one database transaction, so every  *)
(* method that writes is one action here.  A call the code refuses (an     *)
(* exception, or a repeat that only returns the stored row) changes        *)
(* nothing and is therefore a stuttering step.                             *)
(*                                                                         *)
(* The columns of the operations table that are filled in later are        *)
(* variables of their own: `operations` holds what reserve writes,         *)
(* `dispatched` the rows with a dispatch marker, `completions` the rows    *)
(* with a result.  Times and session ids stored in rows are left out.      *)
(* How the raw bytes of an observation reach the disk is the subject of    *)
(* module Artifacts.                                                       *)
(***************************************************************************)
EXTENDS Integers, Sequences, FiniteSets, Sums

CONSTANTS
    Sessions,       \* session ids start_session may hand out
    OpIds,          \* operation ids
    RecordIds,      \* ids of plain captures
    Bodies,         \* what a request says besides its operation id
    Scopes,         \* scope ids open_scope may record
    Root,           \* ROOT_SCOPE
    Units,          \* every unit a usage record may name
    Allowances,     \* the manifest's allowances: declared unit -> Nat
    CapChoices,     \* caps a host may ask for
    Reservations,   \* reservations a host may ask for
    Usages,         \* usage a boundary may report
    Outcomes,       \* the members of Outcome
    Raw,            \* raw evidence of a capture
    MaxHistory      \* bound on the plain captures made with record

(* A map from some of the units of S to amounts. *)
IsAmounts(map, S) == DOMAIN map \subseteq S /\ map \in [DOMAIN map -> Nat]

Declared == DOMAIN Allowances

ASSUME LedgerAssumption ==
    /\ IsFiniteSet(OpIds)
    /\ Root \notin Scopes
    /\ Declared \subseteq Units
    /\ Allowances \in [Declared -> Nat]
    /\ \A map \in CapChoices \cup Reservations : IsAmounts(map, Declared)
    /\ \A map \in Usages : IsAmounts(map, Units)
    /\ MaxHistory \in Nat

VARIABLES
    sessions,       \* committed session ids
    scopes,         \* committed scope id -> caps
    operations,     \* operation id -> request, scope and reservation
    dispatched,     \* operation ids with a dispatch marker
    completions,    \* operation id -> result, observation and breaches
    history         \* committed observations, in sequence order

vars == <<sessions, scopes, operations, dispatched, completions, history>>

-----------------------------------------------------------------------------
(* Records.                                                                *)

Request == [id : OpIds, body : Bodies]
Origin == [id : OpIds \cup RecordIds, body : Bodies]
Result == [outcome : Outcomes, usage : Usages]
Operation == [request : Request,
              scope : Scopes \cup {Root},
              reservation : Reservations]
Completion == [result : Result, sequence : Nat, breaches : SUBSET Units]
Observation == [origin : Origin, raw : Raw, supersedes : Nat]

(* The amount a map gives a unit; a unit it does not name counts 0. *)
Amount(map, u) == IF u \in DOMAIN map THEN map[u] ELSE 0

(* A map with one more entry. *)
With(map, key, value) ==
    [k \in DOMAIN map \cup {key} |-> IF k = key THEN value ELSE map[k]]

Reserved(o) == o \in DOMAIN operations
Completed(o) == o \in DOMAIN completions
Unknown(o) == Reserved(o) /\ o \in dispatched /\ ~Completed(o)
Pending(o) == Reserved(o) /\ o \notin dispatched /\ ~Completed(o)

-----------------------------------------------------------------------------
(* Accounting, derived from the committed rows each time it is needed.     *)

(* What one operation holds of a unit: its reservation until it completes, *)
(* its measured usage afterwards.                                          *)
Charge(o, u) ==
    IF Completed(o) THEN Amount(completions[o].result.usage, u)
    ELSE IF Reserved(o) THEN Amount(operations[o].reservation, u)
    ELSE 0

(* What the whole project, or one scope, holds of a unit. *)
Charges(u) == [o \in OpIds |-> Charge(o, u)]
ScopeCharges(sc, u) ==
    [o \in OpIds |->
        IF Reserved(o) /\ operations[o].scope = sc THEN Charge(o, u) ELSE 0]

Limit(u) == Amount(Allowances, u)
ScopeLimit(sc, u) ==
    IF sc \in DOMAIN scopes /\ u \in DOMAIN scopes[sc]
    THEN scopes[sc][u] ELSE Limit(u)

Available(u) == Limit(u) - Total(Charges(u))
ScopeAvailable(sc, u) == ScopeLimit(sc, u) - Total(ScopeCharges(sc, u))

(* Used more than was reserved, or used what was not reserved at all. *)
Breaches(reservation, usage) ==
    {u \in DOMAIN usage :
        u \notin DOMAIN reservation \/ usage[u] > reservation[u]}

(* An operation's state constrains work in its own scope, and everywhere   *)
(* when it is in the root scope.                                           *)
In(o, sc) == operations[o].scope \in {sc, Root}

KnownScope(sc) == sc = Root \/ sc \in DOMAIN scopes

CheckBudget(sc) ==
    /\ ~ \E o \in DOMAIN completions :
            completions[o].breaches # {} /\ In(o, sc)
    /\ \A u \in Units : Available(u) >= 0

-----------------------------------------------------------------------------
(* The writing methods.                                                    *)

Init ==
    /\ sessions = {}
    /\ scopes = [sc \in {} |-> {}]
    /\ operations = [o \in {} |-> {}]
    /\ dispatched = {}
    /\ completions = [o \in {} |-> {}]
    /\ history = <<>>

StartSession(s) ==
    /\ s \notin sessions
    /\ sessions' = sessions \cup {s}
    /\ UNCHANGED <<scopes, operations, dispatched, completions, history>>

OpenScope(s, sc, caps) ==
    /\ s \in sessions
    /\ sc \notin DOMAIN scopes
    /\ scopes' = With(scopes, sc, caps)
    /\ UNCHANGED <<sessions, operations, dispatched, completions, history>>

Record(s, origin, raw, supersedes) ==
    /\ s \in sessions
    /\ supersedes \in 0..Len(history)
    /\ Len(history) < MaxHistory
    /\ history' = Append(history, [origin |-> origin, raw |-> raw,
                                   supersedes |-> supersedes])
    /\ UNCHANGED <<sessions, scopes, operations, dispatched, completions>>

(* Mutant of Fits: the scope's cap is forgotten. *)
FitsProjectOnly(reservation, sc) ==
    \A u \in DOMAIN reservation : reservation[u] <= Available(u)

(* The reservation must fit the project and, outside the root, the scope.  *)
Fits(reservation, sc) ==
    \A u \in DOMAIN reservation :
        /\ reservation[u] <= Available(u)
        /\ sc # Root => reservation[u] <= ScopeAvailable(sc, u)

Reserve(s, request, reservation, sc) ==
    /\ s \in sessions
    /\ KnownScope(sc)
    /\ ~Reserved(request.id)
    /\ CheckBudget(sc)
    /\ Fits(reservation, sc)
    /\ operations' = With(operations, request.id,
                          [request |-> request, scope |-> sc,
                           reservation |-> reservation])
    /\ UNCHANGED <<sessions, scopes, dispatched, completions, history>>

(* An unknown operation of the scope, or of the root, refuses dispatch. *)
Unblocked(sc) == ~ \E o \in DOMAIN operations : Unknown(o) /\ In(o, sc)

(* The operation an exact repeat of its request names. *)
Names(request) == Reserved(request.id) /\ operations[request.id].request = request

(* Mutant of Begin: the budget is checked by reserve alone. *)
BeginUnchecked(s, request) ==
    /\ s \in sessions
    /\ Names(request)
    /\ Pending(request.id)
    /\ Unblocked(operations[request.id].scope)
    /\ dispatched' = dispatched \cup {request.id}
    /\ UNCHANGED <<sessions, scopes, operations, completions, history>>

Begin(s, request) ==
    /\ s \in sessions
    /\ Names(request)
    /\ Pending(request.id)
    /\ Unblocked(operations[request.id].scope)
    /\ CheckBudget(operations[request.id].scope)
    /\ dispatched' = dispatched \cup {request.id}
    /\ UNCHANGED <<sessions, scopes, operations, completions, history>>

(* Settling an operation that satisfies `open`, naming observation n. *)
Settle(s, request, result, raw, open, n) ==
    /\ s \in sessions
    /\ Names(request)
    /\ open
    /\ DOMAIN operations[request.id].reservation \subseteq DOMAIN result.usage
    /\ history' = Append(history, [origin |-> request, raw |-> raw,
                                   supersedes |-> 0])
    /\ completions' =
         With(completions, request.id,
              [result |-> result, sequence |-> n,
               breaches |-> Breaches(operations[request.id].reservation,
                                     result.usage)])
    /\ UNCHANGED <<sessions, scopes, operations, dispatched>>

(* Mutant of Complete: the observation before the new one is cited. *)
CompletePrevious(s, request, result, raw) ==
    Settle(s, request, result, raw, Unknown(request.id), Len(history))

Complete(s, request, result, raw) ==
    Settle(s, request, result, raw, Unknown(request.id), Len(history) + 1)

Next ==
    \/ \E s \in Sessions : StartSession(s)
    \/ \E s \in Sessions, sc \in Scopes, caps \in CapChoices :
          OpenScope(s, sc, caps)
    \/ \E s \in Sessions, origin \in Origin, raw \in Raw :
          \E supersedes \in 0..Len(history) :
              Record(s, origin, raw, supersedes)
    \/ \E s \in Sessions, request \in Request, reservation \in Reservations,
          sc \in Scopes \cup {Root} :
          Reserve(s, request, reservation, sc)
    \/ \E s \in Sessions, request \in Request : Begin(s, request)
    \/ \E s \in Sessions, request \in Request, raw \in Raw,
          result \in Result :
          Complete(s, request, result, raw)

Spec == Init /\ [][Next]_vars

-----------------------------------------------------------------------------
(* Properties.                                                             *)

(* The types of the stored rows. *)
TypeOK ==
    /\ sessions \subseteq Sessions
    /\ DOMAIN scopes \subseteq Scopes
    /\ scopes \in [DOMAIN scopes -> CapChoices]
    /\ DOMAIN operations \subseteq OpIds
    /\ operations \in [DOMAIN operations -> Operation]
    /\ dispatched \subseteq DOMAIN operations
    /\ DOMAIN completions \subseteq dispatched
    /\ completions \in [DOMAIN completions -> Completion]
    /\ history \in Seq(Observation)

(* Ledger._operation refuses to load a row whose columns disagree.  Every  *)
(* row the ledger writes, whatever is interleaved with it, is one it loads *)
(* again: its observation exists, belongs to this request, supersedes      *)
(* nothing and to no other operation; its scope is recorded; its usage     *)
(* covers its reservation and its breaches are the ones its usage shows.   *)
RowsLoad ==
    /\ \A o \in DOMAIN operations :
          operations[o].request.id = o /\ KnownScope(operations[o].scope)
    /\ \A o \in DOMAIN completions :
          LET c == completions[o]
              r == operations[o].reservation
          IN /\ c.sequence \in DOMAIN history
             /\ history[c.sequence].origin = operations[o].request
             /\ history[c.sequence].supersedes = 0
             /\ DOMAIN r \subseteq DOMAIN c.result.usage
             /\ c.breaches = Breaches(r, c.result.usage)
    /\ \A o, p \in DOMAIN completions :
          completions[o].sequence = completions[p].sequence => o = p

(* What a completed operation used beyond what it had reserved. *)
Overrun(o, u) ==
    IF Completed(o) /\ Amount(completions[o].result.usage, u)
                         > Amount(operations[o].reservation, u)
    THEN Amount(completions[o].result.usage, u)
           - Amount(operations[o].reservation, u)
    ELSE 0
Overruns(u) == [o \in OpIds |-> Overrun(o, u)]
ScopeOverruns(sc, u) ==
    [o \in OpIds |->
        IF Reserved(o) /\ operations[o].scope = sc THEN Overrun(o, u) ELSE 0]

(* "Totals derive from committed receipts": what the project holds of a    *)
(* unit, spent and reserved together, exceeds the allowance by at most the *)
(* measured overruns.  Unknown operations keep their reservation, so this  *)
(* bounds what may already have been spent and not yet been reported.      *)
ProjectWithinAllowance ==
    \A u \in Units : Total(Charges(u)) <= Limit(u) + Total(Overruns(u))

(* The same for a scope against its cap, whatever other scopes do. *)
ScopesWithinCaps ==
    \A sc \in DOMAIN scopes, u \in Units :
        Total(ScopeCharges(sc, u))
            <= ScopeLimit(sc, u) + Total(ScopeOverruns(sc, u))

(* Both budgets bind, whatever is interleaved with a reservation. *)
WithinBudgets == ProjectWithinAllowance /\ ScopesWithinCaps

(* begin refuses while the scope has an unknown operation: two operations  *)
(* of one scope are never both outstanding.                                *)
OneUnknownPerScope ==
    \A o, p \in DOMAIN operations :
        /\ Unknown(o) /\ Unknown(p)
        /\ operations[o].scope = operations[p].scope
        => o = p

(* A recorded breach stops its scope, and a scope has one operation in     *)
(* flight: so one operation at most ever breaches in a scope.              *)
OneBreachPerScope ==
    \A o, p \in DOMAIN completions :
        /\ completions[o].breaches # {} /\ completions[p].breaches # {}
        /\ operations[o].scope = operations[p].scope
        => o = p

(* A scope that has recorded a breach has nothing in flight and never will *)
(* have: its overrun is final.                                             *)
BreachStopsScope ==
    \A o \in DOMAIN completions, p \in DOMAIN operations :
        completions[o].breaches # {} /\ Unknown(p)
        => operations[o].scope # operations[p].scope

(* An operation in doubt, or a breach, stops its scope: neither ever       *)
(* happens twice, and a pending reservation is no way past a breach.       *)
DoubtAndBreachStop == OneUnknownPerScope /\ OneBreachPerScope /\ BreachStopsScope

(* "Reservation fields stay fixed. Dispatch and completion fields each     *)
(* move from absent to present once", and sessions, scopes with their caps *)
(* and observations are append-only.                                       *)
WriteOnce ==
    [][/\ sessions \subseteq sessions'
       /\ \A sc \in DOMAIN scopes :
             sc \in DOMAIN scopes' /\ scopes'[sc] = scopes[sc]
       /\ dispatched \subseteq dispatched'
       /\ \A o \in DOMAIN operations :
             o \in DOMAIN operations' /\ operations'[o] = operations[o]
       /\ \A o \in DOMAIN completions :
             o \in DOMAIN completions' /\ completions'[o] = completions[o]
       /\ \A n \in DOMAIN history :
             n \in DOMAIN history' /\ history'[n] = history[n]]_vars

=============================================================================
