----------------------------- MODULE Acceptance -----------------------------
(***************************************************************************)
(* Acceptance decisions (src/warranted/_acceptance.py): a host accepts a   *)
(* candidate only when the recorded checks of the current policy and       *)
(* revision pass, or a rule they fail has a recorded exception for exactly *)
(* this target, policy, revision and set of checks.                        *)
(*                                                                         *)
(* The ledger appears as the operations this component cares for: checks,  *)
(* exceptions and decisions.  Exceptions and decisions are named by the    *)
(* digest of their content, so the content is their identity here.  A      *)
(* decision is committed in three transactions (reserve, begin, complete), *)
(* and the process may be killed between them.                             *)
(***************************************************************************)
EXTENDS Integers, FiniteSets

CONSTANTS
    Targets,        \* candidate evidence
    Revisions,      \* revisions of policy and checks a host may resolve
    Policies,       \* revision -> requirement -> [kind, check]
    CheckRequest,   \* revision -> target -> check -> request, or None
    Cites,          \* request -> the targets among its inputs
    None,           \* no request, no receipt
    Forged,         \* an operation id no ledger knows
    CheckOutcomes,  \* how a check may complete
    CheckValues,    \* request -> the field values its check may report
    ReceiptChoices, \* receipts a caller may pass: check -> operation id
    ExceptionChoices,   \* exceptions a caller may cite: requirement -> id
    MaxEntries      \* bound on recorded exceptions and decisions

Requirements == UNION {DOMAIN Policies[r] : r \in Revisions}
Checks == UNION {{Policies[r][q].check : q \in DOMAIN Policies[r]} : r \in Revisions}
Requests == DOMAIN Cites

VARIABLES
    current,        \* target -> the revision the host's resolver names
    checks,         \* request -> recorded state of the check operation
    entries,        \* exceptions and decisions -> state of their operation
    breached,       \* a usage breach is recorded in the scope
    host            \* the call in progress

acceptanceVars == <<current, checks, entries, breached, host>>

Idle == [pc |-> "idle", entry |-> None]

(* What a target's decisions and exceptions are bound to.  A revision      *)
(* stands for the policy and the check requests it resolves to.            *)
ScopeOf(target) == [target |-> target, revision |-> current[target]]

Policy(scope) == Policies[scope.revision]
PolicyChecks(scope) == {Policy(scope)[q].check : q \in DOMAIN Policy(scope)}
IsRule(scope, q) == q \in DOMAIN Policy(scope) /\ Policy(scope)[q].kind = "rule"
Gated(scope, c) ==
    \E q \in DOMAIN Policy(scope) :
        Policy(scope)[q].check = c /\ Policy(scope)[q].kind = "gate"

Exception(scope, rule) == [kind |-> "rule-exception", scope |-> scope, rule |-> rule]

(* The host's policy: at least one gate, every other requirement a rule,   *)
(* and every check resolved to a request, or to none.  A check succeeds,   *)
(* fails, or its infrastructure does.                                      *)
ASSUME PolicyAssumption ==
    /\ None \notin Requests
    /\ CheckOutcomes \subseteq {"succeeded", "failed", "infrastructure_failure"}
    /\ \A r \in Revisions :
          /\ \E q \in DOMAIN Policies[r] : Policies[r][q].kind = "gate"
          /\ \A q \in DOMAIN Policies[r] : Policies[r][q].kind \in {"gate", "rule"}
          /\ \A t \in Targets :
                CheckRequest[r][t] \in
                  [{Policies[r][q].check : q \in DOMAIN Policies[r]} -> Requests \cup {None}]

-----------------------------------------------------------------------------
(* What the recorded evidence says.                                        *)

(* The fields a check must report: one for each requirement it decides. *)
Fields(scope, c) == {q \in DOMAIN Policy(scope) : Policy(scope)[q].check = c}

(* Mutant of CheckStatus: a receipt of the same check will do, whichever   *)
(* request it answers.                                                     *)
CheckAnyRequest(scope, c, receipt) ==
    IF receipt \notin Requests THEN "missing"
    ELSE IF checks[receipt].state # "succeeded" THEN "unknown"
    ELSE IF DOMAIN checks[receipt].values # Fields(scope, c) THEN "unsupported"
    ELSE "values"

(* _check: "values" when the check can be read, or what stands in the way. *)
CheckStatus(scope, c, receipt) ==
    LET request == CheckRequest[scope.revision][scope.target][c]
    IN  IF request = None THEN "unknown"
        ELSE IF Gated(scope, c) /\ scope.target \notin Cites[request]
             THEN "unsupported"
        ELSE IF receipt = None THEN "missing"
        ELSE IF receipt # request
             THEN IF receipt \in Requests /\ checks[receipt].state # "absent"
                  THEN "stale" ELSE "unsupported"
        ELSE CASE checks[request].state = "absent" -> "missing"
               [] checks[request].state = "unknown" -> "unknown"
               [] checks[request].state = "infrastructure_failure" ->
                    "infrastructure_failure"
               [] checks[request].state = "failed" -> "unsupported"
               [] checks[request].state = "succeeded" ->
                    IF DOMAIN checks[request].values = Fields(scope, c)
                    THEN "values" ELSE "unsupported"

(* Mutant of ExceptionStatus: any exception recorded for the rule will do. *)
ExceptionAnyScope(scope, rule, id) ==
    IF id \notin DOMAIN entries THEN "missing"
    ELSE IF entries[id] # "completed" THEN "unknown"
    ELSE IF id.rule = rule THEN "excepted" ELSE "stale"

(* _exception: the cited operation must be this very scope's exception. *)
ExceptionStatus(scope, rule, id) ==
    IF id \notin DOMAIN entries THEN "missing"
    ELSE IF entries[id] # "completed" THEN "unknown"
    ELSE IF id.kind # "rule-exception" THEN "unsupported"
    ELSE IF id = Exception(scope, rule) THEN "excepted" ELSE "stale"

(* A check no receipt is given for has none. *)
Receipt(receipts, c) == IF c \in DOMAIN receipts THEN receipts[c] ELSE None

RequirementStatus(scope, q, receipts, exceptions) ==
    LET c == Policy(scope)[q].check
        status == CheckStatus(scope, c, Receipt(receipts, c))
    IN  IF IsRule(scope, q) /\ q \in DOMAIN exceptions
        THEN ExceptionStatus(scope, q, exceptions[q])
        ELSE IF status # "values" THEN status
        ELSE IF checks[receipts[c]].values[q] THEN "passed" ELSE "rejected"

(* The worst status decides, in this order. *)
Priority == <<"unsupported", "infrastructure_failure", "unknown", "missing",
              "stale", "rejected">>

(* Mutant of Overall: what is merely missing or out of date is not looked at. *)
OverallRejected(statuses, invalid) ==
    IF invalid THEN "unsupported"
    ELSE IF "rejected" \in statuses THEN "rejected" ELSE "accepted"

Overall(statuses, invalid) ==
    IF invalid THEN "unsupported"
    ELSE IF \E i \in DOMAIN Priority : Priority[i] \in statuses
         THEN Priority[CHOOSE i \in DOMAIN Priority :
                 /\ Priority[i] \in statuses
                 /\ \A j \in 1..(i - 1) : Priority[j] \notin statuses]
    ELSE "accepted"

(* The body of the decision accept would record now.  A receipt for no     *)
(* check of the policy, or an exception for no rule, makes it invalid.     *)
Decision(target, receipts, exceptions) ==
    LET scope == ScopeOf(target)
        requirements ==
            [q \in DOMAIN Policy(scope) |->
                RequirementStatus(scope, q, receipts, exceptions)]
        invalid == \/ ~(DOMAIN receipts \subseteq PolicyChecks(scope))
                   \/ \E q \in DOMAIN exceptions : ~IsRule(scope, q)
    IN  [kind |-> "decision", scope |-> scope,
         status |-> Overall({requirements[q] : q \in DOMAIN requirements}, invalid),
         requirements |-> requirements, receipts |-> receipts,
         exceptions |-> exceptions]

-----------------------------------------------------------------------------
AcceptanceInit ==
    /\ current \in [Targets -> Revisions]
    /\ checks = [q \in Requests |-> [state |-> "absent", values |-> <<>>]]
    /\ entries = [e \in {} |-> ""]
    /\ breached = FALSE
    /\ host = Idle

IsIdle == host.pc = "idle"

(* An unknown operation blocks every dispatch in the scope. *)
Unblocked ==
    /\ \A q \in Requests : checks[q].state # "unknown"
    /\ \A e \in DOMAIN entries : entries[e] # "unknown"

(* The host adopts another revision of the policy or of the checks. *)
Revise(target, r) ==
    /\ IsIdle /\ current[target] # r
    /\ current' = [current EXCEPT ![target] = r]
    /\ UNCHANGED <<checks, entries, breached, host>>

(* A check is dispatched, in one step with its reservation, and completes  *)
(* with any outcome or not at all.                                         *)
BeginCheck(q) ==
    /\ IsIdle /\ checks[q].state = "absent" /\ Unblocked /\ ~breached
    /\ checks' = [checks EXCEPT ![q].state = "unknown"]
    /\ UNCHANGED <<current, entries, breached, host>>

CompleteCheck(q, state, values, breach) ==
    /\ IsIdle /\ checks[q].state = "unknown"
    /\ state = "succeeded" \/ DOMAIN values = {}
    /\ checks' = [checks EXCEPT ![q] = [state |-> state, values |-> values]]
    /\ breached' = (breached \/ breach)
    /\ UNCHANGED <<current, entries, host>>

StateOf(e) == IF e \in DOMAIN entries THEN entries[e] ELSE "absent"
SetEntry(entry, state) ==
    entries' = [e \in DOMAIN entries \cup {entry} |->
                   IF e = entry THEN state ELSE entries[e]]

(* A call asks for an entry: the identical one is returned if it is        *)
(* recorded already, and is reserved otherwise.                            *)
Ask(entry) ==
    /\ IF StateOf(entry) = "absent"
       THEN Cardinality(DOMAIN entries) < MaxEntries /\ SetEntry(entry, "pending")
       ELSE UNCHANGED entries
    /\ host' = [pc |-> IF StateOf(entry) = "completed" THEN "returned" ELSE "begin",
                entry |-> entry]
    /\ UNCHANGED <<current, checks, breached>>

(* Mutant of Commit: the budget is checked by reserve only, so not before  *)
(* a cached reuse.                                                         *)
CommitCached(entry) ==
    /\ IsIdle /\ (breached => StateOf(entry) = "completed")
    /\ Ask(entry)

(* _commit up to its reservation.  Nothing is written before that, so the  *)
(* reads and the budget check belong to the same step.                     *)
Commit(entry) == IsIdle /\ ~breached /\ Ask(entry)

RecordException(target, rule) ==
    /\ IsRule(ScopeOf(target), rule)
    /\ Commit(Exception(ScopeOf(target), rule))

Accept(target, receipts, exceptions) ==
    Commit(Decision(target, receipts, exceptions))

Begin ==
    /\ host.pc = "begin" /\ StateOf(host.entry) = "pending" /\ Unblocked /\ ~breached
    /\ SetEntry(host.entry, "unknown")
    /\ host' = [host EXCEPT !.pc = "complete"]
    /\ UNCHANGED <<current, checks, breached>>

(* begin refuses: an operation is unknown, this entry's own perhaps        *)
(* ("acceptance outcome is unknown; no retry").                            *)
BeginRefused ==
    /\ host.pc = "begin" /\ ~(StateOf(host.entry) = "pending" /\ Unblocked /\ ~breached)
    /\ host' = Idle
    /\ UNCHANGED <<current, checks, entries, breached>>

Complete ==
    /\ host.pc = "complete"
    /\ SetEntry(host.entry, "completed")
    /\ host' = [host EXCEPT !.pc = "returned"]
    /\ UNCHANGED <<current, checks, breached>>

(* The caller has its answer. *)
Return ==
    /\ host.pc = "returned"
    /\ host' = Idle
    /\ UNCHANGED <<current, checks, entries, breached>>

Crash ==
    /\ ~IsIdle
    /\ host' = Idle
    /\ UNCHANGED <<current, checks, entries, breached>>

AcceptanceNext ==
    \/ \E t \in Targets, r \in Revisions : Revise(t, r)
    \/ \E q \in Requests : BeginCheck(q)
    \/ \E q \in Requests, breach \in BOOLEAN,
          state \in CheckOutcomes :
          \E values \in CheckValues[q] \cup {<<>>} :
              CompleteCheck(q, state, values, breach)
    \/ \E t \in Targets, rule \in Requirements : RecordException(t, rule)
    \/ \E t \in Targets, receipts \in ReceiptChoices,
          exceptions \in ExceptionChoices :
          Accept(t, receipts, exceptions)
    \/ Begin \/ BeginRefused \/ Complete \/ Return \/ Crash

AcceptanceSpec == AcceptanceInit /\ [][AcceptanceNext]_acceptanceVars

-----------------------------------------------------------------------------
(* Properties.                                                             *)

CompletedEntries(kind) ==
    {e \in DOMAIN entries : entries[e] = "completed" /\ e.kind = kind}

(* The check a requirement rests on passed, for the request the scope      *)
(* resolves to.                                                            *)
CheckPassed(scope, q) ==
    LET request == CheckRequest[scope.revision][scope.target][Policy(scope)[q].check]
    IN  /\ request # None
        /\ checks[request].state = "succeeded"
        /\ q \in DOMAIN checks[request].values /\ checks[request].values[q]

(* "No caller-supplied prior decision, applicability flag, or waiver can   *)
(* grant acceptance": whatever receipts and exceptions callers cite,       *)
(* whatever is revised or killed in between, every recorded acceptance     *)
(* rests on a passed check for each gate, citing the target, and on a      *)
(* passed check or an exception of exactly its own scope for each rule.    *)
AcceptedIsJustified ==
    \A d \in CompletedEntries("decision") : d.status = "accepted" =>
        \A q \in DOMAIN Policy(d.scope) :
            LET c == Policy(d.scope)[q].check
            IN  IF IsRule(d.scope, q)
                THEN \/ CheckPassed(d.scope, q)
                     \/ Exception(d.scope, q) \in CompletedEntries("rule-exception")
                ELSE /\ CheckPassed(d.scope, q)
                     /\ d.scope.target \in Cites[CheckRequest[d.scope.revision][d.scope.target][c]]

(* "A later budget breach cannot be bypassed": once a breach is recorded   *)
(* no call returns a decision, not even one recorded before.               *)
BreachBlocksAcceptance == host.pc = "returned" => ~breached

=============================================================================
