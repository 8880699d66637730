------------------------------- MODULE Claims -------------------------------
(***************************************************************************)
(* Claims and proof receipts (src/warranted/_claims.py and                 *)
(* _proof_receipts.py).  A host captures claims about evidence, with the   *)
(* versions they assume, earlier claims they rest on and, optionally, the  *)
(* operation that validates them.  A claim is never changed; assess reads  *)
(* its support anew under the versions that are current now.               *)
(*                                                                         *)
(* A reference to a claim is its place in the history: the observation's   *)
(* sequence number is part of every evidence name, so two captures of the  *)
(* same bytes are different evidence.                                      *)
(***************************************************************************)
EXTENDS Integers, FiniteSets, Sequences

CONSTANTS
    Names,          \* names of assumptions
    Versions,       \* evidence that may be an assumption's version
    Drafts,         \* claims a host may record, without their parents
    Requests,       \* requests of the operations that validate claims
    OperationId,    \* request -> its operation id
    Cites,          \* request -> the evidence among its inputs
    Theorem,        \* request -> its policy's challenge, None for a check
    CheckResults,   \* what a check may report: field -> value
    ProofUnits,     \* the project's allowance of proof units
    MaxEvents,      \* bound on captured claims
    None            \* no version, no validation, no theorem

IsProof(r) == Theorem[r] # None
Reports == {"proved", "rejected", "unproved", "infrastructure_failure",
            "unsupported"}

(* A request that validates a proof names its challenge among its inputs,  *)
(* and what a draft assumes is always some version.                        *)
ASSUME ClaimsAssumption ==
    /\ ProofUnits \in Nat /\ MaxEvents \in Nat
    /\ None \notin Versions
    /\ \A r \in Requests : IsProof(r) => Theorem[r] \in Cites[r]
    /\ \A d \in Drafts :
          /\ DOMAIN d.assumptions \subseteq Names
          /\ \A name \in DOMAIN d.assumptions : d.assumptions[name] \in Versions
          /\ d.complete \in BOOLEAN

VARIABLES
    history,        \* captures of claim.json, in order
    operations,     \* request -> state, outcome and report of its operation
    unattributed,   \* proof requests whose raw result was only recorded
    host,           \* the call of Proofs.check in progress
    attempts,       \* request -> how often the verifier was run on it
    reported        \* request -> what the verifier reported last

claimsVars == <<history, operations, unattributed, host, attempts, reported>>

Absent == [state |-> "absent", outcome |-> None, report |-> <<>>]
Idle == [pc |-> "idle", request |-> None, report |-> None]
State(r) == operations[r].state
Unknown(r) == State(r) = "unknown"
Completed(r) == State(r) = "completed"
Settled(outcome, report) ==
    [state |-> "completed", outcome |-> outcome, report |-> report]

-----------------------------------------------------------------------------
(* Reading the recorded claims.                                            *)

(* _claim: the host's own capture, resting on captures made before it. *)
IsClaim(n) ==
    /\ n \in DOMAIN history
    /\ history[n].host
    /\ \A p \in history[n].body.parents : p < n

Claim(n) == history[n].body

(* proof_status of a recorded operation. *)
ProofStatus(r, target) ==
    IF target # Theorem[r] THEN "unsupported"
    ELSE IF Completed(r) THEN operations[r].report
    ELSE IF r \in unattributed THEN "unsupported"
    ELSE "unknown"

(* What a completed check says of one of its fields. *)
FieldStatus(r, field) ==
    LET op == operations[r]
    IN  IF op.outcome = "infrastructure_failure" THEN "infrastructure_failure"
        ELSE IF op.outcome = "failed" \/ field \notin DOMAIN op.report THEN "unsupported"
        ELSE CASE op.report[field] = "true" -> "passed"
               [] op.report[field] = "false" -> "rejected"
               [] OTHER -> "unsupported"

(* The request recorded under an operation id, if one is. *)
Recorded(id) ==
    {r \in Requests : OperationId[r] = id /\ State(r) # "absent"}

(* The status of a claim checked by the operation `r` recorded under its   *)
(* operation id.                                                           *)
StatusUnder(r, body) ==
    IF IsProof(r)
    THEN IF body.validation.field # "proof" THEN "unsupported"
         ELSE ProofStatus(r, body.target)
    ELSE IF Completed(r) THEN FieldStatus(r, body.validation.field)
    ELSE "unknown"

(* Mutant of Validation: the operation id alone identifies the check. *)
ValidationById(body) ==
    IF body.validation = None THEN "unproved"
    ELSE LET found == Recorded(OperationId[body.validation.request])
         IN  IF found = {} THEN "missing"
             ELSE StatusUnder(CHOOSE r \in found : TRUE, body)

(* _validation *)
Validation(body) ==
    IF body.validation = None THEN "unproved"
    ELSE LET request == body.validation.request
             found == Recorded(OperationId[request])
         IN  IF found = {} THEN "missing"
             ELSE IF request \notin found THEN "unsupported"
             ELSE StatusUnder(request, body)

(* An assumption under the versions that are current now. *)
AssumptionSupport(body, name, current) ==
    IF current[name] = None THEN "unknown"
    ELSE IF current[name] = body.assumptions[name] THEN "current"
    ELSE "stale"

(* Mutant of Support: what is unknown hides what is stale. *)
SupportUnknownFirst(body, dependencies) ==
    IF ~body.complete \/ "unknown" \in dependencies THEN "unknown"
    ELSE IF "stale" \in dependencies THEN "stale"
    ELSE "current"

(* How visit combines the dependencies of a claim. *)
Support(body, dependencies) ==
    IF "stale" \in dependencies THEN "stale"
    ELSE IF ~body.complete \/ "unknown" \in dependencies THEN "unknown"
    ELSE "current"

(* assess: the applicability of every claim, the parents' first. *)
Assess(current) ==
    LET visit[n \in {n \in DOMAIN history : IsClaim(n)}] ==
            LET body == Claim(n)
            IN  Support(body,
                        {AssumptionSupport(body, name, current) :
                            name \in DOMAIN body.assumptions}
                          \cup {visit[p] : p \in body.parents})
    IN  visit

-----------------------------------------------------------------------------
(* Recording.                                                              *)

Init ==
    /\ history = <<>>
    /\ operations = [r \in Requests |-> Absent]
    /\ unattributed = {}
    /\ host = Idle
    /\ attempts = [r \in Requests |-> 0]
    /\ reported = [r \in Requests |-> None]

(* Ledger.lookup refuses a request whose id names another request. *)
NoConflict(r) == Recorded(OperationId[r]) \subseteq {r}

WithParents(draft, parents) ==
    [target |-> draft.target, assumptions |-> draft.assumptions,
     validation |-> draft.validation, complete |-> draft.complete,
     parents |-> parents]

(* Claims.record.  Recording a captured claim again returns the capture    *)
(* and changes nothing.                                                    *)
RecordClaim(draft, parents) ==
    LET body == WithParents(draft, parents)
    IN  /\ Len(history) < MaxEvents
        /\ \A p \in parents : IsClaim(p)
        /\ body.validation # None =>
             /\ body.target \in Cites[body.validation.request]
             /\ NoConflict(body.validation.request)
        /\ ~ \E n \in DOMAIN history : history[n] = [host |-> TRUE, body |-> body]
        /\ history' = Append(history, [host |-> TRUE, body |-> body])
        /\ UNCHANGED <<operations, unattributed, host, attempts, reported>>

(* Another producer captures a copy of a claim's bytes. *)
CopyClaim(n) ==
    /\ Len(history) < MaxEvents
    /\ history[n].host
    /\ history' = Append(history, [host |-> FALSE, body |-> Claim(n)])
    /\ UNCHANGED <<operations, unattributed, host, attempts, reported>>

(* The host's checks: Ledger.reserve, begin and complete (module Ledger    *)
(* has their budgets).                                                     *)
Reserve(r) ==
    /\ host = Idle /\ ~IsProof(r)
    /\ State(r) = "absent" /\ NoConflict(r)
    /\ operations' = [operations EXCEPT ![r].state = "pending"]
    /\ UNCHANGED <<history, unattributed, host, attempts, reported>>

Begin(r) ==
    /\ host = Idle /\ ~IsProof(r)
    /\ State(r) = "pending"
    /\ ~ \E q \in Requests : Unknown(q)
    /\ operations' = [operations EXCEPT ![r].state = "unknown"]
    /\ UNCHANGED <<history, unattributed, host, attempts, reported>>

Complete(r, outcome, report) ==
    /\ host = Idle /\ ~IsProof(r)
    /\ Unknown(r)
    /\ operations' = [operations EXCEPT ![r] = Settled(outcome, report)]
    /\ UNCHANGED <<history, unattributed, host, attempts, reported>>

-----------------------------------------------------------------------------
(* Proofs.check, one transaction at a time.                                *)

UnitsHeld == Cardinality({r \in Requests : IsProof(r) /\ State(r) # "absent"})

(* One unit is reserved, and kept whatever becomes of the attempt. *)
CheckProof(r) ==
    /\ host = Idle /\ IsProof(r)
    /\ NoConflict(r)
    /\ \/ State(r) = "pending"
       \/ State(r) = "absent" /\ UnitsHeld < ProofUnits
    /\ operations' = [operations EXCEPT ![r].state = "pending"]
    /\ host' = [pc |-> "reserved", request |-> r, report |-> None]
    /\ UNCHANGED <<history, unattributed, attempts, reported>>

(* An unknown operation refuses the dispatch. *)
RefuseProof ==
    /\ host.pc = "reserved"
    /\ \E q \in Requests : Unknown(q)
    /\ host' = Idle
    /\ UNCHANGED <<history, operations, unattributed, attempts, reported>>

BeginProof ==
    /\ host.pc = "reserved"
    /\ ~ \E q \in Requests : Unknown(q)
    /\ operations' = [operations EXCEPT ![host.request].state = "unknown"]
    /\ host' = [host EXCEPT !.pc = "begun"]
    /\ UNCHANGED <<history, unattributed, attempts, reported>>

(* Mutant of VerifierRaises: an attempt that raised is made again. *)
VerifierRetried ==
    /\ host.pc = "begun" /\ attempts[host.request] < 2
    /\ attempts' = [attempts EXCEPT ![host.request] = @ + 1]
    /\ UNCHANGED <<history, operations, unattributed, host, reported>>

(* _verify raises, cleanup of its container being uncertain. *)
VerifierRaises ==
    /\ host.pc = "begun"
    /\ attempts' = [attempts EXCEPT ![host.request] = @ + 1]
    /\ host' = Idle
    /\ UNCHANGED <<history, operations, unattributed, reported>>

(* _verify returns its report. *)
Verify(report) ==
    /\ host.pc = "begun"
    /\ attempts' = [attempts EXCEPT ![host.request] = @ + 1]
    /\ reported' = [reported EXCEPT ![host.request] = report]
    /\ host' = [host EXCEPT !.pc = "verified", !.report = report]
    /\ UNCHANGED <<history, operations, unattributed>>

(* _decision of a report that is well formed or already unsupported. *)
Decision(report) == IF report = "proved" THEN "passed" ELSE report

(* An unsupported report is recorded and settles nothing; any other        *)
(* completes the operation.                                                *)
RecordProof ==
    /\ host.pc = "verified"
    /\ LET status == Decision(host.report)
       IN  IF status = "unsupported"
           THEN /\ unattributed' = unattributed \cup {host.request}
                /\ UNCHANGED operations
           ELSE /\ operations' =
                     [operations EXCEPT ![host.request] =
                        Settled(IF status = "infrastructure_failure"
                                THEN status ELSE "succeeded", status)]
                /\ UNCHANGED unattributed
    /\ host' = Idle
    /\ UNCHANGED <<history, attempts, reported>>

(* The process is killed: what is not recorded is lost. *)
Crash ==
    /\ host # Idle
    /\ host' = Idle
    /\ UNCHANGED <<history, operations, unattributed, attempts, reported>>

Next ==
    \/ \E draft \in Drafts : \E parents \in SUBSET DOMAIN history :
          RecordClaim(draft, parents)
    \/ \E n \in DOMAIN history : CopyClaim(n)
    \/ \E r \in Requests : Reserve(r)
    \/ \E r \in Requests : Begin(r)
    \/ \E r \in Requests, report \in CheckResults,
          outcome \in {"succeeded", "failed", "infrastructure_failure"} :
          Complete(r, outcome, report)
    \/ \E r \in Requests : CheckProof(r)
    \/ RefuseProof
    \/ BeginProof
    \/ VerifierRaises
    \/ \E report \in Reports : Verify(report)
    \/ RecordProof
    \/ Crash

ClaimsSpec == Init /\ [][Next]_claimsVars

-----------------------------------------------------------------------------
(* Properties.                                                             *)

(* A claim and every claim it rests on, directly or through others. *)
Ancestry(n) ==
    LET rests[k \in 0..MaxEvents] ==
            IF k = 0 THEN {n}
            ELSE rests[k - 1] \cup UNION {Claim(m).parents : m \in rests[k - 1]}
    IN  rests[MaxEvents]

(* Conservative support: whatever versions are current, assess finds every *)
(* recorded claim stale exactly when some assumption of its ancestry has   *)
(* another version now, and current exactly when the whole ancestry is     *)
(* complete and every assumption of it is unchanged.                       *)
SupportMatchesAncestry ==
    \A current \in [Names -> Versions \cup {None}] :
        LET applicability == Assess(current)
        IN  \A n \in DOMAIN history : history[n].host =>
              LET assumed == UNION {{<<m, name>> : name \in DOMAIN Claim(m).assumptions}
                                      : m \in Ancestry(n)}
                  Differs(x) == /\ current[x[2]] # None
                                /\ current[x[2]] # Claim(x[1]).assumptions[x[2]]
              IN  /\ (applicability[n] = "stale") = \E x \in assumed : Differs(x)
                  /\ (applicability[n] = "current") =
                       /\ \A m \in Ancestry(n) : Claim(m).complete
                       /\ \A x \in assumed :
                            current[x[2]] = Claim(x[1]).assumptions[x[2]]

(* A claim passes only through the exact request it names: a check of that *)
(* request that succeeded and said yes, or a verifier run on that request  *)
(* that proved the claim's own target, whatever else was recorded under    *)
(* the operation id.                                                       *)
PassedIsEarned ==
    \A n \in DOMAIN history :
        history[n].host /\ Validation(Claim(n)) = "passed" =>
            LET check == Claim(n).validation
                op == operations[check.request]
            IN  /\ Claim(n).target \in Cites[check.request]
                /\ op.outcome = "succeeded"
                /\ IF IsProof(check.request)
                   THEN /\ reported[check.request] = "proved"
                        /\ Claim(n).target = Theorem[check.request]
                   ELSE op.report[check.field] = "true"

(* One reserved unit buys one run of the verifier, and no crash, refusal   *)
(* or failure of it buys another.                                          *)
OneAttemptPerUnit ==
    /\ \A r \in Requests : attempts[r] <= 1
    /\ Cardinality({r \in Requests : attempts[r] > 0}) <= ProofUnits

=============================================================================
