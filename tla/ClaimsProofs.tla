---------------------------- MODULE ClaimsProofs ----------------------------
(* What module Claims promises, for any drafts, requests, reports and      *)
(* allowance of proof units, and any history of claims.                    *)
EXTENDS Claims, FiniteSetTheorems, WellFoundedInduction, TLAPS

-----------------------------------------------------------------------------
(* The inductive invariant.                                                *)

States == {"absent", "pending", "unknown", "completed"}
Outcomes == {"succeeded", "failed", "infrastructure_failure"}

Bodies == {WithParents(d, ps) : d \in Drafts, ps \in SUBSET Nat}
Captures == [host : BOOLEAN, body : Bodies]

ClaimsTypeOK ==
    /\ history \in Seq(Captures) /\ Len(history) <= MaxEvents
    /\ DOMAIN operations = Requests
    /\ \A r \in Requests :
          /\ DOMAIN operations[r] = {"state", "outcome", "report"}
          /\ State(r) \in States
          /\ Completed(r) => operations[r].outcome \in Outcomes
    /\ attempts \in [Requests -> {0, 1}]
    /\ DOMAIN reported = Requests
    /\ DOMAIN host = {"pc", "request", "report"}
    /\ host = Idle \/ host.pc \in {"reserved", "begun", "verified"}

(* A captured claim cites what it is about and rests on earlier captures. *)
CapturesOK ==
    \A n \in DOMAIN history : history[n].host =>
        /\ IsClaim(n)
        /\ \A p \in Claim(n).parents : p \in DOMAIN history /\ history[p].host
        /\ Claim(n).validation # None =>
              Claim(n).target \in Cites[Claim(n).validation.request]

(* The verifier runs after its operation began, and what it reported stays *)
(* as it was when the operation was completed.                             *)
ProofOK(r) ==
    /\ attempts[r] = 1 => IsProof(r) /\ State(r) \in {"unknown", "completed"}
    /\ IsProof(r) /\ Completed(r) /\ operations[r].report = "passed" =>
          reported[r] = "proved" /\ operations[r].outcome = "succeeded"

(* The call of Proofs.check in progress knows how far its request is. *)
HostOK ==
    host # Idle =>
        /\ host.request \in Requests /\ IsProof(host.request)
        /\ host.pc = "reserved" => State(host.request) = "pending"
        /\ host.pc = "begun" =>
              State(host.request) = "unknown" /\ attempts[host.request] = 0
        /\ host.pc = "verified" =>
              /\ State(host.request) = "unknown"
              /\ host.report \in Reports /\ reported[host.request] = host.report

Held == {r \in Requests : IsProof(r) /\ State(r) # "absent"}
UnitsOK == IsFiniteSet(Held) /\ Cardinality(Held) <= ProofUnits

ClaimsInv ==
    /\ ClaimsTypeOK
    /\ CapturesOK
    /\ \A r \in Requests : ProofOK(r)
    /\ HostOK
    /\ UnitsOK

-----------------------------------------------------------------------------
(* Steps.                                                                  *)

LEMMA InitInv == Init => ClaimsInv
<1>. SUFFICES ASSUME Init PROVE ClaimsInv
  OBVIOUS
<1>1. ClaimsTypeOK
  BY ClaimsAssumption DEF Init, ClaimsTypeOK, Absent, Idle, State, States, Completed
<1>2. CapturesOK
  BY DEF Init, CapturesOK
<1>3. \A r \in Requests : ProofOK(r)
  BY DEF Init, ProofOK, Completed, State, Absent
<1>4. HostOK
  BY DEF Init, HostOK
<1>5. UnitsOK
  <2>1. Held = {}
    BY DEF Init, Held, State, Absent
  <2>. QED  BY <2>1, FS_EmptySet, ClaimsAssumption DEF UnitsOK
<1>. QED  BY <1>1, <1>2, <1>3, <1>4, <1>5 DEF ClaimsInv

(* A capture appended to the history leaves the earlier ones as they are.  *)
LEMMA Captured ==
    ASSUME ClaimsTypeOK, CapturesOK,
           NEW item \in Captures,
           history' = Append(history, item),
           item.host =>
               /\ \A p \in item.body.parents : IsClaim(p)
               /\ item.body.validation # None =>
                     item.body.target \in Cites[item.body.validation.request]
    PROVE  CapturesOK'
<1>1. /\ Len(history) \in Nat /\ DOMAIN history = 1..Len(history)
      /\ DOMAIN history' = 1..(Len(history) + 1)
      /\ history'[Len(history) + 1] = item
      /\ \A n \in DOMAIN history : history'[n] = history[n]
  BY DEF ClaimsTypeOK
<1>. SUFFICES ASSUME NEW n \in DOMAIN history', history'[n].host
              PROVE  /\ IsClaim(n)'
                     /\ \A p \in Claim(n)'.parents : p \in DOMAIN history' /\ history'[p].host
                     /\ Claim(n)'.validation # None =>
                           Claim(n)'.target \in Cites[Claim(n)'.validation.request]
  BY DEF CapturesOK
<1>2. CASE n \in DOMAIN history
  BY <1>1, <1>2 DEF CapturesOK, IsClaim, Claim
<1>3. CASE n = Len(history) + 1
  <2>1. \A p \in item.body.parents : p \in DOMAIN history /\ history[p].host /\ p < n
    BY <1>1, <1>3 DEF IsClaim
  <2>. QED  BY <1>1, <1>3, <2>1 DEF IsClaim, Claim
<1>. QED  BY <1>1, <1>2, <1>3

(* A capture touches nothing but the history. *)
LEMMA CaptureStep ==
    ASSUME ClaimsInv, Len(history) < MaxEvents,
           NEW item \in Captures,
           history' = Append(history, item),
           UNCHANGED <<operations, unattributed, host, attempts, reported>>,
           item.host =>
               /\ \A p \in item.body.parents : IsClaim(p)
               /\ item.body.validation # None =>
                     item.body.target \in Cites[item.body.validation.request]
    PROVE  ClaimsInv'
<1>1. ClaimsTypeOK'
  <2>1. history' \in Seq(Captures) /\ Len(history') <= MaxEvents
    BY ClaimsAssumption DEF ClaimsInv, ClaimsTypeOK
  <2>. QED  BY <2>1 DEF ClaimsInv, ClaimsTypeOK, State, Completed
<1>2. CapturesOK'
  BY Captured DEF ClaimsInv
<1>3. \A r \in Requests : ProofOK(r)'
  BY DEF ClaimsInv, ProofOK, State, Completed
<1>4. HostOK'
  BY DEF ClaimsInv, HostOK, State
<1>5. UnitsOK'
  BY DEF ClaimsInv, UnitsOK, Held, State
<1>. QED  BY <1>1, <1>2, <1>3, <1>4, <1>5 DEF ClaimsInv

LEMMA RecordClaimStep ==
    ASSUME ClaimsInv, NEW draft \in Drafts, NEW parents \in SUBSET DOMAIN history,
           RecordClaim(draft, parents)
    PROVE  ClaimsInv'
<1>. DEFINE item == [host |-> TRUE, body |-> WithParents(draft, parents)]
<1>1. parents \in SUBSET Nat
  BY DEF ClaimsInv, ClaimsTypeOK
<1>2. item \in Captures
  BY <1>1 DEF Captures, Bodies
<1>3. /\ \A p \in item.body.parents : IsClaim(p)
      /\ item.body.validation # None =>
            item.body.target \in Cites[item.body.validation.request]
  BY DEF RecordClaim, WithParents
<1>4. /\ Len(history) < MaxEvents /\ history' = Append(history, item)
      /\ UNCHANGED <<operations, unattributed, host, attempts, reported>>
  BY DEF RecordClaim
<1>. HIDE DEF item
<1>. QED  BY <1>2, <1>3, <1>4, CaptureStep

LEMMA CopyClaimStep ==
    ASSUME ClaimsInv, NEW n \in DOMAIN history, CopyClaim(n)
    PROVE  ClaimsInv'
<1>. DEFINE item == [host |-> FALSE, body |-> Claim(n)]
<1>1. Claim(n) \in Bodies
  <2>1. history \in Seq(Captures)
    BY DEF ClaimsInv, ClaimsTypeOK
  <2>2. history[n] \in Captures
    BY <2>1
  <2>. QED  BY <2>2 DEF Captures, Claim
<1>2. item \in Captures
  BY <1>1 DEF Captures
<1>3. ~item.host
  OBVIOUS
<1>4. /\ Len(history) < MaxEvents /\ history' = Append(history, item)
      /\ UNCHANGED <<operations, unattributed, host, attempts, reported>>
  BY DEF CopyClaim
<1>. HIDE DEF item
<1>. QED  BY <1>2, <1>3, <1>4, CaptureStep

(* A change to one operation of a host's check, outside Proofs.check. *)
LEMMA CheckStep ==
    ASSUME ClaimsInv, NEW r \in Requests, ~IsProof(r), host = Idle,
           NEW op, operations' = [operations EXCEPT ![r] = op],
           DOMAIN op = {"state", "outcome", "report"},
           op.state \in States, op.state = "completed" => op.outcome \in Outcomes,
           UNCHANGED <<history, unattributed, host, attempts, reported>>
    PROVE  ClaimsInv'
<1>1. /\ \A q \in Requests : q # r => operations'[q] = operations[q]
      /\ operations'[r] = op
      /\ DOMAIN operations' = Requests
  BY DEF ClaimsInv, ClaimsTypeOK
<1>2. ClaimsTypeOK'
  BY <1>1 DEF ClaimsInv, ClaimsTypeOK, State, Completed
<1>3. CapturesOK'
  BY DEF ClaimsInv, CapturesOK, IsClaim, Claim
<1>4. \A q \in Requests : ProofOK(q)'
  BY <1>1 DEF ClaimsInv, ProofOK, State, Completed
<1>5. HostOK'
  BY DEF ClaimsInv, HostOK
<1>6. UnitsOK'
  <2>1. Held' = Held
    BY <1>1 DEF Held, State
  <2>. QED  BY <2>1 DEF ClaimsInv, UnitsOK
<1>. QED  BY <1>2, <1>3, <1>4, <1>5, <1>6 DEF ClaimsInv

LEMMA ReserveStep ==
    ASSUME ClaimsInv, NEW r \in Requests, Reserve(r)
    PROVE  ClaimsInv'
<1>. DEFINE op == [operations[r] EXCEPT !.state = "pending"]
<1>1. DOMAIN op = {"state", "outcome", "report"} /\ op.state = "pending"
  BY DEF ClaimsInv, ClaimsTypeOK
<1>2. operations' = [operations EXCEPT ![r] = op]
  BY DEF Reserve
<1>3. ~IsProof(r) /\ host = Idle /\ UNCHANGED <<history, unattributed, host, attempts, reported>>
  BY DEF Reserve
<1>. HIDE DEF op
<1>. QED  BY <1>1, <1>2, <1>3, CheckStep DEF States

LEMMA BeginStep ==
    ASSUME ClaimsInv, NEW r \in Requests, Begin(r)
    PROVE  ClaimsInv'
<1>. DEFINE op == [operations[r] EXCEPT !.state = "unknown"]
<1>1. DOMAIN op = {"state", "outcome", "report"} /\ op.state = "unknown"
  BY DEF ClaimsInv, ClaimsTypeOK
<1>2. operations' = [operations EXCEPT ![r] = op]
  BY DEF Begin
<1>3. ~IsProof(r) /\ host = Idle /\ UNCHANGED <<history, unattributed, host, attempts, reported>>
  BY DEF Begin
<1>. HIDE DEF op
<1>. QED  BY <1>1, <1>2, <1>3, CheckStep DEF States

LEMMA CompleteStep ==
    ASSUME ClaimsInv, NEW r \in Requests, NEW report, NEW outcome \in Outcomes,
           Complete(r, outcome, report)
    PROVE  ClaimsInv'
<1>. DEFINE op == Settled(outcome, report)
<1>1. DOMAIN op = {"state", "outcome", "report"} /\ op.state = "completed"
      /\ op.outcome = outcome
  BY DEF Settled
<1>2. operations' = [operations EXCEPT ![r] = op]
  BY DEF Complete
<1>3. ~IsProof(r) /\ host = Idle /\ UNCHANGED <<history, unattributed, host, attempts, reported>>
  BY DEF Complete
<1>. HIDE DEF op
<1>. QED  BY <1>1, <1>2, <1>3, CheckStep DEF States

-----------------------------------------------------------------------------
(* The steps of Proofs.check.                                              *)

LEMMA CheckProofStep ==
    ASSUME ClaimsInv, NEW r \in Requests, CheckProof(r)
    PROVE  ClaimsInv'
<1>. DEFINE op == [operations[r] EXCEPT !.state = "pending"]
<1>1. DOMAIN op = {"state", "outcome", "report"} /\ op.state = "pending"
  BY DEF ClaimsInv, ClaimsTypeOK
<1>2. operations' = [operations EXCEPT ![r] = op]
  BY DEF CheckProof
<1>. HIDE DEF op
<1>3. /\ \A q \in Requests : q # r => operations'[q] = operations[q]
      /\ operations'[r] = op
      /\ DOMAIN operations' = Requests
  BY <1>2 DEF ClaimsInv, ClaimsTypeOK
<1>4. /\ IsProof(r) /\ State(r) \in {"absent", "pending"}
      /\ State(r) = "absent" => UnitsHeld < ProofUnits
      /\ host' = [pc |-> "reserved", request |-> r, report |-> None]
      /\ UNCHANGED <<history, unattributed, attempts, reported>>
  BY DEF CheckProof
<1>5. ClaimsTypeOK'
  BY <1>1, <1>3, <1>4 DEF ClaimsInv, ClaimsTypeOK, State, Completed, States
<1>6. CapturesOK'
  BY <1>4 DEF ClaimsInv, CapturesOK, IsClaim, Claim
<1>7. \A q \in Requests : ProofOK(q)'
  BY <1>1, <1>3, <1>4 DEF ClaimsInv, ProofOK, State, Completed
<1>8. HostOK'
  BY <1>1, <1>3, <1>4 DEF HostOK, State
<1>9. UnitsOK'
  <2>1. CASE State(r) = "pending"
    <3>1. Held' = Held
      BY <1>1, <1>3, <2>1 DEF Held, State
    <3>. QED  BY <3>1 DEF ClaimsInv, UnitsOK
  <2>2. CASE State(r) = "absent"
    <3>1. Held' = Held \cup {r} /\ r \notin Held
      BY <1>1, <1>3, <1>4, <2>2 DEF Held, State
    <3>2. IsFiniteSet(Held') /\ Cardinality(Held') = Cardinality(Held) + 1
          /\ Cardinality(Held) \in Nat
      BY <3>1, FS_AddElement, FS_CardinalityType DEF ClaimsInv, UnitsOK
    <3>3. Cardinality(Held) < ProofUnits
      BY <1>4, <2>2 DEF UnitsHeld, Held
    <3>. QED  BY <3>2, <3>3, ClaimsAssumption DEF UnitsOK
  <2>. QED  BY <1>4, <2>1, <2>2
<1>. QED  BY <1>5, <1>6, <1>7, <1>8, <1>9 DEF ClaimsInv

(* RefuseProof and Crash: the host forgets the call. *)
LEMMA ForgetStep ==
    ASSUME ClaimsInv, host' = Idle,
           UNCHANGED <<history, operations, unattributed, attempts, reported>>
    PROVE  ClaimsInv'
<1>1. ClaimsTypeOK'
  BY DEF ClaimsInv, ClaimsTypeOK, State, Completed, Idle
<1>2. CapturesOK'
  BY DEF ClaimsInv, CapturesOK, IsClaim, Claim
<1>3. \A r \in Requests : ProofOK(r)'
  BY DEF ClaimsInv, ProofOK, State, Completed
<1>4. HostOK'
  BY DEF HostOK
<1>5. UnitsOK'
  BY DEF ClaimsInv, UnitsOK, Held, State
<1>. QED  BY <1>1, <1>2, <1>3, <1>4, <1>5 DEF ClaimsInv

LEMMA BeginProofStep ==
    ASSUME ClaimsInv, BeginProof
    PROVE  ClaimsInv'
<1>. DEFINE r == host.request
<1>. DEFINE op == [operations[r] EXCEPT !.state = "unknown"]
<1>1. /\ r \in Requests /\ IsProof(r) /\ State(r) = "pending" /\ host # Idle
      /\ UNCHANGED <<history, unattributed, attempts, reported>>
  BY DEF ClaimsInv, HostOK, BeginProof, Idle
<1>2. DOMAIN op = {"state", "outcome", "report"} /\ op.state = "unknown"
  BY <1>1 DEF ClaimsInv, ClaimsTypeOK
<1>3. operations' = [operations EXCEPT ![r] = op]
  BY DEF BeginProof
<1>4. /\ DOMAIN host' = {"pc", "request", "report"}
      /\ host'.pc = "begun" /\ host'.request = r
  BY DEF ClaimsInv, ClaimsTypeOK, BeginProof
<1>. HIDE DEF op
<1>5. /\ \A q \in Requests : q # r => operations'[q] = operations[q]
      /\ operations'[r] = op
      /\ DOMAIN operations' = Requests
  BY <1>1, <1>3 DEF ClaimsInv, ClaimsTypeOK
<1>6. ClaimsTypeOK'
  BY <1>1, <1>2, <1>4, <1>5 DEF ClaimsInv, ClaimsTypeOK, State, Completed, States
<1>7. CapturesOK'
  BY <1>1 DEF ClaimsInv, CapturesOK, IsClaim, Claim
<1>8. \A q \in Requests : ProofOK(q)'
  BY <1>1, <1>2, <1>5 DEF ClaimsInv, ProofOK, State, Completed
<1>9. HostOK'
  <2>1. attempts[r] = 0
    BY <1>1 DEF ClaimsInv, ClaimsTypeOK, ProofOK
  <2>. QED  BY <1>1, <1>2, <1>4, <1>5, <2>1 DEF HostOK, State
<1>10. UnitsOK'
  <2>1. Held' = Held
    BY <1>1, <1>2, <1>5 DEF Held, State
  <2>. QED  BY <2>1 DEF ClaimsInv, UnitsOK
<1>. QED  BY <1>6, <1>7, <1>8, <1>9, <1>10 DEF ClaimsInv

(* The verifier runs: it raises, or returns its report. *)
Attempted == attempts' = [attempts EXCEPT ![host.request] = @ + 1]
Returned ==
    /\ DOMAIN reported' = Requests
    /\ \A q \in Requests : q # host.request => reported'[q] = reported[q]
    /\ DOMAIN host' = {"pc", "request", "report"}
    /\ host'.pc = "verified" /\ host'.request = host.request
    /\ host'.report \in Reports /\ reported'[host.request] = host'.report

LEMMA AttemptStep ==
    ASSUME ClaimsInv, host.pc = "begun", Attempted,
           UNCHANGED <<history, operations, unattributed>>,
           (host' = Idle /\ UNCHANGED reported) \/ Returned
    PROVE  ClaimsInv'
<1>. DEFINE r == host.request
<1>0. host # Idle
  BY DEF Idle
<1>1. /\ r \in Requests /\ IsProof(r) /\ State(r) = "unknown" /\ attempts[r] = 0
      /\ host # Idle
  BY <1>0 DEF ClaimsInv, HostOK
<1>2. /\ attempts' \in [Requests -> {0, 1}] /\ attempts'[r] = 1
      /\ \A q \in Requests : q # r => attempts'[q] = attempts[q]
  <2>1. attempts \in [Requests -> {0, 1}] /\ r \in Requests
    BY <1>1 DEF ClaimsInv, ClaimsTypeOK
  <2>2. attempts' = [attempts EXCEPT ![r] = 1]
    BY <1>1, <2>1 DEF Attempted
  <2>. QED  BY <2>1, <2>2
<1>3. /\ DOMAIN host' = {"pc", "request", "report"}
      /\ \/ host' = Idle
         \/ /\ host'.pc = "verified" /\ host'.request = r
            /\ host'.report \in Reports /\ reported'[r] = host'.report
  BY DEF Returned, Idle
<1>4. /\ DOMAIN reported' = Requests
      /\ \A q \in Requests : q # r => reported'[q] = reported[q]
  BY DEF ClaimsInv, ClaimsTypeOK, Returned
<1>5. ClaimsTypeOK'
  BY <1>2, <1>3, <1>4 DEF ClaimsInv, ClaimsTypeOK, State, Completed
<1>6. CapturesOK'
  BY DEF ClaimsInv, CapturesOK, IsClaim, Claim
<1>7. \A q \in Requests : ProofOK(q)'
  BY <1>1, <1>2, <1>4 DEF ClaimsInv, ProofOK, State, Completed
<1>8. HostOK'
  BY <1>1, <1>3 DEF HostOK, State
<1>9. UnitsOK'
  BY DEF ClaimsInv, UnitsOK, Held, State
<1>. QED  BY <1>5, <1>6, <1>7, <1>8, <1>9 DEF ClaimsInv

LEMMA RecordProofStep ==
    ASSUME ClaimsInv, RecordProof
    PROVE  ClaimsInv'
<1>. DEFINE r == host.request
<1>. DEFINE status == Decision(host.report)
<1>. DEFINE op == Settled(IF status = "infrastructure_failure"
                          THEN status ELSE "succeeded", status)
<1>1. /\ r \in Requests /\ IsProof(r) /\ State(r) = "unknown"
      /\ reported[r] = host.report /\ host.report \in Reports
      /\ host # Idle /\ host' = Idle
      /\ UNCHANGED <<history, attempts, reported>>
  BY DEF ClaimsInv, HostOK, RecordProof, Idle
<1>2. \/ UNCHANGED operations
      \/ operations' = [operations EXCEPT ![r] = op]
  BY DEF RecordProof
<1>3. CASE UNCHANGED operations
  <2>1. ClaimsTypeOK'
    BY <1>1, <1>3 DEF ClaimsInv, ClaimsTypeOK, State, Completed, Idle
  <2>2. CapturesOK'
    BY <1>1 DEF ClaimsInv, CapturesOK, IsClaim, Claim
  <2>3. \A q \in Requests : ProofOK(q)'
    BY <1>1, <1>3 DEF ClaimsInv, ProofOK, State, Completed
  <2>4. HostOK'
    BY <1>1 DEF HostOK
  <2>5. UnitsOK'
    BY <1>3 DEF ClaimsInv, UnitsOK, Held, State
  <2>. QED  BY <2>1, <2>2, <2>3, <2>4, <2>5 DEF ClaimsInv
<1>4. CASE operations' = [operations EXCEPT ![r] = op]
  <2>1. /\ DOMAIN op = {"state", "outcome", "report"} /\ op.state = "completed"
        /\ op.outcome \in Outcomes
        /\ op.report = "passed" =>
              host.report = "proved" /\ op.outcome = "succeeded"
    BY <1>1 DEF Settled, Decision, Outcomes, Reports
  <2>. HIDE DEF op
  <2>2. /\ \A q \in Requests : q # r => operations'[q] = operations[q]
        /\ operations'[r] = op
        /\ DOMAIN operations' = Requests
    BY <1>1, <1>4 DEF ClaimsInv, ClaimsTypeOK
  <2>3. ClaimsTypeOK'
    BY <1>1, <2>1, <2>2 DEF ClaimsInv, ClaimsTypeOK, State, Completed, Idle, States
  <2>4. CapturesOK'
    BY <1>1 DEF ClaimsInv, CapturesOK, IsClaim, Claim
  <2>5. \A q \in Requests : ProofOK(q)'
    BY <1>1, <2>1, <2>2 DEF ClaimsInv, ProofOK, HostOK, State, Completed
  <2>6. HostOK'
    BY <1>1 DEF HostOK
  <2>7. UnitsOK'
    <3>1. Held' = Held
      BY <1>1, <2>1, <2>2 DEF Held, State
    <3>. QED  BY <3>1 DEF ClaimsInv, UnitsOK
  <2>. QED  BY <2>3, <2>4, <2>5, <2>6, <2>7 DEF ClaimsInv
<1>. QED  BY <1>2, <1>3, <1>4

LEMMA VerifyStep ==
    ASSUME ClaimsInv, NEW report \in Reports, Verify(report)
    PROVE  ClaimsInv'
<1>1. host # Idle /\ host.pc = "begun"
  BY DEF Verify, Idle
<1>2. host.request \in Requests
  BY <1>1 DEF ClaimsInv, HostOK
<1>3. /\ DOMAIN reported' = Requests
      /\ \A q \in Requests : q # host.request => reported'[q] = reported[q]
      /\ reported'[host.request] = report
  BY <1>2 DEF Verify, ClaimsInv, ClaimsTypeOK
<1>4. /\ DOMAIN host' = {"pc", "request", "report"}
      /\ host'.pc = "verified" /\ host'.request = host.request
      /\ host'.report = report
  BY DEF Verify, ClaimsInv, ClaimsTypeOK
<1>5. Returned
  BY <1>3, <1>4 DEF Returned
<1>6. Attempted /\ UNCHANGED <<history, operations, unattributed>>
  BY DEF Verify, Attempted
<1>. QED  BY <1>1, <1>5, <1>6, AttemptStep

LEMMA NextInv == ClaimsInv /\ [Next]_claimsVars => ClaimsInv'
<1>. SUFFICES ASSUME ClaimsInv, [Next]_claimsVars PROVE ClaimsInv'
  OBVIOUS
<1>1. ASSUME NEW draft \in Drafts, NEW parents \in SUBSET DOMAIN history,
             RecordClaim(draft, parents)
      PROVE  ClaimsInv'
  BY <1>1, RecordClaimStep
<1>2. ASSUME NEW n \in DOMAIN history, CopyClaim(n) PROVE ClaimsInv'
  BY <1>2, CopyClaimStep
<1>3. ASSUME NEW r \in Requests, Reserve(r) PROVE ClaimsInv'
  BY <1>3, ReserveStep
<1>4. ASSUME NEW r \in Requests, Begin(r) PROVE ClaimsInv'
  BY <1>4, BeginStep
<1>5. ASSUME NEW r \in Requests, NEW report \in CheckResults,
             NEW outcome \in {"succeeded", "failed", "infrastructure_failure"},
             Complete(r, outcome, report)
      PROVE  ClaimsInv'
  BY <1>5, CompleteStep DEF Outcomes
<1>6. ASSUME NEW r \in Requests, CheckProof(r) PROVE ClaimsInv'
  BY <1>6, CheckProofStep
<1>7. CASE RefuseProof
  BY <1>7, ForgetStep DEF RefuseProof
<1>8. CASE BeginProof
  BY <1>8, BeginProofStep
<1>9. CASE VerifierRaises
  <2>1. /\ host.pc = "begun" /\ Attempted /\ host' = Idle
        /\ UNCHANGED <<history, operations, unattributed>> /\ UNCHANGED reported
    BY <1>9 DEF VerifierRaises, Attempted
  <2>. QED  BY <2>1, AttemptStep
<1>10. ASSUME NEW report \in Reports, Verify(report) PROVE ClaimsInv'
  BY <1>10, VerifyStep
<1>11. CASE RecordProof
  BY <1>11, RecordProofStep
<1>12. CASE Crash
  BY <1>12, ForgetStep DEF Crash
<1>13. CASE UNCHANGED claimsVars
  <2>. USE <1>13 DEF claimsVars
  <2>1. ClaimsTypeOK'
    BY DEF ClaimsInv, ClaimsTypeOK, State, Completed
  <2>2. CapturesOK'
    BY DEF ClaimsInv, CapturesOK, IsClaim, Claim
  <2>3. \A r \in Requests : ProofOK(r)'
    BY DEF ClaimsInv, ProofOK, State, Completed
  <2>4. HostOK'
    BY DEF ClaimsInv, HostOK, State
  <2>5. UnitsOK'
    BY DEF ClaimsInv, UnitsOK, Held, State
  <2>. QED  BY <2>1, <2>2, <2>3, <2>4, <2>5 DEF ClaimsInv
<1>. QED
  BY <1>1, <1>2, <1>3, <1>4, <1>5, <1>6, <1>7, <1>8, <1>9, <1>10, <1>11, <1>12,
     <1>13 DEF Next

(* The inductive invariant of claims, whatever is recorded, in any order,  *)
(* and wherever the process is killed.                                     *)
THEOREM ClaimsInvariant == ClaimsSpec => []ClaimsInv
<1>. QED  BY InitInv, NextInv, PTL DEF ClaimsSpec

-----------------------------------------------------------------------------
(* What it implies.                                                        *)

LEMMA Earned == ClaimsInv => PassedIsEarned
<1>. SUFFICES ASSUME ClaimsInv, NEW n \in DOMAIN history, history[n].host,
                     Validation(Claim(n)) = "passed"
              PROVE  LET check == Claim(n).validation
                         op == operations[check.request]
                     IN  /\ Claim(n).target \in Cites[check.request]
                         /\ op.outcome = "succeeded"
                         /\ IF IsProof(check.request)
                            THEN /\ reported[check.request] = "proved"
                                 /\ Claim(n).target = Theorem[check.request]
                            ELSE op.report[check.field] = "true"
  BY DEF PassedIsEarned
<1>. DEFINE body == Claim(n)
            r == body.validation.request
<1>1. body.validation # None
  BY DEF Validation
<1>2. r \in Recorded(OperationId[r]) /\ StatusUnder(r, body) = "passed"
  BY <1>1 DEF Validation
<1>3. r \in Requests
  BY <1>2 DEF Recorded
<1>4. body.target \in Cites[r]
  BY <1>1 DEF ClaimsInv, CapturesOK
<1>5. CASE IsProof(r)
  <2>1. ProofStatus(r, body.target) = "passed"
    BY <1>2, <1>5 DEF StatusUnder
  <2>2. body.target = Theorem[r] /\ Completed(r) /\ operations[r].report = "passed"
    BY <2>1 DEF ProofStatus
  <2>3. reported[r] = "proved" /\ operations[r].outcome = "succeeded"
    BY <1>3, <1>5, <2>2 DEF ClaimsInv, ProofOK
  <2>. QED  BY <1>4, <1>5, <2>2, <2>3
<1>6. CASE ~IsProof(r)
  <2>1. Completed(r) /\ FieldStatus(r, body.validation.field) = "passed"
    BY <1>2, <1>6 DEF StatusUnder
  <2>2. operations[r].outcome \in Outcomes
    BY <1>3, <2>1 DEF ClaimsInv, ClaimsTypeOK
  <2>3. /\ operations[r].outcome = "succeeded"
        /\ operations[r].report[body.validation.field] = "true"
    BY <2>1, <2>2 DEF FieldStatus, Outcomes
  <2>. QED  BY <1>4, <1>6, <2>3
<1>. QED  BY <1>5, <1>6

(* A claim passes only through the exact request it names, which cites its *)
(* target and said yes of it (Claims.assess, _validation), whatever else   *)
(* was recorded under the operation's id.                                  *)
THEOREM PassesAreEarned == ClaimsSpec => []PassedIsEarned
<1>. QED  BY ClaimsInvariant, Earned, PTL

LEMMA Bought == ClaimsInv => OneAttemptPerUnit
<1>. SUFFICES ASSUME ClaimsInv PROVE OneAttemptPerUnit
  OBVIOUS
<1>. DEFINE Run == {r \in Requests : attempts[r] > 0}
<1>1. \A r \in Requests : attempts[r] \in {0, 1}
  BY DEF ClaimsInv, ClaimsTypeOK
<1>2. Run \subseteq Held
  BY <1>1 DEF ClaimsInv, ProofOK, Held
<1>3. IsFiniteSet(Held) /\ Cardinality(Held) <= ProofUnits
  BY DEF ClaimsInv, UnitsOK
<1>4. Cardinality(Run) <= Cardinality(Held)
      /\ Cardinality(Run) \in Nat /\ Cardinality(Held) \in Nat
  BY <1>2, <1>3, FS_Subset, FS_CardinalityType
<1>5. Cardinality(Run) <= ProofUnits
  BY <1>3, <1>4, ClaimsAssumption
<1>. QED  BY <1>1, <1>5 DEF OneAttemptPerUnit

(* One reserved unit buys one run of the verifier (Proofs.check), however  *)
(* often the process is killed, the dispatch refused or the call repeated. *)
THEOREM AttemptsAreBought == ClaimsSpec => []OneAttemptPerUnit
<1>. QED  BY ClaimsInvariant, Bought, PTL

-----------------------------------------------------------------------------
(* Support.  assess visits the claims recursively and Ancestry unfolds     *)
(* recursively; both are shown to satisfy their equations, and compared by *)
(* induction on the place of the claim, in the form "no least              *)
(* counterexample".                                                        *)

LEMMA Smallest ==
    ASSUME NEW S, S \subseteq Nat, S # {}
    PROVE  \E m \in S : \A k \in S : m <= k
<1>1. PICK m \in S : \A k \in S : ~(<<k, m>> \in OpToRel(<, Nat))
  BY WFMin, NatLessThanWellFounded, Zenon
<1>2. ASSUME NEW k \in S PROVE ~(k < m)
  BY <1>1, <1>2, Zenon DEF OpToRel
<1>. QED  BY <1>2

Recordeds == {n \in DOMAIN history : IsClaim(n)}
Parents(n) == Claim(n).parents

LEMMA ClaimFacts ==
    ASSUME ClaimsInv
    PROVE  /\ Recordeds \subseteq 1..MaxEvents
           /\ \A n \in Recordeds :
                 /\ Parents(n) \subseteq Recordeds
                 /\ \A p \in Parents(n) : p < n
           /\ \A n \in DOMAIN history : history[n].host => n \in Recordeds
<1>1. DOMAIN history \subseteq 1..MaxEvents
  BY ClaimsAssumption DEF ClaimsInv, ClaimsTypeOK
<1>2. \A n \in DOMAIN history : history[n].host => n \in Recordeds
  BY DEF ClaimsInv, CapturesOK, Recordeds
<1>3. ASSUME NEW n \in Recordeds
      PROVE  Parents(n) \subseteq Recordeds /\ \A p \in Parents(n) : p < n
  BY <1>2, <1>3 DEF ClaimsInv, CapturesOK, Recordeds, Parents, IsClaim, Claim
<1>. QED  BY <1>1, <1>2, <1>3 DEF Recordeds

(* A draft assumes versions. *)
LEMMA DraftFacts ==
    ASSUME ClaimsInv, NEW n \in Recordeds
    PROVE  /\ Claim(n).complete \in BOOLEAN
           /\ \A name \in DOMAIN Claim(n).assumptions :
                 Claim(n).assumptions[name] \in Versions
<1>1. history \in Seq(Captures) /\ n \in DOMAIN history
  BY DEF ClaimsInv, ClaimsTypeOK, Recordeds
<1>2. history[n] \in Captures
  BY <1>1
<1>3. Claim(n) \in Bodies
  BY <1>2 DEF Captures, Claim
<1>4. PICK d \in Drafts : \E ps \in SUBSET Nat : Claim(n) = WithParents(d, ps)
  BY <1>3 DEF Bodies
<1>5. Claim(n).complete = d.complete /\ Claim(n).assumptions = d.assumptions
  BY <1>4 DEF WithParents
<1>. QED  BY <1>5, ClaimsAssumption

(* What assess makes of one claim, given what it made of the others. *)
Visit(current, v, n) ==
    Support(Claim(n), {AssumptionSupport(Claim(n), name, current) :
                          name \in DOMAIN Claim(n).assumptions}
                        \cup {v[p] : p \in Claim(n).parents})

(* A claim is visited after its parents, so the visits of the earlier ones *)
(* do not depend on what is found of it.                                   *)
LEMMA VisitExists ==
    ASSUME ClaimsInv, NEW current
    PROVE  \E v : v = [n \in Recordeds |-> Visit(current, v, n)]
<1>. DEFINE UpTo(v, k) ==
              /\ DOMAIN v = Recordeds /\ v = [n \in Recordeds |-> v[n]]
              /\ \A n \in Recordeds : n <= k => v[n] = Visit(current, v, n)
            Bad == {k \in Nat : ~ \E v : UpTo(v, k)}
<1>1. /\ Recordeds \subseteq 1..MaxEvents /\ MaxEvents \in Nat
      /\ \A n \in Recordeds : \A p \in Parents(n) : p \in Recordeds /\ p < n
  BY ClaimFacts, ClaimsAssumption
<1>2. Bad = {}
  <2>. SUFFICES ASSUME Bad # {} PROVE FALSE
    OBVIOUS
  <2>1. PICK k \in Bad : \A j \in Bad : k <= j
    <3>. HIDE DEF Bad
    <3>1. Bad \subseteq Nat
      BY DEF Bad
    <3>. QED  BY <3>1, Smallest
  <2>2. k \in Nat /\ ~ \E v : UpTo(v, k)
    BY <2>1
  <2>3. k # 0
    <3>. DEFINE v == [n \in Recordeds |-> 0]
    <3>1. UpTo(v, 0)
      BY <1>1
    <3>. QED  BY <2>2, <3>1
  <2>4. k - 1 \in Nat /\ k - 1 \notin Bad
    BY <2>1, <2>2, <2>3
  <2>5. PICK v : UpTo(v, k - 1)
    BY <2>4
  <2>. DEFINE w == [n \in Recordeds |-> IF n = k THEN Visit(current, v, n) ELSE v[n]]
  <2>6. ASSUME NEW n \in Recordeds, n <= k
        PROVE  Visit(current, w, n) = Visit(current, v, n)
    <3>1. \A p \in Parents(n) : w[p] = v[p]
      BY <1>1, <2>2, <2>6
    <3>2. {w[p] : p \in Parents(n)} = {v[p] : p \in Parents(n)}
      BY <3>1
    <3>. QED  BY <3>2 DEF Visit, Parents
  <2>7. ASSUME NEW n \in Recordeds, n <= k
        PROVE  w[n] = Visit(current, w, n)
    <3>1. w[n] = Visit(current, v, n)
      BY <1>1, <2>2, <2>5, <2>7
    <3>. QED  BY <2>6, <2>7, <3>1
  <2>8. DOMAIN w = Recordeds /\ w = [n \in Recordeds |-> w[n]]
    OBVIOUS
  <2>. HIDE DEF w
  <2>9. UpTo(w, k)
    BY <2>7, <2>8
  <2>. QED  BY <2>2, <2>9
<1>3. PICK v : UpTo(v, MaxEvents)
  BY <1>1, <1>2
<1>4. \A n \in Recordeds : v[n] = Visit(current, v, n)
  BY <1>1, <1>3
<1>5. v = [n \in Recordeds |-> v[n]]
  BY <1>3
<1>6. v = [n \in Recordeds |-> Visit(current, v, n)]
  BY <1>4, <1>5
<1>. QED  BY <1>6

LEMMA AssessVisits ==
    ASSUME ClaimsInv, NEW current
    PROVE  \A n \in Recordeds :
              Assess(current)[n] = Visit(current, Assess(current), n)
<1>. DEFINE P(v) == v = [n \in Recordeds |-> Visit(current, v, n)]
<1>1. \E v : P(v)
  BY VisitExists
<1>2. P(CHOOSE v : P(v))
  <2>. HIDE DEF P
  <2>. QED  BY <1>1
<1>3. Assess(current) = CHOOSE v : v = [n \in Recordeds |-> Visit(current, v, n)]
  BY DEF Assess, Visit, Recordeds
<1>4. P(Assess(current))
  BY <1>2, <1>3
<1>. HIDE DEF P
<1>5. Assess(current) = [n \in Recordeds |-> Visit(current, Assess(current), n)]
  BY <1>4 DEF P
<1>. QED  BY <1>5

(* The claims reached from a claim in at most k steps. *)
Rest(n, rests, k) ==
    IF k = 0 THEN {n}
    ELSE rests[k - 1] \cup UNION {Claim(m).parents : m \in rests[k - 1]}

LEMMA RestsExists ==
    ASSUME NEW n
    PROVE  \E rests : rests = [k \in 0..MaxEvents |-> Rest(n, rests, k)]
<1>. DEFINE UpTo(v, k) ==
              /\ v = [j \in 0..MaxEvents |-> v[j]]
              /\ \A j \in 0..MaxEvents : j <= k => v[j] = Rest(n, v, j)
            Bad == {k \in Nat : ~ \E v : UpTo(v, k)}
<1>1. MaxEvents \in Nat
  BY ClaimsAssumption
<1>2. Bad = {}
  <2>. SUFFICES ASSUME Bad # {} PROVE FALSE
    OBVIOUS
  <2>1. PICK k \in Bad : \A j \in Bad : k <= j
    <3>. HIDE DEF Bad
    <3>1. Bad \subseteq Nat
      BY DEF Bad
    <3>. QED  BY <3>1, Smallest
  <2>2. k \in Nat /\ ~ \E v : UpTo(v, k)
    BY <2>1
  <2>3. k # 0
    <3>. DEFINE v == [j \in 0..MaxEvents |-> {n}]
    <3>1. v = [j \in 0..MaxEvents |-> v[j]]
      OBVIOUS
    <3>2. \A j \in 0..MaxEvents : j <= 0 => v[j] = Rest(n, v, j)
      BY <1>1 DEF Rest
    <3>3. UpTo(v, 0)
      BY <3>1, <3>2
    <3>. QED  BY <2>2, <3>3
  <2>4. k - 1 \in Nat /\ k - 1 \notin Bad
    BY <2>1, <2>2, <2>3
  <2>5. PICK v : UpTo(v, k - 1)
    BY <2>4
  <2>. DEFINE w == [j \in 0..MaxEvents |-> IF j = k THEN Rest(n, v, j) ELSE v[j]]
  <2>6. ASSUME NEW j \in 0..MaxEvents, j <= k
        PROVE  Rest(n, w, j) = Rest(n, v, j)
    <3>1. CASE j = 0
      BY <3>1 DEF Rest
    <3>2. CASE j # 0
      <4>1. w[j - 1] = v[j - 1]
        BY <1>1, <2>2, <2>6, <3>2
      <4>. QED  BY <3>2, <4>1 DEF Rest
    <3>. QED  BY <3>1, <3>2
  <2>7. ASSUME NEW j \in 0..MaxEvents, j <= k
        PROVE  w[j] = Rest(n, w, j)
    <3>1. w[j] = Rest(n, v, j)
      BY <1>1, <2>2, <2>5, <2>7
    <3>. QED  BY <2>6, <2>7, <3>1
  <2>8. w = [j \in 0..MaxEvents |-> w[j]]
    OBVIOUS
  <2>. HIDE DEF w
  <2>9. UpTo(w, k)
    BY <2>7, <2>8
  <2>. QED  BY <2>2, <2>9
<1>3. PICK v : UpTo(v, MaxEvents)
  BY <1>1, <1>2
<1>4. \A j \in 0..MaxEvents : v[j] = Rest(n, v, j)
  BY <1>1, <1>3
<1>5. v = [j \in 0..MaxEvents |-> v[j]]
  BY <1>3
<1>6. v = [j \in 0..MaxEvents |-> Rest(n, v, j)]
  BY <1>4, <1>5
<1>. QED  BY <1>6

LEMMA AncestryUnfolds ==
    ASSUME NEW n
    PROVE  \E rests :
              /\ Ancestry(n) = rests[MaxEvents]
              /\ rests[0] = {n}
              /\ \A k \in 0..(MaxEvents - 1) :
                    rests[k + 1] = rests[k] \cup UNION {Parents(m) : m \in rests[k]}
<1>. DEFINE P(v) == v = [k \in 0..MaxEvents |-> Rest(n, v, k)]
            rests == CHOOSE v : P(v)
<1>1. \E v : P(v)
  BY RestsExists
<1>2. P(rests)
  <2>. HIDE DEF P
  <2>. QED  BY <1>1
<1>3. Ancestry(n) = (CHOOSE v : v = [k \in 0..MaxEvents |-> Rest(n, v, k)])[MaxEvents]
  BY DEF Ancestry, Rest
<1>4. Ancestry(n) = rests[MaxEvents]
  BY <1>3
<1>5. rests = [k \in 0..MaxEvents |-> Rest(n, rests, k)]
  BY <1>2
<1>. HIDE DEF rests, P
<1>6. \A k \in 0..MaxEvents : rests[k] = Rest(n, rests, k)
  BY <1>5
<1>7. MaxEvents \in Nat
  BY ClaimsAssumption
<1>8. rests[0] = {n}
  <2>1. 0 \in 0..MaxEvents
    BY <1>7
  <2>2. Rest(n, rests, 0) = {n}
    BY DEF Rest
  <2>. QED  BY <1>6, <2>1, <2>2
<1>9. ASSUME NEW k \in 0..(MaxEvents - 1)
      PROVE  rests[k + 1] = rests[k] \cup UNION {Parents(m) : m \in rests[k]}
  <2>1. k + 1 \in 0..MaxEvents /\ k + 1 # 0 /\ (k + 1) - 1 = k
    BY <1>7
  <2>2. rests[k + 1] = Rest(n, rests, k + 1)
    BY <1>6, <2>1
  <2>. QED  BY <2>1, <2>2 DEF Rest, Parents
<1>. QED  BY <1>4, <1>8, <1>9

(* An ancestry contains the claim, is closed under parents, and is within  *)
(* every set of claims that is: it is the least such set.                  *)
LEMMA AncestryIsLeast ==
    ASSUME ClaimsInv, NEW n \in Recordeds
    PROVE  /\ n \in Ancestry(n) /\ Ancestry(n) \subseteq Recordeds
           /\ \A m \in Ancestry(n) : Parents(m) \subseteq Ancestry(n)
           /\ \A A : n \in A /\ (\A m \in A : Parents(m) \subseteq A)
                        => Ancestry(n) \subseteq A
<1>1. PICK rests : /\ Ancestry(n) = rests[MaxEvents]
                   /\ rests[0] = {n}
                   /\ \A k \in 0..(MaxEvents - 1) :
                         rests[k + 1] = rests[k] \cup UNION {Parents(m) : m \in rests[k]}
  BY AncestryUnfolds
<1>2. /\ MaxEvents \in Nat /\ Recordeds \subseteq 1..MaxEvents
      /\ \A m \in Recordeds : Parents(m) \subseteq Recordeds
      /\ \A m \in Recordeds : \A p \in Parents(m) : p < m
  BY ClaimsAssumption, ClaimFacts
(* What is reached in k steps: new claims are at least k places before n. *)
<1>. DEFINE Good(k) ==
              /\ n \in rests[k] /\ rests[k] \subseteq Recordeds
              /\ \A m \in rests[k] : m <= n - k \/ Parents(m) \subseteq rests[k]
            Bad == {k \in 0..MaxEvents : ~Good(k)}
<1>3. Bad = {}
  <2>. SUFFICES ASSUME Bad # {} PROVE FALSE
    OBVIOUS
  <2>1. PICK k \in Bad : \A j \in Bad : k <= j
    <3>. HIDE DEF Bad
    <3>1. Bad \subseteq Nat
      BY <1>2 DEF Bad
    <3>. QED  BY <3>1, Smallest
  <2>2. k \in 0..MaxEvents /\ ~Good(k)
    BY <2>1
  <2>3. k # 0
    <3>1. Good(0)
      BY <1>1, <1>2
    <3>. QED  BY <2>2, <3>1
  <2>. DEFINE j == k - 1
  <2>4. /\ j \in 0..(MaxEvents - 1) /\ j \in 0..MaxEvents /\ j + 1 = k
        /\ j \in Nat /\ n \in Nat /\ ~(k <= j)
    BY <1>2, <2>2, <2>3
  <2>5. Good(j)
    BY <2>1, <2>4
  <2>6. rests[k] = rests[j] \cup UNION {Parents(m) : m \in rests[j]}
    BY <1>1, <2>4
  <2>. HIDE DEF j
  <2>7. ASSUME NEW m \in rests[k]
        PROVE  /\ m \in Recordeds
               /\ m <= n - k \/ Parents(m) \subseteq rests[k]
    <3>1. CASE m \in rests[j]
      BY <2>5, <2>6, <3>1
    <3>2. CASE m \notin rests[j]
      <4>1. PICK c \in rests[j] : m \in Parents(c)
        BY <2>6, <2>7, <3>2
      <4>2. c \in Recordeds /\ m \in Recordeds /\ m < c
        BY <1>2, <2>5, <4>1
      <4>3. c <= n - j
        BY <2>5, <3>2, <4>1
      <4>4. c \in Nat /\ m \in Nat
        BY <1>2, <4>2
      <4>. QED  BY <2>4, <4>2, <4>3, <4>4
    <3>. QED  BY <3>1, <3>2
  <2>8. Good(k)
    BY <2>5, <2>6, <2>7
  <2>. QED  BY <2>2, <2>8
<1>4. Good(MaxEvents)
  BY <1>2, <1>3
<1>5. ASSUME NEW m \in Ancestry(n) PROVE Parents(m) \subseteq Ancestry(n)
  <2>1. m \in 1..MaxEvents /\ n \in 1..MaxEvents
    BY <1>1, <1>2, <1>4, <1>5
  <2>2. ~(m <= n - MaxEvents)
    BY <1>2, <2>1
  <2>. QED  BY <1>1, <1>4, <1>5, <2>2
<1>6. ASSUME NEW A, n \in A, \A m \in A : Parents(m) \subseteq A
      PROVE  Ancestry(n) \subseteq A
  <2>. DEFINE Out == {k \in 0..MaxEvents : ~(rests[k] \subseteq A)}
  <2>1. Out = {}
    <3>. SUFFICES ASSUME Out # {} PROVE FALSE
      OBVIOUS
    <3>1. PICK k \in Out : \A j \in Out : k <= j
      <4>. HIDE DEF Out
      <4>1. Out \subseteq Nat
        BY <1>2 DEF Out
      <4>. QED  BY <4>1, Smallest
    <3>2. k # 0
      BY <1>1, <1>6, <3>1
    <3>. DEFINE j == k - 1
    <3>3. j \in 0..(MaxEvents - 1) /\ j \in 0..MaxEvents /\ j + 1 = k /\ ~(k <= j)
      BY <1>2, <3>1, <3>2
    <3>4. rests[j] \subseteq A
      BY <3>1, <3>3
    <3>5. rests[k] = rests[j] \cup UNION {Parents(m) : m \in rests[j]}
      BY <1>1, <3>3
    <3>. QED  BY <1>6, <3>1, <3>4, <3>5
  <2>. QED  BY <1>1, <1>2, <2>1
<1>. QED  BY <1>1, <1>4, <1>5, <1>6

(* The ancestry of a claim is the claim and the ancestries of its parents. *)
LEMMA AncestryOfParents ==
    ASSUME ClaimsInv, NEW n \in Recordeds
    PROVE  \A m : m \in Ancestry(n) <=>
              m = n \/ \E p \in Parents(n) : m \in Ancestry(p)
<1>1. Parents(n) \subseteq Recordeds
  BY ClaimFacts
<1>. DEFINE A == {n} \cup UNION {Ancestry(p) : p \in Parents(n)}
<1>2. ASSUME NEW m \in A PROVE Parents(m) \subseteq A
  <2>1. CASE m = n
    BY <1>1, <2>1, AncestryIsLeast
  <2>2. CASE \E p \in Parents(n) : m \in Ancestry(p)
    <3>1. PICK p \in Parents(n) : m \in Ancestry(p)
      BY <2>2
    <3>2. Parents(m) \subseteq Ancestry(p)
      BY <1>1, <3>1, AncestryIsLeast
    <3>. QED  BY <3>2
  <2>. QED  BY <1>2, <2>1, <2>2
<1>3. Ancestry(n) \subseteq A
  <2>1. n \in A
    OBVIOUS
  <2>. HIDE DEF A
  <2>. QED  BY <1>2, <2>1, AncestryIsLeast
<1>4. ASSUME NEW p \in Parents(n) PROVE Ancestry(p) \subseteq Ancestry(n)
  <2>1. p \in Recordeds /\ p \in Ancestry(n)
    BY <1>1, AncestryIsLeast
  <2>. QED  BY <2>1, AncestryIsLeast
<1>5. n \in Ancestry(n)
  BY AncestryIsLeast
<1>. QED  BY <1>3, <1>4, <1>5

-----------------------------------------------------------------------------

(* Some assumption of the claim has another version now. *)
Outdated(current, m) ==
    \E name \in DOMAIN Claim(m).assumptions :
        current[name] # None /\ current[name] # Claim(m).assumptions[name]

(* The claim is complete and every assumption of it is unchanged. *)
Fresh(current, m) ==
    /\ Claim(m).complete
    /\ \A name \in DOMAIN Claim(m).assumptions :
          current[name] = Claim(m).assumptions[name]

(* Support of one claim, from its own assumptions and its parents'. *)
LEMMA VisitCombines ==
    ASSUME ClaimsInv, NEW current, NEW v, NEW n \in Recordeds,
           \A p \in Parents(n) : v[p] \in {"stale", "unknown", "current"}
    PROVE  /\ Visit(current, v, n) \in {"stale", "unknown", "current"}
           /\ Visit(current, v, n) = "stale" <=>
                 Outdated(current, n) \/ \E p \in Parents(n) : v[p] = "stale"
           /\ Visit(current, v, n) = "current" <=>
                 Fresh(current, n) /\ \A p \in Parents(n) : v[p] = "current"
<1>. DEFINE own == {AssumptionSupport(Claim(n), name, current) :
                       name \in DOMAIN Claim(n).assumptions}
            deps == own \cup {v[p] : p \in Parents(n)}
<1>1. Visit(current, v, n) = Support(Claim(n), deps)
  BY DEF Visit, Parents
<1>2. \A name \in DOMAIN Claim(n).assumptions :
          /\ AssumptionSupport(Claim(n), name, current) \in {"stale", "unknown", "current"}
          /\ AssumptionSupport(Claim(n), name, current) = "stale" <=>
                current[name] # None /\ current[name] # Claim(n).assumptions[name]
          /\ AssumptionSupport(Claim(n), name, current) = "current" <=>
                current[name] = Claim(n).assumptions[name]
  <2>1. \A name \in DOMAIN Claim(n).assumptions : Claim(n).assumptions[name] # None
    BY DraftFacts, ClaimsAssumption
  <2>. QED  BY <2>1 DEF AssumptionSupport
<1>3. "stale" \in own <=> Outdated(current, n)
  BY <1>2 DEF Outdated
<1>4. own \subseteq {"current"} <=>
          \A name \in DOMAIN Claim(n).assumptions :
              current[name] = Claim(n).assumptions[name]
  BY <1>2
<1>5. own \subseteq {"stale", "unknown", "current"}
  BY <1>2
<1>6. Claim(n).complete \in BOOLEAN
  BY DraftFacts
<1>. HIDE DEF own
<1>7. /\ deps \subseteq {"stale", "unknown", "current"}
      /\ "stale" \in deps <=>
            Outdated(current, n) \/ \E p \in Parents(n) : v[p] = "stale"
      /\ deps \subseteq {"current"} <=>
            own \subseteq {"current"} /\ \A p \in Parents(n) : v[p] = "current"
  BY <1>3, <1>5
<1>. HIDE DEF deps
<1>8. /\ Support(Claim(n), deps) \in {"stale", "unknown", "current"}
      /\ Support(Claim(n), deps) = "stale" <=> "stale" \in deps
      /\ Support(Claim(n), deps) = "current" <=>
            Claim(n).complete /\ "stale" \notin deps /\ "unknown" \notin deps
  BY <1>6 DEF Support
<1>9. "stale" \notin deps /\ "unknown" \notin deps <=> deps \subseteq {"current"}
  BY <1>7
<1>. QED  BY <1>1, <1>4, <1>7, <1>8, <1>9 DEF Fresh

LEMMA SupportIsOfAncestry ==
    ASSUME ClaimsInv, NEW current, NEW n \in Recordeds
    PROVE  /\ Assess(current)[n] \in {"stale", "unknown", "current"}
           /\ Assess(current)[n] = "stale" <=>
                 \E m \in Ancestry(n) : Outdated(current, m)
           /\ Assess(current)[n] = "current" <=>
                 \A m \in Ancestry(n) : Fresh(current, m)
<1>. DEFINE v == Assess(current)
            Holds(c) ==
                /\ v[c] \in {"stale", "unknown", "current"}
                /\ v[c] = "stale" <=> \E m \in Ancestry(c) : Outdated(current, m)
                /\ v[c] = "current" <=> \A m \in Ancestry(c) : Fresh(current, m)
            Bad == {c \in Recordeds : ~Holds(c)}
<1>1. Bad = {}
  <2>. SUFFICES ASSUME Bad # {} PROVE FALSE
    OBVIOUS
  <2>1. PICK c \in Bad : \A d \in Bad : c <= d
    <3>. HIDE DEF Bad
    <3>1. Bad \subseteq Nat
      BY ClaimFacts, ClaimsAssumption DEF Bad
    <3>. QED  BY <3>1, Smallest
  <2>2. c \in Recordeds /\ ~Holds(c)
    BY <2>1
  <2>3. \A p \in Parents(c) : p \in Recordeds /\ ~(c <= p)
    <3>1. /\ Recordeds \subseteq Nat
          /\ \A p \in Parents(c) : p \in Recordeds /\ p < c
      BY <2>2, ClaimFacts, ClaimsAssumption
    <3>2. ASSUME NEW p \in Parents(c) PROVE p \in Recordeds /\ ~(c <= p)
      <4>1. p \in Recordeds /\ p < c /\ p \in Nat /\ c \in Nat
        BY <2>2, <3>1
      <4>. QED  BY <4>1
    <3>. QED  BY <3>2
  <2>4. \A p \in Parents(c) : Holds(p)
    BY <2>1, <2>3
  <2>5. v[c] = Visit(current, v, c)
    BY <2>2, AssessVisits
  <2>6. /\ Visit(current, v, c) \in {"stale", "unknown", "current"}
        /\ Visit(current, v, c) = "stale" <=>
              Outdated(current, c) \/ \E p \in Parents(c) : v[p] = "stale"
        /\ Visit(current, v, c) = "current" <=>
              Fresh(current, c) /\ \A p \in Parents(c) : v[p] = "current"
    <3>1. \A p \in Parents(c) : v[p] \in {"stale", "unknown", "current"}
      BY <2>4
    <3>. HIDE DEF v
    <3>. QED  BY <2>2, <3>1, VisitCombines
  <2>7. \A m : m \in Ancestry(c) <=> m = c \/ \E p \in Parents(c) : m \in Ancestry(p)
    BY <2>2, AncestryOfParents
  <2>. HIDE DEF v
  <2>8. v[c] = "stale" <=> \E m \in Ancestry(c) : Outdated(current, m)
    BY <2>4, <2>5, <2>6, <2>7
  <2>9. v[c] = "current" <=> \A m \in Ancestry(c) : Fresh(current, m)
    BY <2>4, <2>5, <2>6, <2>7
  <2>. QED  BY <2>2, <2>5, <2>6, <2>8, <2>9
<1>. QED  BY <1>1

LEMMA Matches == ClaimsInv => SupportMatchesAncestry
<1>. SUFFICES ASSUME ClaimsInv, NEW current \in [Names -> Versions \cup {None}],
                     NEW n \in DOMAIN history, history[n].host
              PROVE  LET assumed == UNION {{<<m, name>> : name \in DOMAIN Claim(m).assumptions}
                                             : m \in Ancestry(n)}
                         Differs(x) == /\ current[x[2]] # None
                                       /\ current[x[2]] # Claim(x[1]).assumptions[x[2]]
                     IN  /\ (Assess(current)[n] = "stale") = \E x \in assumed : Differs(x)
                         /\ (Assess(current)[n] = "current") =
                              /\ \A m \in Ancestry(n) : Claim(m).complete
                              /\ \A x \in assumed :
                                   current[x[2]] = Claim(x[1]).assumptions[x[2]]
  BY DEF SupportMatchesAncestry
<1>. DEFINE assumed == UNION {{<<m, name>> : name \in DOMAIN Claim(m).assumptions}
                                : m \in Ancestry(n)}
            Differs(x) == /\ current[x[2]] # None
                          /\ current[x[2]] # Claim(x[1]).assumptions[x[2]]
            Same(x) == current[x[2]] = Claim(x[1]).assumptions[x[2]]
<1>1. n \in Recordeds
  BY ClaimFacts
<1>2. (\E x \in assumed : Differs(x)) <=> \E m \in Ancestry(n) : Outdated(current, m)
  <2>1. ASSUME NEW x \in assumed, Differs(x)
        PROVE  \E m \in Ancestry(n) : Outdated(current, m)
    <3>1. PICK m \in Ancestry(n) : x \in {<<m, name>> : name \in DOMAIN Claim(m).assumptions}
      BY <2>1
    <3>2. PICK name \in DOMAIN Claim(m).assumptions : x = <<m, name>>
      BY <3>1
    <3>3. x[1] = m /\ x[2] = name
      BY <3>2
    <3>. QED  BY <2>1, <3>3 DEF Outdated
  <2>2. ASSUME NEW m \in Ancestry(n), Outdated(current, m)
        PROVE  \E x \in assumed : Differs(x)
    <3>1. PICK name \in DOMAIN Claim(m).assumptions :
              current[name] # None /\ current[name] # Claim(m).assumptions[name]
      BY <2>2 DEF Outdated
    <3>2. <<m, name>> \in assumed
      OBVIOUS
    <3>3. Differs(<<m, name>>)
      BY <3>1
    <3>. HIDE DEF assumed, Differs
    <3>. QED  BY <3>2, <3>3
  <2>. HIDE DEF assumed, Differs
  <2>. QED  BY <2>1, <2>2
<1>3. (\A x \in assumed : Same(x)) <=>
          \A m \in Ancestry(n) : \A name \in DOMAIN Claim(m).assumptions :
              current[name] = Claim(m).assumptions[name]
  <2>1. ASSUME \A x \in assumed : Same(x),
               NEW m \in Ancestry(n), NEW name \in DOMAIN Claim(m).assumptions
        PROVE  current[name] = Claim(m).assumptions[name]
    <3>1. <<m, name>> \in assumed
      OBVIOUS
    <3>2. Same(<<m, name>>)
      <4>. HIDE DEF assumed, Same
      <4>. QED  BY <2>1, <3>1
    <3>. QED  BY <3>2
  <2>2. ASSUME \A m \in Ancestry(n) : \A name \in DOMAIN Claim(m).assumptions :
                  current[name] = Claim(m).assumptions[name],
               NEW x \in assumed
        PROVE  Same(x)
    <3>1. PICK m \in Ancestry(n) : x \in {<<m, name>> : name \in DOMAIN Claim(m).assumptions}
      BY <2>2
    <3>2. PICK name \in DOMAIN Claim(m).assumptions : x = <<m, name>>
      BY <3>1
    <3>3. x[1] = m /\ x[2] = name
      BY <3>2
    <3>. QED  BY <2>2, <3>3
  <2>. HIDE DEF assumed, Same
  <2>. QED  BY <2>1, <2>2
<1>4. (/\ \A m \in Ancestry(n) : Claim(m).complete
       /\ \A x \in assumed : Same(x)) <=> \A m \in Ancestry(n) : Fresh(current, m)
  <2>. HIDE DEF assumed, Same
  <2>. QED  BY <1>3 DEF Fresh
<1>5. /\ Assess(current)[n] = "stale" <=> \E m \in Ancestry(n) : Outdated(current, m)
      /\ Assess(current)[n] = "current" <=> \A m \in Ancestry(n) : Fresh(current, m)
  BY <1>1, SupportIsOfAncestry
<1>6. (Assess(current)[n] = "stale") = \E x \in assumed : Differs(x)
  <2>. HIDE DEF assumed, Differs
  <2>. QED  BY <1>2, <1>5
<1>7. (Assess(current)[n] = "current") =
          /\ \A m \in Ancestry(n) : Claim(m).complete
          /\ \A x \in assumed : Same(x)
  <2>. HIDE DEF assumed, Same
  <2>. QED  BY <1>4, <1>5
<1>. QED  BY <1>6, <1>7

(* Claims.assess is conservative: whatever versions are current, a claim   *)
(* is stale exactly when an assumption it rests on, however indirectly,    *)
(* has another version, and current exactly when all of it is complete and *)
(* unchanged.                                                              *)
THEOREM SupportIsConservative == ClaimsSpec => []SupportMatchesAncestry
<1>. QED  BY ClaimsInvariant, Matches, PTL
=============================================================================
