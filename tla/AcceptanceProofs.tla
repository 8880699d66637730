-------------------------- MODULE AcceptanceProofs --------------------------
(* What module Acceptance promises, for any policies, revisions, receipts  *)
(* and exceptions a caller may cite.                                       *)
EXTENDS Acceptance, TLAPS

-----------------------------------------------------------------------------
(* The inductive invariant: what accept finds justified when it composes a *)
(* decision stays justified, so every recorded acceptance is, whatever     *)
(* became of its commit; and no call is under way after a breach.          *)

Justified(d) ==
    \A q \in DOMAIN Policy(d.scope) :
        LET c == Policy(d.scope)[q].check
        IN  IF IsRule(d.scope, q)
            THEN \/ CheckPassed(d.scope, q)
                 \/ Exception(d.scope, q) \in CompletedEntries("rule-exception")
            ELSE /\ CheckPassed(d.scope, q)
                 /\ d.scope.target \in Cites[CheckRequest[d.scope.revision][d.scope.target][c]]

AcceptanceTypeOK ==
    /\ current \in [Targets -> Revisions]
    /\ DOMAIN checks = Requests
    /\ \A q \in Requests :
          /\ DOMAIN checks[q] = {"state", "values"}
          /\ checks[q].state \in {"absent", "unknown", "infrastructure_failure", "failed",
                                 "succeeded"}
    /\ \A e \in DOMAIN entries : entries[e] \in {"pending", "unknown", "completed"}
    /\ DOMAIN host = {"pc", "entry"}
    /\ host.pc \in {"idle", "begin", "complete", "returned"}

DecisionsJustified ==
    \A d \in DOMAIN entries : d.kind = "decision" /\ d.status = "accepted" =>
        /\ d.scope \in [target : Targets, revision : Revisions]
        /\ Justified(d)

(* An entry that is being completed is marked so. *)
CommitMatches ==
    /\ ~IsIdle => ~breached
    /\ host.pc = "complete" => host.entry \in DOMAIN entries

AcceptanceInv == AcceptanceTypeOK /\ DecisionsJustified /\ CommitMatches

-----------------------------------------------------------------------------
(* What accept decides.                                                    *)

(* A decision accepts only if nothing is invalid and each requirement      *)
(* passed or was excepted.                                                 *)
LEMMA OverallAccepts ==
    ASSUME NEW statuses, NEW invalid \in BOOLEAN, Overall(statuses, invalid) = "accepted"
    PROVE  ~invalid /\ \A i \in 1..6 : Priority[i] \notin statuses
<1>1. DOMAIN Priority = 1..6 /\ \A i \in 1..6 : Priority[i] # "accepted"
  BY DEF Priority
<1>2. ~invalid BY DEF Overall
<1>3. ASSUME NEW i \in 1..6, Priority[i] \in statuses PROVE FALSE
  <2> DEFINE In(k) == Priority[k] \in statuses
             First(k) == In(k) /\ \A j \in 1..(k - 1) : ~In(j)
  <2>1. \E k \in 1..6 : In(k) BY <1>3
  <2> HIDE DEF In
  <2>2. \E k \in 1..6 : First(k)
    <3>1. CASE In(1) BY <3>1
    <3>2. CASE ~In(1) /\ In(2) BY <3>2
    <3>3. CASE ~In(1) /\ ~In(2) /\ In(3) BY <3>3
    <3>4. CASE ~In(1) /\ ~In(2) /\ ~In(3) /\ In(4) BY <3>4
    <3>5. CASE ~In(1) /\ ~In(2) /\ ~In(3) /\ ~In(4) /\ In(5) BY <3>5
    <3>6. CASE ~In(1) /\ ~In(2) /\ ~In(3) /\ ~In(4) /\ ~In(5) BY <2>1, <3>6
    <3>7. QED BY <3>1, <3>2, <3>3, <3>4, <3>5, <3>6
  <2>3. (CHOOSE k \in 1..6 : First(k)) \in 1..6 BY <2>2
  <2>4. Overall(statuses, invalid) = Priority[CHOOSE k \in 1..6 : First(k)]
    BY <1>1, <1>2, <1>3 DEF Overall, In
  <2>5. QED BY <1>1, <2>3, <2>4
<1>4. QED BY <1>2, <1>3

(* A requirement that stands in no way passed or was excepted. *)
LEMMA RequirementMet ==
    ASSUME AcceptanceTypeOK, NEW t \in Targets, NEW r \in Revisions,
           NEW scope, scope = [target |-> t, revision |-> r],
           NEW q \in DOMAIN Policies[r], NEW receipts, NEW exceptions,
           \A i \in 1..6 : Priority[i] # RequirementStatus(scope, q, receipts, exceptions)
    PROVE  IF IsRule(scope, q)
           THEN \/ CheckPassed(scope, q)
                \/ Exception(scope, q) \in CompletedEntries("rule-exception")
           ELSE /\ CheckPassed(scope, q)
                /\ t \in Cites[CheckRequest[r][t][Policies[r][q].check]]
<1> DEFINE c == Policies[r][q].check
           request == CheckRequest[r][t][c]
           receipt == Receipt(receipts, c)
           status == CheckStatus(scope, c, receipt)
           outcome == RequirementStatus(scope, q, receipts, exceptions)
<1>1. /\ scope.target = t /\ scope.revision = r /\ Policy(scope) = Policies[r]
      /\ Policies[r][q].kind \in {"gate", "rule"}
      /\ IsRule(scope, q) <=> Policies[r][q].kind = "rule"
      /\ request \in Requests \cup {None} /\ None \notin Requests
  <2>1. scope.target = t /\ scope.revision = r OBVIOUS
  <2>2. Policy(scope) = Policies[r] BY <2>1 DEF Policy
  <2>3. Policies[r][q].kind \in {"gate", "rule"} /\ None \notin Requests BY PolicyAssumption
  <2>4. CheckRequest[r][t] \in
          [{Policies[r][p].check : p \in DOMAIN Policies[r]} -> Requests \cup {None}]
    BY PolicyAssumption
  <2>5. c \in {Policies[r][p].check : p \in DOMAIN Policies[r]} OBVIOUS
  <2>6. request \in Requests \cup {None} BY <2>4, <2>5
  <2>7. QED BY <2>1, <2>2, <2>3, <2>6 DEF IsRule
<1>2. outcome \notin {"unsupported", "infrastructure_failure", "unknown", "missing",
                      "stale", "rejected"}
  <2>1. /\ Priority[1] # outcome /\ Priority[2] # outcome /\ Priority[3] # outcome
        /\ Priority[4] # outcome /\ Priority[5] # outcome /\ Priority[6] # outcome
    OBVIOUS
  <2> HIDE DEF outcome
  <2>2. QED BY <2>1 DEF Priority
<1>3. CASE IsRule(scope, q) /\ q \in DOMAIN exceptions
  <2>1. ExceptionStatus(scope, q, exceptions[q]) = outcome
    BY <1>1, <1>3 DEF RequirementStatus
  <2>2. /\ exceptions[q] \in DOMAIN entries /\ entries[exceptions[q]] = "completed"
        /\ exceptions[q] = Exception(scope, q)
    BY <1>2, <2>1 DEF ExceptionStatus
  <2>3. Exception(scope, q).kind = "rule-exception" BY DEF Exception
  <2>4. QED BY <1>3, <2>2, <2>3 DEF CompletedEntries
<1>4. CASE ~(IsRule(scope, q) /\ q \in DOMAIN exceptions)
  <2>1. outcome = IF status # "values" THEN status
                  ELSE IF checks[receipts[c]].values[q] THEN "passed" ELSE "rejected"
    BY <1>1, <1>4 DEF RequirementStatus
  <2>2. status = "values"
    <3>1. status # "values" => outcome = status BY <2>1
    <3>2. request \in Requests => checks[request].state \in
              {"absent", "unknown", "infrastructure_failure", "failed", "succeeded"}
      BY DEF AcceptanceTypeOK
    <3>3. status \in {"unsupported", "infrastructure_failure", "unknown", "missing",
                      "stale", "values"}
      BY <1>1, <3>2 DEF CheckStatus
    <3> HIDE DEF status, outcome
    <3>4. QED BY <1>2, <3>1, <3>3
  <2>3. checks[receipts[c]].values[q]
    BY <1>2, <2>1, <2>2
  <2>4. /\ request \in Requests /\ receipt = request
        /\ checks[request].state = "succeeded"
        /\ DOMAIN checks[request].values = Fields(scope, c)
        /\ Gated(scope, c) => t \in Cites[request]
    <3>1. request \in Requests => checks[request].state \in
              {"absent", "unknown", "infrastructure_failure", "failed", "succeeded"}
      BY DEF AcceptanceTypeOK
    <3>2. QED BY <1>1, <2>2, <3>1 DEF CheckStatus
  <2>5. receipts[c] = request BY <1>1, <2>4 DEF Receipt
  <2>6. q \in Fields(scope, c) BY <1>1 DEF Fields
  <2>7. CheckPassed(scope, q)
    BY <1>1, <2>3, <2>4, <2>5, <2>6 DEF CheckPassed
  <2>8. ~IsRule(scope, q) => Gated(scope, c) BY <1>1 DEF Gated
  <2>9. QED BY <2>4, <2>7, <2>8
<1>5. QED BY <1>3, <1>4

(* A decision composed now that accepts is justified now. *)
LEMMA ComposedIsJustified ==
    ASSUME AcceptanceTypeOK, NEW t \in Targets, NEW receipts, NEW exceptions,
           Decision(t, receipts, exceptions).status = "accepted"
    PROVE  /\ Decision(t, receipts, exceptions).scope \in
                [target : Targets, revision : Revisions]
           /\ Justified(Decision(t, receipts, exceptions))
<1> DEFINE r == current[t]
           scope == [target |-> t, revision |-> r]
           decision == Decision(t, receipts, exceptions)
           requirements == [q \in DOMAIN Policy(scope) |->
                               RequirementStatus(scope, q, receipts, exceptions)]
           statuses == {requirements[q] : q \in DOMAIN requirements}
           invalid == \/ ~(DOMAIN receipts \subseteq PolicyChecks(scope))
                      \/ \E q \in DOMAIN exceptions : ~IsRule(scope, q)
<1>1. r \in Revisions BY DEF AcceptanceTypeOK
<1>2. /\ decision.scope = scope /\ decision.status = Overall(statuses, invalid)
      /\ scope \in [target : Targets, revision : Revisions]
      /\ scope.target = t /\ scope.revision = r
  BY <1>1 DEF Decision, ScopeOf
<1>3. \A i \in 1..6 : Priority[i] \notin statuses
  <2>1. invalid \in BOOLEAN /\ Overall(statuses, invalid) = "accepted" BY <1>2
  <2> HIDE DEF statuses, invalid
  <2>2. QED BY <2>1, OverallAccepts
<1>4. Policy(scope) = Policies[r] BY <1>2 DEF Policy
<1>5. ASSUME NEW q \in DOMAIN Policy(scope)
      PROVE  IF IsRule(scope, q)
             THEN \/ CheckPassed(scope, q)
                  \/ Exception(scope, q) \in CompletedEntries("rule-exception")
             ELSE /\ CheckPassed(scope, q)
                  /\ t \in Cites[CheckRequest[r][t][Policies[r][q].check]]
  <2>1. RequirementStatus(scope, q, receipts, exceptions) \in statuses BY <1>5
  <2>2. \A i \in 1..6 : Priority[i] # RequirementStatus(scope, q, receipts, exceptions)
    BY <1>3, <2>1
  <2>3. q \in DOMAIN Policies[r] BY <1>4
  <2> HIDE DEF statuses
  <2>4. QED BY <1>1, <2>2, <2>3, RequirementMet
<1> HIDE DEF decision, scope
<1>6. Justified(decision) BY <1>2, <1>4, <1>5 DEF Justified
<1>7. QED BY <1>2, <1>6 DEF decision

(* What a decision rests on is never taken back. *)
LEMMA JustifiedStays ==
    ASSUME NEW d, d.scope \in [target : Targets, revision : Revisions], Justified(d),
           \A q \in Requests : checks[q].state = "succeeded" => checks'[q] = checks[q],
           \A e \in DOMAIN entries : entries[e] = "completed" =>
               e \in DOMAIN entries' /\ entries'[e] = "completed"
    PROVE  Justified(d)'
<1>1. PICK scope \in [target : Targets, revision : Revisions] : d.scope = scope OBVIOUS
<1> DEFINE t == scope.target
           r == scope.revision
<1>2. t \in Targets /\ r \in Revisions /\ Policy(scope) = Policies[r] BY DEF Policy
<1>3. ASSUME NEW q \in DOMAIN Policies[r]
      PROVE  CheckRequest[r][t][Policies[r][q].check] \in Requests \cup {None}
  <2>1. CheckRequest[r][t] \in
          [{Policies[r][p].check : p \in DOMAIN Policies[r]} -> Requests \cup {None}]
    BY <1>2, PolicyAssumption
  <2>2. Policies[r][q].check \in {Policies[r][p].check : p \in DOMAIN Policies[r]} OBVIOUS
  <2>3. QED BY <2>1, <2>2
<1>4. ASSUME NEW q \in DOMAIN Policies[r], CheckPassed(scope, q)
      PROVE  CheckPassed(scope, q)'
  BY <1>2, <1>3, <1>4 DEF CheckPassed
<1>5. ASSUME NEW q, Exception(scope, q) \in CompletedEntries("rule-exception")
      PROVE  (Exception(scope, q) \in CompletedEntries("rule-exception"))'
  BY <1>5 DEF CompletedEntries
<1>6. QED BY <1>1, <1>2, <1>4, <1>5 DEF Justified

-----------------------------------------------------------------------------
(* The invariant holds at first and every action keeps it. *)

LEMMA AcceptanceInitially == AcceptanceInit => AcceptanceInv
BY DEF AcceptanceInit, AcceptanceInv, AcceptanceTypeOK, DecisionsJustified, CommitMatches,
       Idle, IsIdle

(* A step that takes back no success, no completed entry, and records no   *)
(* new decision keeps the recorded ones justified.                         *)
LEMMA DecisionsStay ==
    ASSUME DecisionsJustified,
           \A q \in Requests : checks[q].state = "succeeded" => checks'[q] = checks[q],
           \A e \in DOMAIN entries : entries[e] = "completed" =>
               e \in DOMAIN entries' /\ entries'[e] = "completed",
           \A e \in DOMAIN entries' \ DOMAIN entries :
               e.kind = "decision" /\ e.status = "accepted" =>
                   /\ e.scope \in [target : Targets, revision : Revisions]
                   /\ Justified(e)
    PROVE  DecisionsJustified'
<1> SUFFICES ASSUME NEW d \in DOMAIN entries', d.kind = "decision", d.status = "accepted"
             PROVE  d.scope \in [target : Targets, revision : Revisions] /\ Justified(d)'
  BY DEF DecisionsJustified
<1>1. d.scope \in [target : Targets, revision : Revisions] /\ Justified(d)
  BY DEF DecisionsJustified
<1>2. QED BY <1>1, JustifiedStays

LEMMA CommitStep ==
    ASSUME AcceptanceInv, NEW entry, Commit(entry),
           entry.kind = "decision" /\ entry.status = "accepted" =>
               /\ entry.scope \in [target : Targets, revision : Revisions]
               /\ Justified(entry)
    PROVE  AcceptanceInv'
<1> USE DEF AcceptanceInv
<1>1. /\ ~breached /\ UNCHANGED <<current, checks, breached>>
      /\ host' = [pc |-> IF StateOf(entry) = "completed" THEN "returned" ELSE "begin",
                  entry |-> entry]
      /\ \/ UNCHANGED entries
         \/ /\ entry \notin DOMAIN entries
            /\ entries' = [e \in DOMAIN entries \cup {entry} |->
                              IF e = entry THEN "pending" ELSE entries[e]]
  BY DEF Commit, Ask, SetEntry, StateOf, AcceptanceTypeOK
<1>2. AcceptanceTypeOK' BY <1>1 DEF AcceptanceTypeOK
<1>3. CommitMatches' BY <1>1 DEF CommitMatches
<1>4. DecisionsJustified'
  <2>1. \A e \in DOMAIN entries : e \in DOMAIN entries' /\ entries'[e] = entries[e]
    BY <1>1
  <2>2. \A e \in DOMAIN entries' \ DOMAIN entries : e = entry BY <1>1
  <2>3. QED BY <1>1, <2>1, <2>2, DecisionsStay
<1>5. QED BY <1>2, <1>3, <1>4

(* An entry of the ledger gets another state, and was not completed. *)
LEMMA SetEntryStep ==
    ASSUME AcceptanceInv, NEW state \in {"unknown", "completed"},
           host.entry \in DOMAIN entries,
           state = "completed" \/ entries[host.entry] # "completed",
           SetEntry(host.entry, state), UNCHANGED <<current, checks, breached>>,
           DOMAIN host' = DOMAIN host, host'.pc \in {"complete", "returned"},
           host'.entry = host.entry, ~breached
    PROVE  AcceptanceInv'
<1> USE DEF AcceptanceInv
<1>1. /\ DOMAIN entries' = DOMAIN entries
      /\ \A e \in DOMAIN entries : entries'[e] = IF e = host.entry THEN state ELSE entries[e]
  BY DEF SetEntry
<1>2. AcceptanceTypeOK' BY <1>1 DEF AcceptanceTypeOK
<1>3. CommitMatches' BY <1>1 DEF CommitMatches
<1>4. DecisionsJustified' BY <1>1, DecisionsStay
<1>5. QED BY <1>2, <1>3, <1>4

(* The actions that leave the ledger's entries alone. *)
LEMMA CheckStep ==
    ASSUME AcceptanceInv, IsIdle, NEW q \in Requests,
           \/ BeginCheck(q)
           \/ \E state \in CheckOutcomes, breach \in BOOLEAN :
                \E values \in CheckValues[q] \cup {<<>>} :
                  CompleteCheck(q, state, values, breach)
    PROVE  AcceptanceInv'
<1> USE DEF AcceptanceInv
<1>1. /\ UNCHANGED <<current, entries, host>> /\ checks[q].state # "succeeded"
      /\ DOMAIN checks' = DOMAIN checks
      /\ \A p \in Requests \ {q} : checks'[p] = checks[p]
  BY DEF BeginCheck, CompleteCheck, AcceptanceTypeOK
<1>2. /\ DOMAIN checks'[q] = {"state", "values"}
      /\ checks'[q].state \in {"absent", "unknown", "infrastructure_failure", "failed",
                               "succeeded"}
  <2>1. CASE BeginCheck(q)
    <3>1. checks'[q] = [checks[q] EXCEPT !.state = "unknown"]
      BY <2>1 DEF BeginCheck, AcceptanceTypeOK
    <3>2. DOMAIN checks[q] = {"state", "values"} BY DEF AcceptanceTypeOK
    <3>3. QED BY <3>1, <3>2
  <2>2. ASSUME NEW state \in CheckOutcomes, NEW breach \in BOOLEAN, NEW values,
               CompleteCheck(q, state, values, breach)
        PROVE  <1>2!1 /\ <1>2!2
    <3>1. checks'[q] = [state |-> state, values |-> values]
      BY <2>2 DEF CompleteCheck, AcceptanceTypeOK
    <3>2. QED BY <3>1, PolicyAssumption
  <2>3. QED BY <2>1, <2>2
<1>3. AcceptanceTypeOK' BY <1>1, <1>2 DEF AcceptanceTypeOK
<1>4. CommitMatches' BY <1>1 DEF CommitMatches, IsIdle
<1>5. DecisionsJustified' BY <1>1, DecisionsStay
<1>6. QED BY <1>3, <1>4, <1>5

LEMMA QuietAcceptanceStep ==
    ASSUME AcceptanceInv, UNCHANGED <<checks, entries, breached>>,
           current' \in [Targets -> Revisions], UNCHANGED host \/ host' = Idle
    PROVE  AcceptanceInv'
<1> USE DEF AcceptanceInv
<1>1. AcceptanceTypeOK' BY DEF AcceptanceTypeOK, Idle
<1>2. CommitMatches' BY DEF CommitMatches, IsIdle, Idle
<1>3. DecisionsJustified' BY DecisionsStay
<1>4. QED BY <1>1, <1>2, <1>3

LEMMA AcceptanceInvariant == AcceptanceSpec => []AcceptanceInv
<1>1. ASSUME AcceptanceInv, [AcceptanceNext]_acceptanceVars
      PROVE  AcceptanceInv'
  <2> USE <1>1
  <2>1. ASSUME NEW t \in Targets, NEW r \in Revisions, Revise(t, r)
        PROVE  AcceptanceInv'
    <3>1. /\ UNCHANGED <<checks, entries, breached, host>>
          /\ current' \in [Targets -> Revisions]
      BY <2>1 DEF Revise, AcceptanceInv, AcceptanceTypeOK
    <3>2. QED BY <3>1, QuietAcceptanceStep
  <2>2. ASSUME NEW q \in Requests, BeginCheck(q) PROVE AcceptanceInv'
    BY <2>2, CheckStep DEF BeginCheck
  <2>3. ASSUME NEW q \in Requests, NEW breach \in BOOLEAN, NEW state \in CheckOutcomes,
               NEW values \in CheckValues[q] \cup {<<>>},
               CompleteCheck(q, state, values, breach)
        PROVE  AcceptanceInv'
    <3>1. IsIdle BY <2>3 DEF CompleteCheck
    <3>2. QED BY <2>3, <3>1, CheckStep
  <2>4. ASSUME NEW t \in Targets, NEW rule \in Requirements, RecordException(t, rule)
        PROVE  AcceptanceInv'
    <3>1. PICK entry : /\ entry = Exception(ScopeOf(t), rule)
                       /\ entry.kind = "rule-exception" /\ Commit(entry)
      BY <2>4 DEF RecordException, Exception
    <3>2. QED BY <3>1, CommitStep
  <2>5. ASSUME NEW t \in Targets, NEW receipts \in ReceiptChoices,
               NEW exceptions \in ExceptionChoices, Accept(t, receipts, exceptions)
        PROVE  AcceptanceInv'
    <3>1. PICK entry : entry = Decision(t, receipts, exceptions) /\ Commit(entry)
      BY <2>5 DEF Accept
    <3>2. entry.status = "accepted" =>
              /\ entry.scope \in [target : Targets, revision : Revisions]
              /\ Justified(entry)
      BY <3>1, ComposedIsJustified DEF AcceptanceInv
    <3>3. QED BY <3>1, <3>2, CommitStep
  <2>6. CASE Begin
    <3>1. /\ host.entry \in DOMAIN entries /\ entries[host.entry] = "pending" /\ ~breached
          /\ SetEntry(host.entry, "unknown") /\ UNCHANGED <<current, checks, breached>>
          /\ host' = [host EXCEPT !.pc = "complete"] /\ DOMAIN host = {"pc", "entry"}
      BY <2>6 DEF Begin, StateOf, AcceptanceInv, AcceptanceTypeOK
    <3>2. QED BY <3>1, SetEntryStep DEF AcceptanceInv
  <2>7. CASE BeginRefused
    BY <2>7, QuietAcceptanceStep DEF BeginRefused, AcceptanceInv, AcceptanceTypeOK
  <2>8. CASE Complete
    <3>1. /\ host.entry \in DOMAIN entries /\ ~breached
          /\ SetEntry(host.entry, "completed") /\ UNCHANGED <<current, checks, breached>>
          /\ host' = [host EXCEPT !.pc = "returned"] /\ DOMAIN host = {"pc", "entry"}
      BY <2>8 DEF Complete, AcceptanceInv, AcceptanceTypeOK, CommitMatches, IsIdle
    <3>2. QED BY <3>1, SetEntryStep
  <2>9. CASE Return \/ Crash
    BY <2>9, QuietAcceptanceStep DEF Return, Crash, AcceptanceInv, AcceptanceTypeOK
  <2>10. CASE UNCHANGED acceptanceVars
    BY <2>10, QuietAcceptanceStep DEF acceptanceVars, AcceptanceInv, AcceptanceTypeOK
  <2>11. QED
    BY <2>1, <2>2, <2>3, <2>4, <2>5, <2>6, <2>7, <2>8, <2>9, <2>10 DEF AcceptanceNext
<1>2. QED BY <1>1, AcceptanceInitially, PTL DEF AcceptanceSpec

-----------------------------------------------------------------------------
(* A recorded acceptance rests on a passed check for each gate, citing the *)
(* target, and on a passed check or an exception of exactly its own scope  *)
(* for each rule: whatever callers cite, hosts revise, and crashes cut     *)
(* short.                                                                  *)
THEOREM AcceptancesAreJustified == AcceptanceSpec => []AcceptedIsJustified
<1>1. AcceptanceInv => AcceptedIsJustified
  BY DEF AcceptanceInv, DecisionsJustified, AcceptedIsJustified, Justified, CompletedEntries
<1>2. QED BY <1>1, AcceptanceInvariant, PTL

(* After a breach no call returns a decision, not even one recorded        *)
(* before.                                                                 *)
THEOREM BreachBlocks == AcceptanceSpec => []BreachBlocksAcceptance
<1>1. AcceptanceInv => BreachBlocksAcceptance
  BY DEF AcceptanceInv, CommitMatches, IsIdle, BreachBlocksAcceptance
<1>2. QED BY <1>1, AcceptanceInvariant, PTL
=============================================================================
