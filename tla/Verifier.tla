------------------------------ MODULE Verifier ------------------------------
(***************************************************************************)
(* The check of one submission, by a LeanProof checker and the pinned Lean *)
(* verifier (src/warranted/_proof_checks.py, _proofs.py and                *)
(* proof/supervisor.py), or by a checker that runs a contained job         *)
(* (_jobs.py), recorded by Project._run_check.                             *)
(*                                                                         *)
(* What the submission deserves is fixed when its check begins: the Lean   *)
(* source, the domain's premises and correspondence, and what the job does *)
(* are all facts of the captured bytes.  A source is "unbuildable" when,   *)
(* within the container's limits, it does not compile or export, "bad"     *)
(* when it does but is refused (another target, an illegal axiom, a proof  *)
(* the kernel rejects), and "slow" when this takes longer than allowed.    *)
(***************************************************************************)
EXTENDS Boundary

VARIABLES
    facts,      \* what the submission is, before anyone looks
    found,      \* the status of the proof so far, and why: what the verifier
                \* in the container decided, and whether it was cut off
    container   \* the container of the check: "absent" or "present"

verifierVars == <<facts, found, container>>

Sources == {"missing", "oversized", "good", "bad", "unbuildable", "slow"}
Jobs == {"passes", "fails", "slow"}

NoFacts == [by |-> "none", source |-> "missing", premises |-> TRUE, corresponds |-> TRUE]
NotFound == [status |-> "none", decision |-> "none", cut |-> FALSE]

VerifierInit == facts = NoFacts /\ found = NotFound /\ container = "absent"

(* Verdict of the recorded check; any exception of a checker is recorded   *)
(* as an infrastructure failure.                                           *)
RunCheck(verdict) ==
    /\ check' = Settled(verdict)
    /\ Goto("checked")
    /\ UNCHANGED <<model, tool, asked, finished>>
Faulted == RunCheck("infrastructure_failure")

BeginCheck ==
    /\ At("check") /\ check.state = "none"
    /\ check' = Open("unknown")
    /\ facts' \in [by : {"lean"}, source : Sources, premises : BOOLEAN, corresponds : BOOLEAN]
            \cup [by : {"job"}, source : Jobs, premises : {TRUE}, corresponds : {TRUE}]
    /\ Goto(IF facts'.by = "lean" THEN "proof" ELSE "job")
    /\ UNCHANGED <<model, tool, asked, finished, found, container>>

-----------------------------------------------------------------------------
(* LeanProof.check and _proofs._verify. *)

(* Premises and correspondence run first and may fault; then the source    *)
(* must be there, and bounded.                                             *)
CheckSource ==
    /\ At("proof")
    /\ \/ Faulted
       \/ facts.source \in {"missing", "oversized"} /\ RunCheck("rejected")
       \/ /\ facts.source \notin {"missing", "oversized"}
          /\ Goto("inputs") /\ UNCHANGED ledgerVars
    /\ UNCHANGED verifierVars

(* The bundle must be the one this policy pins. *)
Inputs ==
    /\ At("inputs")
    /\ (Goto("runtime") /\ UNCHANGED ledgerVars) \/ Faulted
    /\ UNCHANGED verifierVars

(* A client failed, or was cut off at its deadline or output limit.  Only  *)
(* a cut-off while the verifier was executing is held against the proof.   *)
FailureStatusAnywhere(executing, cut) ==
    IF cut THEN "unproved" ELSE "infrastructure_failure"
FailureStatus(executing, cut) ==
    IF executing /\ cut THEN "unproved" ELSE "infrastructure_failure"

ClientFails(executing) ==
    \E cut \in BOOLEAN :
        /\ found' = [found EXCEPT !.status = FailureStatus(executing, cut),
                                  !.cut = executing /\ cut]
        /\ Goto("clean")

(* podman run --detach; nothing is created, or cleaned, when the runtime   *)
(* does not meet the requirements.                                         *)
StartVerifier ==
    /\ At("runtime")
    /\ \/ /\ container' = "present" /\ Goto("manifest") /\ UNCHANGED <<found, ledgerVars>>
       \/ /\ container' \in {"absent", "present"}
          /\ ClientFails(FALSE) /\ UNCHANGED ledgerVars
       \/ Faulted /\ UNCHANGED <<found, container>>
    /\ UNCHANGED facts

(* The image must hold the executables of the pinned manifest. *)
CheckManifest ==
    /\ At("manifest")
    /\ (Goto("prepare_proof") /\ UNCHANGED found) \/ ClientFails(FALSE)
    /\ UNCHANGED <<facts, container, ledgerVars>>

(* supervisor.prepare writes source and challenge into a fresh directory. *)
PrepareProof ==
    /\ At("prepare_proof")
    /\ (Goto("isolate") /\ UNCHANGED found) \/ ClientFails(FALSE)
    /\ UNCHANGED <<facts, container, ledgerVars>>

(* supervisor.execute: the socket filter and the isolation probe come      *)
(* first, in the client that counts as executing.                          *)
Isolate ==
    /\ At("isolate")
    /\ (Goto("execute") /\ UNCHANGED found) \/ ClientFails(TRUE)
    /\ UNCHANGED <<facts, container, ledgerVars>>

(* Then the verifier.  A proof that does not end in time is cut off. *)
ExecuteVerifier ==
    /\ At("execute")
    /\ \/ facts.source # "slow" /\ Goto("capture") /\ UNCHANGED found
       \/ ClientFails(TRUE)
    /\ UNCHANGED <<facts, container, ledgerVars>>

(* Verify.lean's decision on a source that does not have to be cut off: it *)
(* is built and exported, then compared.  Trouble with the configuration   *)
(* or the challenge is a failure of its own; and the decision that is read *)
(* may always lack the form the host demands.                              *)
Deserved(source) ==
    CASE source = "good" -> "proved"
      [] source = "bad" -> "rejected"
      [] source = "unbuildable" -> "unproved"
Decisions(source) == {Deserved(source), "infrastructure_failure", "malformed"}

(* The host takes a decision as it is, if it is well-formed, names no      *)
(* axioms but the allowed ones and, with "proved", left nonempty exports.  *)
Validated(decision) == IF decision = "malformed" THEN "unsupported" ELSE decision

(* supervisor.capture stops every process, then reads the decision. *)
CaptureVerdict ==
    /\ At("capture")
    /\ \/ \E decision \in Decisions(facts.source) :
             /\ found' = [found EXCEPT !.status = Validated(decision), !.decision = decision]
             /\ Goto("clean")
       \/ ClientFails(FALSE)
    /\ UNCHANGED <<facts, container, ledgerVars>>

(* LeanProof.check: a failed premise wins over a failed correspondence. *)
ProofVerdict ==
    IF found.status # "proved" THEN found.status
    ELSE IF ~facts.premises THEN "unsupported"
    ELSE IF ~facts.corresponds THEN "rejected"
    ELSE "passed"

(* `finally`: the container is removed and looked for.  If removal is not  *)
(* established, verify raises.                                             *)
CleanVerifier ==
    /\ At("clean")
    /\ \/ container' = "absent" /\ RunCheck(ProofVerdict)
       \/ container' \in {container, "absent"} /\ Faulted
    /\ UNCHANGED <<facts, found>>

-----------------------------------------------------------------------------
(* JobContext.run_job and PodmanJobs.run.                                  *)

(* What the domain's checker makes of a job's result.  The job's own time  *)
(* limit is enforced inside the container, before the client's deadline.   *)
JobVerdict(job) == IF job = "passes" THEN "passed" ELSE "rejected"

(* Only a job whose result came back is logged. *)
LogJob == found' = [found EXCEPT !.status = "logged"]

(* A request the runner does not take raises before anything is started. *)
JobRefused == Faulted /\ UNCHANGED <<found, container>>

(* A client that fails raises, and may leave the container behind. *)
RunJob ==
    /\ At("job")
    /\ \/ LogJob /\ RunCheck(JobVerdict(facts.source)) /\ UNCHANGED container
       \/ JobRefused
       \/ Faulted /\ container' \in {"absent", "present"} /\ UNCHANGED found
    /\ UNCHANGED facts

(* A container nobody removed ends by its own --timeout (and, for a job,   *)
(* is then removed by --rm).                                               *)
ContainerExpires ==
    /\ container = "present" /\ facts.by = "job"
    /\ container' = "absent"
    /\ UNCHANGED <<facts, found, host, ledgerVars>>

VerifierStep ==
    \/ BeginCheck \/ CheckSource \/ Inputs \/ StartVerifier \/ CheckManifest \/ PrepareProof
    \/ Isolate \/ ExecuteVerifier \/ CaptureVerdict \/ CleanVerifier \/ RunJob
=============================================================================
