----------------------------- MODULE Submission -----------------------------
(***************************************************************************)
(* One submission of a run, from its first model call to its verdict: the  *)
(* episode loop of src/warranted/_worker.py, inside the worker container's *)
(* `with` block in Project.resume (src/warranted/_tasks.py), driving the   *)
(* model adapter (module Adapters) and the container (module Sandbox) in   *)
(* turn, and then the check (module Verifier).                             *)
(*                                                                         *)
(* The host may be killed between any two steps and resumed.  A resumed    *)
(* host refuses to go on while an attempt is unknown; otherwise it replays *)
(* the episode from its first step, takes recorded answers from the        *)
(* ledger, and delivers operation results again.                           *)
(***************************************************************************)
EXTENDS Sandbox, Adapters, Verifier

allVars == <<host, ledgerVars, sandboxVars, adapterVars, verifierVars>>

SubmissionInit ==
    BoundaryInit /\ SandboxInit /\ AdaptersInit /\ VerifierInit

(* Project.resume: unresolved attempts stop the session at once; an        *)
(* episode with its finished record is not replayed.                       *)
Resume ==
    /\ host.at \in {"down", "stopped"} /\ host.session < MaxSessions
    /\ host' = [at |-> IF Unsettled \/ finished # "no" THEN "rm" ELSE "model",
                step |-> 1, session |-> host.session + 1,
                then |-> "exit", result |-> IF Unsettled THEN "unknown" ELSE "none"]
    /\ UNCHANGED <<ledgerVars, sandboxVars, adapterVars, verifierVars>>

(* A killed host loses its place, and leaves its last client behind. *)
Crash ==
    /\ host.at \notin {"down", "stopped"} /\ host.session < MaxSessions
    /\ Goto("down")
    /\ strays' = strays \cup Orphaned
    /\ candidate' = <<>>
    /\ UNCHANGED <<ledgerVars, box, delivering, adapterVars, verifierVars>>

(* WorkerModel.query: anything but a success ends the episode. *)
FollowModel ==
    /\ At("model") /\ model[host.step].state = "settled"
    /\ IF model[host.step].outcome = "succeeded" THEN Goto("tool") ELSE Leave
    /\ UNCHANGED <<ledgerVars, sandboxVars, adapterVars, verifierVars>>

(* WorkerEnvironment.execute: an infrastructure failure and a submission   *)
(* end the episode, a request is answered first.                           *)
FollowTool ==
    /\ At("tool") /\ tool[host.step].state = "settled"
    /\ IF tool[host.step].outcome = "infrastructure_failure"
       THEN Leave /\ UNCHANGED finished
       ELSE CASE tool[host.step].shows = "submit" ->
                   Leave /\ finished' = "submitted"
              [] tool[host.step].shows = "request" ->
                   Goto("operate") /\ UNCHANGED finished
              [] OTHER ->
                   Goto("stepped") /\ UNCHANGED finished
    /\ UNCHANGED <<model, tool, asked, check, sandboxVars, adapterVars, verifierVars>>

(* The requested operation is performed, or found recorded (module         *)
(* HostOperations); one that failed has no files to deliver, and the       *)
(* episode goes on.                                                        *)
Operate ==
    /\ At("operate")
    /\ asked' \in {[asked EXCEPT ![host.step] = outcome] :
                     outcome \in IF asked[host.step] = "none"
                                 THEN {"succeeded", "infrastructure_failure"}
                                 ELSE {asked[host.step]}}
    /\ Goto(IF asked'[host.step] = "succeeded" THEN "deliver" ELSE "stepped")
    /\ UNCHANGED <<model, tool, check, finished, sandboxVars, adapterVars, verifierVars>>

(* The step limit ends the episode with its record, but no submission. *)
NextStep ==
    /\ At("stepped")
    /\ IF host.step < MaxSteps
       THEN /\ host' = [host EXCEPT !.at = "model", !.step = @ + 1]
            /\ UNCHANGED finished
       ELSE Leave /\ finished' = "limits"
    /\ UNCHANGED <<model, tool, asked, check, sandboxVars, adapterVars, verifierVars>>

(* _failed_attempt: the settled attempts of the episode that explain why   *)
(* it stopped.  It goes by the episode's prefix, so the attempts of host   *)
(* operations count too.                                                   *)
FailedAttempt ==
    LET Infra(i) == "infrastructure_failure" \in {model[i].outcome, tool[i].outcome, asked[i]}
    IN  IF \E i \in Step : Infra(i) THEN "infrastructure_failure"
        ELSE IF \E i \in Step : model[i].outcome = "failed" THEN "incomplete"
        ELSE "raised"

(* Outside the `with` block: a refused or failed session is over, a        *)
(* submission is assessed, and a RuntimeError is explained by the ledger.  *)
Assess ==
    /\ At("left")
    /\ host' = IF host.result # "none" THEN [host EXCEPT !.at = "stopped"]
               ELSE CASE finished = "submitted" -> [host EXCEPT !.at = "check"]
                      [] finished = "limits" ->
                           [host EXCEPT !.at = "stopped", !.result = "incomplete"]
                      [] OTHER -> [host EXCEPT !.at = "stopped", !.result = FailedAttempt]
    /\ UNCHANGED <<ledgerVars, sandboxVars, adapterVars, verifierVars>>

(* A removal that fails on the way out is a RuntimeError like any other. *)
AssessRaised ==
    /\ At("raised")
    /\ host' = [host EXCEPT !.at = "stopped", !.result = FailedAttempt]
    /\ UNCHANGED <<ledgerVars, sandboxVars, adapterVars, verifierVars>>

FollowCheck ==
    /\ At("checked") \/ (At("check") /\ check.state = "settled")
    /\ host' = [host EXCEPT !.at = "stopped", !.result = "assessed"]
    /\ UNCHANGED <<ledgerVars, sandboxVars, adapterVars, verifierVars>>

HostStep ==
    \/ SandboxStep /\ UNCHANGED <<adapterVars, verifierVars>>
    \/ AdapterStep /\ UNCHANGED <<sandboxVars, verifierVars>>
    \/ VerifierStep /\ UNCHANGED <<sandboxVars, adapterVars>>
    \/ FollowModel \/ FollowTool \/ Operate \/ NextStep
    \/ Assess \/ AssessRaised \/ FollowCheck

SubmissionNext ==
    \/ HostStep
    \/ Resume \/ Crash
    \/ ContainerStep /\ UNCHANGED <<adapterVars, verifierVars>>
    \/ ContainerExpires /\ UNCHANGED <<sandboxVars, adapterVars>>

SubmissionSpec == SubmissionInit /\ [][SubmissionNext]_allVars

(* The host's process runs on while it is alive. *)
FairSubmissionSpec == SubmissionSpec /\ WF_allVars(HostStep)

-----------------------------------------------------------------------------

(* A tool attempt that is recorded as an infrastructure failure, or with a *)
(* candidate, is a known, stopped attempt: its container is gone for good. *)
(* "If cleanup cannot be established, the attempt remains unknown"         *)
(* (docs/reference/worker-and-containment.md); and since checks follow the *)
(* recorded submission, nothing of the worker runs during them.            *)
KnownIsStopped ==
    \A i \in Step :
        tool[i].state = "settled"
        /\ (tool[i].outcome = "infrastructure_failure" \/ tool[i].shows = "submit")
        => box.state = "absent"

(* The parts of a recorded candidate are the worker's files at one moment, *)
(* although they are read one after another from a container in which the  *)
(* worker may have left processes running.                                 *)
CandidateIsWhole ==
    \A i \in Step : tool[i].shows = "submit" =>
        /\ Len(tool[i].parts) = Parts
        /\ \A p \in 1..Parts : tool[i].parts[p] = tool[i].parts[1]

(* A command runs only in the container that was loaded for the episode    *)
(* and ran every earlier command to its end ("A missing workspace is never *)
(* recreated partway"), and it finds the results of every request before   *)
(* it delivered whole, whatever a killed host's deliveries are doing.      *)
CommandsInOrder ==
    box.cmd # 0 =>
        /\ box.loaded /\ box.done = box.cmd - 1
        /\ \A i \in 1..(box.cmd - 1) :
              asked[i] = "succeeded" => box.given[i] = "whole"

(* What was sent is charged as used or at the bound: usage that is missing *)
(* or filled in with zeros is "charged at the bound, never as zero".       *)
(* Nothing sent is charged nothing, except where litellm failed and the    *)
(* adapter cannot tell ("because the upstream may have run",               *)
(* docs/reference/model-adapters.md).  And a success is charged exactly    *)
(* what its one inference used.                                            *)
ChargedAsSent ==
    \A i \in Step : model[i].state = "settled" =>
        /\ IF sends[i] # <<>>
           THEN model[i].charge \in {Charge(sends[i][1].used), Charge(Reservation)}
           ELSE \/ model[i].charge = NoCharge
                \/ /\ adapter.kind = "litellm" /\ model[i].charge = Charge(Reservation)
                   /\ model[i].outcome = "infrastructure_failure"
        /\ model[i].outcome = "succeeded" =>
              sends[i] # <<>> /\ model[i].charge = Charge(sends[i][1].used)

(* Across restarts an inference is sent at most once, and by OpenRouter    *)
(* only after its one recorded, matching preflight and with the key that   *)
(* preflight saw, although the key file may be replaced in between.        *)
DispatchIsPinned ==
    \A i \in Step :
        /\ Len(sends[i]) <= 1
        /\ adapter.kind = "openrouter" =>
              \A n \in 1..Len(sends[i]) :
                  preflight[i] = "pinned" /\ sends[i][n].key = "pinned"

(* A verdict is deserved.  A pass needs a good proof that applies and      *)
(* corresponds, or a job that passed; a rejection has its cause in the     *)
(* submission; a proof is unproved only if it does not build or export, or *)
(* was cut off while the verifier executed it, and unsupported only if it  *)
(* does not apply or the host has no well-formed decision.  So trouble of  *)
(* the runtime before or after the execution is never held against a       *)
(* proof; and a verdict other than an infrastructure failure leaves no     *)
(* container.                                                              *)
VerdictIsDeserved ==
    LET lean(sources) == facts.by = "lean" /\ facts.source \in sources
    IN  check.state = "settled" /\ check.outcome # "infrastructure_failure" =>
            /\ container = "absent"
            /\ CASE check.outcome = "passed" ->
                      \/ lean({"good"}) /\ facts.premises /\ facts.corresponds
                      \/ facts.by = "job" /\ facts.source = "passes"
                 [] check.outcome = "rejected" ->
                      \/ lean({"missing", "oversized", "bad"})
                      \/ lean({"good"}) /\ ~facts.corresponds
                      \/ facts.by = "job" /\ facts.source # "passes"
                 [] check.outcome = "unproved" ->
                      facts.by = "lean" /\ (facts.source = "unbuildable" \/ found.cut)
                 [] check.outcome = "unsupported" ->
                      \/ facts.by = "lean" /\ found.decision = "malformed"
                      \/ lean({"good"}) /\ ~facts.premises

(* _failed_attempt's docstring: "A model or tool attempt that completed as *)
(* infrastructure failure, or a model attempt that completed as failed,    *)
(* ends the episode.  Anything else is a host error and is re-raised": a   *)
(* run is an infrastructure failure only if a worker attempt was one.      *)
EndedByWorkerAttempt ==
    host.result = "infrastructure_failure" =>
        \E i \in Step : "infrastructure_failure" \in {model[i].outcome, tool[i].outcome}

(* A session always ends: no worker command, delivery, capture, verifier   *)
(* or removal holds the host for ever, because every client has a deadline *)
(* and a failed removal is tried a bounded number of times.                *)
EverySessionEnds ==
    \A s \in Session :
        host.session = s ~> (host.session > s \/ host.at \in {"down", "stopped"})
=============================================================================
