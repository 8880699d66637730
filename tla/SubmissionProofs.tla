-------------------------- MODULE SubmissionProofs --------------------------
(* What module Submission promises, for any number of steps and sessions,  *)
(* any usage, and any number of changes to the worker's files.             *)
EXTENDS Submission, TLAPS

-----------------------------------------------------------------------------
(* The host's place.                                                       *)

AdapterPlaces == {"preflight", "wire", "tags", "post", "answer"}
VerifierPlaces == {"proof", "inputs", "runtime", "manifest", "prepare_proof",
                   "isolate", "execute", "capture", "clean", "job"}
ToolPlaces == {"prepare", "look", "create", "collect", "load", "exec", "wait",
               "status", "stop", "read"}

(* The types that the proofs need; the host is nowhere before its first    *)
(* session.                                                                *)
TypeOK ==
    /\ DOMAIN host = {"at", "step", "session", "then", "result"}
    /\ host.session \in 0..MaxSessions
    /\ host.at # "down" => host.step \in Step /\ host.session \in Session
    /\ host.at \in {"rm", "exists"} => host.then \in {"exit", "fail", "submit"}
    /\ DOMAIN model = Step /\ DOMAIN tool = Step /\ DOMAIN asked = Step

(* The host goes to another place of the same step. *)
Moves(place) ==
    /\ DOMAIN host' = {"at", "step", "session", "then", "result"}
    /\ host'.at = place /\ host'.step = host.step /\ host'.session = host.session

LEMMA GotoMoves ==
    ASSUME TypeOK, NEW place, Goto(place)
    PROVE  Moves(place) /\ host'.then = host.then /\ host'.result = host.result
BY DEF TypeOK, Goto, Moves

LEMMA RemovingMoves ==
    ASSUME TypeOK, NEW then, host' = Removing(then)
    PROVE  Moves("rm") /\ host'.then = then /\ host'.result = host.result
BY DEF TypeOK, Removing, Moves

LEMMA RaiseMoves ==
    ASSUME TypeOK, Raise
    PROVE  Moves("rm") /\ host'.then = "exit"
BY DEF TypeOK, Raise, Removing, Moves

LEMMA LeaveMoves ==
    ASSUME TypeOK, Leave
    PROVE  Moves("rm") /\ host'.then = "exit"
BY RemovingMoves DEF Leave

(* A move preserves the types if it leaves the ledger's domains alone. *)
LEMMA MoveTypes ==
    ASSUME TypeOK, NEW place, Moves(place), host.at # "down",
           place \in {"rm", "exists"} => host'.then \in {"exit", "fail", "submit"},
           DOMAIN model' = Step, DOMAIN tool' = Step, DOMAIN asked' = Step
    PROVE  TypeOK'
BY DEF TypeOK, Moves, Session

(* Where the container's steps leave the host. *)
Elsewhere == host'.at \notin AdapterPlaces \cup VerifierPlaces \cup {"down"}

LEMMA SandboxMoves ==
    ASSUME TypeOK, SandboxStep
    PROVE  /\ TypeOK' /\ Elsewhere
           /\ host.at \notin AdapterPlaces \cup VerifierPlaces \cup {"down"}
           /\ UNCHANGED <<model, check>>
<1>. USE DEF AdapterPlaces, VerifierPlaces, Elsewhere
<1>1. SUFFICES \/ \E place : /\ Moves(place)
                             /\ place \notin AdapterPlaces \cup VerifierPlaces \cup {"down"}
                             /\ place \in {"rm", "exists"} =>
                                   host'.then \in {"exit", "fail", "submit"}
               \/ UNCHANGED host /\ host.at = "read"
  <2>1. host.at \notin AdapterPlaces \cup VerifierPlaces \cup {"down"}
    BY DEF SandboxStep, BeginTool, RequireRuntime, Prepare, Create, Collect, Load, Exec,
           Wait, Status, Stop, Read, Rm, Exists, Deliver, Delivered, At
  <2>2. UNCHANGED <<model, asked, check>> /\ DOMAIN tool' = Step
    <3>. USE DEF TypeOK, ledgerVars, SettleTool, NotCaptured
    <3>1. CASE BeginTool
      BY <3>1 DEF BeginTool
    <3>2. CASE RequireRuntime \/ Prepare \/ Create \/ Collect \/ Load \/ Exec \/ Wait
      BY <3>2 DEF RequireRuntime, Prepare, Create, Collect, Load, Exec, Wait
    <3>3. CASE Status \/ Stop \/ Read
      BY <3>3 DEF Status, Stop, Read
    <3>4. CASE Rm
      BY <3>4 DEF Rm, CloseFailed
    <3>5. CASE Exists
      <4>1. host.then \in {"exit", "fail", "submit"}
        BY <3>5 DEF Exists, At
      <4>2. CASE CloseDone
        BY <4>1, <4>2 DEF CloseDone
      <4>. QED  BY <3>5, <4>2 DEF Exists, CloseFailed
    <3>6. CASE Deliver \/ Delivered
      BY <3>6 DEF Deliver, Delivered
    <3>. QED  BY <3>1, <3>2, <3>3, <3>4, <3>5, <3>6 DEF SandboxStep
  <2>3. CASE UNCHANGED host /\ host.at = "read"
    BY <2>1, <2>2, <2>3 DEF TypeOK
  <2>4. ASSUME NEW place, Moves(place),
               place \notin AdapterPlaces \cup VerifierPlaces \cup {"down"},
               place \in {"rm", "exists"} => host'.then \in {"exit", "fail", "submit"}
        PROVE  TypeOK' /\ host'.at = place
    BY <2>1, <2>2, <2>4, MoveTypes DEF TypeOK, Moves
  <2>. QED  BY <1>1, <2>1, <2>2, <2>3, <2>4
<1>2. CASE BeginTool
  BY <1>2, GotoMoves DEF BeginTool
<1>3. ASSUME Fail PROVE Moves("rm") /\ host'.then = "fail"
  BY <1>3, RemovingMoves DEF Fail
<1>4. CASE RequireRuntime
  BY <1>3, <1>4, GotoMoves DEF RequireRuntime
<1>5. CASE Prepare
  BY <1>3, <1>5, GotoMoves DEF Prepare
<1>6. CASE Create
  BY <1>3, <1>6, GotoMoves DEF Create
<1>7. CASE Collect
  BY <1>3, <1>7, GotoMoves, RaiseMoves DEF Collect
<1>8. CASE Load
  BY <1>3, <1>8, GotoMoves DEF Load
<1>9. CASE Exec
  BY <1>3, <1>9, GotoMoves DEF Exec
<1>10. CASE Wait
  BY <1>3, <1>10, GotoMoves DEF Wait
<1>11. CASE Status
  BY <1>3, <1>11, GotoMoves DEF Status
<1>12. CASE Stop
  BY <1>3, <1>12, GotoMoves DEF Stop, NotCaptured
<1>13. CASE Read
  BY <1>3, <1>13, GotoMoves, RemovingMoves DEF Read, NotCaptured, At
<1>14. ASSUME host.at \in {"rm", "exists"}, CloseFailed
       PROVE  \E place \in {"rm", "raised"} :
                 /\ Moves(place)
                 /\ place = "rm" => host'.then \in {"exit", "fail", "submit"}
  <2>1. host.then \in {"exit", "fail", "submit"}
    BY <1>14 DEF TypeOK
  <2>2. CASE host.then = "submit"
    BY <1>14, <2>2, RemovingMoves DEF CloseFailed
  <2>3. CASE host.then = "fail"
    BY <1>14, <2>3, RemovingMoves DEF CloseFailed
  <2>4. CASE host.then = "exit"
    BY <1>14, <2>4, GotoMoves DEF CloseFailed, Goto
  <2>. QED  BY <2>1, <2>2, <2>3, <2>4
<1>15. CASE Rm
  <2>1. host.then \in {"exit", "fail", "submit"}
    BY <1>15 DEF TypeOK, Rm, At
  <2>. QED  BY <1>14, <1>15, <2>1, GotoMoves DEF Rm, At
<1>16. CASE Exists
  <2>1. host.then \in {"exit", "fail", "submit"}
    BY <1>16 DEF TypeOK, Exists, At
  <2>. QED  BY <1>14, <1>16, <2>1, GotoMoves DEF Exists, At, CloseDone
<1>17. CASE Deliver
  BY <1>17, GotoMoves, LeaveMoves DEF Deliver
<1>18. CASE Delivered
  BY <1>18, GotoMoves, LeaveMoves DEF Delivered
<1>. QED
  BY <1>2, <1>4, <1>5, <1>6, <1>7, <1>8, <1>9, <1>10, <1>11, <1>12, <1>13, <1>15,
     <1>16, <1>17, <1>18 DEF SandboxStep

LEMMA AdapterMoves ==
    ASSUME TypeOK, AdapterStep
    PROVE  /\ TypeOK'
           /\ host.at \in AdapterPlaces \cup {"model"}
           /\ \/ \E place \in AdapterPlaces \cup {"model"} : Moves(place)
              \/ Moves("rm") /\ host'.then = "exit"
           /\ UNCHANGED <<tool, asked, check, finished>>
<1>. USE DEF AdapterPlaces
<1>1. host.at \in AdapterPlaces \cup {"model"}
  BY DEF AdapterStep, BeginModel, Preflight, Wire, ModelChanged, Post, Answer, At
<1>2. UNCHANGED <<tool, asked, check, finished>>
  BY DEF AdapterStep, BeginModel, Preflight, Wire, ModelChanged, Post, Answer
<1>3. DOMAIN model' = Step
  <2>. USE DEF TypeOK, SettleModel, Unsent, Lost
  <2>1. CASE BeginModel
    BY <2>1 DEF BeginModel
  <2>2. CASE Preflight
    BY <2>2 DEF Preflight
  <2>3. CASE Wire \/ ModelChanged
    BY <2>3 DEF Wire, ModelChanged
  <2>4. CASE Post
    BY <2>4 DEF Post, KeyRefused, LibraryFails
  <2>5. CASE Answer
    BY <2>5 DEF Answer
  <2>. QED  BY <2>1, <2>2, <2>3, <2>4, <2>5 DEF AdapterStep
<1>4. \/ \E place \in AdapterPlaces \cup {"model"} : Moves(place)
      \/ Moves("rm") /\ host'.then = "exit"
  <2>1. CASE BeginModel
    BY <2>1, GotoMoves DEF BeginModel
  <2>2. CASE Preflight
    BY <2>2, GotoMoves DEF Preflight, Unsent
  <2>3. CASE Wire
    BY <2>3, GotoMoves DEF Wire, Unsent
  <2>4. CASE ModelChanged
    BY <2>4, GotoMoves DEF ModelChanged, Unsent
  <2>5. CASE Post
    BY <2>5, GotoMoves, RaiseMoves DEF Post, KeyRefused, LibraryFails, Unsent, Lost
  <2>6. CASE Answer
    BY <2>6, GotoMoves, RaiseMoves DEF Answer, Lost
  <2>. QED  BY <2>1, <2>2, <2>3, <2>4, <2>5, <2>6 DEF AdapterStep
<1>5. TypeOK'
  <2>1. DOMAIN tool' = Step /\ DOMAIN asked' = Step /\ host.at # "down"
    BY <1>1, <1>2 DEF TypeOK
  <2>2. ASSUME NEW place \in AdapterPlaces \cup {"model"}, Moves(place) PROVE TypeOK'
    BY <1>3, <2>1, <2>2, MoveTypes
  <2>3. CASE Moves("rm") /\ host'.then = "exit"
    BY <1>3, <2>1, <2>3, MoveTypes
  <2>. QED  BY <1>4, <2>2, <2>3
<1>. QED  BY <1>1, <1>2, <1>4, <1>5

LEMMA VerifierMoves ==
    ASSUME TypeOK, VerifierStep
    PROVE  /\ TypeOK'
           /\ host.at \in VerifierPlaces \cup {"check"}
           /\ \E place \in VerifierPlaces \cup {"checked"} : Moves(place)
           /\ UNCHANGED <<model, tool, asked, finished>>
<1>. USE DEF VerifierPlaces
<1>1. host.at \in VerifierPlaces \cup {"check"}
  BY DEF VerifierStep, BeginCheck, CheckSource, Inputs, StartVerifier, CheckManifest,
         PrepareProof, Isolate, ExecuteVerifier, CaptureVerdict, CleanVerifier, RunJob, At
<1>2. UNCHANGED <<model, tool, asked, finished>>
  BY DEF VerifierStep, BeginCheck, CheckSource, Inputs, StartVerifier, CheckManifest,
         PrepareProof, Isolate, ExecuteVerifier, CaptureVerdict, CleanVerifier, RunJob,
         RunCheck, Faulted, JobRefused, ledgerVars
<1>3. \E place \in VerifierPlaces \cup {"checked"} : Moves(place)
  <2>. USE GotoMoves DEF RunCheck, Faulted, ClientFails
  <2>1. CASE BeginCheck
    BY <2>1 DEF BeginCheck
  <2>2. CASE CheckSource
    BY <2>2 DEF CheckSource
  <2>3. CASE Inputs
    BY <2>3 DEF Inputs
  <2>4. CASE StartVerifier
    BY <2>4 DEF StartVerifier
  <2>5. CASE CheckManifest
    BY <2>5 DEF CheckManifest
  <2>6. CASE PrepareProof
    BY <2>6 DEF PrepareProof
  <2>7. CASE Isolate
    BY <2>7 DEF Isolate
  <2>8. CASE ExecuteVerifier
    BY <2>8 DEF ExecuteVerifier
  <2>9. CASE CaptureVerdict
    BY <2>9 DEF CaptureVerdict
  <2>10. CASE CleanVerifier
    BY <2>10 DEF CleanVerifier
  <2>11. CASE RunJob
    BY <2>11 DEF RunJob, JobRefused
  <2>. QED
    BY <2>1, <2>2, <2>3, <2>4, <2>5, <2>6, <2>7, <2>8, <2>9, <2>10, <2>11 DEF VerifierStep
<1>4. TypeOK'
  <2>1. PICK place \in VerifierPlaces \cup {"checked"} : Moves(place)
    BY <1>3
  <2>2. DOMAIN model' = Step /\ DOMAIN tool' = Step /\ DOMAIN asked' = Step /\ host.at # "down"
    BY <1>1, <1>2 DEF TypeOK
  <2>. QED  BY <2>1, <2>2, MoveTypes
<1>. QED  BY <1>1, <1>2, <1>3, <1>4

(* The steps between the boundaries, resumes and kills. *)
LoopStep ==
    FollowModel \/ FollowTool \/ Operate \/ NextStep \/ Assess \/ AssessRaised
    \/ FollowCheck \/ Resume \/ Crash

LEMMA LoopMoves ==
    ASSUME TypeOK, LoopStep
    PROVE  /\ TypeOK'
           /\ host'.at \notin AdapterPlaces \cup VerifierPlaces
           /\ UNCHANGED <<model, tool, check, adapterVars, verifierVars>>
<1>. USE DEF AdapterPlaces, VerifierPlaces
<1>1. UNCHANGED <<model, tool, check, adapterVars, verifierVars>> /\ DOMAIN asked' = Step
  BY DEF LoopStep, FollowModel, FollowTool, Operate, NextStep, Assess, AssessRaised,
         FollowCheck, Resume, Crash, ledgerVars, TypeOK
<1>2. ASSUME NEW place \in {"tool", "operate", "deliver", "stepped", "check", "stopped",
                           "down"},
             Moves(place), host.at # "down"
      PROVE  TypeOK' /\ host'.at \notin AdapterPlaces \cup VerifierPlaces
  BY <1>1, <1>2, MoveTypes DEF TypeOK, Moves
<1>3. ASSUME Moves("rm"), host'.then = "exit", host.at # "down"
      PROVE  TypeOK' /\ host'.at \notin AdapterPlaces \cup VerifierPlaces
  BY <1>1, <1>3, MoveTypes DEF TypeOK, Moves
<1>4. CASE FollowModel
  BY <1>1, <1>2, <1>3, <1>4, GotoMoves, LeaveMoves DEF FollowModel, At
<1>5. CASE FollowTool
  BY <1>2, <1>3, <1>5, GotoMoves, LeaveMoves DEF FollowTool, At
<1>6. CASE Operate
  BY <1>2, <1>6, GotoMoves DEF Operate, At
<1>7. CASE NextStep
  <2>1. CASE host.step < MaxSteps
    <3>1. /\ DOMAIN host' = {"at", "step", "session", "then", "result"}
          /\ host'.at = "model" /\ host'.step = host.step + 1 /\ host'.session = host.session
      BY <1>7, <2>1 DEF NextStep, TypeOK
    <3>2. host.step + 1 \in Step
      BY <1>7, <2>1, BoundaryAssumption DEF NextStep, At, TypeOK, Step
    <3>. QED  BY <1>1, <1>7, <3>1, <3>2 DEF NextStep, At, TypeOK
  <2>. QED  BY <1>3, <1>7, <2>1, LeaveMoves DEF NextStep, At
<1>8. CASE Assess
  <2>1. Moves("stopped") \/ Moves("check")
    BY <1>8 DEF Assess, Moves, TypeOK
  <2>. QED  BY <1>1, <1>2, <1>8, <2>1 DEF Assess, At
<1>9. CASE AssessRaised
  <2>1. Moves("stopped")
    BY <1>9 DEF AssessRaised, Moves, TypeOK
  <2>. QED  BY <1>1, <1>2, <1>9, <2>1 DEF AssessRaised, At
<1>10. CASE FollowCheck
  <2>1. Moves("stopped")
    BY <1>10 DEF FollowCheck, Moves, TypeOK
  <2>. QED  BY <1>1, <1>2, <1>10, <2>1 DEF FollowCheck, At
<1>11. CASE Resume
  <2>1. /\ DOMAIN host' = {"at", "step", "session", "then", "result"}
        /\ host'.at \in {"rm", "model"} /\ host'.step = 1
        /\ host'.session = host.session + 1 /\ host'.then = "exit"
    BY <1>11 DEF Resume
  <2>2. 1 \in Step /\ host.session + 1 \in Session
    BY <1>11, BoundaryAssumption DEF Resume, TypeOK, Step, Session
  <2>. QED  BY <1>1, <1>11, <2>1, <2>2, BoundaryAssumption DEF TypeOK, Session
<1>12. CASE Crash
  <2>1. Moves("down") /\ host.at # "down"
    BY <1>12, GotoMoves DEF Crash
  <2>. QED  BY <1>1, <1>2, <2>1
<1>. QED
  BY <1>4, <1>5, <1>6, <1>7, <1>8, <1>9, <1>10, <1>11, <1>12 DEF LoopStep

(* The container acts on its own. *)
LEMMA ContainerMoves ==
    ASSUME ContainerStep
    PROVE  UNCHANGED <<host, ledgerVars, candidate>>
BY DEF ContainerStep, WorkerWrites, Expire, Execute, DeliverStep, Stray, ledgerVars

-----------------------------------------------------------------------------
(* The model attempts.                                                     *)

(* The one inference of a step, sent as its preflight allowed. *)
SentOnce(i) ==
    \E key \in Keys[adapter.kind], used \in Usages :
        /\ sends[i] = <<[key |-> key, used |-> used]>>
        /\ adapter.kind = "openrouter" => preflight[i] = "pinned"

AttemptOK(i) ==
    /\ sends[i] = <<>> \/ SentOnce(i)
    /\ model[i].state = "none" => sends[i] = <<>>
    /\ model[i].state = "settled" =>
          /\ IF sends[i] # <<>>
             THEN model[i].charge \in {Charge(sends[i][1].used), Charge(Reservation)}
             ELSE \/ model[i].charge = NoCharge
                  \/ /\ adapter.kind = "litellm" /\ model[i].charge = Charge(Reservation)
                     /\ model[i].outcome = "infrastructure_failure"
          /\ model[i].outcome = "succeeded" =>
                sends[i] # <<>> /\ model[i].charge = Charge(sends[i][1].used)

AdapterInv ==
    /\ adapter \in [kind : Kind, bounded : BOOLEAN]
    /\ DOMAIN preflight = Step /\ DOMAIN sends = Step
    /\ \A i \in Step : AttemptOK(i)
    /\ host.at \in AdapterPlaces => model[host.step].state = "unknown"
    /\ host.at \in AdapterPlaces \ {"answer"} => sends[host.step] = <<>>
    /\ host.at \in {"wire", "tags", "post"} /\ adapter.kind = "openrouter" =>
          preflight[host.step] = "pinned"
    /\ host.at = "answer" => sends[host.step] # <<>>

(* Elsewhere nothing is sent and no model attempt changes. *)
LEMMA AdapterIdle ==
    ASSUME AdapterInv, UNCHANGED <<model, adapterVars>>, host'.at \notin AdapterPlaces
    PROVE  AdapterInv'
BY DEF AdapterInv, AttemptOK, SentOnce, adapterVars, AdapterPlaces, Charge

(* A step of one attempt leaves those of the other steps as they are. *)
LEMMA OtherAttempts ==
    ASSUME AdapterInv, UNCHANGED adapter,
           NEW s \in Step,
           \A i \in Step \ {s} : /\ model'[i] = model[i] /\ sends'[i] = sends[i]
                                 /\ preflight'[i] = preflight[i]
    PROVE  \A i \in Step \ {s} : AttemptOK(i)'
BY DEF AdapterInv, AttemptOK, SentOnce, Charge

(* What the adapter charges for an answer. *)
LEMMA SettlementCharge ==
    ASSUME AdapterInv, host.step \in Step, sends[host.step] # <<>>, NEW reply \in Reply
    PROVE  /\ Settlement(reply).charge \in {Charge(sends[host.step][1].used), Charge(Reservation)}
           /\ Settlement(reply).outcome = "succeeded" =>
                 Settlement(reply).charge = Charge(sends[host.step][1].used)
<1>. DEFINE used == sends[host.step][1].used
<1>1. SentOnce(host.step)
  BY DEF AdapterInv, AttemptOK
<1>2. /\ Len(sends[host.step]) = 1 /\ used \in Usages
      /\ used[1] # 0
  <2>1. PICK key \in Keys[adapter.kind], u \in Usages :
             sends[host.step] = <<[key |-> key, used |-> u]>>
    BY <1>1 DEF SentOnce
  <2>2. used = u /\ Len(sends[host.step]) = 1
    BY <2>1
  <2>3. u[1] \in 1..PromptBound
    BY AdaptersAssumption
  <2>. QED  BY <2>2, <2>3, AdaptersAssumption
<1>. HIDE DEF used
<1>3. Reported(reply) \in {{}, {used}}
  <2>1. Found(reply) \in {{}, {used}} \/ (adapter.kind = "litellm" /\ Found(reply) = {<<0, 0>>})
    BY <1>2 DEF Found, used
  <2>. QED  BY <1>2, <2>1 DEF Reported
<1>. DEFINE OK(attempt) ==
       /\ attempt.charge \in {Charge(used), Charge(Reservation)}
       /\ attempt.outcome = "succeeded" => attempt.charge = Charge(used)
<1>4. ASSUME NEW outcome, NEW tokens \in {{}, {used}},
             Unusable(tokens) => outcome # "succeeded"
      PROVE  OK(Attempt(outcome, tokens))
  <2>1. Attempt(outcome, tokens).outcome = outcome
        /\ Attempt(outcome, tokens).charge =
              Charge(IF tokens = {} THEN Reservation ELSE CHOOSE t \in tokens : TRUE)
    BY DEF Attempt
  <2>2. CASE tokens = {}
    BY <1>4, <2>1, <2>2 DEF Unusable
  <2>3. CASE tokens = {used}
    BY <2>1, <2>3
  <2>. QED  BY <1>4, <2>2, <2>3
<1>5. OK(LocalAttempt(reply))
  <2>. DEFINE tokens == IF reply.ok /\ reply.model = "asked" THEN Reported(reply) ELSE {}
              outcome == IF Unusable(tokens) THEN "infrastructure_failure"
                         ELSE CASE reply.choice = "stop" -> "succeeded"
                                [] reply.choice = "length" -> "failed"
                                [] OTHER -> "infrastructure_failure"
  <2>1. tokens \in {{}, {used}} /\ (Unusable(tokens) => outcome # "succeeded")
    BY <1>3
  <2>2. LocalAttempt(reply) = Attempt(outcome, tokens)
    BY DEF LocalAttempt
  <2>. HIDE DEF tokens, outcome, OK
  <2>. QED  BY <1>4, <2>1, <2>2
<1>6. OK(LiteLLMAttempt(reply))
  <2>. DEFINE tokens == IF reply.ok THEN Reported(reply) ELSE {}
              outcome == IF Unusable(tokens) THEN "infrastructure_failure"
                         ELSE CASE reply.choice \in {"refusal", "length"} -> "failed"
                                [] reply.choice = "stop" -> "succeeded"
                                [] OTHER -> "infrastructure_failure"
  <2>1. tokens \in {{}, {used}} /\ (Unusable(tokens) => outcome # "succeeded")
    BY <1>3
  <2>2. LiteLLMAttempt(reply) = Attempt(outcome, tokens)
    BY DEF LiteLLMAttempt
  <2>. HIDE DEF tokens, outcome, OK
  <2>. QED  BY <1>4, <2>1, <2>2
<1>7. OK(Inference(reply))
  <2>. DEFINE unbilled == [LocalAttempt(reply) EXCEPT !.outcome = "infrastructure_failure"]
  <2>1. LocalAttempt(reply).charge = unbilled.charge /\ unbilled.outcome = "infrastructure_failure"
    BY DEF LocalAttempt, Attempt
  <2>. HIDE DEF unbilled
  <2>2. Inference(reply) \in {LocalAttempt(reply), unbilled}
    BY DEF Inference, unbilled
  <2>. QED  BY <1>5, <2>1, <2>2
<1>8. adapter.kind \in {"local", "openrouter", "litellm"}
  BY DEF AdapterInv, Kind
<1>. QED  BY <1>5, <1>6, <1>7, <1>8 DEF Settlement, used

(* It is enough to look at the attempt of the step. *)
LEMMA OneAttempt ==
    ASSUME AdapterInv, NEW s \in Step, UNCHANGED adapter,
           DOMAIN preflight' = Step, DOMAIN sends' = Step,
           host'.at \in AdapterPlaces => host'.step = s,
           \A i \in Step \ {s} : /\ model'[i] = model[i] /\ sends'[i] = sends[i]
                                 /\ preflight'[i] = preflight[i],
           AttemptOK(s)',
           host'.at \in AdapterPlaces => model'[s].state = "unknown",
           host'.at \in AdapterPlaces \ {"answer"} => sends'[s] = <<>>,
           host'.at \in {"wire", "tags", "post"} /\ adapter.kind = "openrouter" =>
              preflight'[s] = "pinned",
           host'.at = "answer" => sends'[s] # <<>>
    PROVE  AdapterInv'
<1>1. \A i \in Step \ {s} : AttemptOK(i)'
  BY OtherAttempts
<1>2. \A i \in Step : AttemptOK(i)'
  BY <1>1
<1>. QED  BY <1>2 DEF AdapterInv, AdapterPlaces

LEMMA AdapterPreserves ==
    ASSUME TypeOK, AdapterInv, AdapterStep
    PROVE  AdapterInv'
<1>. USE DEF AdapterPlaces
<1>1. PICK s \in Step : s = host.step
  BY AdapterMoves DEF TypeOK
<1>2. DOMAIN model = Step
  BY DEF TypeOK
<1>3. ASSUME NEW outcome \in {"failed", "infrastructure_failure"}, Unsent(outcome),
             UNCHANGED <<adapter, sends>>,
             sends[s] = <<>>, DOMAIN preflight' = Step,
             \A i \in Step \ {s} : preflight'[i] = preflight[i]
      PROVE  AdapterInv'
  <2>1. /\ model'[s].state = "settled" /\ model'[s].charge = NoCharge
        /\ model'[s].outcome = outcome
        /\ \A i \in Step \ {s} : model'[i] = model[i]
    BY <1>1, <1>2, <1>3 DEF Unsent, SettleModel, Settled, Open
  <2>2. Moves("model")
    BY <1>3, GotoMoves DEF Unsent
  <2>3. AttemptOK(s)'
    BY <1>3, <2>1 DEF AttemptOK
  <2>. QED  BY <1>1, <1>3, <2>1, <2>2, <2>3, OneAttempt DEF AdapterInv, Moves
<1>4. CASE BeginModel
  <2>1. /\ model'[s].state = "unknown" /\ \A i \in Step \ {s} : model'[i] = model[i]
        /\ sends[s] = <<>> /\ UNCHANGED adapterVars
    BY <1>1, <1>2, <1>4 DEF BeginModel, Open, AdapterInv, AttemptOK
  <2>2. AttemptOK(s)'
    BY <2>1 DEF AttemptOK, adapterVars
  <2>3. Moves(IF adapter.kind = "openrouter" THEN "preflight" ELSE "wire")
    BY <1>4, GotoMoves DEF BeginModel
  <2>. QED  BY <1>1, <2>1, <2>2, <2>3, OneAttempt DEF AdapterInv, Moves, adapterVars
<1>5. CASE Preflight
  <2>1. /\ At("preflight") /\ model[s].state = "unknown" /\ sends[s] = <<>>
        /\ UNCHANGED <<adapter, sends>>
    BY <1>1, <1>5 DEF Preflight, At, AdapterInv
  <2>2. PICK runtime \in Runtime :
            /\ preflight' = [preflight EXCEPT ![host.step] = runtime]
            /\ IF RuntimeFailure(runtime) THEN Unsent("infrastructure_failure")
               ELSE Goto("wire") /\ UNCHANGED model
    BY <1>5 DEF Preflight
  <2>3. /\ DOMAIN preflight' = Step /\ preflight'[s] = runtime
        /\ \A i \in Step \ {s} : preflight'[i] = preflight[i]
    BY <1>1, <2>2 DEF AdapterInv
  <2>4. CASE RuntimeFailure(runtime)
    BY <1>3, <2>1, <2>2, <2>3, <2>4
  <2>5. CASE ~RuntimeFailure(runtime)
    <3>1. Moves("wire") /\ UNCHANGED model /\ runtime = "pinned"
      BY <2>2, <2>5, GotoMoves DEF RuntimeFailure
    <3>2. AttemptOK(s)'
      BY <2>1, <3>1 DEF AttemptOK
    <3>. QED  BY <1>1, <2>1, <2>3, <3>1, <3>2, OneAttempt DEF AdapterInv, Moves
  <2>. QED  BY <2>4, <2>5
<1>6. CASE Wire \/ ModelChanged
  <2>1. /\ host.at \in {"wire", "tags"} /\ model[s].state = "unknown" /\ sends[s] = <<>>
        /\ adapter.kind = "openrouter" => preflight[s] = "pinned"
        /\ UNCHANGED adapterVars
    BY <1>1, <1>6 DEF Wire, ModelChanged, At, AdapterInv
  <2>2. CASE \E outcome \in {"failed", "infrastructure_failure"} : Unsent(outcome)
    BY <1>3, <2>1, <2>2 DEF AdapterInv, adapterVars
  <2>3. CASE (Goto("tags") \/ Goto("post")) /\ UNCHANGED model
    <3>1. (Moves("tags") \/ Moves("post")) /\ UNCHANGED model
      BY <2>3, GotoMoves
    <3>2. AttemptOK(s)'
      BY <2>1, <3>1 DEF AttemptOK, adapterVars
    <3>. QED  BY <1>1, <2>1, <3>1, <3>2, OneAttempt DEF AdapterInv, Moves, adapterVars
  <2>. QED  BY <1>6, <2>2, <2>3 DEF Wire, ModelChanged
<1>7. CASE Post
  <2>1. /\ At("post") /\ model[s].state = "unknown" /\ sends[s] = <<>>
        /\ adapter.kind = "openrouter" => preflight[s] = "pinned"
        /\ UNCHANGED <<adapter, preflight>>
    BY <1>1, <1>7 DEF Post, At, AdapterInv
  <2>2. ASSUME NEW key \in Keys[adapter.kind], NEW used \in Usages,
               sends' = [sends EXCEPT ![host.step] = Append(@, [key |-> key, used |-> used])],
               Goto("answer"), UNCHANGED model
        PROVE  AdapterInv'
    <3>1. /\ DOMAIN sends' = Step /\ sends'[s] = <<[key |-> key, used |-> used]>>
          /\ \A i \in Step \ {s} : sends'[i] = sends[i]
      <4>. DEFINE send == [key |-> key, used |-> used]
      <4>1. Append(<<>>, send) = <<send>>
        OBVIOUS
      <4>2. sends' = [sends EXCEPT ![s] = Append(sends[s], send)] /\ DOMAIN sends = Step
        BY <1>1, <2>2 DEF AdapterInv
      <4>. HIDE DEF send
      <4>3. sends'[s] = Append(<<>>, send)
        BY <2>1, <4>2
      <4>4. DOMAIN sends' = Step /\ \A i \in Step \ {s} : sends'[i] = sends[i]
        BY <4>2
      <4>. QED  BY <4>1, <4>3, <4>4 DEF send
    <3>2. Moves("answer")
      BY <2>2, GotoMoves
    <3>3. SentOnce(s)'
      BY <2>1, <3>1 DEF SentOnce
    <3>4. AttemptOK(s)'
      BY <2>1, <2>2, <3>3 DEF AttemptOK
    <3>5. sends'[s] # <<>>
      BY <3>1
    <3>. QED  BY <1>1, <2>1, <2>2, <3>1, <3>2, <3>4, <3>5, OneAttempt DEF AdapterInv, Moves
  <2>3. CASE Lost /\ UNCHANGED sends
    <3>1. Moves("rm") /\ UNCHANGED model
      BY <2>3, RaiseMoves DEF Lost
    <3>. QED  BY <2>1, <2>3, <3>1, AdapterIdle DEF adapterVars, Moves
  <2>4. CASE KeyRefused /\ UNCHANGED sends
    BY <1>3, <2>1, <2>4 DEF KeyRefused, AdapterInv
  <2>5. CASE LibraryFails /\ UNCHANGED sends
    <3>. DEFINE charge == Charge(Reservation)
    <3>1. SettleModel("infrastructure_failure", charge) /\ Goto("model")
          /\ adapter.kind = "litellm"
      BY <2>5 DEF LibraryFails
    <3>2. charge' = charge
      BY <2>1 DEF Charge
    <3>. HIDE DEF charge
    <3>3. /\ model'[s].state = "settled" /\ model'[s].charge = charge
          /\ model'[s].outcome = "infrastructure_failure"
          /\ \A i \in Step \ {s} : model'[i] = model[i]
      BY <1>1, <1>2, <3>1 DEF SettleModel, Settled, Open
    <3>4. Moves("model")
      BY <3>1, GotoMoves
    <3>5. AttemptOK(s)'
      BY <2>1, <2>5, <3>1, <3>2, <3>3 DEF AttemptOK, charge
    <3>. QED  BY <1>1, <2>1, <2>5, <3>3, <3>4, <3>5, OneAttempt DEF AdapterInv, Moves
  <2>. QED  BY <1>7, <2>2, <2>3, <2>4, <2>5 DEF Post
<1>8. CASE Answer
  <2>1. /\ At("answer") /\ sends[s] # <<>> /\ UNCHANGED adapterVars
    BY <1>1, <1>8 DEF Answer, At, AdapterInv
  <2>2. ASSUME NEW reply \in Reply,
               SettleModel(Settlement(reply).outcome, Settlement(reply).charge),
               Goto("model")
        PROVE  AdapterInv'
    <3>. DEFINE charge == Settlement(reply).charge
                outcome == Settlement(reply).outcome
    <3>1. /\ charge \in {Charge(sends[s][1].used), Charge(Reservation)}
          /\ outcome = "succeeded" => charge = Charge(sends[s][1].used)
      BY <1>1, <2>1, SettlementCharge
    <3>. HIDE DEF charge, outcome
    <3>2. /\ model'[s].state = "settled" /\ model'[s].charge = charge
          /\ model'[s].outcome = outcome
          /\ \A i \in Step \ {s} : model'[i] = model[i]
      BY <1>1, <1>2, <2>2 DEF SettleModel, Settled, Open, charge, outcome
    <3>3. Moves("model")
      BY <2>2, GotoMoves
    <3>4. AttemptOK(s)'
      BY <1>1, <2>1, <3>1, <3>2 DEF AttemptOK, AdapterInv, SentOnce, Charge, adapterVars
    <3>. QED  BY <1>1, <2>1, <3>2, <3>3, <3>4, OneAttempt DEF AdapterInv, Moves, adapterVars
  <2>3. CASE Lost
    <3>1. Moves("rm") /\ UNCHANGED model
      BY <2>3, RaiseMoves DEF Lost
    <3>. QED  BY <2>1, <3>1, AdapterIdle DEF Moves
  <2>. QED  BY <1>8, <2>2, <2>3 DEF Answer
<1>. QED
  BY <1>4, <1>5, <1>6, <1>7, <1>8 DEF AdapterStep

-----------------------------------------------------------------------------
(* The check.                                                              *)

LeanPlaces == VerifierPlaces \ {"job"}
Verdicts == {"passed", "rejected", "unproved", "unsupported", "infrastructure_failure"}

(* What the verifier found, and why. *)
FoundOK ==
    \/ found.status = "infrastructure_failure"
    \/ found.status = "unproved" /\ (found.cut \/ facts.source = "unbuildable")
    \/ found.status = "proved" /\ facts.source = "good"
    \/ found.status = "rejected" /\ facts.source = "bad"
    \/ found.status = "unsupported" /\ found.decision = "malformed"

FactsOK ==
    /\ facts.premises \in BOOLEAN /\ facts.corresponds \in BOOLEAN
    /\ facts.by = "lean" => facts.source \in Sources
    /\ DOMAIN found = {"status", "decision", "cut"}

PlaceOK ==
    /\ host.at \in VerifierPlaces => check.state = "unknown"
    /\ host.at \in LeanPlaces => facts.by = "lean"
    /\ host.at = "job" => facts.by = "job"
    /\ host.at \in LeanPlaces \ {"proof"} => facts.source \notin {"missing", "oversized"}
    /\ host.at = "capture" => facts.source # "slow"
    /\ host.at = "clean" => FoundOK
    /\ host.at \in {"proof", "inputs", "runtime", "job"} \/ check.state = "none" =>
          container = "absent"

VerifierInv ==
    /\ FactsOK
    /\ PlaceOK
    /\ check.state = "settled" => check.outcome \in Verdicts
    /\ VerdictIsDeserved

(* Elsewhere the check and what is known of it stay as they are. *)
LEMMA VerifierIdle ==
    ASSUME VerifierInv, UNCHANGED <<check, verifierVars>>, host'.at \notin VerifierPlaces
    PROVE  VerifierInv'
BY DEF VerifierInv, FactsOK, PlaceOK, LeanPlaces, VerifierPlaces, VerdictIsDeserved,
       verifierVars

(* A container that nobody removed ends by itself. *)
LEMMA ExpiresPreserves ==
    ASSUME VerifierInv, ContainerExpires
    PROVE  VerifierInv'
<1>1. UNCHANGED <<check, facts, found, host>> /\ container' = "absent"
  BY DEF ContainerExpires, ledgerVars
<1>. QED
  BY <1>1, ZenonT(60) DEF VerifierInv, FactsOK, PlaceOK, FoundOK, VerdictIsDeserved

(* The check goes on, with its attempt still unknown. *)
LEMMA Unfinished ==
    ASSUME VerifierInv, check'.state = "unknown", FactsOK', PlaceOK'
    PROVE  VerifierInv'
BY DEF VerifierInv, VerdictIsDeserved

(* The check is settled as the verifier's faults are. *)
LEMMA FaultedPreserves ==
    ASSUME TypeOK, VerifierInv, Faulted, UNCHANGED facts, DOMAIN found' = {"status", "decision", "cut"}
    PROVE  VerifierInv'
<1>1. Moves("checked") /\ check'.state = "settled"
      /\ check'.outcome = "infrastructure_failure"
  BY GotoMoves DEF Faulted, RunCheck, Settled, Open
<1>. QED
  BY <1>1 DEF VerifierInv, FactsOK, PlaceOK, LeanPlaces, VerifierPlaces, Moves,
              VerdictIsDeserved, Verdicts

LEMMA ClientFailsPreserves ==
    ASSUME TypeOK, VerifierInv, NEW executing \in BOOLEAN, ClientFails(executing),
           UNCHANGED <<facts, check>>, host.at \in LeanPlaces \ {"proof"}
    PROVE  VerifierInv'
<1>1. Moves("clean")
  BY GotoMoves DEF ClientFails
<1>2. PICK cut \in BOOLEAN :
          found' = [found EXCEPT !.status = FailureStatus(executing, cut),
                                 !.cut = executing /\ cut]
  BY DEF ClientFails
<1>3. /\ DOMAIN found' = {"status", "decision", "cut"}
      /\ found'.status = FailureStatus(executing, cut) /\ found'.cut = (executing /\ cut)
  BY <1>2 DEF VerifierInv, FactsOK
<1>4. FoundOK'
  BY <1>3 DEF FoundOK, FailureStatus
<1>5. check.state = "unknown" /\ facts.by = "lean" /\ facts.source \notin {"missing", "oversized"}
  BY DEF VerifierInv, PlaceOK, LeanPlaces
<1>6. FactsOK' /\ PlaceOK'
  BY <1>1, <1>3, <1>4, <1>5 DEF VerifierInv, FactsOK, PlaceOK, Moves
<1>. QED  BY <1>5, <1>6, Unfinished

LEMMA VerifierPreserves ==
    ASSUME TypeOK, VerifierInv, VerifierStep
    PROVE  VerifierInv'
<1>. USE DEF VerifierPlaces, LeanPlaces
(* The verifier goes on to another place. *)
<1>1. ASSUME NEW place \in LeanPlaces \ {"proof", "clean"}, Goto(place),
             UNCHANGED <<facts, found, check>>, host.at \in LeanPlaces,
             facts.source \notin {"missing", "oversized"},
             place = "capture" => facts.source # "slow",
             place \in {"inputs", "runtime"} => UNCHANGED container /\ container = "absent"
      PROVE  VerifierInv'
  <2>1. Moves(place)
    BY <1>1, GotoMoves
  <2>2. check.state = "unknown" /\ facts.by = "lean"
    BY <1>1 DEF VerifierInv, PlaceOK
  <2>3. FactsOK' /\ PlaceOK'
    BY <1>1, <2>1, <2>2 DEF VerifierInv, FactsOK, PlaceOK, Moves
  <2>. QED  BY <1>1, <2>2, <2>3, Unfinished
<1>2. CASE BeginCheck
  <2>1. /\ check'.state = "unknown" /\ UNCHANGED <<found, container>>
        /\ check.state = "none"
        /\ facts'.premises \in BOOLEAN /\ facts'.corresponds \in BOOLEAN
        /\ \/ facts'.by = "lean" /\ facts'.source \in Sources
           \/ facts'.by = "job"
    BY <1>2 DEF BeginCheck, Open
  <2>2. Moves(IF facts'.by = "lean" THEN "proof" ELSE "job")
    BY <1>2, GotoMoves DEF BeginCheck
  <2>3. FactsOK' /\ PlaceOK'
    BY <2>1, <2>2 DEF VerifierInv, FactsOK, PlaceOK, Moves
  <2>. QED  BY <2>1, <2>3, Unfinished
<1>3. CASE CheckSource
  <2>1. At("proof") /\ UNCHANGED verifierVars /\ facts.by = "lean"
        /\ container = "absent"
    BY <1>3 DEF CheckSource, VerifierInv, PlaceOK, At
  <2>2. CASE Faulted
    BY <2>1, <2>2, FaultedPreserves DEF verifierVars, VerifierInv, FactsOK
  <2>3. CASE facts.source \in {"missing", "oversized"} /\ RunCheck("rejected")
    <3>1. Moves("checked") /\ check'.state = "settled" /\ check'.outcome = "rejected"
      BY <2>3, GotoMoves DEF RunCheck, Settled, Open
    <3>. QED
      BY <2>1, <2>3, <3>1 DEF VerifierInv, FactsOK, PlaceOK, Moves, VerdictIsDeserved,
                              Verdicts, verifierVars
  <2>4. CASE facts.source \notin {"missing", "oversized"} /\ Goto("inputs") /\ UNCHANGED ledgerVars
    BY <1>1, <2>1, <2>4 DEF verifierVars, ledgerVars, At
  <2>. QED  BY <1>3, <2>2, <2>3, <2>4 DEF CheckSource

<1>4. CASE Inputs
  <2>1. /\ At("inputs") /\ UNCHANGED verifierVars /\ container = "absent"
        /\ facts.source \notin {"missing", "oversized"}
    BY <1>4 DEF Inputs, VerifierInv, PlaceOK, At
  <2>2. CASE Faulted
    BY <2>1, <2>2, FaultedPreserves DEF verifierVars, VerifierInv, FactsOK
  <2>3. CASE Goto("runtime") /\ UNCHANGED ledgerVars
    BY <1>1, <2>1, <2>3 DEF verifierVars, ledgerVars, At
  <2>. QED  BY <1>4, <2>2, <2>3 DEF Inputs
<1>5. CASE StartVerifier
  <2>1. /\ At("runtime") /\ UNCHANGED facts
        /\ facts.source \notin {"missing", "oversized"}
    BY <1>5 DEF StartVerifier, VerifierInv, PlaceOK, At
  <2>2. CASE Goto("manifest") /\ UNCHANGED <<found, ledgerVars>>
    BY <1>1, <2>1, <2>2 DEF ledgerVars, At
  <2>3. CASE ClientFails(FALSE) /\ UNCHANGED ledgerVars
    BY <2>1, <2>3, ClientFailsPreserves DEF ledgerVars, At
  <2>4. CASE Faulted /\ UNCHANGED <<found, container>>
    BY <2>1, <2>4, FaultedPreserves DEF VerifierInv, FactsOK
  <2>. QED  BY <1>5, <2>2, <2>3, <2>4 DEF StartVerifier
<1>6. CASE CheckManifest \/ PrepareProof \/ Isolate
  <2>1. /\ host.at \in {"manifest", "prepare_proof", "isolate"}
        /\ UNCHANGED <<facts, check>> /\ facts.source \notin {"missing", "oversized"}
    BY <1>6 DEF CheckManifest, PrepareProof, Isolate, VerifierInv, PlaceOK, At, ledgerVars
  <2>2. CASE \E place \in {"prepare_proof", "isolate", "execute"} :
                Goto(place) /\ UNCHANGED found
    BY <1>1, <2>1, <2>2
  <2>3. CASE \E executing \in BOOLEAN : ClientFails(executing)
    BY <2>1, <2>3, ClientFailsPreserves
  <2>. QED  BY <1>6, <2>2, <2>3 DEF CheckManifest, PrepareProof, Isolate
<1>7. CASE ExecuteVerifier
  <2>1. /\ At("execute") /\ UNCHANGED <<facts, check>>
        /\ facts.source \notin {"missing", "oversized"}
    BY <1>7 DEF ExecuteVerifier, VerifierInv, PlaceOK, At, ledgerVars
  <2>2. CASE facts.source # "slow" /\ Goto("capture") /\ UNCHANGED found
    BY <1>1, <2>1, <2>2 DEF At
  <2>3. CASE ClientFails(TRUE)
    BY <2>1, <2>3, ClientFailsPreserves DEF At
  <2>. QED  BY <1>7, <2>2, <2>3 DEF ExecuteVerifier
<1>8. CASE CaptureVerdict
  <2>1. /\ At("capture") /\ UNCHANGED <<facts, check>> /\ check.state = "unknown"
        /\ facts.by = "lean" /\ facts.source \in {"good", "bad", "unbuildable"}
    BY <1>8 DEF CaptureVerdict, VerifierInv, PlaceOK, FactsOK, At, ledgerVars, Sources
  <2>2. ASSUME NEW decision \in Decisions(facts.source),
               found' = [found EXCEPT !.status = Validated(decision), !.decision = decision],
               Goto("clean")
        PROVE  VerifierInv'
    <3>1. Moves("clean")
      BY <2>2, GotoMoves
    <3>2. /\ DOMAIN found' = {"status", "decision", "cut"}
          /\ found'.status = Validated(decision) /\ found'.decision = decision
      BY <2>2 DEF VerifierInv, FactsOK
    <3>3. FoundOK'
      BY <2>1, <2>2, <3>2 DEF FoundOK, Validated, Decisions, Deserved
    <3>4. FactsOK' /\ PlaceOK'
      BY <2>1, <3>1, <3>2, <3>3 DEF VerifierInv, FactsOK, PlaceOK, Moves
    <3>. QED  BY <2>1, <3>4, Unfinished
  <2>3. CASE ClientFails(FALSE)
    BY <2>1, <2>3, ClientFailsPreserves DEF At
  <2>. QED  BY <1>8, <2>2, <2>3 DEF CaptureVerdict
<1>9. CASE CleanVerifier
  <2>1. /\ At("clean") /\ UNCHANGED <<facts, found>> /\ FoundOK /\ facts.by = "lean"
        /\ facts.source \notin {"missing", "oversized"} /\ FactsOK
    BY <1>9 DEF CleanVerifier, VerifierInv, PlaceOK, At
  <2>2. CASE container' = "absent" /\ RunCheck(ProofVerdict)
    <3>1. /\ Moves("checked") /\ check'.state = "settled" /\ check'.outcome = ProofVerdict
      BY <2>2, GotoMoves DEF RunCheck, Settled, Open
    <3>2. ProofVerdict \in Verdicts
      BY <2>1 DEF ProofVerdict, FoundOK, Verdicts
    <3>3. FactsOK' /\ PlaceOK'
      BY <2>1, <2>2, <3>1 DEF FactsOK, PlaceOK, Moves
    <3>4. VerdictIsDeserved'
      <4>1. CASE found.status = "proved"
        <5>. /\ UNCHANGED facts /\ facts.by = "lean" /\ facts.source = "good"
             /\ check'.outcome = ProofVerdict /\ container' = "absent"
          BY <2>1, <2>2, <3>1, <4>1 DEF FoundOK
        <5>1. CASE ~facts.premises
          <6>1. ProofVerdict = "unsupported"
            BY <2>1, <4>1, <5>1 DEF ProofVerdict, FactsOK
          <6>. QED  BY <5>1, <6>1 DEF VerdictIsDeserved
        <5>2. CASE facts.premises /\ ~facts.corresponds
          <6>1. ProofVerdict = "rejected"
            BY <2>1, <4>1, <5>2 DEF ProofVerdict, FactsOK
          <6>. QED  BY <5>2, <6>1 DEF VerdictIsDeserved
        <5>3. CASE facts.premises /\ facts.corresponds
          <6>1. ProofVerdict = "passed"
            BY <4>1, <5>3 DEF ProofVerdict
          <6>. QED  BY <5>3, <6>1 DEF VerdictIsDeserved
        <5>. QED  BY <5>1, <5>2, <5>3
      <4>2. CASE found.status # "proved"
        <5>1. ProofVerdict = found.status
          BY <4>2 DEF ProofVerdict
        <5>. QED  BY <2>1, <2>2, <3>1, <4>2, <5>1 DEF FoundOK, VerdictIsDeserved
      <4>. QED  BY <4>1, <4>2
    <3>. QED  BY <3>1, <3>2, <3>3, <3>4 DEF VerifierInv
  <2>3. CASE Faulted
    BY <2>1, <2>3, FaultedPreserves DEF FactsOK
  <2>. QED  BY <1>9, <2>2, <2>3 DEF CleanVerifier
<1>10. CASE RunJob
  <2>1. /\ At("job") /\ UNCHANGED facts /\ facts.by = "job" /\ container = "absent"
    BY <1>10 DEF RunJob, VerifierInv, PlaceOK, At
  <2>2. CASE LogJob /\ RunCheck(JobVerdict(facts.source)) /\ UNCHANGED container
    <3>1. /\ Moves("checked") /\ check'.state = "settled"
          /\ check'.outcome = JobVerdict(facts.source)
          /\ DOMAIN found' = {"status", "decision", "cut"}
      BY <2>2, GotoMoves DEF RunCheck, Settled, Open, LogJob, VerifierInv, FactsOK
    <3>. QED
      BY <2>1, <2>2, <3>1 DEF VerifierInv, FactsOK, PlaceOK, Moves, VerdictIsDeserved,
                              Verdicts, JobVerdict
  <2>3. CASE Faulted /\ DOMAIN found' = {"status", "decision", "cut"}
    BY <2>1, <2>3, FaultedPreserves
  <2>. QED  BY <1>10, <2>2, <2>3 DEF RunJob, JobRefused, VerifierInv, FactsOK
<1>. QED
  BY <1>2, <1>3, <1>4, <1>5, <1>6, <1>7, <1>8, <1>9, <1>10 DEF VerifierStep

-----------------------------------------------------------------------------
(* The container.  The host is working on the episode, or on the way out   *)
(* of it; it is attempting a command from BeginTool to its settlement.     *)

EpisodePlaces ==
    {"model", "tool", "operate", "deliver", "delivering", "stepped"}
      \cup AdapterPlaces \cup ToolPlaces
Closing == host.at \in {"rm", "exists"} /\ host.then # "exit"
Working == host.at \in EpisodePlaces \/ Closing
Attempting == host.at \in ToolPlaces \/ Closing

Continues(i) == tool[i].outcome # "infrastructure_failure" /\ tool[i].shows # "submit"
Past(i) ==
    /\ tool[i].state = "settled" /\ Continues(i)
    /\ tool[i].shows = "request" => asked[i] # "none"

(* Commands are attempted in order, each after the steps before it. *)
Ordered ==
    /\ \A i \in Step :
          /\ tool[i].state \in {"none", "unknown", "settled"}
          /\ tool[i].shows = "submit" => tool[i].state = "settled"
          /\ asked[i] # "none" => tool[i].state = "settled" /\ tool[i].shows = "request"
    /\ \A i, j \in Step : tool[i].state # "none" /\ j < i => Past(j)

(* The container ran every command before step i to its end, and holds the *)
(* results of the request of step i.                                       *)
Ready(i) == box.loaded /\ box.cmd = 0 /\ box.done = i - 1
Given(i) == asked[i] = "succeeded" => box.given[i] = "whole"

(* Step i is the next to be attempted. *)
Frontier(i) ==
    tool[i].state = "none" /\ \A j \in Step : j < i => tool[j].state = "settled"

BoxOK ==
    /\ DOMAIN box = {"state", "loaded", "cmd", "done", "out", "live", "files", "given"}
    /\ DOMAIN box.given = Step /\ box.files \in Nat
    /\ box.cmd # 0 => Running /\ box.cmd \in Step
    /\ tool[1].state = "none" => box.state = "absent"
    /\ \A i \in Step : Running /\ Frontier(i) => Ready(i)
    /\ Running /\ (\A i \in Step : tool[i].state # "unknown") => box.cmd = 0

DeliveriesOK ==
    /\ DOMAIN delivering = Session
    /\ \A s \in Session :
          /\ DOMAIN delivering[s] = {"at", "step"}
          /\ delivering[s].at # "none" => Running /\ delivering[s].step \in Step
          /\ delivering[s].at = "done" => box.given[delivering[s].step] = "whole"

(* At most one client that started something outlives its host, and the    *)
(* attempt it was for stays unknown.                                       *)
Starts(order) == order.does \in {"run", "exec"}
StraysOK ==
    \A order \in strays :
        /\ order.does \in {"run", "exec", "rm"}
        /\ Starts(order) =>
              /\ order.step \in Step /\ tool[order.step].state = "unknown"
              /\ \A other \in strays : Starts(other) => other = order
        /\ order.does = "run" => order.step = 1
        /\ order.does = "exec" /\ Running =>
              /\ Ready(order.step)
              /\ \A j \in Step : j < order.step => Given(j)

WorkOK ==
    Working =>
        /\ \A j \in Step : j < host.step => Past(j)
        /\ \A j \in Step : j < host.step /\ Running => Given(j)
        /\ \A order \in strays : ~Starts(order)
        /\ \A i \in Step : tool[i].state = "unknown" => Attempting /\ i = host.step
        /\ Attempting => tool[host.step].state = "unknown"

(* Where the host stands between two commands, and in one. *)
BetweenOK ==
    /\ host.at \in {"operate", "deliver", "delivering"} =>
          /\ tool[host.step].state = "settled" /\ Continues(host.step)
          /\ tool[host.step].shows = "request"
    /\ host.at \in {"deliver", "delivering"} => asked[host.step] = "succeeded"
    /\ host.at = "delivering" /\ delivering[host.session].at # "none" =>
          delivering[host.session].step = host.step
    /\ host.at = "stepped" => Past(host.step)
    /\ host.at = "stepped" /\ Running => Given(host.step)

CommandOK ==
    /\ host.at \in {"prepare", "look"} /\ host.step = 1 => box.state = "absent"
    /\ host.at \in {"prepare", "look", "exec"} /\ Running => Ready(host.step)
    /\ host.at \in {"create", "collect", "load"} => host.step = 1
    /\ host.at \in {"collect", "load"} /\ Running => box.cmd = 0 /\ box.done = 0
    /\ host.at = "wait" /\ Running =>
          /\ box.loaded
          /\ Ready(host.step + 1) \/ (box.cmd = host.step /\ box.done = host.step - 1)
    /\ host.at \in {"status", "stop", "read"} /\ Running => Ready(host.step + 1)

Submitting == host.at \in {"rm", "exists"} /\ host.then = "submit"
CandidateOK ==
    /\ candidate \in Seq(Nat) /\ Len(candidate) <= Parts
    /\ \A p \in 1..Len(candidate) : candidate[p] = candidate[1]
    /\ host.at # "read" /\ ~Submitting => candidate = <<>>
    /\ Submitting => Len(candidate) = Parts
    /\ host.at = "read" /\ Running =>
          ~box.live /\ \A p \in 1..Len(candidate) : candidate[p] = box.files

RecordsOK ==
    Ordered /\ BoxOK /\ DeliveriesOK /\ StraysOK
    /\ KnownIsStopped /\ CandidateIsWhole /\ CommandsInOrder
HostOK == WorkOK /\ BetweenOK /\ CommandOK /\ CandidateOK
SandboxInv == RecordsOK /\ HostOK

-----------------------------------------------------------------------------

LEMMA SandboxInit0 ==
    ASSUME SubmissionInit
    PROVE  SandboxInv
<1>. USE DEF SubmissionInit, BoundaryInit, SandboxInit, Open, NoBox, Idle, NoDelivery, Running
<1>1. Ordered
  BY DEF Ordered
<1>2. BoxOK
  BY BoundaryAssumption DEF BoxOK, Step
<1>3. DeliveriesOK /\ StraysOK
  BY DEF DeliveriesOK, StraysOK
<1>4. KnownIsStopped /\ CandidateIsWhole /\ CommandsInOrder
  BY DEF KnownIsStopped, CandidateIsWhole, CommandsInOrder
<1>5. WorkOK /\ BetweenOK /\ CommandOK
  BY DEF WorkOK, Working, EpisodePlaces, Closing, AdapterPlaces, ToolPlaces, BetweenOK, CommandOK
<1>6. CandidateOK
  BY DEF CandidateOK, Submitting, Parts
<1>. QED  BY <1>1, <1>2, <1>3, <1>4, <1>5, <1>6 DEF SandboxInv, RecordsOK, HostOK

(* The host moves, and touches neither the container nor the tools. *)
LEMMA HostMoves ==
    ASSUME RecordsOK, UNCHANGED <<tool, asked, box, delivering, strays>>
    PROVE  RecordsOK'
<1>1. Ordered'
  BY DEF RecordsOK, Ordered, Past, Continues
<1>2. BoxOK'
  BY DEF RecordsOK, BoxOK, Running, Frontier, Ready
<1>3. DeliveriesOK' /\ StraysOK'
  BY DEF RecordsOK, DeliveriesOK, StraysOK, Running, Starts, Ready, Given
<1>4. KnownIsStopped' /\ CandidateIsWhole' /\ CommandsInOrder'
  BY DEF RecordsOK, KnownIsStopped, CandidateIsWhole, CommandsInOrder
<1>. QED  BY <1>1, <1>2, <1>3, <1>4 DEF RecordsOK

(* Outside the episode the container is not the host's business. *)
LEMMA Outside ==
    ASSUME host'.at \notin EpisodePlaces,
           host'.at \in {"rm", "exists"} => host'.then = "exit",
           candidate' = <<>>
    PROVE  HostOK'
<1>1. WorkOK' /\ BetweenOK' /\ CommandOK'
  BY DEF WorkOK, BetweenOK, CommandOK, Working, Closing, EpisodePlaces, AdapterPlaces, ToolPlaces
<1>2. CandidateOK'
  BY DEF CandidateOK, Submitting, Parts, EpisodePlaces, ToolPlaces
<1>. QED  BY <1>1, <1>2 DEF HostOK

(* Within the episode, between commands. *)
LEMMA Onward ==
    ASSUME SandboxInv, UNCHANGED <<tool, asked, box, delivering, strays, candidate>>,
           Working, ~Attempting,
           NEW place \in {"model", "tool"} \cup AdapterPlaces, Moves(place)
    PROVE  SandboxInv'
<1>. USE DEF AdapterPlaces
<1>1. RecordsOK'
  BY HostMoves DEF SandboxInv
<1>2. WorkOK'
  <2>1. /\ \A j \in Step : j < host.step => Past(j) /\ (Running => Given(j))
        /\ \A order \in strays : ~Starts(order)
        /\ \A i \in Step : tool[i].state # "unknown"
    BY DEF SandboxInv, HostOK, WorkOK
  <2>2. ~Attempting'
    BY DEF Attempting, Closing, ToolPlaces, Moves
  <2>. QED
    BY <2>1, <2>2 DEF WorkOK, Moves, Past, Continues, Running, Given, Starts
<1>3. BetweenOK' /\ CommandOK'
  BY DEF BetweenOK, CommandOK, Moves
<1>4. CandidateOK'
  BY DEF SandboxInv, HostOK, CandidateOK, Attempting, Closing, Submitting, Moves, ToolPlaces
<1>. QED  BY <1>1, <1>2, <1>3, <1>4 DEF SandboxInv, HostOK

LEMMA AdapterKeepsSandbox ==
    ASSUME TypeOK, SandboxInv, AdapterStep, UNCHANGED sandboxVars
    PROVE  SandboxInv'
<1>1. /\ host.at \in AdapterPlaces \cup {"model"}
      /\ UNCHANGED <<tool, asked, box, delivering, strays, candidate>>
  BY AdapterMoves DEF sandboxVars
<1>2. Working /\ ~Attempting
  BY <1>1 DEF Working, Attempting, Closing, EpisodePlaces, AdapterPlaces, ToolPlaces
<1>3. CASE \E place \in AdapterPlaces \cup {"model"} : Moves(place)
  BY <1>1, <1>2, <1>3, Onward
<1>4. CASE Moves("rm") /\ host'.then = "exit"
  <2>1. candidate' = <<>>
    BY <1>1 DEF SandboxInv, HostOK, CandidateOK, Submitting, AdapterPlaces
  <2>2. HostOK'
    BY <1>4, <2>1, Outside DEF Moves, EpisodePlaces, AdapterPlaces, ToolPlaces
  <2>. QED  BY <1>1, <2>2, HostMoves DEF SandboxInv
<1>. QED  BY <1>3, <1>4, AdapterMoves

LEMMA VerifierKeepsSandbox ==
    ASSUME TypeOK, SandboxInv, VerifierStep, UNCHANGED sandboxVars
    PROVE  SandboxInv'
<1>1. /\ host.at \in VerifierPlaces \cup {"check"}
      /\ UNCHANGED <<tool, asked, box, delivering, strays, candidate>>
  BY VerifierMoves DEF sandboxVars
<1>2. PICK place \in VerifierPlaces \cup {"checked"} : Moves(place)
  BY VerifierMoves
<1>3. candidate' = <<>>
  BY <1>1 DEF SandboxInv, HostOK, CandidateOK, Submitting, VerifierPlaces
<1>4. HostOK'
  BY <1>2, <1>3, Outside DEF Moves, EpisodePlaces, AdapterPlaces, ToolPlaces, VerifierPlaces
<1>. QED  BY <1>1, <1>4, HostMoves DEF SandboxInv

(* The host leaves the episode, or stays out of it. *)
LEMMA LeavesSandbox ==
    ASSUME TypeOK, SandboxInv, UNCHANGED <<tool, asked, sandboxVars>>,
           host.at \notin {"read", "rm", "exists"},
           NEW place \in {"rm", "check", "stopped"}, Moves(place),
           place = "rm" => host'.then = "exit"
    PROVE  SandboxInv'
<1>1. UNCHANGED <<tool, asked, box, delivering, strays>> /\ candidate' = <<>>
  BY DEF SandboxInv, HostOK, CandidateOK, Submitting, sandboxVars
<1>2. HostOK'
  BY <1>1, Outside DEF Moves, EpisodePlaces, AdapterPlaces, ToolPlaces
<1>. QED  BY <1>1, <1>2, HostMoves DEF SandboxInv

LEMMA FollowModelKeepsSandbox ==
    ASSUME TypeOK, SandboxInv, FollowModel
    PROVE  SandboxInv'
<1>1. At("model") /\ UNCHANGED <<tool, asked, sandboxVars>>
  BY DEF FollowModel, ledgerVars
<1>2. Working /\ ~Attempting
  BY <1>1 DEF At, Working, Attempting, Closing, EpisodePlaces, ToolPlaces
<1>3. CASE Goto("tool")
  BY <1>1, <1>2, <1>3, GotoMoves, Onward DEF sandboxVars
<1>4. CASE Leave
  BY <1>1, <1>4, LeaveMoves, LeavesSandbox DEF At
<1>. QED  BY <1>3, <1>4 DEF FollowModel

LEMMA FollowToolKeepsSandbox ==
    ASSUME TypeOK, SandboxInv, FollowTool
    PROVE  SandboxInv'
<1>. DEFINE s == host.step
<1>1. /\ At("tool") /\ tool[s].state = "settled" /\ s \in Step
      /\ UNCHANGED <<tool, asked, box, delivering, strays, candidate, sandboxVars>>
  BY DEF FollowTool, sandboxVars, At, TypeOK
<1>2. Working /\ ~Attempting
  BY <1>1 DEF At, Working, Attempting, Closing, EpisodePlaces, ToolPlaces
<1>3. CASE Leave
  BY <1>1, <1>3, LeaveMoves, LeavesSandbox DEF At
<1>4. ASSUME Continues(s), NEW place \in {"operate", "stepped"}, Goto(place),
             place = "operate" => tool[s].shows = "request",
             place = "stepped" => tool[s].shows # "request"
      PROVE  SandboxInv'
  <2>1. Moves(place)
    BY <1>4, GotoMoves
  <2>2. RecordsOK'
    BY <1>1, HostMoves DEF SandboxInv
  <2>3. /\ \A j \in Step : j < s => Past(j) /\ (Running => Given(j))
        /\ \A order \in strays : ~Starts(order)
        /\ \A i \in Step : tool[i].state # "unknown"
    BY <1>2 DEF SandboxInv, HostOK, WorkOK
  <2>4. ~Attempting'
    BY <1>4, <2>1 DEF Attempting, Closing, ToolPlaces, Moves
  <2>5. WorkOK'
    BY <1>1, <2>1, <2>3, <2>4 DEF WorkOK, Moves, Past, Continues, Running, Given, Starts
  <2>6. asked[s] # "none" => tool[s].shows = "request"
    BY <1>1 DEF SandboxInv, RecordsOK, Ordered
  <2>7. BetweenOK' /\ CommandOK'
    BY <1>1, <1>4, <2>1, <2>6 DEF BetweenOK, CommandOK, Moves, Past, Continues, Given
  <2>8. CandidateOK'
    BY <1>1, <1>4, <2>1 DEF SandboxInv, HostOK, CandidateOK, Submitting, Moves, At
  <2>. QED  BY <2>2, <2>5, <2>7, <2>8 DEF SandboxInv, HostOK
<1>. QED
  BY <1>3, <1>4 DEF FollowTool, Continues

LEMMA OperateKeepsSandbox ==
    ASSUME TypeOK, SandboxInv, Operate
    PROVE  SandboxInv'
<1>1. PICK s \in Step : s = host.step
  BY DEF Operate, At, TypeOK
<1>2. /\ At("operate") /\ UNCHANGED <<tool, sandboxVars>>
      /\ UNCHANGED <<box, delivering, strays, candidate>>
      /\ tool[s].state = "settled" /\ Continues(s) /\ tool[s].shows = "request"
  BY <1>1 DEF Operate, sandboxVars, SandboxInv, HostOK, BetweenOK, At
<1>3. /\ DOMAIN asked' = Step /\ \A i \in Step \ {s} : asked'[i] = asked[i]
      /\ asked'[s] \in {"succeeded", "infrastructure_failure"} \/ asked'[s] = asked[s]
      /\ asked'[s] # "none"
  BY <1>1 DEF Operate, TypeOK
<1>4. Moves(IF asked'[s] = "succeeded" THEN "deliver" ELSE "stepped")
  BY <1>1, GotoMoves DEF Operate
<1>5. /\ \A j \in Step : j < s => Past(j) /\ (Running => Given(j))
      /\ \A order \in strays : ~Starts(order)
      /\ \A i \in Step : tool[i].state # "unknown"
  <2>1. Working /\ ~Attempting
    BY <1>2 DEF At, Working, Attempting, Closing, EpisodePlaces, ToolPlaces
  <2>. QED  BY <1>1, <2>1 DEF SandboxInv, HostOK, WorkOK
<1>6. Running => box.cmd = 0
  BY <1>5 DEF SandboxInv, RecordsOK, BoxOK
<1>7. Ordered'
  BY <1>2, <1>3 DEF SandboxInv, RecordsOK, Ordered, Past, Continues
<1>8. BoxOK' /\ DeliveriesOK'
  BY <1>2 DEF SandboxInv, RecordsOK, BoxOK, DeliveriesOK, Running, Frontier, Ready
<1>9. StraysOK'
  BY <1>2, <1>5 DEF SandboxInv, RecordsOK, StraysOK, Starts
<1>10. KnownIsStopped' /\ CandidateIsWhole' /\ CommandsInOrder'
  BY <1>2, <1>6 DEF SandboxInv, RecordsOK, BoxOK, KnownIsStopped, CandidateIsWhole,
                    CommandsInOrder
<1>11. \A j \in Step : j <= s => Past(j)'
  BY <1>2, <1>3, <1>5 DEF Past, Continues, Step
<1>12. \A j \in Step : j < s /\ Running => Given(j)'
  BY <1>2, <1>3, <1>5 DEF Given, Step
<1>13. ~Attempting'
  BY <1>4 DEF Attempting, Closing, ToolPlaces, Moves
<1>14. WorkOK'
  BY <1>1, <1>2, <1>4, <1>5, <1>11, <1>12, <1>13 DEF WorkOK, Moves, Running, Step, Starts
<1>15. BetweenOK' /\ CommandOK'
  <2>1. asked'[s] # "succeeded" => Given(s)'
    BY DEF Given
  <2>2. s <= s
    BY DEF Step
  <2>. QED
    BY <1>1, <1>2, <1>4, <1>11, <2>1, <2>2 DEF BetweenOK, CommandOK, Moves, Continues
<1>16. CandidateOK'
  BY <1>2, <1>4 DEF SandboxInv, HostOK, CandidateOK, Submitting, Moves, At
<1>. QED
  BY <1>7, <1>8, <1>9, <1>10, <1>14, <1>15, <1>16 DEF SandboxInv, RecordsOK, HostOK

LEMMA NextStepKeepsSandbox ==
    ASSUME TypeOK, SandboxInv, NextStep
    PROVE  SandboxInv'
<1>1. /\ At("stepped") /\ host.step \in Step /\ UNCHANGED <<tool, asked, sandboxVars>>
      /\ UNCHANGED <<box, delivering, strays, candidate>>
  BY DEF NextStep, sandboxVars, At, TypeOK
<1>2. CASE Leave
  BY <1>1, <1>2, LeaveMoves, LeavesSandbox DEF At
<1>3. CASE host' = [host EXCEPT !.at = "model", !.step = @ + 1]
  <2>1. host'.at = "model" /\ host'.step = host.step + 1
    BY <1>3 DEF TypeOK
  <2>2. /\ \A j \in Step : j < host.step => Past(j) /\ (Running => Given(j))
        /\ \A order \in strays : ~Starts(order)
        /\ \A i \in Step : tool[i].state # "unknown"
        /\ Past(host.step) /\ (Running => Given(host.step))
    BY <1>1 DEF SandboxInv, HostOK, WorkOK, BetweenOK, At, Working, Attempting, Closing,
                EpisodePlaces, ToolPlaces
  <2>3. \A j \in Step : j < host.step + 1 => j < host.step \/ j = host.step
    BY <1>1 DEF Step
  <2>4. ~Attempting'
    BY <2>1 DEF Attempting, Closing, ToolPlaces
  <2>5. WorkOK'
    BY <1>1, <2>1, <2>2, <2>3, <2>4 DEF WorkOK, Past, Continues, Running, Given, Starts
  <2>6. BetweenOK' /\ CommandOK'
    BY <2>1 DEF BetweenOK, CommandOK
  <2>7. CandidateOK'
    BY <1>1, <2>1 DEF SandboxInv, HostOK, CandidateOK, Submitting, At
  <2>. QED  BY <1>1, <2>5, <2>6, <2>7, HostMoves DEF SandboxInv, HostOK
<1>. QED  BY <1>2, <1>3 DEF NextStep

LEMMA AssessKeepsSandbox ==
    ASSUME TypeOK, SandboxInv, Assess \/ AssessRaised \/ FollowCheck
    PROVE  SandboxInv'
<1>1. /\ host.at \in {"left", "raised", "check", "checked"}
      /\ UNCHANGED <<tool, asked, sandboxVars>>
  BY DEF Assess, AssessRaised, FollowCheck, At, ledgerVars
<1>2. Moves("stopped") \/ Moves("check")
  BY DEF Assess, AssessRaised, FollowCheck, Moves, TypeOK
<1>. QED  BY <1>1, <1>2, LeavesSandbox

(* A resumed host finds no attempt under way, or closes the container. *)
LEMMA ResumeKeepsSandbox ==
    ASSUME TypeOK, SandboxInv, Resume
    PROVE  SandboxInv'
<1>1. /\ UNCHANGED <<tool, asked, box, delivering, strays, candidate>>
      /\ host.at \in {"down", "stopped"}
      /\ host'.step = 1 /\ host'.then = "exit"
      /\ host'.at = IF Unsettled \/ finished # "no" THEN "rm" ELSE "model"
  BY DEF Resume, sandboxVars, ledgerVars
<1>2. candidate' = <<>>
  BY <1>1 DEF SandboxInv, HostOK, CandidateOK, Submitting
<1>3. CASE Unsettled \/ finished # "no"
  <2>1. HostOK'
    BY <1>1, <1>2, <1>3, Outside DEF EpisodePlaces, AdapterPlaces, ToolPlaces
  <2>. QED  BY <1>1, <2>1, HostMoves DEF SandboxInv
<1>4. CASE ~Unsettled /\ finished = "no"
  <2>1. host'.at = "model" /\ \A i \in Step : tool[i].state # "unknown"
    BY <1>1, <1>4 DEF Unsettled
  <2>2. \A order \in strays : ~Starts(order)
    BY <2>1 DEF SandboxInv, RecordsOK, StraysOK
  <2>3. \A j \in Step : ~(j < 1)
    BY DEF Step
  <2>4. WorkOK'
    BY <1>1, <2>1, <2>2, <2>3 DEF WorkOK, Starts, Attempting, Closing, ToolPlaces
  <2>5. BetweenOK' /\ CommandOK'
    BY <2>1 DEF BetweenOK, CommandOK
  <2>6. CandidateOK'
    BY <1>2, <2>1 DEF CandidateOK, Submitting, Parts
  <2>. QED  BY <1>1, <2>4, <2>5, <2>6, HostMoves DEF SandboxInv, HostOK
<1>. QED  BY <1>3, <1>4

(* A killed host leaves the order of its last client. *)
LEMMA CrashKeepsSandbox ==
    ASSUME TypeOK, SandboxInv, Crash
    PROVE  SandboxInv'
<1>1. /\ UNCHANGED <<tool, asked, box, delivering>> /\ strays' = strays \cup Orphaned
      /\ candidate' = <<>> /\ host'.at = "down" /\ host.at # "down"
  BY GotoMoves DEF Crash, ledgerVars, Moves
<1>2. HostOK'
  BY <1>1, Outside DEF EpisodePlaces, AdapterPlaces, ToolPlaces
<1>3. StraysOK'
  <2>1. CASE host.at \notin {"create", "exec"}
    <3>1. \A order \in Orphaned : order.does = "rm"
      BY <2>1 DEF Orphaned, At
    <3>. QED
      BY <1>1, <3>1 DEF SandboxInv, RecordsOK, StraysOK, Starts, Ready, Given, Running
  <2>2. CASE host.at \in {"create", "exec"}
    <3>1. PICK s \in Step : s = host.step
      BY <1>1 DEF TypeOK
    <3>2. Working /\ Attempting
      BY <2>2 DEF Working, Attempting, EpisodePlaces, ToolPlaces
    <3>3. /\ \A order \in strays : ~Starts(order)
          /\ tool[s].state = "unknown"
          /\ \A j \in Step : j < s /\ Running => Given(j)
      BY <3>1, <3>2 DEF SandboxInv, HostOK, WorkOK
    <3>4. CASE host.at = "create"
      <4>1. s = 1 /\ Orphaned = {[does |-> "run", step |-> s]}
        BY <3>1, <3>4 DEF Orphaned, At, SandboxInv, HostOK, CommandOK
      <4>. QED
        BY <1>1, <3>1, <3>3, <4>1 DEF SandboxInv, RecordsOK, StraysOK, Starts, Ready, Given, Running
    <3>5. CASE host.at = "exec"
      <4>1. Orphaned = {[does |-> "exec", step |-> s]} /\ (Running => Ready(s))
        BY <3>1, <3>5 DEF Orphaned, At, SandboxInv, HostOK, CommandOK
      <4>. QED
        BY <1>1, <3>1, <3>3, <4>1 DEF SandboxInv, RecordsOK, StraysOK, Starts, Ready, Given, Running
    <3>. QED  BY <2>2, <3>4, <3>5
  <2>. QED  BY <2>1, <2>2
<1>4. Ordered' /\ BoxOK' /\ DeliveriesOK'
  BY <1>1 DEF SandboxInv, RecordsOK, Ordered, Past, Continues, BoxOK, Running, Frontier, Ready,
              DeliveriesOK
<1>5. KnownIsStopped' /\ CandidateIsWhole' /\ CommandsInOrder'
  BY <1>1 DEF SandboxInv, RecordsOK, KnownIsStopped, CandidateIsWhole, CommandsInOrder
<1>. QED  BY <1>2, <1>3, <1>4, <1>5 DEF SandboxInv, RecordsOK

-----------------------------------------------------------------------------
(* Changes to the container.                                               *)

(* While an attempt is unknown, nothing after it was attempted. *)
LEMMA UnknownBlocks ==
    ASSUME RecordsOK, NEW s \in Step, tool[s].state = "unknown"
    PROVE  /\ \A i \in Step : ~Frontier(i)
           /\ \A i \in Step : i > s => tool[i].state = "none"
           /\ \A i \in Step : tool[i].state = "settled" => i < s /\ Continues(i)
           /\ tool[1].state # "none"
<1>1. \A i \in Step : i > s => tool[i].state = "none"
  BY DEF RecordsOK, Ordered, Past
<1>2. \A i \in Step : i < s => Past(i)
  BY DEF RecordsOK, Ordered
<1>3. \A i \in Step : i < s \/ i = s \/ i > s
  BY DEF Step
<1>4. 1 \in Step /\ (1 < s \/ s = 1)
  BY BoundaryAssumption DEF Step
<1>. QED  BY <1>1, <1>2, <1>3, <1>4 DEF Past, Frontier, Step

(* The container changes while a command is attempted. *)
LEMMA BoxMoves ==
    ASSUME RecordsOK, NEW s \in Step, tool[s].state = "unknown", UNCHANGED <<tool, asked>>,
           DOMAIN box' = DOMAIN box, DOMAIN box'.given = Step, box'.files \in Nat,
           box'.cmd # 0 => box'.state = "running" /\ box'.cmd \in Step,
           DeliveriesOK', StraysOK', CommandsInOrder'
    PROVE  RecordsOK'
<1>1. Ordered' /\ CandidateIsWhole'
  BY DEF RecordsOK, Ordered, Past, Continues, CandidateIsWhole
<1>2. /\ \A i \in Step : ~Frontier(i)
      /\ \A i \in Step : tool[i].state = "settled" => Continues(i)
      /\ tool[1].state # "none"
  BY UnknownBlocks
<1>3. \A i \in Step : ~Frontier(i)'
  BY <1>2 DEF Frontier
<1>4. KnownIsStopped'
  BY <1>2 DEF KnownIsStopped, Continues
<1>5. BoxOK'
  BY <1>2, <1>3 DEF RecordsOK, BoxOK, Running
<1>. QED  BY <1>1, <1>4, <1>5 DEF RecordsOK

(* The container is removed, or ends. *)
Gone ==
    /\ box' = NoBox \/ (Running /\ box' = [NoBox EXCEPT !.state = "exited"])
    /\ delivering' = Idle

LEMMA GoneKeepsRecords ==
    ASSUME RecordsOK, Gone, UNCHANGED <<tool, asked>>, strays' \subseteq strays
    PROVE  RecordsOK' /\ ~Running'
<1>1. /\ DOMAIN box' = DOMAIN box /\ DOMAIN box'.given = Step /\ box'.files \in Nat
      /\ box'.cmd = 0 /\ box'.state # "running"
      /\ box'.state # "absent" => Running
  BY DEF Gone, NoBox, RecordsOK, BoxOK
<1>2. Ordered' /\ CandidateIsWhole'
  BY DEF RecordsOK, Ordered, Past, Continues, CandidateIsWhole
<1>3. BoxOK'
  BY <1>1 DEF RecordsOK, BoxOK, Running
<1>4. DeliveriesOK'
  BY DEF DeliveriesOK, Gone, Idle, NoDelivery
<1>5. StraysOK'
  BY <1>1 DEF RecordsOK, StraysOK, Starts, Running
<1>6. KnownIsStopped'
  BY <1>1 DEF RecordsOK, KnownIsStopped, Running
<1>7. CommandsInOrder'
  BY <1>1 DEF CommandsInOrder
<1>. QED  BY <1>1, <1>2, <1>3, <1>4, <1>5, <1>6, <1>7 DEF RecordsOK, Running

LEMMA GoneKeepsSandbox ==
    ASSUME TypeOK, SandboxInv, Gone, UNCHANGED <<host, tool, asked, candidate>>,
           strays' \subseteq strays
    PROVE  SandboxInv'
<1>1. RecordsOK' /\ ~Running'
  BY GoneKeepsRecords DEF SandboxInv
<1>2. WorkOK'
  BY <1>1 DEF SandboxInv, HostOK, WorkOK, Working, Attempting, Closing, Past, Continues, Starts
<1>3. BetweenOK'
  BY <1>1 DEF SandboxInv, HostOK, BetweenOK, Continues, Past, Gone, Idle, NoDelivery, TypeOK
<1>4. CommandOK'
  BY <1>1 DEF SandboxInv, HostOK, CommandOK, Gone, Running, NoBox
<1>5. CandidateOK'
  BY <1>1 DEF SandboxInv, HostOK, CandidateOK, Submitting
<1>. QED  BY <1>1, <1>2, <1>3, <1>4, <1>5 DEF SandboxInv, HostOK

(* Only the worker's files, or its processes, change. *)
LEMMA FilesMove ==
    ASSUME RecordsOK, UNCHANGED <<tool, asked, delivering, strays>>,
           DOMAIN box' = DOMAIN box, box'.files \in Nat,
           UNCHANGED <<box.state, box.loaded, box.cmd, box.done, box.given>>
    PROVE  RecordsOK'
<1>1. Ordered' /\ CandidateIsWhole'
  BY DEF RecordsOK, Ordered, Past, Continues, CandidateIsWhole
<1>2. BoxOK'
  BY DEF RecordsOK, BoxOK, Running, Frontier, Ready
<1>3. DeliveriesOK' /\ StraysOK'
  BY DEF RecordsOK, DeliveriesOK, StraysOK, Running, Starts, Ready, Given
<1>4. KnownIsStopped' /\ CommandsInOrder'
  BY DEF RecordsOK, KnownIsStopped, CommandsInOrder
<1>. QED  BY <1>1, <1>2, <1>3, <1>4 DEF RecordsOK

LEMMA ExpireKeepsSandbox ==
    ASSUME TypeOK, SandboxInv, Expire
    PROVE  SandboxInv'
BY GoneKeepsSandbox DEF Expire, Gone, ledgerVars

LEMMA WorkerWritesKeepsSandbox ==
    ASSUME SandboxInv, WorkerWrites
    PROVE  SandboxInv'
<1>1. /\ UNCHANGED <<host, tool, asked, delivering, strays, candidate>>
      /\ Running /\ (box.cmd # 0 \/ box.live)
  BY DEF WorkerWrites, ledgerVars
<1>2. /\ DOMAIN box' = DOMAIN box /\ box'.files \in Nat
      /\ UNCHANGED <<box.state, box.loaded, box.cmd, box.done, box.given>>
  BY DEF WorkerWrites, SandboxInv, RecordsOK, BoxOK
<1>3. RecordsOK'
  BY <1>1, <1>2, FilesMove DEF SandboxInv
<1>4. host.at # "read"
  BY <1>1 DEF SandboxInv, HostOK, CommandOK, CandidateOK, Ready
<1>5. WorkOK'
  BY <1>1, <1>2 DEF SandboxInv, HostOK, WorkOK, Working, Attempting, Closing, Past, Continues,
                    Starts, Running, Given
<1>6. BetweenOK'
  BY <1>1, <1>2 DEF SandboxInv, HostOK, BetweenOK, Continues, Past, Running, Given
<1>7. CommandOK'
  BY <1>1, <1>2 DEF SandboxInv, HostOK, CommandOK, Running, Ready
<1>8. CandidateOK'
  BY <1>1, <1>4 DEF SandboxInv, HostOK, CandidateOK, Submitting
<1>. QED  BY <1>3, <1>5, <1>6, <1>7, <1>8 DEF SandboxInv, HostOK

(* The command of an unknown attempt ends. *)
LEMMA ExecuteKeepsSandbox ==
    ASSUME TypeOK, SandboxInv, NEW out, NEW left \in BOOLEAN, Execute(out, left)
    PROVE  SandboxInv'
<1>1. /\ UNCHANGED <<host, tool, asked, delivering, strays, candidate>>
      /\ Running /\ box.cmd # 0 /\ box.cmd \in Step
  BY DEF Execute, ledgerVars, SandboxInv, RecordsOK, BoxOK
<1>2. /\ DOMAIN box' = DOMAIN box /\ UNCHANGED <<box.state, box.loaded, box.given, box.files>>
      /\ box'.cmd = 0 /\ box'.done = box.cmd
  BY DEF Execute, SandboxInv, RecordsOK, BoxOK
<1>3. PICK s \in Step : tool[s].state = "unknown"
  BY <1>1 DEF SandboxInv, RecordsOK, BoxOK
<1>4. box.loaded /\ box.done = box.cmd - 1
  BY <1>1 DEF SandboxInv, RecordsOK, CommandsInOrder
<1>5. DeliveriesOK'
  BY <1>1, <1>2 DEF SandboxInv, RecordsOK, DeliveriesOK, Running
<1>6. StraysOK'
  <2>1. \A order \in strays : order.does # "exec"
    BY <1>1 DEF SandboxInv, RecordsOK, StraysOK, Ready
  <2>. QED  BY <1>1, <2>1 DEF SandboxInv, RecordsOK, StraysOK, Starts
<1>7. RecordsOK'
  <2>1. CommandsInOrder'
    BY <1>2 DEF CommandsInOrder
  <2>2. DOMAIN box'.given = Step /\ box'.files \in Nat
    BY <1>2 DEF SandboxInv, RecordsOK, BoxOK
  <2>. QED  BY <1>1, <1>2, <1>3, <1>5, <1>6, <2>1, <2>2, BoxMoves DEF SandboxInv
<1>8. WorkOK'
  BY <1>1, <1>2 DEF SandboxInv, HostOK, WorkOK, Working, Attempting, Closing, Past, Continues,
                    Starts, Running, Given
<1>9. BetweenOK'
  BY <1>1, <1>2 DEF SandboxInv, HostOK, BetweenOK, Continues, Past, Running, Given
<1>10. CommandOK'
  <2>1. host.at \in {"prepare", "look", "exec", "collect", "load", "status", "stop", "read"} => FALSE
    BY <1>1 DEF SandboxInv, HostOK, CommandOK, Ready
  <2>2. CASE host.at = "wait"
    <3>1. box.cmd = host.step /\ host.step \in Step
      BY <1>1, <2>2 DEF SandboxInv, HostOK, CommandOK, Ready, TypeOK
    <3>2. Ready(host.step + 1)'
      BY <1>1, <1>2, <1>4, <3>1 DEF Ready, Step
    <3>. QED  BY <1>1, <1>2, <1>4, <2>2, <3>2 DEF CommandOK
  <2>3. CASE host.at = "create"
    BY <1>1, <2>3 DEF SandboxInv, HostOK, CommandOK
  <2>. QED  BY <1>1, <2>1, <2>2, <2>3 DEF CommandOK
<1>11. CandidateOK'
  <2>1. host.at # "read"
    BY <1>1 DEF SandboxInv, HostOK, CommandOK, Ready
  <2>. QED  BY <1>1, <2>1 DEF SandboxInv, HostOK, CandidateOK, Submitting
<1>. QED  BY <1>7, <1>8, <1>9, <1>10, <1>11 DEF SandboxInv, HostOK

(* A delivery never spoils what was delivered whole. *)
LEMMA DeliverStepKeepsSandbox ==
    ASSUME TypeOK, SandboxInv, NEW s \in Session, DeliverStep(s)
    PROVE  SandboxInv'
<1>. DEFINE d == delivering[s]
<1>1. /\ UNCHANGED <<host, tool, asked, strays, candidate>>
      /\ Running /\ d.at # "none" /\ d.step \in Step
  BY DEF DeliverStep, ledgerVars, SandboxInv, RecordsOK, DeliveriesOK
<1>2. /\ DOMAIN box' = DOMAIN box /\ DOMAIN box'.given = Step
      /\ UNCHANGED <<box.state, box.loaded, box.cmd, box.done, box.files, box.live>>
      /\ \A i \in Step : box.given[i] = "whole" => box'.given[i] = "whole"
      /\ DOMAIN delivering' = Session /\ DOMAIN delivering'[s] = {"at", "step"}
      /\ \A t \in Session \ {s} : delivering'[t] = delivering[t]
      /\ delivering'[s].step = d.step
      /\ delivering'[s].at = "done" => box'.given[d.step] = "whole"
  <2>. USE DEF SandboxInv, RecordsOK, BoxOK, DeliveriesOK
  <2>. DEFINE Now(at) == delivering' = [delivering EXCEPT ![s].at = at]
              Gives(what) == box' = [box EXCEPT !.given[d.step] = what]
  <2>1. ASSUME NEW at, Now(at)
        PROVE  /\ DOMAIN delivering' = Session /\ DOMAIN delivering'[s] = {"at", "step"}
               /\ \A t \in Session \ {s} : delivering'[t] = delivering[t]
               /\ delivering'[s].step = d.step /\ delivering'[s].at = at
    BY <2>1
  <2>2. ASSUME NEW what, Gives(what)
        PROVE  /\ DOMAIN box' = DOMAIN box /\ DOMAIN box'.given = Step
               /\ UNCHANGED <<box.state, box.loaded, box.cmd, box.done, box.files, box.live>>
               /\ box'.given[d.step] = what
               /\ \A i \in Step \ {d.step} : box'.given[i] = box.given[i]
    BY <1>1, <2>2
  <2>3. \/ box.given[d.step] = "none" /\ Gives("part") /\ Now("write")
        \/ box.given[d.step] = "whole" /\ UNCHANGED box /\ Now("done")
        \/ UNCHANGED box /\ Now("failed")
        \/ Gives("whole") /\ Now("done")
    BY DEF DeliverStep
  <2>. HIDE DEF Now, Gives
  <2>4. CASE box.given[d.step] = "none" /\ Gives("part") /\ Now("write")
    BY <2>1, <2>2, <2>4
  <2>5. CASE box.given[d.step] = "whole" /\ UNCHANGED box /\ Now("done")
    BY <2>1, <2>5
  <2>6. CASE UNCHANGED box /\ Now("failed")
    BY <2>1, <2>6
  <2>7. CASE Gives("whole") /\ Now("done")
    BY <2>1, <2>2, <2>7
  <2>. QED  BY <2>3, <2>4, <2>5, <2>6, <2>7
<1>. HIDE DEF d
<1>3. \A i \in Step : Given(i) => Given(i)'
  BY <1>1, <1>2 DEF Given
<1>4. RecordsOK'
  <2>1. Ordered' /\ CandidateIsWhole'
    BY <1>1 DEF SandboxInv, RecordsOK, Ordered, Past, Continues, CandidateIsWhole
  <2>2. BoxOK'
    BY <1>1, <1>2 DEF SandboxInv, RecordsOK, BoxOK, Running, Frontier, Ready
  <2>3. DeliveriesOK'
    BY <1>1, <1>2 DEF SandboxInv, RecordsOK, DeliveriesOK, Running
  <2>4. StraysOK'
    BY <1>1, <1>2, <1>3 DEF SandboxInv, RecordsOK, StraysOK, Running, Starts, Ready
  <2>5. KnownIsStopped'
    BY <1>1, <1>2 DEF SandboxInv, RecordsOK, KnownIsStopped
  <2>6. CommandsInOrder'
    <3>1. box.cmd # 0 => \A i \in 1..(box.cmd - 1) : i \in Step
      BY BoundaryAssumption DEF SandboxInv, RecordsOK, BoxOK, Step
    <3>. QED  BY <1>1, <1>2, <3>1 DEF SandboxInv, RecordsOK, CommandsInOrder
  <2>. QED  BY <2>1, <2>2, <2>3, <2>4, <2>5, <2>6 DEF RecordsOK
<1>5. WorkOK'
  BY <1>1, <1>2, <1>3 DEF SandboxInv, HostOK, WorkOK, Working, Attempting, Closing, Past,
                          Continues, Starts, Running
<1>6. BetweenOK'
  <2>1. host.at # "down" => host.step \in Step /\ host.session \in Session
    BY DEF TypeOK
  <2>2. host.at = "delivering" /\ delivering'[host.session].at # "none" =>
          delivering'[host.session].step = host.step
    BY <1>1, <1>2, <2>1 DEF SandboxInv, HostOK, BetweenOK, d
  <2>. QED
    BY <1>1, <1>2, <1>3, <2>1, <2>2 DEF SandboxInv, HostOK, BetweenOK, Continues, Past, Running
<1>7. CommandOK'
  BY <1>1, <1>2 DEF SandboxInv, HostOK, CommandOK, Running, Ready
<1>8. CandidateOK'
  BY <1>1, <1>2 DEF SandboxInv, HostOK, CandidateOK, Submitting, Running
<1>. QED  BY <1>4, <1>5, <1>6, <1>7, <1>8 DEF SandboxInv, HostOK

(* An order of a killed host is carried out late.  As long as it may start *)
(* something, its attempt is unknown, and no host works on the episode.    *)
LEMMA StrayKeepsSandbox ==
    ASSUME TypeOK, SandboxInv, NEW order \in strays, Stray(order)
    PROVE  SandboxInv'
<1>1. /\ UNCHANGED <<host, tool, asked, candidate>> /\ strays' = strays \ {order}
      /\ order.does \in {"run", "exec", "rm"}
  BY DEF Stray, ledgerVars, SandboxInv, RecordsOK, StraysOK
<1>2. CASE order.does = "rm"
  BY <1>1, <1>2, GoneKeepsSandbox DEF Stray, Removed, Gone
<1>3. CASE Starts(order)
  <2>1. PICK s \in Step : s = order.step
    BY <1>3 DEF SandboxInv, RecordsOK, StraysOK
  <2>2. /\ tool[s].state = "unknown" /\ \A other \in strays' : ~Starts(other)
    BY <1>1, <1>3, <2>1 DEF SandboxInv, RecordsOK, StraysOK
  <2>3. HostOK'
    <3>1. ~Working
      BY <1>3 DEF SandboxInv, HostOK, WorkOK
    <3>2. /\ host.at \notin EpisodePlaces
          /\ host.at \in {"rm", "exists"} => host.then = "exit"
      BY <3>1 DEF Working, Closing
    <3>3. candidate = <<>>
      BY <3>2 DEF SandboxInv, HostOK, CandidateOK, Submitting, EpisodePlaces, ToolPlaces
    <3>. QED  BY <1>1, <3>2, <3>3, Outside
  <2>4. UNCHANGED delivering
    BY <1>3 DEF Stray, Starts
  <2>5. StraysOK'
    BY <1>1, <2>2 DEF SandboxInv, RecordsOK, StraysOK, Starts
  <2>6. CASE UNCHANGED box
    <3>1. DeliveriesOK' /\ CommandsInOrder'
      BY <1>1, <2>4, <2>6 DEF SandboxInv, RecordsOK, DeliveriesOK, Running, CommandsInOrder
    <3>2. RecordsOK'
      BY <1>1, <2>1, <2>2, <2>5, <2>6, <3>1, BoxMoves DEF SandboxInv, RecordsOK, BoxOK, Running
    <3>. QED  BY <2>3, <3>2 DEF SandboxInv
  <2>7. CASE box.state = "absent" /\ box' = NewBox
    <3>1. /\ DOMAIN box' = DOMAIN box /\ DOMAIN box'.given = Step /\ box'.files \in Nat
          /\ box'.cmd = 0
      BY <2>7 DEF NewBox, NoBox, SandboxInv, RecordsOK, BoxOK
    <3>2. DeliveriesOK'
      BY <2>4, <2>7 DEF SandboxInv, RecordsOK, DeliveriesOK, Running
    <3>3. CommandsInOrder'
      BY <3>1 DEF CommandsInOrder
    <3>. QED  BY <1>1, <2>1, <2>2, <2>3, <2>5, <3>1, <3>2, <3>3, BoxMoves DEF SandboxInv
  <2>8. CASE order.does = "exec" /\ Running /\ box.cmd = 0 /\ box' = [box EXCEPT !.cmd = s]
    <3>1. /\ DOMAIN box' = DOMAIN box /\ box'.cmd = s
          /\ UNCHANGED <<box.state, box.loaded, box.done, box.given, box.files>>
      BY <2>8 DEF SandboxInv, RecordsOK, BoxOK
    <3>2. DOMAIN box'.given = Step /\ box'.files \in Nat /\ box'.state = "running"
      BY <2>8, <3>1 DEF SandboxInv, RecordsOK, BoxOK, Running
    <3>3. DeliveriesOK'
      BY <2>4, <3>1 DEF SandboxInv, RecordsOK, DeliveriesOK, Running
    <3>4. Ready(s) /\ \A j \in Step : j < s => Given(j)
      BY <1>3, <2>1, <2>8 DEF SandboxInv, RecordsOK, StraysOK
    <3>5. CommandsInOrder'
      <4>1. \A i \in 1..(s - 1) : i \in Step /\ i < s
        BY BoundaryAssumption DEF Step
      <4>. QED  BY <1>1, <3>1, <3>4, <4>1 DEF CommandsInOrder, Ready, Given
    <3>. QED  BY <1>1, <2>1, <2>2, <2>3, <2>5, <3>1, <3>2, <3>3, <3>5, BoxMoves DEF SandboxInv
  <2>. QED  BY <1>1, <1>3, <2>1, <2>6, <2>7, <2>8 DEF Stray, Starts
<1>. QED  BY <1>1, <1>2, <1>3 DEF Starts

-----------------------------------------------------------------------------
(* The host, attempting a command.                                         *)

(* The attempt goes on, in a container that gave up nothing. *)
Keeps == Running' => (Running /\ \A i \in Step : Given(i) => Given(i)') \/ host.step = 1

LEMMA WorkGoesOn ==
    ASSUME SandboxInv, Attempting, UNCHANGED <<tool, asked, strays>>, Keeps,
           host'.step = host.step, Attempting'
    PROVE  WorkOK'
<1>1. Working
  BY DEF Working, Attempting, EpisodePlaces
<1>2. /\ \A j \in Step : j < host.step => Past(j) /\ (Running => Given(j))
      /\ \A order \in strays : ~Starts(order)
      /\ \A i \in Step : tool[i].state = "unknown" => i = host.step
      /\ tool[host.step].state = "unknown"
  BY <1>1 DEF SandboxInv, HostOK, WorkOK
<1>3. \A j \in Step : ~(j < 1)
  BY DEF Step
<1>4. \A j \in Step : j < host.step => Past(j)' /\ (Running' => Given(j)')
  BY <1>2, <1>3 DEF Keeps, Past, Continues
<1>. QED  BY <1>2, <1>4 DEF WorkOK, Starts

(* __call__ gives the attempt up. *)
LEMMA FailKeepsHost ==
    ASSUME SandboxInv, Attempting, UNCHANGED <<tool, asked, strays>>, Keeps,
           Moves("rm"), host'.then = "fail", candidate' = <<>>
    PROVE  HostOK'
<1>1. Attempting'
  BY DEF Moves, Attempting, Closing
<1>2. WorkOK'
  BY <1>1, WorkGoesOn DEF Moves
<1>3. BetweenOK' /\ CommandOK' /\ CandidateOK'
  BY DEF BetweenOK, CommandOK, CandidateOK, Submitting, Parts, Moves
<1>. QED  BY <1>2, <1>3 DEF HostOK

LEMMA FailKeepsSandbox ==
    ASSUME TypeOK, SandboxInv, Attempting, Fail,
           UNCHANGED <<tool, asked, box, delivering, strays>>
    PROVE  SandboxInv'
<1>1. Moves("rm") /\ host'.then = "fail" /\ candidate' = <<>>
  BY RemovingMoves DEF Fail
<1>2. Keeps
  BY DEF Keeps, Running, Given
<1>. QED  BY <1>1, <1>2, HostMoves, FailKeepsHost DEF SandboxInv

(* The attempt settles: the command is over in a container that is ready   *)
(* for the next, or the container is gone.                                 *)
LEMMA Settles ==
    ASSUME TypeOK, SandboxInv, Attempting, UNCHANGED <<asked, box, delivering, strays>>,
           NEW outcome, NEW shows, NEW parts, SettleTool(outcome, shows, parts),
           Goto("tool"), candidate' = <<>>,
           \/ /\ Running /\ Ready(host.step + 1)
              /\ outcome # "infrastructure_failure" /\ shows # "submit"
           \/ box.state = "absent",
           shows = "submit" =>
              Len(parts) = Parts /\ \A p \in 1..Parts : parts[p] = parts[1]
    PROVE  SandboxInv'
<1>1. PICK s \in Step : s = host.step
  BY DEF TypeOK, Attempting, Closing, ToolPlaces
<1>2. /\ \A i \in Step \ {s} : tool'[i] = tool[i]
      /\ tool'[s].state = "settled" /\ tool'[s].outcome = outcome
      /\ tool'[s].shows = shows /\ tool'[s].parts = parts
  BY <1>1 DEF TypeOK, SettleTool, Settled, Open
<1>3. Working
  BY DEF Working, Attempting, EpisodePlaces
<1>4. /\ \A j \in Step : j < s => Past(j) /\ (Running => Given(j))
      /\ \A order \in strays : ~Starts(order)
      /\ \A i \in Step : tool[i].state = "unknown" => i = s
      /\ tool[s].state = "unknown"
  BY <1>1, <1>3 DEF SandboxInv, HostOK, WorkOK
<1>5. /\ \A i \in Step : i > s => tool[i].state = "none"
      /\ \A i \in Step : tool[i].state = "settled" => i < s /\ Continues(i)
      /\ tool[1].state # "none"
  BY <1>4, UnknownBlocks DEF SandboxInv
<1>6. asked[s] = "none"
  BY <1>4 DEF SandboxInv, RecordsOK, Ordered
<1>7. \A j \in Step : j < s => Past(j)'
  BY <1>2, <1>4 DEF Past, Continues, Step
<1>8. \A i \in Step : i < s \/ i = s \/ i > s
  BY DEF Step
<1>9. Ordered'
  <2>1. \A i \in Step : /\ tool'[i].state \in {"none", "unknown", "settled"}
                        /\ tool'[i].shows = "submit" => tool'[i].state = "settled"
                        /\ asked'[i] # "none" =>
                              tool'[i].state = "settled" /\ tool'[i].shows = "request"
    BY <1>2, <1>6 DEF SandboxInv, RecordsOK, Ordered
  <2>2. ASSUME NEW i \in Step, NEW j \in Step, tool'[i].state # "none", j < i
        PROVE  Past(j)'
    <3>1. ~(i > s)
      BY <1>2, <1>5, <2>2 DEF Step
    <3>2. j < s
      BY <3>1, <2>2 DEF Step
    <3>. QED  BY <3>2, <1>7
  <2>. QED  BY <2>1, <2>2 DEF Ordered
<1>10. BoxOK'
  <2>1. \A i \in Step : Running' /\ Frontier(i)' => Ready(i)'
    <3>1. SUFFICES ASSUME NEW i \in Step, Running', Frontier(i)' PROVE Ready(i)'
      OBVIOUS
    <3>2. i > s
      BY <1>2, <1>7, <1>8, <3>1 DEF Frontier, Past
    <3>3. ~(i > s + 1)
      <4>1. SUFFICES ASSUME i > s + 1 PROVE FALSE
        OBVIOUS
      <4>2. s + 1 \in Step /\ s + 1 < i /\ s + 1 > s /\ s + 1 # s
        BY <4>1, BoundaryAssumption DEF Step
      <4>. QED  BY <1>2, <1>5, <3>1, <4>2 DEF Frontier
    <3>4. i = s + 1
      BY <3>2, <3>3 DEF Step
    <3>. QED  BY <1>1, <3>1, <3>4 DEF Ready, Running
  <2>2. Running' => box'.cmd = 0
    BY DEF Running, Ready
  <2>3. tool'[1].state # "none"
    <3>1. 1 \in Step
      BY BoundaryAssumption DEF Step
    <3>. QED  BY <1>2, <1>5, <3>1
  <2>. QED  BY <2>1, <2>2, <2>3 DEF SandboxInv, RecordsOK, BoxOK, Running
<1>11. DeliveriesOK' /\ StraysOK'
  BY <1>4 DEF SandboxInv, RecordsOK, DeliveriesOK, StraysOK, Running, Starts
<1>12. KnownIsStopped'
  <2>1. \A i \in Step \ {s} : tool'[i].state = "settled" => Continues(i)'
    BY <1>2, <1>5 DEF Continues
  <2>. QED  BY <1>2, <2>1 DEF KnownIsStopped, Continues
<1>13. CandidateIsWhole'
  BY <1>2 DEF SandboxInv, RecordsOK, CandidateIsWhole
<1>14. CommandsInOrder'
  BY DEF SandboxInv, RecordsOK, CommandsInOrder
<1>15. Moves("tool")
  BY GotoMoves
<1>16. WorkOK'
  <2>1. ~Attempting'
    BY <1>15 DEF Moves, Attempting, Closing, ToolPlaces
  <2>2. \A i \in Step : tool'[i].state # "unknown"
    BY <1>2, <1>4
  <2>3. \A j \in Step : j < s => (Running' => Given(j)')
    BY <1>4 DEF Running, Given
  <2>. QED  BY <1>1, <1>4, <1>7, <1>15, <2>1, <2>2, <2>3 DEF WorkOK, Moves, Starts
<1>17. BetweenOK' /\ CommandOK' /\ CandidateOK'
  BY <1>15 DEF BetweenOK, CommandOK, CandidateOK, Submitting, Parts, Moves
<1>. QED
  BY <1>9, <1>10, <1>11, <1>12, <1>13, <1>14, <1>16, <1>17 DEF SandboxInv, RecordsOK, HostOK

LEMMA BeginToolKeepsSandbox ==
    ASSUME TypeOK, SandboxInv, BeginTool
    PROVE  SandboxInv'
<1>1. PICK s \in Step : s = host.step
  BY DEF BeginTool, At, TypeOK
<1>2. /\ At("tool") /\ tool[s].state = "none" /\ Moves("prepare")
      /\ UNCHANGED <<asked, box, delivering, strays, candidate>>
      /\ \A i \in Step \ {s} : tool'[i] = tool[i]
      /\ tool'[s] = Open("unknown")
  BY <1>1, GotoMoves DEF BeginTool, TypeOK, sandboxVars
<1>3. tool'[s].state = "unknown" /\ tool'[s].shows = "none"
  BY <1>2 DEF Open
<1>4. /\ \A j \in Step : j < s => Past(j) /\ (Running => Given(j))
      /\ \A order \in strays : ~Starts(order)
      /\ \A i \in Step : tool[i].state # "unknown"
  BY <1>1, <1>2 DEF SandboxInv, HostOK, WorkOK, At, Working, Attempting, Closing,
                    EpisodePlaces, ToolPlaces
<1>5. \A j \in Step : j < s => Past(j)'
  BY <1>2, <1>4 DEF Past, Continues, Step
<1>6. \A i \in Step : i > s => tool[i].state = "none"
  BY <1>2 DEF SandboxInv, RecordsOK, Ordered, Past
<1>7. \A i \in Step : i < s \/ i = s \/ i > s
  BY DEF Step
<1>8. Frontier(s)
  BY <1>2, <1>4 DEF Frontier, Past
<1>9. Ordered'
  <2>1. \A i \in Step : /\ tool'[i].state \in {"none", "unknown", "settled"}
                        /\ tool'[i].shows = "submit" => tool'[i].state = "settled"
                        /\ asked'[i] # "none" =>
                              tool'[i].state = "settled" /\ tool'[i].shows = "request"
    BY <1>2, <1>3 DEF SandboxInv, RecordsOK, Ordered
  <2>2. ASSUME NEW i \in Step, NEW j \in Step, tool'[i].state # "none", j < i
        PROVE  Past(j)'
    <3>1. j < s
      BY <1>2, <1>6, <1>7, <2>2 DEF Step
    <3>. QED  BY <3>1, <1>5
  <2>. QED  BY <2>1, <2>2 DEF Ordered
<1>10. BoxOK'
  <2>1. \A i \in Step : ~Frontier(i)'
    BY <1>3, <1>5, <1>7 DEF Frontier, Past, Step
  <2>2. tool'[1].state = "none" => tool[1].state = "none"
    <3>1. 1 \in Step
      BY BoundaryAssumption DEF Step
    <3>. QED  BY <1>2, <1>3, <3>1
  <2>. QED  BY <1>2, <1>3, <2>1, <2>2 DEF SandboxInv, RecordsOK, BoxOK, Running
<1>11. DeliveriesOK' /\ StraysOK'
  BY <1>2, <1>4 DEF SandboxInv, RecordsOK, DeliveriesOK, StraysOK, Running, Starts
<1>12. KnownIsStopped' /\ CandidateIsWhole' /\ CommandsInOrder'
  BY <1>2, <1>3 DEF SandboxInv, RecordsOK, KnownIsStopped, CandidateIsWhole, CommandsInOrder
<1>13. WorkOK'
  <2>1. \A j \in Step : j < s => (Running' => Given(j)')
    BY <1>2, <1>4 DEF Running, Given
  <2>2. \A i \in Step : tool'[i].state = "unknown" => i = s
    BY <1>2, <1>4
  <2>3. Attempting'
    BY <1>2 DEF Moves, Attempting, ToolPlaces
  <2>. QED  BY <1>1, <1>2, <1>3, <1>4, <1>5, <2>1, <2>2, <2>3 DEF WorkOK, Moves, Starts
<1>14. BetweenOK' /\ CandidateOK'
  BY <1>2 DEF BetweenOK, SandboxInv, HostOK, CandidateOK, Submitting, Moves, At
<1>15. CommandOK'
  BY <1>1, <1>2, <1>8 DEF CommandOK, Moves, SandboxInv, RecordsOK, BoxOK, Running, Ready
<1>. QED
  BY <1>9, <1>10, <1>11, <1>12, <1>13, <1>14, <1>15 DEF SandboxInv, RecordsOK, HostOK

LEMMA RequireRuntimeKeepsSandbox ==
    ASSUME TypeOK, SandboxInv, RequireRuntime
    PROVE  SandboxInv'
<1>1. At("prepare") /\ Attempting /\ UNCHANGED <<tool, asked, box, delivering, strays>>
  BY DEF RequireRuntime, Attempting, At, ToolPlaces, ledgerVars
<1>2. CASE Fail
  BY <1>1, <1>2, FailKeepsSandbox
<1>3. CASE Goto("look") /\ UNCHANGED candidate
  <2>1. Moves("look")
    BY <1>3, GotoMoves
  <2>2. WorkOK'
    BY <1>1, <2>1, WorkGoesOn DEF Keeps, Running, Given, Moves, Attempting, ToolPlaces
  <2>3. CommandOK'
    BY <1>1, <2>1 DEF SandboxInv, HostOK, CommandOK, Moves, At, Running, Ready
  <2>4. BetweenOK' /\ CandidateOK'
    BY <1>1, <1>3, <2>1 DEF SandboxInv, HostOK, BetweenOK, CandidateOK, Submitting, Moves, At
  <2>. QED  BY <1>1, <2>2, <2>3, <2>4, HostMoves DEF SandboxInv, HostOK
<1>. QED  BY <1>2, <1>3 DEF RequireRuntime

LEMMA PrepareKeepsSandbox ==
    ASSUME TypeOK, SandboxInv, Prepare
    PROVE  SandboxInv'
<1>1. At("look") /\ Attempting /\ UNCHANGED <<tool, asked, box, delivering, strays>>
  BY DEF Prepare, Attempting, At, ToolPlaces, ledgerVars
<1>2. CASE Fail
  BY <1>1, <1>2, FailKeepsSandbox
<1>3. ASSUME NEW place \in {"exec", "create"}, Goto(place), UNCHANGED candidate,
             place = "create" => host.step = 1
      PROVE  SandboxInv'
  <2>1. Moves(place)
    BY <1>3, GotoMoves
  <2>2. WorkOK'
    BY <1>1, <2>1, WorkGoesOn DEF Keeps, Running, Given, Moves, Attempting, ToolPlaces
  <2>3. CommandOK'
    BY <1>1, <1>3, <2>1 DEF SandboxInv, HostOK, CommandOK, Moves, At, Running, Ready
  <2>4. BetweenOK' /\ CandidateOK'
    BY <1>1, <1>3, <2>1 DEF SandboxInv, HostOK, BetweenOK, CandidateOK, Submitting, Moves, At
  <2>. QED  BY <1>1, <2>2, <2>3, <2>4, HostMoves DEF SandboxInv, HostOK
<1>. QED  BY <1>2, <1>3 DEF Prepare

(* The container is created for the first command, on success or not. *)
LEMMA CreateKeepsSandbox ==
    ASSUME TypeOK, SandboxInv, Create
    PROVE  SandboxInv'
<1>1. At("create") /\ Attempting /\ Working /\ UNCHANGED <<tool, asked, delivering, strays>>
  BY DEF Create, Attempting, Working, EpisodePlaces, At, ToolPlaces, ledgerVars
<1>2. /\ host.step = 1 /\ 1 \in Step /\ tool[1].state = "unknown"
      /\ \A order \in strays : ~Starts(order)
  BY <1>1, BoundaryAssumption DEF SandboxInv, HostOK, WorkOK, CommandOK, At, Step
<1>3. Keeps
  BY <1>2 DEF Keeps
<1>4. RecordsOK'
  <2>1. CASE UNCHANGED box
    BY <1>1, <2>1, HostMoves DEF SandboxInv
  <2>2. CASE box.state = "absent" /\ box' = NewBox
    <3>1. /\ DOMAIN box' = DOMAIN box /\ DOMAIN box'.given = Step /\ box'.files \in Nat
          /\ box'.cmd = 0
      BY <2>2 DEF NewBox, NoBox, SandboxInv, RecordsOK, BoxOK
    <3>2. DeliveriesOK' /\ StraysOK' /\ CommandsInOrder'
      BY <1>1, <1>2, <2>2, <3>1
      DEF SandboxInv, RecordsOK, DeliveriesOK, Running, StraysOK, Starts, CommandsInOrder
    <3>. QED  BY <1>1, <1>2, <3>1, <3>2, BoxMoves DEF SandboxInv
  <2>. QED  BY <2>1, <2>2 DEF Create
<1>5. CASE Fail
  <2>1. Moves("rm") /\ host'.then = "fail" /\ candidate' = <<>>
    BY <1>5, RemovingMoves DEF Fail
  <2>. QED  BY <1>1, <1>3, <1>4, <2>1, FailKeepsHost DEF SandboxInv
<1>6. CASE box' = NewBox /\ Goto("collect") /\ UNCHANGED candidate
  <2>1. Moves("collect") /\ box'.cmd = 0 /\ box'.done = 0
    BY <1>6, GotoMoves DEF NewBox, NoBox
  <2>2. WorkOK'
    BY <1>1, <1>3, <2>1, WorkGoesOn DEF Moves, Attempting, ToolPlaces
  <2>3. CommandOK'
    BY <1>2, <2>1 DEF CommandOK, Moves
  <2>4. BetweenOK' /\ CandidateOK'
    BY <1>1, <1>6, <2>1 DEF SandboxInv, HostOK, BetweenOK, CandidateOK, Submitting, Moves, At
  <2>. QED  BY <1>4, <2>2, <2>3, <2>4 DEF SandboxInv, HostOK
<1>. QED  BY <1>5, <1>6 DEF Create

LEMMA CollectKeepsSandbox ==
    ASSUME TypeOK, SandboxInv, Collect
    PROVE  SandboxInv'
<1>1. At("collect") /\ Attempting /\ UNCHANGED <<tool, asked, box, delivering, strays>>
  BY DEF Collect, Attempting, At, ToolPlaces, ledgerVars
<1>2. CASE Fail
  BY <1>1, <1>2, FailKeepsSandbox
<1>3. CASE Goto("load") /\ UNCHANGED candidate
  <2>1. Moves("load")
    BY <1>3, GotoMoves
  <2>2. WorkOK'
    BY <1>1, <2>1, WorkGoesOn DEF Keeps, Running, Given, Moves, Attempting, ToolPlaces
  <2>3. CommandOK'
    BY <1>1, <2>1 DEF SandboxInv, HostOK, CommandOK, Moves, At, Running
  <2>4. BetweenOK' /\ CandidateOK'
    BY <1>1, <1>3, <2>1 DEF SandboxInv, HostOK, BetweenOK, CandidateOK, Submitting, Moves, At
  <2>. QED  BY <1>1, <2>2, <2>3, <2>4, HostMoves DEF SandboxInv, HostOK
<1>4. CASE Raise /\ UNCHANGED candidate
  <2>1. Moves("rm") /\ host'.then = "exit"
    BY <1>4, RaiseMoves
  <2>2. candidate' = <<>>
    BY <1>1, <1>4 DEF SandboxInv, HostOK, CandidateOK, Submitting, At
  <2>3. HostOK'
    BY <2>1, <2>2, Outside DEF Moves, EpisodePlaces, AdapterPlaces, ToolPlaces
  <2>. QED  BY <1>1, <2>3, HostMoves DEF SandboxInv
<1>. QED  BY <1>2, <1>3, <1>4 DEF Collect

LEMMA LoadKeepsSandbox ==
    ASSUME TypeOK, SandboxInv, Load
    PROVE  SandboxInv'
<1>1. At("load") /\ Attempting /\ Working /\ UNCHANGED <<tool, asked, delivering, strays>>
  BY DEF Load, Attempting, Working, EpisodePlaces, At, ToolPlaces, ledgerVars
<1>2. /\ host.step = 1 /\ 1 \in Step /\ tool[1].state = "unknown"
      /\ \A order \in strays : ~Starts(order)
      /\ Running => box.cmd = 0 /\ box.done = 0
  BY <1>1, BoundaryAssumption DEF SandboxInv, HostOK, WorkOK, CommandOK, At, Step
<1>3. Keeps
  BY <1>2 DEF Keeps
<1>4. /\ DOMAIN box' = DOMAIN box
      /\ UNCHANGED <<box.state, box.cmd, box.done, box.given, box.files>>
  BY DEF Load, SandboxInv, RecordsOK, BoxOK
<1>5. RecordsOK'
  <2>1. DeliveriesOK' /\ StraysOK'
    BY <1>1, <1>2, <1>4 DEF SandboxInv, RecordsOK, DeliveriesOK, Running, StraysOK, Starts
  <2>2. CommandsInOrder'
    BY <1>2, <1>4 DEF SandboxInv, RecordsOK, BoxOK, CommandsInOrder
  <2>3. /\ DOMAIN box'.given = Step /\ box'.files \in Nat
        /\ box'.cmd # 0 => box'.state = "running" /\ box'.cmd \in Step
    BY <1>4 DEF SandboxInv, RecordsOK, BoxOK, Running
  <2>. QED  BY <1>1, <1>2, <1>4, <2>1, <2>2, <2>3, BoxMoves DEF SandboxInv
<1>6. CASE Fail
  <2>1. Moves("rm") /\ host'.then = "fail" /\ candidate' = <<>>
    BY <1>6, RemovingMoves DEF Fail
  <2>. QED  BY <1>1, <1>3, <1>5, <2>1, FailKeepsHost DEF SandboxInv
<1>7. CASE Running /\ box' = [box EXCEPT !.loaded = TRUE] /\ Goto("exec") /\ UNCHANGED candidate
  <2>1. Moves("exec") /\ box'.loaded
    BY <1>7, GotoMoves DEF SandboxInv, RecordsOK, BoxOK
  <2>2. WorkOK'
    BY <1>1, <1>3, <2>1, WorkGoesOn DEF Moves, Attempting, ToolPlaces
  <2>3. CommandOK'
    BY <1>2, <1>4, <1>7, <2>1 DEF CommandOK, Moves, Ready
  <2>4. BetweenOK' /\ CandidateOK'
    BY <1>1, <1>7, <2>1 DEF SandboxInv, HostOK, BetweenOK, CandidateOK, Submitting, Moves, At
  <2>. QED  BY <1>5, <2>2, <2>3, <2>4 DEF SandboxInv, HostOK
<1>. QED  BY <1>6, <1>7 DEF Load

LEMMA ExecKeepsSandbox ==
    ASSUME TypeOK, SandboxInv, Exec
    PROVE  SandboxInv'
<1>1. At("exec") /\ Attempting /\ Working /\ UNCHANGED <<tool, asked, delivering, strays>>
  BY DEF Exec, Attempting, Working, EpisodePlaces, At, ToolPlaces, ledgerVars
<1>2. CASE Fail /\ UNCHANGED box
  BY <1>1, <1>2, FailKeepsSandbox
<1>3. CASE Running /\ box' = [box EXCEPT !.cmd = host.step] /\ Goto("wait") /\ UNCHANGED candidate
  <2>1. PICK s \in Step : s = host.step
    BY <1>1 DEF At, TypeOK
  <2>2. /\ tool[s].state = "unknown" /\ Ready(s)
        /\ \A j \in Step : j < s => Given(j)
        /\ \A order \in strays : ~Starts(order)
    BY <1>1, <1>3, <2>1 DEF SandboxInv, HostOK, WorkOK, CommandOK, At
  <2>3. /\ DOMAIN box' = DOMAIN box /\ box'.cmd = s
        /\ UNCHANGED <<box.state, box.loaded, box.done, box.given, box.files>>
    BY <1>3, <2>1 DEF SandboxInv, RecordsOK, BoxOK
  <2>4. CommandsInOrder'
    <3>1. \A i \in 1..(s - 1) : i \in Step /\ i < s
      BY BoundaryAssumption DEF Step
    <3>. QED  BY <1>1, <2>2, <2>3, <3>1 DEF CommandsInOrder, Ready, Given
  <2>5. DeliveriesOK' /\ StraysOK'
    BY <1>1, <2>2, <2>3 DEF SandboxInv, RecordsOK, DeliveriesOK, Running, StraysOK, Starts
  <2>6. RecordsOK'
    <3>1. /\ DOMAIN box'.given = Step /\ box'.files \in Nat /\ box'.state = "running"
      BY <1>3, <2>3 DEF SandboxInv, RecordsOK, BoxOK, Running
    <3>. QED  BY <1>1, <2>2, <2>3, <2>4, <2>5, <3>1, BoxMoves DEF SandboxInv
  <2>7. Moves("wait")
    BY <1>3, GotoMoves
  <2>8. WorkOK'
    BY <1>1, <2>3, <2>7, WorkGoesOn DEF Keeps, Running, Given, Moves, Attempting, ToolPlaces
  <2>9. CommandOK'
    BY <2>1, <2>2, <2>3, <2>7 DEF CommandOK, Moves, Ready
  <2>10. BetweenOK' /\ CandidateOK'
    BY <1>1, <1>3, <2>7 DEF SandboxInv, HostOK, BetweenOK, CandidateOK, Submitting, Moves, At
  <2>. QED  BY <2>6, <2>8, <2>9, <2>10 DEF SandboxInv, HostOK
<1>. QED  BY <1>2, <1>3 DEF Exec

LEMMA WaitKeepsSandbox ==
    ASSUME TypeOK, SandboxInv, Wait
    PROVE  SandboxInv'
<1>1. At("wait") /\ Attempting /\ UNCHANGED <<tool, asked, box, delivering, strays>>
  BY DEF Wait, Attempting, At, ToolPlaces, ledgerVars
<1>2. CASE Fail
  BY <1>1, <1>2, FailKeepsSandbox
<1>3. CASE Running /\ box.cmd = 0 /\ box.done = host.step /\ Goto("status") /\ UNCHANGED candidate
  <2>1. Moves("status") /\ host.step \in Step
    BY <1>1, <1>3, GotoMoves DEF At, TypeOK
  <2>2. WorkOK'
    BY <1>1, <2>1, WorkGoesOn DEF Keeps, Running, Given, Moves, Attempting, ToolPlaces
  <2>3. Ready(host.step + 1)'
    BY <1>1, <1>3, <2>1 DEF SandboxInv, HostOK, CommandOK, At, Ready, Step, Moves
  <2>4. CommandOK'
    BY <2>1, <2>3 DEF CommandOK, Moves
  <2>5. BetweenOK' /\ CandidateOK'
    BY <1>1, <1>3, <2>1 DEF SandboxInv, HostOK, BetweenOK, CandidateOK, Submitting, Moves, At
  <2>. QED  BY <1>1, <2>2, <2>4, <2>5, HostMoves DEF SandboxInv, HostOK
<1>. QED  BY <1>2, <1>3 DEF Wait

LEMMA StatusKeepsSandbox ==
    ASSUME TypeOK, SandboxInv, Status
    PROVE  SandboxInv'
<1>1. At("status") /\ Attempting /\ UNCHANGED <<asked, box, delivering, strays>>
  BY DEF Status, Attempting, At, ToolPlaces
<1>2. CASE Fail /\ UNCHANGED tool
  BY <1>1, <1>2, FailKeepsSandbox
<1>3. CASE Running /\ Goto("stop") /\ UNCHANGED <<candidate, tool>>
  <2>1. Moves("stop")
    BY <1>3, GotoMoves
  <2>2. WorkOK'
    BY <1>1, <1>3, <2>1, WorkGoesOn DEF Keeps, Running, Given, Moves, Attempting, ToolPlaces
  <2>3. CommandOK'
    BY <1>1, <2>1 DEF SandboxInv, HostOK, CommandOK, Moves, At, Running, Ready
  <2>4. BetweenOK' /\ CandidateOK'
    BY <1>1, <1>3, <2>1 DEF SandboxInv, HostOK, BetweenOK, CandidateOK, Submitting, Moves, At
  <2>. QED  BY <1>1, <1>3, <2>2, <2>3, <2>4, HostMoves DEF SandboxInv, HostOK
<1>4. ASSUME Running, NEW outcome \in {"failed", "succeeded"}, NEW shows, shows # "submit",
             SettleTool(outcome, shows, <<>>), Goto("tool"), UNCHANGED candidate
      PROVE  SandboxInv'
  <2>1. candidate' = <<>>
    BY <1>1, <1>4 DEF SandboxInv, HostOK, CandidateOK, Submitting, At
  <2>2. Ready(host.step + 1)
    BY <1>1, <1>4 DEF SandboxInv, HostOK, CommandOK, At
  <2>. QED  BY <1>1, <1>4, <2>1, <2>2, Settles
<1>. QED  BY <1>2, <1>3, <1>4 DEF Status

(* A capture that fails settles a failed command. *)
LEMMA NotCapturedKeepsSandbox ==
    ASSUME TypeOK, SandboxInv, host.at \in {"stop", "read"}, Running, NotCaptured,
           UNCHANGED <<asked, box, delivering, strays>>
    PROVE  SandboxInv'
<1>1. Attempting /\ Ready(host.step + 1)
  BY DEF Attempting, ToolPlaces, SandboxInv, HostOK, CommandOK
<1>2. SettleTool("failed", "error", <<>>) /\ candidate' = <<>> /\ Goto("tool")
  BY DEF NotCaptured
<1>. QED  BY <1>1, <1>2, Settles

LEMMA StopKeepsSandbox ==
    ASSUME TypeOK, SandboxInv, Stop
    PROVE  SandboxInv'
<1>1. At("stop") /\ Attempting /\ UNCHANGED <<asked, delivering, strays>>
  BY DEF Stop, Attempting, At, ToolPlaces
<1>2. CASE Fail /\ UNCHANGED <<box, tool>>
  BY <1>1, <1>2, FailKeepsSandbox
<1>3. CASE Running /\ NotCaptured /\ UNCHANGED box
  BY <1>1, <1>3, NotCapturedKeepsSandbox DEF At
<1>4. CASE Running /\ box' = [box EXCEPT !.live = FALSE] /\ Goto("read") /\ UNCHANGED <<candidate, tool>>
  <2>1. /\ DOMAIN box' = DOMAIN box /\ box'.files \in Nat /\ ~box'.live
        /\ UNCHANGED <<box.state, box.loaded, box.cmd, box.done, box.given, box.files>>
    BY <1>4 DEF SandboxInv, RecordsOK, BoxOK
  <2>2. RecordsOK'
    BY <1>1, <1>4, <2>1, FilesMove DEF SandboxInv
  <2>3. Moves("read")
    BY <1>4, GotoMoves
  <2>4. WorkOK'
    BY <1>1, <1>4, <2>1, <2>3, WorkGoesOn DEF Keeps, Running, Given, Moves, Attempting, ToolPlaces
  <2>5. CommandOK'
    BY <1>1, <2>1, <2>3 DEF SandboxInv, HostOK, CommandOK, Moves, At, Running, Ready
  <2>6. candidate = <<>>
    BY <1>1 DEF SandboxInv, HostOK, CandidateOK, Submitting, At
  <2>7. BetweenOK' /\ CandidateOK'
    BY <1>4, <2>1, <2>3, <2>6 DEF BetweenOK, CandidateOK, Submitting, Moves, Parts
  <2>. QED  BY <2>2, <2>4, <2>5, <2>7 DEF SandboxInv, HostOK
<1>. QED  BY <1>2, <1>3, <1>4 DEF Stop

(* One file after another is read, while nothing can change them. *)
LEMMA ReadKeepsSandbox ==
    ASSUME TypeOK, SandboxInv, Read
    PROVE  SandboxInv'
<1>1. At("read") /\ Attempting /\ UNCHANGED <<asked, box, delivering, strays>>
  BY DEF Read, Attempting, At, ToolPlaces
<1>2. CASE Fail /\ UNCHANGED tool
  BY <1>1, <1>2, FailKeepsSandbox
<1>3. CASE Running /\ NotCaptured
  BY <1>1, <1>3, NotCapturedKeepsSandbox DEF At
<1>4. /\ candidate \in Seq(Nat) /\ Len(candidate) <= Parts /\ box.files \in Nat
      /\ \A p \in 1..Len(candidate) : candidate[p] = candidate[1]
      /\ Running => ~box.live /\ \A p \in 1..Len(candidate) : candidate[p] = box.files
  BY <1>1 DEF SandboxInv, HostOK, CandidateOK, RecordsOK, BoxOK, At
<1>5. CASE /\ Running /\ Len(candidate) < Parts
           /\ candidate' = Append(candidate, box.files)
           /\ UNCHANGED <<host, tool>>
  <2>1. /\ candidate' \in Seq(Nat) /\ Len(candidate') = Len(candidate) + 1
        /\ \A p \in 1..Len(candidate') : candidate'[p] = box.files
    <3>1. candidate' \in Seq(Nat) /\ Len(candidate') = Len(candidate) + 1
      BY <1>4, <1>5
    <3>2. ASSUME NEW p \in 1..Len(candidate')
          PROVE  candidate'[p] = box.files
      <4>1. CASE p = Len(candidate) + 1
        BY <1>4, <1>5, <4>1
      <4>2. CASE p # Len(candidate) + 1
        <5>1. p \in 1..Len(candidate)
          BY <1>4, <3>1, <3>2, <4>2
        <5>. QED  BY <1>4, <1>5, <5>1
      <4>. QED  BY <4>1, <4>2
    <3>. QED  BY <3>1, <3>2
  <2>2. 1 \in 1..Len(candidate') /\ Len(candidate') <= Parts
    BY <1>4, <1>5, <2>1 DEF Parts
  <2>3. CandidateOK'
    BY <1>1, <1>4, <1>5, <2>1, <2>2 DEF CandidateOK, Submitting, At, Running
  <2>4. WorkOK'
    BY <1>1, <1>5, WorkGoesOn DEF Keeps, Running, Given, Attempting, Closing
  <2>5. CommandOK' /\ BetweenOK'
    BY <1>1, <1>5 DEF SandboxInv, HostOK, CommandOK, BetweenOK, At, Running, Ready
  <2>. QED  BY <1>1, <1>5, <2>3, <2>4, <2>5, HostMoves DEF SandboxInv, HostOK
<1>6. CASE /\ Len(candidate) = Parts
           /\ host' = Removing("submit") /\ UNCHANGED <<candidate, tool>>
  <2>1. Moves("rm") /\ host'.then = "submit"
    BY <1>6, RemovingMoves
  <2>2. WorkOK'
    BY <1>1, <1>6, <2>1, WorkGoesOn DEF Keeps, Running, Given, Moves, Attempting, Closing
  <2>3. BetweenOK' /\ CommandOK'
    BY <2>1 DEF BetweenOK, CommandOK, Moves
  <2>4. CandidateOK'
    BY <1>4, <1>6, <2>1 DEF CandidateOK, Submitting, Moves
  <2>. QED  BY <1>1, <1>6, <2>2, <2>3, <2>4, HostMoves DEF SandboxInv, HostOK
<1>. QED  BY <1>2, <1>3, <1>5, <1>6 DEF Read

(* A removal that fails, whatever it did to the container. *)
LEMMA CloseFailedKeepsHost ==
    ASSUME TypeOK, SandboxInv, host.at \in {"rm", "exists"}, CloseFailed, Keeps, UNCHANGED strays
    PROVE  HostOK'
<1>1. /\ host.then \in {"exit", "fail", "submit"} /\ candidate' = <<>>
      /\ UNCHANGED <<tool, asked>>
  BY DEF TypeOK, CloseFailed, ledgerVars
<1>2. CASE host.then = "submit"
  <2>1. Moves("rm") /\ host'.then = "fail"
    BY <1>2, RemovingMoves DEF CloseFailed
  <2>. QED  BY <1>1, <1>2, <2>1, FailKeepsHost DEF Attempting, Closing
<1>3. CASE host.then = "fail"
  <2>1. Moves("rm") /\ host'.then = "exit"
    BY <1>3, RemovingMoves DEF CloseFailed
  <2>. QED  BY <1>1, <2>1, Outside DEF Moves, EpisodePlaces, AdapterPlaces, ToolPlaces
<1>4. CASE host.then = "exit"
  <2>1. Moves("raised")
    BY <1>4, GotoMoves DEF CloseFailed, Goto
  <2>. QED  BY <1>1, <2>1, Outside DEF Moves, EpisodePlaces, AdapterPlaces, ToolPlaces
<1>. QED  BY <1>1, <1>2, <1>3, <1>4

LEMMA RmKeepsSandbox ==
    ASSUME TypeOK, SandboxInv, Rm
    PROVE  SandboxInv'
<1>1. /\ At("rm") /\ UNCHANGED <<tool, asked, strays>>
      /\ Gone \/ UNCHANGED <<box, delivering>>
  BY DEF Rm, Removed, Gone, CloseFailed, ledgerVars
<1>2. RecordsOK' /\ Keeps
  <2>1. CASE Gone
    BY <1>1, <2>1, GoneKeepsRecords DEF SandboxInv, Keeps
  <2>2. CASE UNCHANGED <<box, delivering>>
    BY <1>1, <2>2, HostMoves DEF SandboxInv, Keeps, Running, Given
  <2>. QED  BY <1>1, <2>1, <2>2
<1>3. CASE CloseFailed
  BY <1>1, <1>2, <1>3, CloseFailedKeepsHost DEF SandboxInv, At
<1>4. CASE Goto("exists") /\ UNCHANGED candidate
  <2>1. Moves("exists") /\ host'.then = host.then
    BY <1>4, GotoMoves
  <2>2. CASE Closing
    <3>1. WorkOK'
      BY <1>1, <1>2, <2>1, <2>2, WorkGoesOn DEF Moves, Attempting, Closing
    <3>2. BetweenOK' /\ CommandOK'
      BY <2>1 DEF BetweenOK, CommandOK, Moves
    <3>3. CandidateOK'
      BY <1>1, <1>4, <2>1 DEF SandboxInv, HostOK, CandidateOK, Submitting, Moves, At
    <3>. QED  BY <1>2, <3>1, <3>2, <3>3 DEF SandboxInv, HostOK
  <2>3. CASE ~Closing
    <3>1. host'.then = "exit" /\ candidate' = <<>>
      BY <1>1, <1>4, <2>1, <2>3 DEF Closing, At, SandboxInv, HostOK, CandidateOK, Submitting
    <3>2. HostOK'
      BY <2>1, <3>1, Outside DEF Moves, EpisodePlaces, AdapterPlaces, ToolPlaces
    <3>. QED  BY <1>2, <3>2 DEF SandboxInv
  <2>. QED  BY <2>2, <2>3
<1>. QED  BY <1>3, <1>4 DEF Rm

(* What is recorded as stopped is recorded once the container is gone. *)
LEMMA ExistsKeepsSandbox ==
    ASSUME TypeOK, SandboxInv, Exists
    PROVE  SandboxInv'
<1>1. /\ At("exists") /\ host.then \in {"exit", "fail", "submit"}
      /\ UNCHANGED <<box, delivering, strays>>
  BY DEF Exists, TypeOK, At
<1>2. CASE CloseFailed
  <2>1. UNCHANGED <<tool, asked>> /\ Keeps
    BY <1>1, <1>2 DEF CloseFailed, ledgerVars, Keeps, Running, Given
  <2>. QED  BY <1>1, <1>2, <2>1, HostMoves, CloseFailedKeepsHost DEF SandboxInv, At
<1>3. CASE Established /\ CloseDone
  <2>1. box.state = "absent" /\ candidate' = <<>> /\ UNCHANGED asked
    BY <1>3 DEF Established, CloseDone
  <2>2. CASE host.then = "submit"
    <3>1. SettleTool("succeeded", "submit", candidate) /\ Goto("tool")
      BY <1>3, <2>2 DEF CloseDone
    <3>2. Len(candidate) = Parts /\ \A p \in 1..Parts : candidate[p] = candidate[1]
      BY <1>1, <2>2 DEF SandboxInv, HostOK, CandidateOK, Submitting, At
    <3>. QED  BY <1>1, <2>1, <2>2, <3>1, <3>2, Settles DEF Attempting, Closing, At
  <2>3. CASE host.then = "fail"
    <3>1. SettleTool("infrastructure_failure", "none", <<>>) /\ Goto("tool")
      BY <1>3, <2>3 DEF CloseDone
    <3>. QED  BY <1>1, <2>1, <2>3, <3>1, Settles DEF Attempting, Closing, At
  <2>4. CASE host.then = "exit"
    <3>1. Moves("left") /\ UNCHANGED tool
      BY <1>3, <2>4, GotoMoves DEF CloseDone
    <3>2. HostOK'
      BY <2>1, <3>1, Outside DEF Moves, EpisodePlaces, AdapterPlaces, ToolPlaces
    <3>. QED  BY <1>1, <2>1, <3>1, <3>2, HostMoves DEF SandboxInv
  <2>. QED  BY <1>1, <2>2, <2>3, <2>4
<1>. QED  BY <1>2, <1>3 DEF Exists

(* The results of a request are delivered before the next step, unless     *)
(* there is no container.                                                  *)
LEMMA DeliverKeepsSandbox ==
    ASSUME TypeOK, SandboxInv, Deliver
    PROVE  SandboxInv'
<1>1. /\ At("deliver") /\ UNCHANGED <<tool, asked, box, strays, candidate>>
      /\ host.step \in Step /\ host.session \in Session
  BY DEF Deliver, ledgerVars, At, TypeOK
<1>2. /\ Working /\ ~Attempting
      /\ Past(host.step) /\ Continues(host.step)
      /\ tool[host.step].state = "settled" /\ tool[host.step].shows = "request"
      /\ asked[host.step] = "succeeded"
  BY <1>1 DEF At, Working, Attempting, Closing, EpisodePlaces, ToolPlaces, SandboxInv, HostOK,
              BetweenOK, Past
<1>3. CASE Leave /\ UNCHANGED delivering
  <2>1. Moves("rm") /\ host'.then = "exit"
    BY <1>3, LeaveMoves
  <2>. QED  BY <1>1, <1>3, <2>1, LeavesSandbox DEF At, sandboxVars
<1>4. ASSUME NEW place \in {"stepped", "delivering"}, Moves(place) PROVE WorkOK'
  <2>1. ~Attempting'
    BY <1>4 DEF Moves, Attempting, Closing, ToolPlaces
  <2>. QED
    BY <1>1, <1>2, <1>4, <2>1
    DEF SandboxInv, HostOK, WorkOK, Moves, Past, Continues, Running, Given, Starts
<1>5. ASSUME NEW place \in {"stepped", "delivering"}, Moves(place) PROVE CandidateOK'
  BY <1>1, <1>5 DEF SandboxInv, HostOK, CandidateOK, Submitting, Moves, At
<1>6. CASE box.state = "absent" /\ Goto("stepped") /\ UNCHANGED delivering
  <2>1. Moves("stepped")
    BY <1>6, GotoMoves
  <2>2. BetweenOK' /\ CommandOK'
    BY <1>1, <1>2, <1>6, <2>1 DEF BetweenOK, CommandOK, Moves, Past, Continues, Running
  <2>. QED  BY <1>1, <1>4, <1>5, <1>6, <2>1, <2>2, HostMoves DEF SandboxInv, HostOK
<1>7. CASE /\ Running /\ Goto("delivering")
           /\ delivering' = [delivering EXCEPT ![host.session] =
                                [at |-> "look", step |-> host.step]]
  <2>1. Moves("delivering")
    BY <1>7, GotoMoves
  <2>2. /\ DOMAIN delivering' = Session
        /\ \A s \in Session \ {host.session} : delivering'[s] = delivering[s]
        /\ DOMAIN delivering'[host.session] = {"at", "step"}
        /\ delivering'[host.session].at = "look"
        /\ delivering'[host.session].step = host.step
    BY <1>1, <1>7 DEF SandboxInv, RecordsOK, DeliveriesOK
  <2>3. DeliveriesOK'
    BY <1>1, <1>7, <2>2 DEF SandboxInv, RecordsOK, DeliveriesOK, Running
  <2>4. Ordered' /\ BoxOK' /\ StraysOK'
    BY <1>1 DEF SandboxInv, RecordsOK, Ordered, Past, Continues, BoxOK, Running, Frontier, Ready,
                StraysOK, Starts, Given
  <2>5. KnownIsStopped' /\ CandidateIsWhole' /\ CommandsInOrder'
    BY <1>1 DEF SandboxInv, RecordsOK, KnownIsStopped, CandidateIsWhole, CommandsInOrder
  <2>6. BetweenOK' /\ CommandOK'
    BY <1>1, <1>2, <2>1, <2>2 DEF BetweenOK, CommandOK, Moves, Continues
  <2>. QED
    BY <1>4, <1>5, <2>1, <2>3, <2>4, <2>5, <2>6 DEF SandboxInv, RecordsOK, HostOK
<1>. QED  BY <1>3, <1>6, <1>7 DEF Deliver

LEMMA DeliveredKeepsSandbox ==
    ASSUME TypeOK, SandboxInv, Delivered
    PROVE  SandboxInv'
<1>1. /\ At("delivering") /\ UNCHANGED <<tool, asked, box, delivering, strays, candidate>>
      /\ UNCHANGED sandboxVars /\ host.step \in Step /\ host.session \in Session
  BY DEF Delivered, ledgerVars, At, TypeOK, sandboxVars
<1>2. CASE Leave
  BY <1>1, <1>2, LeaveMoves, LeavesSandbox DEF At
<1>3. CASE delivering[host.session].at = "done" /\ Goto("stepped")
  <2>1. Moves("stepped")
    BY <1>3, GotoMoves
  <2>2. Working /\ ~Attempting /\ ~Attempting'
    BY <1>1, <2>1 DEF At, Working, Attempting, Closing, EpisodePlaces, ToolPlaces, Moves
  <2>3. Past(host.step) /\ Given(host.step)
    BY <1>1, <1>3 DEF At, SandboxInv, HostOK, BetweenOK, Past, Given, RecordsOK, DeliveriesOK
  <2>4. WorkOK'
    BY <1>1, <2>1, <2>2
    DEF SandboxInv, HostOK, WorkOK, Moves, Past, Continues, Running, Given, Starts
  <2>5. BetweenOK' /\ CommandOK'
    BY <1>1, <2>1, <2>3 DEF BetweenOK, CommandOK, Moves, Past, Continues, Given
  <2>6. CandidateOK'
    BY <1>1, <2>1 DEF SandboxInv, HostOK, CandidateOK, Submitting, Moves, At
  <2>. QED  BY <1>1, <2>4, <2>5, <2>6, HostMoves DEF SandboxInv, HostOK
<1>. QED  BY <1>2, <1>3 DEF Delivered

(* The container that holds the verifier is another one. *)
LEMMA ContainerExpiresKeepsSandbox ==
    ASSUME TypeOK, SandboxInv, ContainerExpires, UNCHANGED sandboxVars
    PROVE  SandboxInv'
<1>1. UNCHANGED <<host, tool, asked, box, delivering, strays, candidate>>
  BY DEF ContainerExpires, sandboxVars, ledgerVars
<1>. QED
  BY <1>1, HostMoves
  DEF SandboxInv, HostOK, WorkOK, Working, Attempting, Closing, Past, Continues, Starts,
      BetweenOK, CommandOK, CandidateOK, Submitting, Running, Ready, Given

-----------------------------------------------------------------------------
(* The submission.                                                         *)

SubmissionInv == TypeOK /\ AdapterInv /\ VerifierInv /\ SandboxInv

LEMMA SubmissionInit0 ==
    ASSUME SubmissionInit
    PROVE  SubmissionInv
<1>. USE DEF SubmissionInit, BoundaryInit, Open
<1>1. TypeOK
  BY BoundaryAssumption DEF TypeOK
<1>2. AdapterInv
  BY DEF AdaptersInit, AdapterInv, AttemptOK, AdapterPlaces
<1>3. VerifierInv
  BY DEF VerifierInit, NoFacts, NotFound, VerifierInv, FactsOK, PlaceOK, VerifierPlaces,
         LeanPlaces, VerdictIsDeserved
<1>. QED  BY <1>1, <1>2, <1>3, SandboxInit0 DEF SubmissionInv

(* Nothing of a part changes. *)
LEMMA AllSame ==
    ASSUME UNCHANGED <<host, ledgerVars>>
    PROVE  /\ TypeOK => TypeOK'
           /\ AdapterInv /\ UNCHANGED adapterVars => AdapterInv'
           /\ VerifierInv /\ UNCHANGED verifierVars => VerifierInv'
<1>. USE DEF ledgerVars
<1>1. TypeOK => TypeOK'
  BY DEF TypeOK
<1>2. AdapterInv /\ UNCHANGED adapterVars => AdapterInv'
  BY DEF AdapterInv, AttemptOK, SentOnce, adapterVars, Charge
<1>3. VerifierInv /\ UNCHANGED verifierVars => VerifierInv'
  BY ZenonT(60) DEF VerifierInv, FactsOK, PlaceOK, FoundOK, VerdictIsDeserved, verifierVars
<1>. QED  BY <1>1, <1>2, <1>3

LEMMA SandboxStepKeepsSandbox ==
    ASSUME TypeOK, SandboxInv, SandboxStep
    PROVE  SandboxInv'
BY BeginToolKeepsSandbox, RequireRuntimeKeepsSandbox, PrepareKeepsSandbox, CreateKeepsSandbox,
   CollectKeepsSandbox, LoadKeepsSandbox, ExecKeepsSandbox, WaitKeepsSandbox,
   StatusKeepsSandbox, StopKeepsSandbox, ReadKeepsSandbox, RmKeepsSandbox,
   ExistsKeepsSandbox, DeliverKeepsSandbox, DeliveredKeepsSandbox DEF SandboxStep

LEMMA LoopKeepsSandbox ==
    ASSUME TypeOK, SandboxInv, LoopStep
    PROVE  SandboxInv'
BY FollowModelKeepsSandbox, FollowToolKeepsSandbox, OperateKeepsSandbox,
   NextStepKeepsSandbox, AssessKeepsSandbox, ResumeKeepsSandbox, CrashKeepsSandbox
   DEF LoopStep

LEMMA ContainerKeepsSandbox ==
    ASSUME TypeOK, SandboxInv, ContainerStep
    PROVE  SandboxInv'
<1>1. CASE \E out \in {"plain", "request", "submit", "error"}, left \in BOOLEAN :
              Execute(out, left)
  BY <1>1, ExecuteKeepsSandbox
<1>2. CASE \E s \in Session : DeliverStep(s)
  BY <1>2, DeliverStepKeepsSandbox
<1>3. CASE \E order \in strays : Stray(order)
  BY <1>3, StrayKeepsSandbox
<1>. QED
  BY <1>1, <1>2, <1>3, WorkerWritesKeepsSandbox, ExpireKeepsSandbox DEF ContainerStep

LEMMA SubmissionStep ==
    ASSUME SubmissionInv, [SubmissionNext]_allVars
    PROVE  SubmissionInv'
<1>. TypeOK /\ AdapterInv /\ VerifierInv /\ SandboxInv
  BY DEF SubmissionInv
<1>1. CASE SandboxStep /\ UNCHANGED <<adapterVars, verifierVars>>
  <2>1. TypeOK' /\ Elsewhere /\ UNCHANGED <<model, check>>
    BY <1>1, SandboxMoves
  <2>2. AdapterInv' /\ VerifierInv'
    BY <1>1, <2>1, AdapterIdle, VerifierIdle DEF Elsewhere
  <2>. QED  BY <1>1, <2>1, <2>2, SandboxStepKeepsSandbox DEF SubmissionInv
<1>2. CASE AdapterStep /\ UNCHANGED <<sandboxVars, verifierVars>>
  <2>1. TypeOK' /\ UNCHANGED check /\ host'.at \notin VerifierPlaces
    BY <1>2, AdapterMoves DEF AdapterPlaces, VerifierPlaces, Moves
  <2>2. AdapterInv' /\ VerifierInv' /\ SandboxInv'
    BY <1>2, <2>1, AdapterPreserves, VerifierIdle, AdapterKeepsSandbox
  <2>. QED  BY <2>1, <2>2 DEF SubmissionInv
<1>3. CASE VerifierStep /\ UNCHANGED <<sandboxVars, adapterVars>>
  <2>1. TypeOK' /\ UNCHANGED model /\ host'.at \notin AdapterPlaces
    BY <1>3, VerifierMoves DEF AdapterPlaces, VerifierPlaces, Moves
  <2>2. AdapterInv' /\ VerifierInv' /\ SandboxInv'
    BY <1>3, <2>1, AdapterIdle, VerifierPreserves, VerifierKeepsSandbox
  <2>. QED  BY <2>1, <2>2 DEF SubmissionInv
<1>4. CASE LoopStep
  <2>1. /\ TypeOK' /\ host'.at \notin AdapterPlaces \cup VerifierPlaces
        /\ UNCHANGED <<model, check, adapterVars, verifierVars>>
    BY <1>4, LoopMoves
  <2>2. AdapterInv' /\ VerifierInv' /\ SandboxInv'
    BY <1>4, <2>1, AdapterIdle, VerifierIdle, LoopKeepsSandbox
  <2>. QED  BY <2>1, <2>2 DEF SubmissionInv
<1>5. CASE ContainerStep /\ UNCHANGED <<adapterVars, verifierVars>>
  BY <1>5, ContainerMoves, AllSame, ContainerKeepsSandbox DEF SubmissionInv
<1>6. CASE ContainerExpires /\ UNCHANGED <<sandboxVars, adapterVars>>
  <2>1. UNCHANGED <<host, ledgerVars>>
    BY <1>6 DEF ContainerExpires
  <2>. QED
    BY <1>6, <2>1, AllSame, ExpiresPreserves, ContainerExpiresKeepsSandbox DEF SubmissionInv
<1>7. CASE UNCHANGED allVars
  <2>1. /\ UNCHANGED <<host, ledgerVars>> /\ UNCHANGED <<adapterVars, verifierVars>>
        /\ UNCHANGED <<host, tool, asked, box, delivering, strays, candidate>>
    BY <1>7 DEF allVars, ledgerVars, sandboxVars
  <2>2. SandboxInv'
    BY <2>1, HostMoves
    DEF SandboxInv, HostOK, WorkOK, Working, Attempting, Closing, Past, Continues, Starts,
        BetweenOK, CommandOK, CandidateOK, Submitting, Running, Ready, Given
  <2>. QED  BY <2>1, <2>2, AllSame DEF SubmissionInv
<1>. QED
  BY <1>1, <1>2, <1>3, <1>4, <1>5, <1>6, <1>7 DEF SubmissionNext, HostStep, LoopStep

(* The inductive invariant of one submission, whatever its container, its  *)
(* adapter, its verifier and killed hosts do.                              *)
THEOREM SubmissionInvariant == SubmissionSpec => []SubmissionInv
BY SubmissionInit0, SubmissionStep, PTL DEF SubmissionSpec

(* An attempt recorded as an infrastructure failure, or with a candidate,  *)
(* has no container: Sandbox.__call__ returns one only after close() found *)
(* it gone, and no order of a killed host can bring it back.               *)
THEOREM StoppedIsGone == SubmissionSpec => []KnownIsStopped
<1>1. SubmissionInv => KnownIsStopped
  BY DEF SubmissionInv, SandboxInv, RecordsOK
<1>. QED  BY <1>1, SubmissionInvariant, PTL

(* The three parts _CAPTURE reads one after another are the worker's files *)
(* at one moment, whatever the worker left running.                        *)
THEOREM CandidatesAreWhole == SubmissionSpec => []CandidateIsWhole
<1>1. SubmissionInv => CandidateIsWhole
  BY DEF SubmissionInv, SandboxInv, RecordsOK
<1>. QED  BY <1>1, SubmissionInvariant, PTL

(* A command runs in the loaded container that ran all commands before it, *)
(* with the results of every request delivered whole, although killed      *)
(* hosts' orders and deliveries go on.                                     *)
THEOREM CommandsRunInOrder == SubmissionSpec => []CommandsInOrder
<1>1. SubmissionInv => CommandsInOrder
  BY DEF SubmissionInv, SandboxInv, RecordsOK
<1>. QED  BY <1>1, SubmissionInvariant, PTL

(* A settled model attempt is charged nothing if nothing was sent, and     *)
(* otherwise what it used or what was reserved.                            *)
THEOREM ChargesAreAsSent == SubmissionSpec => []ChargedAsSent
<1>1. SubmissionInv => ChargedAsSent
  BY DEF SubmissionInv, AdapterInv, AttemptOK, ChargedAsSent
<1>. QED  BY <1>1, SubmissionInvariant, PTL

(* One inference per model attempt across all sessions, and by OpenRouter  *)
(* with the key that its one recorded preflight saw.                       *)
THEOREM DispatchesArePinned == SubmissionSpec => []DispatchIsPinned
<1>1. SubmissionInv => DispatchIsPinned
  <2>1. SUFFICES ASSUME AdapterInv, NEW i \in Step
                 PROVE  /\ Len(sends[i]) <= 1
                        /\ adapter.kind = "openrouter" =>
                              \A n \in 1..Len(sends[i]) :
                                  preflight[i] = "pinned" /\ sends[i][n].key = "pinned"
    BY DEF SubmissionInv, DispatchIsPinned
  <2>2. CASE sends[i] = <<>>
    BY <2>2
  <2>3. CASE SentOnce(i)
    <3>1. PICK key \in Keys[adapter.kind], used \in Usages :
               /\ sends[i] = <<[key |-> key, used |-> used]>>
               /\ adapter.kind = "openrouter" => preflight[i] = "pinned"
      BY <2>3 DEF SentOnce
    <3>2. adapter.kind = "openrouter" => key = "pinned"
      BY DEF Keys
    <3>3. /\ Len(sends[i]) = 1 /\ sends[i][1].key = key
      BY <3>1
    <3>. QED  BY <3>1, <3>2, <3>3
  <2>. QED  BY <2>1, <2>2, <2>3 DEF AdapterInv, AttemptOK
<1>. QED  BY <1>1, SubmissionInvariant, PTL

(* A pass, a rejection, an unproved or an unsupported proof has its cause  *)
(* in the submission and leaves no container, whatever failed on the way.  *)
THEOREM VerdictsAreDeserved == SubmissionSpec => []VerdictIsDeserved
<1>1. SubmissionInv => VerdictIsDeserved
  BY DEF SubmissionInv, VerifierInv
<1>. QED  BY <1>1, SubmissionInvariant, PTL
=============================================================================
