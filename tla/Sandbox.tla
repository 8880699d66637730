------------------------------ MODULE Sandbox -------------------------------
(***************************************************************************)
(* The worker container of one episode: class Sandbox of                   *)
(* src/warranted/_sandbox.py over the bounded Podman client of             *)
(* src/warranted/_containers.py, with the programs that run inside the     *)
(* container (_LOAD, _DELIVER, _EXECUTE, _CAPTURE).                        *)
(*                                                                         *)
(* The host gives orders through podman clients.  A client may fail, or    *)
(* pass its deadline or output limit and be killed: its order may then     *)
(* have been carried out or not, and what it started in the container goes *)
(* on.  A client whose host is killed lives on, in a session of its own,   *)
(* and may still carry out its order later (strays).                       *)
(*                                                                         *)
(* A file is the number of the change the worker last made to its files.   *)
(***************************************************************************)
EXTENDS Boundary

CONSTANT MaxWrites      \* bound: changes the worker makes to its files

ASSUME SandboxAssumption == MaxWrites \in Nat

VARIABLES
    box,        \* the container
    delivering, \* session -> its _DELIVER process in the container
    strays,     \* orders of clients whose host was killed
    candidate   \* the parts _CAPTURE has read so far: result, notes, workspace

sandboxVars == <<box, delivering, strays, candidate>>

Parts == 3              \* result.json, notes.json, workspace/

NoBox ==
    [state |-> "absent", loaded |-> FALSE, cmd |-> 0, done |-> 0, out |-> "none",
     live |-> FALSE, files |-> 0, given |-> [i \in Step |-> "none"]]
NewBox == [NoBox EXCEPT !.state = "running"]
NoDelivery == [at |-> "none", step |-> 0]
Idle == [s \in Session |-> NoDelivery]

SandboxInit ==
    /\ box = NoBox
    /\ delivering = Idle
    /\ strays = {}
    /\ candidate = <<>>

Running == box.state = "running"

(* The container is gone, and every process in it. *)
Removed == box' = NoBox /\ delivering' = Idle

-----------------------------------------------------------------------------
(* Inside the container. *)

(* The command, and anything it left running, changes the worker's files. *)
WorkerWrites ==
    /\ Running /\ (box.cmd # 0 \/ box.live)
    /\ box.files < MaxWrites
    /\ box' = [box EXCEPT !.files = @ + 1]
    /\ UNCHANGED <<delivering, strays, candidate, host, ledgerVars>>

(* _EXECUTE: the command ends, with a status only the supervisor can       *)
(* write, and may leave background processes behind.                       *)
Execute(out, left) ==
    /\ Running /\ box.cmd # 0
    /\ box' = [box EXCEPT !.cmd = 0, !.done = box.cmd, !.out = out, !.live = @ \/ left]
    /\ UNCHANGED <<delivering, strays, candidate, host, ledgerVars>>

(* Not what _DELIVER does: a file of that name counts as delivered. *)
DeliverStepByName(s) ==
    LET d == delivering[s]
        Now(at) == delivering' = [delivering EXCEPT ![s].at = at]
    IN  /\ Running
        /\ \/ /\ d.at = "look" /\ box.given[d.step] = "none"
              /\ box' = [box EXCEPT !.given[d.step] = "part"]
              /\ Now("write")
           \/ /\ d.at = "look" /\ box.given[d.step] # "none"
              /\ Now("done")
              /\ UNCHANGED box
           \/ /\ d.at = "write"
              /\ box' = [box EXCEPT !.given[d.step] = "whole"]
              /\ Now("done")
        /\ UNCHANGED <<strays, candidate, host, ledgerVars>>

(* _DELIVER: create each file exclusively, or find it there already with   *)
(* the same bytes.  A file that is there in part differs.  Two deliveries  *)
(* can trip over each other's file modes.                                  *)
DeliverStep(s) ==
    LET d == delivering[s]
        Now(at) == delivering' = [delivering EXCEPT ![s].at = at]
        Others == \E t \in Session \ {s} : delivering[t].at \in {"look", "write"}
    IN  /\ Running
        /\ \/ /\ d.at = "look" /\ box.given[d.step] = "none"
              /\ box' = [box EXCEPT !.given[d.step] = "part"]
              /\ Now("write")
           \/ /\ d.at = "look" /\ box.given[d.step] # "none"
              /\ Now(IF box.given[d.step] = "whole" THEN "done" ELSE "failed")
              /\ UNCHANGED box
           \/ /\ d.at = "look" /\ Others
              /\ Now("failed")
              /\ UNCHANGED box
           \/ /\ d.at = "write"
              /\ box' = [box EXCEPT !.given[d.step] = "whole"]
              /\ Now("done")
        /\ UNCHANGED <<strays, candidate, host, ledgerVars>>

(* The container's own --timeout ends it; it stays, exited. *)
Expire ==
    /\ Running
    /\ box' = [NoBox EXCEPT !.state = "exited"]
    /\ delivering' = Idle
    /\ UNCHANGED <<strays, candidate, host, ledgerVars>>

(* An order of a killed host is carried out after all. *)
Stray(order) ==
    /\ order \in strays
    /\ strays' = strays \ {order}
    /\ CASE order.does = "run" ->
              /\ box' = IF box.state = "absent" THEN NewBox ELSE box
              /\ UNCHANGED delivering
         [] order.does = "exec" ->
              /\ box' = IF Running /\ box.cmd = 0 THEN [box EXCEPT !.cmd = order.step] ELSE box
              /\ UNCHANGED delivering
         [] order.does = "rm" -> Removed
    /\ UNCHANGED <<candidate, host, ledgerVars>>

-----------------------------------------------------------------------------
(* Sandbox.__call__, one podman client after another. *)

BeginTool ==
    /\ At("tool") /\ tool[host.step].state = "none"
    /\ tool' = [tool EXCEPT ![host.step] = Open("unknown")]
    /\ Goto("prepare")
    /\ UNCHANGED <<model, asked, check, finished, sandboxVars>>

(* `except SandboxFailure`: close, then claim a known, stopped attempt. *)
Fail == host' = Removing("fail") /\ candidate' = <<>>

RequireRuntime ==
    /\ At("prepare")
    /\ (Goto("look") /\ UNCHANGED candidate) \/ Fail
    /\ UNCHANGED <<box, delivering, strays, ledgerVars>>

(* `container exists` and inspect: only the first command may start        *)
(* without a live workspace.                                               *)
Prepare ==
    /\ At("look")
    /\ \/ Fail
       \/ /\ Running
          /\ Goto("exec") /\ UNCHANGED candidate
       \/ /\ box.state = "absent" /\ host.step = 1
          /\ Goto("create") /\ UNCHANGED candidate
    /\ UNCHANGED <<box, delivering, strays, ledgerVars>>

(* podman run --detach *)
Create ==
    /\ At("create")
    /\ \/ /\ box.state = "absent"
          /\ box' = NewBox
          /\ Goto("collect") /\ UNCHANGED candidate
       \/ /\ box' \in {box, IF box.state = "absent" THEN NewBox ELSE box}
          /\ Fail
    /\ UNCHANGED <<delivering, strays, ledgerVars>>

(* The workspace snapshot an episode is given, and which of them           *)
(* decode_workspace lets through.                                          *)
Workspaces == {"none", "safe", "unsafe", "oversized"}
DecodeWorkspace(workspace) == workspace \in {"none", "safe"}

(* The permitted files are read and bounded.  A refused snapshot is no     *)
(* SandboxFailure: the attempt stays unknown.                              *)
Collect ==
    /\ At("collect")
    /\ \/ Fail
       \/ \E workspace \in Workspaces :
             /\ IF DecodeWorkspace(workspace) THEN Goto("load") ELSE Raise
             /\ UNCHANGED candidate
    /\ UNCHANGED <<box, delivering, strays, ledgerVars>>

(* _LOAD puts everything in place before the first command. *)
Load ==
    /\ At("load")
    /\ \/ /\ Running
          /\ box' = [box EXCEPT !.loaded = TRUE]
          /\ Goto("exec") /\ UNCHANGED candidate
       \/ /\ box' \in {box, [box EXCEPT !.loaded = Running]}
          /\ Fail
    /\ UNCHANGED <<delivering, strays, ledgerVars>>

Exec ==
    /\ At("exec")
    /\ \/ /\ Running
          /\ box' = [box EXCEPT !.cmd = host.step]
          /\ Goto("wait") /\ UNCHANGED candidate
       \/ Fail /\ UNCHANGED box
    /\ UNCHANGED <<delivering, strays, ledgerVars>>

(* Not what _run does: a command that does not end is waited for. *)
WaitForever ==
    /\ At("wait")
    /\ \/ /\ Running /\ box.cmd = 0 /\ box.done = host.step
          /\ Goto("status") /\ UNCHANGED candidate
       \/ Fail /\ ~Running
    /\ UNCHANGED <<box, delivering, strays, ledgerVars>>

(* The client returns when the command ends, or is killed at its deadline  *)
(* or its output limit, with the command still running.                    *)
Wait ==
    /\ At("wait")
    /\ \/ /\ Running /\ box.cmd = 0 /\ box.done = host.step
          /\ Goto("status") /\ UNCHANGED candidate
       \/ Fail
    /\ UNCHANGED <<box, delivering, strays, ledgerVars>>

(* A marked submission with status 0 is captured before anything settles. *)
Status ==
    /\ At("status")
    /\ \/ /\ Running /\ box.out = "submit"
          /\ Goto("stop") /\ UNCHANGED <<candidate, tool>>
       \/ /\ Running /\ box.out # "submit"
          /\ SettleTool(IF box.out = "error" THEN "failed" ELSE "succeeded", box.out, <<>>)
          /\ Goto("tool") /\ UNCHANGED candidate
       \/ Fail /\ UNCHANGED tool
    /\ UNCHANGED <<box, delivering, strays, model, asked, check, finished>>

(* A failed capture settles as a failed command; the container stays. *)
NotCaptured ==
    /\ SettleTool("failed", "error", <<>>)
    /\ candidate' = <<>>
    /\ Goto("tool")

(* Not what _CAPTURE does: the worker's processes are left alone. *)
StopNothing ==
    /\ At("stop")
    /\ \/ /\ Running
          /\ Goto("read") /\ UNCHANGED <<candidate, tool>>
       \/ Running /\ NotCaptured
       \/ Fail /\ UNCHANGED tool
    /\ UNCHANGED <<box, delivering, strays, model, asked, check, finished>>

(* _CAPTURE kills every process, waits until none of the worker's is left, *)
(* and only then reads, one file after another.                            *)
Stop ==
    /\ At("stop")
    /\ \/ /\ Running
          /\ box' = [box EXCEPT !.live = FALSE]
          /\ Goto("read") /\ UNCHANGED <<candidate, tool>>
       \/ Running /\ NotCaptured /\ UNCHANGED box
       \/ Fail /\ UNCHANGED <<box, tool>>
    /\ UNCHANGED <<delivering, strays, model, asked, check, finished>>

Read ==
    /\ At("read")
    /\ \/ /\ Running /\ Len(candidate) < Parts
          /\ candidate' = Append(candidate, box.files)
          /\ UNCHANGED <<host, tool>>
       \/ /\ Len(candidate) = Parts
          /\ host' = Removing("submit") /\ UNCHANGED <<candidate, tool>>
       \/ Running /\ NotCaptured
       \/ Fail /\ UNCHANGED tool
    /\ UNCHANGED <<box, delivering, strays, model, asked, check, finished>>

-----------------------------------------------------------------------------
(* Sandbox.close, in the three places that call it. *)

(* Removal is not established: __call__ tries again to claim a failure,    *)
(* then the exception leaves through __exit__, which tries once more.      *)
CloseFailed ==
    /\ host' = CASE host.then = "submit" -> Removing("fail")
                 [] host.then = "fail" -> Removing("exit")
                 [] host.then = "exit" -> [host EXCEPT !.at = "raised"]
    /\ candidate' = <<>>
    /\ UNCHANGED ledgerVars

CloseDone ==
    /\ CASE host.then = "submit" -> SettleTool("succeeded", "submit", candidate) /\ Goto("tool")
         [] host.then = "fail" -> SettleTool("infrastructure_failure", "none", <<>>) /\ Goto("tool")
         [] host.then = "exit" -> Goto("left") /\ UNCHANGED tool
    /\ candidate' = <<>>
    /\ UNCHANGED <<model, asked, check, finished>>

(* podman rm --force: even a client that reports success may have removed  *)
(* nothing.                                                                *)
Rm ==
    /\ At("rm")
    /\ \/ /\ Removed
          /\ Goto("exists") /\ UNCHANGED <<candidate, ledgerVars>>
       \/ /\ Goto("exists") /\ UNCHANGED <<box, delivering, candidate, ledgerVars>>
       \/ (Removed \/ UNCHANGED <<box, delivering>>) /\ CloseFailed
    /\ UNCHANGED strays

EstablishedByClient == TRUE
Established == box.state = "absent"

Exists ==
    /\ At("exists")
    /\ \/ Established /\ CloseDone
       \/ CloseFailed
    /\ UNCHANGED <<box, delivering, strays>>

-----------------------------------------------------------------------------
(* Sandbox.deliver, between two commands and again on every replay. *)

(* With no container there is nothing to deliver to; the next command      *)
(* needs one.  Any failure is raised to the caller of the episode.         *)
Deliver ==
    /\ At("deliver")
    /\ \/ /\ box.state = "absent"
          /\ Goto("stepped") /\ UNCHANGED delivering
       \/ /\ Running
          /\ delivering' = [delivering EXCEPT ![host.session] =
                                [at |-> "look", step |-> host.step]]
          /\ Goto("delivering")
       \/ Leave /\ UNCHANGED delivering
    /\ UNCHANGED <<box, strays, candidate, ledgerVars>>

Delivered ==
    /\ At("delivering")
    /\ \/ /\ delivering[host.session].at = "done"
          /\ Goto("stepped")
       \/ Leave
    /\ UNCHANGED <<box, delivering, strays, candidate, ledgerVars>>

SandboxStep ==
    \/ BeginTool \/ RequireRuntime \/ Prepare \/ Create \/ Collect \/ Load
    \/ Exec \/ Wait \/ Status \/ Stop \/ Read \/ Rm \/ Exists \/ Deliver \/ Delivered

ContainerStep ==
    \/ WorkerWrites \/ Expire
    \/ \E out \in {"plain", "request", "submit", "error"}, left \in BOOLEAN : Execute(out, left)
    \/ \E s \in Session : DeliverStep(s)
    \/ \E order \in strays : Stray(order)

(* What a killed host leaves behind: the order of the client it had just   *)
(* started.                                                                *)
Orphaned ==
    CASE At("create") -> {[does |-> "run", step |-> host.step]}
      [] At("exec") -> {[does |-> "exec", step |-> host.step]}
      [] At("rm") -> {[does |-> "rm", step |-> host.step]}
      [] OTHER -> {}
=============================================================================
