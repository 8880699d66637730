------------------------------ MODULE Boundary ------------------------------
(***************************************************************************)
(* What the worker container, the model adapters and the checkers of one   *)
(* submission share: the host process that calls them one after another,   *)
(* and what the ledger holds of each attempt.                              *)
(*                                                                         *)
(* The ledger is reduced to what module Attempts promises of it: an        *)
(* attempt is recorded as begun before the boundary is called, and is      *)
(* settled by what the boundary returns; when the boundary raises, or the  *)
(* host dies, it stays unknown.                                            *)
(***************************************************************************)
EXTENDS Integers, Sequences, FiniteSets

CONSTANTS
    MaxSteps,       \* step_limit: model calls, and so commands, of the episode
    MaxSessions     \* bound: times the run is started or resumed

ASSUME BoundaryAssumption ==
    /\ MaxSteps \in Nat \ {0}
    /\ MaxSessions \in Nat \ {0}

Step == 1..MaxSteps
Session == 1..MaxSessions

VARIABLES
    host,       \* the host process: where it stands (at), in which step and session,
                \* where it goes after a removal, and what resume returned
    model,      \* step -> what the ledger holds of the model attempt
    tool,       \* step -> what the ledger holds of the tool attempt
    asked,      \* step -> how the operation its command requested was settled
    check,      \* what the ledger holds of the check of the submission
    finished    \* the episode-finished record: "no", "limits" or "submitted"

ledgerVars == <<model, tool, asked, check, finished>>

Outcome == {"succeeded", "failed", "infrastructure_failure"}

NoCharge == [model |-> 0, prompt |-> 0, completion |-> 0]

(* An attempt before it settles.  A settled model attempt has an outcome   *)
(* and a charge, a settled tool attempt an outcome, what it showed and the *)
(* parts of its candidate, and a settled check a verdict.                  *)
Open(state) ==
    [state |-> state, outcome |-> "none", charge |-> NoCharge, shows |-> "none", parts |-> <<>>]
Settled(outcome) == [Open("settled") EXCEPT !.outcome = outcome]

BoundaryInit ==
    /\ host = [at |-> "down", step |-> 0, session |-> 0, then |-> "none",
               result |-> "none"]
    /\ model = [i \in Step |-> Open("none")]
    /\ tool = [i \in Step |-> Open("none")]
    /\ asked = [i \in Step |-> "none"]
    /\ check = Open("none")
    /\ finished = "no"

At(place) == host.at = place
Goto(place) == host' = [host EXCEPT !.at = place]

(* Close the worker container, and go on as `then` says. *)
Removing(then) == [host EXCEPT !.at = "rm", !.then = then]

(* An exception, or the end of the episode, leaves the `with` block of     *)
(* Project.resume through Sandbox.__exit__.                                *)
Leave == host' = Removing("exit")

(* So does an exception that resume does not handle. *)
Raise == host' = [Removing("exit") EXCEPT !.result = "raised"]

Unsettled ==
    \/ \E i \in Step : model[i].state = "unknown" \/ tool[i].state = "unknown"
    \/ check.state = "unknown"

SettleModel(outcome, charge) ==
    model' = [model EXCEPT ![host.step] = [Settled(outcome) EXCEPT !.charge = charge]]
SettleTool(outcome, shows, parts) ==
    tool' = [tool EXCEPT ![host.step] =
                [Settled(outcome) EXCEPT !.shows = shows, !.parts = parts]]
=============================================================================
