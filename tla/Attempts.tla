------------------------------ MODULE Attempts ------------------------------
(***************************************************************************)
(* What a caller may rely on when the host makes an attempt outside the    *)
(* ledger's own transactions: a model call, a tool call, a host operation. *)
(* An attempt is reserved, dispatched and settled, in that order and each  *)
(* at most once; outside, it is performed at most once and never before    *)
(* its dispatch is recorded; and it is settled by what it did, or, if it   *)
(* leaves nothing behind outside the host, by giving it up as lost.        *)
(*                                                                         *)
(* This is an abstract specification ("A side effect is never blindly      *)
(* retried", docs/reference/enforcement.md).  Modules Episode and          *)
(* HostOperations implement it, with a host that dies and is restarted, a  *)
(* network that loses and delays, and replays that start from the          *)
(* beginning; none of these appears here.                                  *)
(***************************************************************************)
EXTENDS Naturals, Functions

CONSTANTS
    Ids,            \* the attempts there can be
    AttemptScope,   \* attempt -> the scope it is charged to
    Root,           \* the scope that concerns every other
    Inert,          \* attempts that leave nothing behind outside the host
    Lost            \* attempt -> what it is settled as when given up

VARIABLES
    phase,          \* attempt -> none, reserved, dispatched or settled
    performed,      \* attempt -> how often it was performed
    answer,         \* what each performed attempt came to
    settlement      \* what each settled attempt was recorded as

attemptsVars == <<phase, performed, answer, settlement>>

(* An attempt in doubt stops its scope; in the root it stops all scopes. *)
Contends(p, o) == phase[p] = "dispatched" /\ AttemptScope[p] \in {AttemptScope[o], Root}

AttemptsInit ==
    /\ phase = [o \in Ids |-> "none"]
    /\ performed = [o \in Ids |-> 0]
    /\ answer = [o \in {} |-> 0]
    /\ settlement = [o \in {} |-> 0]

Reserve(o) ==
    /\ phase[o] = "none"
    /\ phase' = [phase EXCEPT ![o] = "reserved"]
    /\ UNCHANGED <<performed, answer, settlement>>

Dispatch(o) ==
    /\ phase[o] = "reserved"
    /\ \A p \in Ids : ~Contends(p, o)
    /\ phase' = [phase EXCEPT ![o] = "dispatched"]
    /\ UNCHANGED <<performed, answer, settlement>>

(* The outside world acts, once, and comes to some answer. *)
Perform(o) ==
    /\ phase[o] = "dispatched" /\ performed[o] = 0
    /\ performed' = [performed EXCEPT ![o] = 1]
    /\ DOMAIN answer' = DOMAIN answer \cup {o}
    /\ Restrict(answer', DOMAIN answer) = answer
    /\ UNCHANGED <<phase, settlement>>

(* What an attempt may be settled as. *)
Settlements(o) ==
    {answer[p] : p \in DOMAIN answer \cap {o}} \cup {Lost[p] : p \in Inert \cap {o}}

Settle(o) ==
    /\ phase[o] = "dispatched"
    /\ phase' = [phase EXCEPT ![o] = "settled"]
    /\ DOMAIN settlement' = DOMAIN settlement \cup {o}
    /\ Restrict(settlement', DOMAIN settlement) = settlement
    /\ settlement'[o] \in Settlements(o)
    /\ UNCHANGED <<performed, answer>>

AttemptsNext ==
    \E o \in Ids : Reserve(o) \/ Dispatch(o) \/ Perform(o) \/ Settle(o)

AttemptsSpec == AttemptsInit /\ [][AttemptsNext]_attemptsVars
=============================================================================
