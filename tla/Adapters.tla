------------------------------ MODULE Adapters ------------------------------
(***************************************************************************)
(* The model adapters: LocalChatCompletions                                *)
(* (src/warranted/_chat_completions.py), OpenRouterChatCompletions         *)
(* (_openrouter.py) and LiteLLMModel (_litellm.py).  Each sends one        *)
(* inference for a model attempt that the journal has begun, and says how  *)
(* the attempt ended and what it is charged.                               *)
(*                                                                         *)
(* The key file, the installed model and the provider's metadata can       *)
(* change at any moment, so every look at one of them may find anything.   *)
(***************************************************************************)
EXTENDS Boundary

CONSTANTS
    PromptBound,    \* prompt tokens reserved for one request
    MaxTokens,      \* max_tokens of a request, and so its completion reservation
    Usages          \* the <<prompt, completion>> tokens an inference may use

(* Verified models: no prompt uses more than is reserved for it; a server  *)
(* may ignore max_tokens.                                                  *)
ASSUME AdaptersAssumption ==
    /\ PromptBound \in Nat \ {0} /\ MaxTokens \in Nat \ {0}
    /\ Usages \subseteq (1..PromptBound) \X Nat

VARIABLES
    adapter,    \* the adapter of the run: its kind, and whether it bounds tokens
    preflight,  \* step -> what its preflight was recorded as (OpenRouter)
    sends       \* step -> the inferences that reached the provider

adapterVars == <<adapter, preflight, sends>>

Kind == {"local", "openrouter", "litellm"}

AdaptersInit ==
    /\ adapter \in [kind : Kind, bounded : BOOLEAN]
    /\ preflight = [i \in Step |-> "none"]
    /\ sends = [i \in Step |-> <<>>]

(* reservation and _usage: token units only where the model is bounded. *)
Charge(tokens) ==
    IF adapter.bounded
    THEN [model |-> 1, prompt |-> tokens[1], completion |-> tokens[2]]
    ELSE [model |-> 1, prompt |-> 0, completion |-> 0]
Reservation == <<PromptBound, MaxTokens>>

BeginModel ==
    /\ At("model") /\ model[host.step].state = "none"
    /\ model' = [model EXCEPT ![host.step] = Open("unknown")]
    /\ Goto(IF adapter.kind = "openrouter" THEN "preflight" ELSE "wire")
    /\ UNCHANGED <<tool, asked, check, finished, adapterVars>>

(* Nothing was sent: no unit is charged. *)
Unsent(outcome) ==
    /\ SettleModel(outcome, NoCharge)
    /\ Goto("model")

(* OpenRouter's preflight reads the key, its credit, the endpoint and the  *)
(* prices; all of it must equal the project's runtime snapshot.            *)
Runtime == {"pinned", "changed"}
RuntimeFailure(runtime) == runtime # "pinned"

(* What was found is recorded first.  An attempt with a recorded preflight *)
(* is never dispatched again.                                              *)
Preflight ==
    /\ At("preflight") /\ preflight[host.step] = "none"
    /\ \E runtime \in Runtime :
          /\ preflight' = [preflight EXCEPT ![host.step] = runtime]
          /\ IF RuntimeFailure(runtime) THEN Unsent("infrastructure_failure")
             ELSE Goto("wire") /\ UNCHANGED model
    /\ UNCHANGED <<tool, asked, check, finished, adapter, sends>>

(* A request over the byte limit is never sent. *)
Wire ==
    /\ At("wire")
    /\ \/ Unsent("failed")
       \/ /\ Goto(IF adapter.kind = "local" /\ adapter.bounded THEN "tags" ELSE "post")
          /\ UNCHANGED model
    /\ UNCHANGED <<tool, asked, check, finished, adapterVars>>

(* Local: the token bound was measured for one installed model; the server *)
(* must still list its digest.                                             *)
ModelChanged ==
    /\ At("tags")
    /\ \/ Goto("post") /\ UNCHANGED model
       \/ Unsent("infrastructure_failure")
    /\ UNCHANGED <<tool, asked, check, finished, adapterVars>>

(* The keys with which an adapter lets a request go. *)
KeysUnpinned ==
    [local |-> {"none"}, openrouter |-> {"pinned", "rotated"}, litellm |-> {"pinned", "rotated"}]
Keys ==
    [local |-> {"none"}, openrouter |-> {"pinned"}, litellm |-> {"pinned", "rotated"}]

(* The key file is missing, malformed or, for litellm, open to others. *)
KeyRefused ==
    adapter.kind # "local" /\ Unsent("infrastructure_failure")

(* A lost, late, oversized or incomplete answer raises: outcome unknown. *)
Lost == Raise /\ UNCHANGED model

(* litellm catches whatever its library raises.  An error that is no lost  *)
(* connection is settled at the bound, one that arose before anything left *)
(* the host included, which the adapter cannot tell from an answer.        *)
LibraryFails ==
    /\ adapter.kind = "litellm"
    /\ SettleModel("infrastructure_failure", Charge(Reservation))
    /\ Goto("model")

(* The key file is read again for the request itself.  The request leaves, *)
(* and the inference is performed or not: a connection that breaks here    *)
(* leaves the attempt unknown.                                             *)
Post ==
    /\ At("post")
    /\ \/ \E key \in Keys[adapter.kind], used \in Usages :
             /\ sends' = [sends EXCEPT ![host.step] = Append(@, [key |-> key, used |-> used])]
             /\ Goto("answer") /\ UNCHANGED model
       \/ Lost /\ UNCHANGED sends
       \/ (KeyRefused \/ LibraryFails) /\ UNCHANGED sends
    /\ UNCHANGED <<tool, asked, check, finished, adapter, preflight>>

Reply ==
    [ok : BOOLEAN, model : {"asked", "other"}, usage : {"reported", "omitted"},
     choice : {"stop", "length", "refusal", "malformed"}, billed : BOOLEAN]

(* What the adapter finds as the usage of a reply: litellm fills in zeros  *)
(* where the provider reports nothing.                                     *)
Found(reply) ==
    LET send == sends[host.step]
    IN  IF reply.usage = "reported" THEN {send[Len(send)].used}
        ELSE IF adapter.kind = "litellm" THEN {<<0, 0>>} ELSE {}

(* A sent prompt is never empty, so such zeros report nothing. *)
ReportedZeros(reply) == Found(reply)
Reported(reply) == {t \in Found(reply) : adapter.kind = "litellm" => t[1] # 0}

(* Only usage that was validly reported replaces the reservation. *)
Attempt(outcome, tokens) ==
    [outcome |-> outcome,
     charge |-> Charge(IF tokens = {} THEN Reservation ELSE CHOOSE t \in tokens : TRUE)]

(* No validly reported usage, or more than was asked for. *)
Unusable(tokens) == \A t \in tokens : t[2] > MaxTokens

(* How an answered request ends: the checks in the order of __call__. *)
LocalAttempt(reply) ==
    LET tokens == IF reply.ok /\ reply.model = "asked" THEN Reported(reply) ELSE {}
    IN  Attempt(IF Unusable(tokens) THEN "infrastructure_failure"
                ELSE CASE reply.choice = "stop" -> "succeeded"
                       [] reply.choice = "length" -> "failed"
                       [] OTHER -> "infrastructure_failure", tokens)

(* A refusal of a litellm provider is an answer. *)
LiteLLMAttempt(reply) ==
    LET tokens == IF reply.ok THEN Reported(reply) ELSE {}
    IN  Attempt(IF Unusable(tokens) THEN "infrastructure_failure"
                ELSE CASE reply.choice \in {"refusal", "length"} -> "failed"
                       [] reply.choice = "stop" -> "succeeded"
                       [] OTHER -> "infrastructure_failure", tokens)

(* OpenRouter: what cannot be billed is no result, but keeps its charge. *)
Inference(reply) ==
    IF reply.billed THEN LocalAttempt(reply)
    ELSE [LocalAttempt(reply) EXCEPT !.outcome = "infrastructure_failure"]

Settlement(reply) ==
    CASE adapter.kind = "local" -> LocalAttempt(reply)
      [] adapter.kind = "openrouter" -> Inference(reply)
      [] adapter.kind = "litellm" -> LiteLLMAttempt(reply)

Answer ==
    /\ At("answer")
    /\ \/ \E reply \in Reply :
             /\ SettleModel(Settlement(reply).outcome, Settlement(reply).charge)
             /\ Goto("model")
       \/ Lost
    /\ UNCHANGED <<tool, asked, check, finished, adapterVars>>

AdapterStep == BeginModel \/ Preflight \/ Wire \/ ModelChanged \/ Post \/ Answer
=============================================================================
