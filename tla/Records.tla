------------------------------ MODULE Records -------------------------------
(***************************************************************************)
(* Named captures over the ledger: record_once of src/warranted/_worker.py *)
(* gives a plain capture one stable identity, so that a host that is       *)
(* killed and replays its work finds what it recorded the first time.      *)
(*                                                                         *)
(* record_once reads the history in one transaction and writes in another. *)
(* Only one process writes a project at a time, so it is one step here.    *)
(***************************************************************************)
EXTENDS Ledger

Captures(id) == {n \in DOMAIN history : history[n].origin.id = id}
Recorded(id) == Captures(id) # {}

(* The raw evidence recorded under an id. *)
RawOf(id) == history[CHOOSE n \in Captures(id) : TRUE].raw

(* An id names one capture; a repeat must be identical. *)
RecordedAs(id, body) ==
    Recorded(id) => \A n \in Captures(id) : history[n].origin.body = body

RecordOnce(s, id, body, raw) ==
    /\ RecordedAs(id, body)
    /\ IF Recorded(id) THEN UNCHANGED vars
       ELSE Record(s, [id |-> id, body |-> body], raw, 0)

(* How far an operation has come, and what a settled one was recorded as:  *)
(* what module Attempts is told of the ledger.                             *)
Phase(o) ==
    IF Completed(o) THEN "settled"
    ELSE IF Unknown(o) THEN "dispatched"
    ELSE IF Reserved(o) THEN "reserved"
    ELSE "none"
Settlement(o) ==
    [result |-> completions[o].result, raw |-> history[completions[o].sequence].raw]

(* An unknown operation of a scope, or of the root, blocks the scope. *)
BlockedBy(o, sc) == Unknown(o) /\ In(o, sc)
=============================================================================
