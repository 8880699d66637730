----------------------------- MODULE Artifacts ------------------------------
(***************************************************************************)
(* How the raw bytes of an observation reach the disk, and what a row that *)
(* cites them may rely on: Ledger.record and Ledger.complete, from the     *)
(* checks of their inputs to the commit (src/warranted/_ledger.py).        *)
(*                                                                         *)
(* Module Ledger takes such a call as one step.  Here it is a transaction  *)
(* of several: it reads its inputs, looks for bytes the ledger already     *)
(* cites, writes each new artifact to a temporary file and links it to the *)
(* name of its digest, and commits the row.  A call may be killed between  *)
(* any two of them, another connection may do the same at the same time,   *)
(* and a file may be damaged or removed under the program's feet.          *)
(*                                                                         *)
(* A digest stands for the bytes it is the digest of.                      *)
(***************************************************************************)
EXTENDS Integers, Sequences, FiniteSets, Functions

CONSTANTS
    Writers,        \* open connections
    Data,           \* byte strings, named by their digests
    Channels,       \* names of the artifacts of one observation
    Snapshots,      \* data the project was created with
    Raws,           \* what callers record: channel -> data
    MaxRows,        \* bound on committed observations
    MaxDamage       \* bound on the files the environment damages

ASSUME ArtifactsAssumption ==
    /\ Snapshots \subseteq Data
    /\ Raws \subseteq UNION {[C -> Data] : C \in (SUBSET Channels) \ {{}}}
    /\ MaxRows \in Nat
    /\ MaxDamage \in Nat

VARIABLES
    store,          \* digest -> what the file of that name holds
    rows,           \* committed observations
    call,           \* writer -> the call it is making
    damaged         \* digests whose file the environment has damaged

artifactVars == <<store, rows, call, damaged>>

(* An input is named by the row and channel it was captured in, row 0      *)
(* standing for a snapshot, and gives the digest the caller expects.       *)
Input == [row : Nat, channel : Channels, ref : Data]
Row == [inputs : SUBSET Input, artifacts : UNION {[C -> Data] : C \in SUBSET Channels}]

(* A call: how far it is, what it was asked to record, the channels not    *)
(* yet published, the one being linked, and (for the properties only) the  *)
(* digests damaged after it had looked at the cited bytes.                 *)
Idle == [pc |-> "idle", inputs |-> {}, raw |-> <<>>, todo |-> {},
         linking |-> {}, late |-> {}]

Whole(d) == store[d] = "whole"

(* Every digest the database cites. *)
Committed == Snapshots \cup UNION {Range(rows[i].artifacts) : i \in DOMAIN rows}

(* _check_origin: the input is that very row's artifact in that channel. *)
Matches(input) ==
    IF input.row = 0 THEN input.ref \in Snapshots
    ELSE /\ input.row \in DOMAIN rows
         /\ input.channel \in DOMAIN rows[input.row].artifacts
         /\ rows[input.row].artifacts[input.channel] = input.ref

-----------------------------------------------------------------------------
ArtifactsInit ==
    /\ store = [d \in Data |-> IF d \in Snapshots THEN "whole" ELSE "absent"]
    /\ rows = <<>>
    /\ call = [w \in Writers |-> Idle]
    /\ damaged = {}

(* The transaction starts: the inputs match and can be read. *)
CheckOrigin(w, inputs, raw) ==
    /\ call[w].pc = "idle"
    /\ Len(rows) < MaxRows
    /\ \A input \in inputs : Matches(input) /\ Whole(input.ref)
    /\ call' = [call EXCEPT ![w] =
                   [Idle EXCEPT !.pc = "known", !.inputs = inputs, !.raw = raw,
                                !.todo = DOMAIN raw]]
    /\ UNCHANGED <<store, rows, damaged>>

(* Mutant of CheckKnown: cited bytes are not looked at again. *)
SkipKnown(w) ==
    /\ call[w].pc = "known"
    /\ call' = [call EXCEPT ![w].pc = "publish"]
    /\ UNCHANGED <<store, rows, damaged>>

(* _publish_raw: bytes the ledger already cites must still be there. *)
CheckKnown(w) ==
    /\ call[w].pc = "known"
    /\ \A d \in Range(call[w].raw) \cap Committed : Whole(d)
    /\ call' = [call EXCEPT ![w].pc = "publish"]
    /\ UNCHANGED <<store, rows, damaged>>

(* _publish, when a file of that name exists and can be read. *)
Reuse(w, c) ==
    /\ call[w].pc = "publish" /\ c \in call[w].todo
    /\ Whole(call[w].raw[c])
    /\ call' = [call EXCEPT ![w].todo = @ \ {c}]
    /\ UNCHANGED <<store, rows, damaged>>

(* _publish, when there is none: write a temporary file of a fresh name. *)
WriteTemporary(w, c) ==
    /\ call[w].pc = "publish" /\ c \in call[w].todo
    /\ store[call[w].raw[c]] = "absent"
    /\ call' = [call EXCEPT ![w].pc = "link", ![w].linking = {c}]
    /\ UNCHANGED <<store, rows, damaged>>

(* os.link, which fails when the name exists by now: then the file that is *)
(* there must be readable.  The temporary file is removed.                 *)
Link(w, c) ==
    LET d == call[w].raw[c]
    IN  /\ call[w].pc = "link" /\ c \in call[w].linking
        /\ store[d] \in {"absent", "whole"}
        /\ store' = [store EXCEPT ![d] = "whole"]
        /\ call' = [call EXCEPT ![w].pc = "publish", ![w].todo = @ \ {c},
                                ![w].linking = {}]
        /\ UNCHANGED <<rows, damaged>>

(* In SQLite's rollback-journal mode no transaction commits while another  *)
(* one still holds the read lock it took with its first SELECT.            *)
Alone(w) == \A v \in Writers \ {w} : call[v].pc = "idle"

(* Inserting the row a call asked for, if `ready`. *)
InsertIf(w, ready) ==
    /\ call[w].pc = "publish" /\ ready
    /\ rows' = Append(rows, [inputs |-> call[w].inputs,
                             artifacts |-> call[w].raw])
    /\ call' = [call EXCEPT ![w] = Idle]
    /\ UNCHANGED <<store, damaged>>

(* Mutant of Commit: the row is committed before its artifacts are linked. *)
CommitFirst(w) == InsertIf(w, Alone(w))

(* The row is inserted and committed. *)
Commit(w) == InsertIf(w, call[w].todo = {} /\ Alone(w))

(* A check or a read raises, SQLite reports a conflict, or the process is  *)
(* killed: the transaction is rolled back, published files stay.           *)
Rollback(w) ==
    /\ call[w].pc # "idle"
    /\ call' = [call EXCEPT ![w] = Idle]
    /\ UNCHANGED <<store, rows, damaged>>

(* Someone removes or alters a file of the store. *)
Damage(d, content) ==
    /\ store[d] = "whole" /\ d \notin damaged
    /\ Cardinality(damaged) < MaxDamage
    /\ store' = [store EXCEPT ![d] = content]
    /\ damaged' = damaged \cup {d}
    /\ call' = [w \in Writers |->
                  IF call[w].pc \in {"publish", "link"}
                  THEN [call[w] EXCEPT !.late = @ \cup {d}] ELSE call[w]]
    /\ UNCHANGED rows

(* The arguments a caller may give: at most one input suffices to tell the *)
(* checks apart.                                                           *)
InputChoices ==
    {{}} \cup {{i} : i \in [row : 0..MaxRows, channel : Channels, ref : Data]}

ArtifactsNext ==
    \/ \E w \in Writers, inputs \in InputChoices, raw \in Raws :
          CheckOrigin(w, inputs, raw)
    \/ \E w \in Writers : CheckKnown(w) \/ Commit(w) \/ Rollback(w)
    \/ \E w \in Writers, c \in Channels :
          Reuse(w, c) \/ WriteTemporary(w, c) \/ Link(w, c)
    \/ \E d \in Data, content \in {"absent", "other"} : Damage(d, content)

ArtifactsSpec == ArtifactsInit /\ [][ArtifactsNext]_artifactVars

-----------------------------------------------------------------------------
(* Properties.                                                             *)

(* Whenever a call is killed and whoever else is writing, a committed row  *)
(* cites only bytes that are on disk, and a file under its final name is   *)
(* complete from the moment it exists, so that no crash leaves one that    *)
(* can never be published again; only damage to a file is excepted.        *)
CommittedBytesExist ==
    /\ \A d \in Committed : Whole(d) \/ d \in damaged
    /\ \A d \in Data : store[d] = "other" => d \in damaged

(* "Never silently repair missing committed bytes": a call puts damaged    *)
(* bytes of a committed row back only if they were still there when it     *)
(* looked for them.                                                        *)
NeverRepaired ==
    [][\A d \in Committed :
          ~Whole(d) /\ Whole(d)' => \E w \in Writers : d \in call[w].late]_artifactVars
=============================================================================
