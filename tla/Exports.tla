------------------------------ MODULE Exports -------------------------------
(***************************************************************************)
(* Exporting a run for a consumer that never sees the ledger:              *)
(* export_evidence (src/warranted/_exports.py) and the selection that      *)
(* Project.export makes (src/warranted/_tasks.py), over the rows and files *)
(* of module Artifacts.                                                    *)
(*                                                                         *)
(* An export selects channels of the run's observations, writes down what  *)
(* the index will say of them, copies the bytes one file after another,    *)
(* and last of all renames index.json into place.  The process may be      *)
(* killed between any two of these steps, and files of the store may be    *)
(* damaged meanwhile.                                                      *)
(***************************************************************************)
EXTENDS Artifacts

CONSTANTS
    Shown,          \* channels an export discloses; the others are the host's own
    ExportFrom      \* bound: an export is made of at least that many rows

ASSUME ExportsAssumption == Shown \subseteq Channels /\ ExportFrom \in Nat

VARIABLE export     \* the export under way, and the directory it leaves

exportsVars == <<artifactVars, export>>

(* `names` is what the index says: which row's channel holds which bytes. *)
NoExport == [pc |-> "idle", chosen |-> {}, names |-> {}, todo |-> {}, dir |-> "none", copied |-> {}]

ExportsInit == ArtifactsInit /\ export = NoExport

(* Project.export: the disclosed channels of the run's own observations. *)
Selection(own) ==
    {s \in own \X Shown : s[2] \in DOMAIN rows[s[1]].artifacts}

(* Mutant of OriginView: every input of a selected row is named. *)
WholeOrigin(i, chosen) ==
    {<<n.row, n.channel, n.ref>> : n \in rows[i].inputs}

(* origin_view: of a row's inputs, only selected evidence is named. *)
OriginView(i, chosen) ==
    {<<n.row, n.channel, n.ref>> : n \in {m \in rows[i].inputs : <<m.row, m.channel>> \in chosen}}

(* The view of the selected rows, put together before anything is written, *)
(* and a directory of its own; one that exists is refused.                 *)
SelectEvidence(own) ==
    LET chosen == Selection(own)
    IN  /\ export.pc = "idle" /\ export.dir = "none"
        /\ Len(rows) >= ExportFrom
        /\ export' = [NoExport EXCEPT
              !.pc = "copy", !.dir = "partial", !.chosen = chosen,
              !.names = {<<s[1], s[2], rows[s[1]].artifacts[s[2]]>> : s \in chosen}
                          \cup UNION {OriginView(s[1], chosen) : s \in chosen},
              !.todo = {rows[s[1]].artifacts[s[2]] : s \in chosen}]
        /\ UNCHANGED artifactVars

(* read_artifact verifies the bytes it copies. *)
CopyArtifact(d) ==
    /\ export.pc = "copy" /\ d \in export.todo
    /\ Whole(d)
    /\ export' = [export EXCEPT !.todo = @ \ {d}, !.copied = @ \cup {d}]
    /\ UNCHANGED artifactVars

ReplaceIf(ready) ==
    /\ export.pc = "copy" /\ ready
    /\ export' = [export EXCEPT !.pc = "idle", !.dir = "indexed"]
    /\ UNCHANGED artifactVars

(* Mutant of PublishIndex: the index does not wait for the copies. *)
PublishIndexFirst == ReplaceIf(TRUE)

(* os.replace of the finished index, when everything is copied. *)
PublishIndex == ReplaceIf(export.todo = {})

(* A read or write raises and the directory is removed; or the process is  *)
(* killed, here or during the removal, and the directory stays.            *)
AbandonExport ==
    /\ export.pc = "copy"
    /\ export' \in {NoExport, [export EXCEPT !.pc = "idle"]}
    /\ UNCHANGED artifactVars

ExportsNext ==
    \/ ArtifactsNext /\ UNCHANGED export
    \/ \E own \in SUBSET DOMAIN rows : SelectEvidence(own)
    \/ \E d \in Data : CopyArtifact(d)
    \/ PublishIndex
    \/ AbandonExport

ExportsSpec == ExportsInit /\ [][ExportsNext]_exportsVars

-----------------------------------------------------------------------------
(* Properties.                                                             *)

(* "index.json is the publication marker; interrupted copies have no       *)
(* index": a directory with an index holds, verified, all bytes the index  *)
(* names, and no others.                                                   *)
IndexMeansComplete ==
    export.dir = "indexed" => {n[3] : n \in export.names} = export.copied

(* An export tells nothing of what is not disclosed: neither the bytes of  *)
(* a host-only channel, nor, through the inputs of a disclosed row, its    *)
(* name and digest, unless a disclosed channel holds the same bytes.       *)
DisclosesShown ==
    /\ \A n \in export.names :
          /\ n[2] \in Shown
          /\ n[1] \in DOMAIN rows /\ rows[n[1]].artifacts[n[2]] = n[3]
    /\ \A d \in export.copied : \E s \in export.chosen : rows[s[1]].artifacts[s[2]] = d
=============================================================================
