---------------------------- MODULE MCArtifacts -----------------------------
(* Two connections recording up to two rows over one snapshot and one new  *)
(* byte string, and one export; channel out is disclosed, channel err is   *)
(* not.                                                                    *)
EXTENDS Exports, TLC

CONSTANTS w1, w2, d0, d1, out, err

(* New bytes alone or in two channels at once, and beside cited bytes. *)
MCRaws ==
    {[c \in {out} |-> d1], [c \in {err} |-> d1], [c \in {out, err} |-> d1],
     [c \in {out, err} |-> IF c = out THEN d0 ELSE d1]}

MCArtifactsSymmetry == Permutations({w1, w2})
=============================================================================
