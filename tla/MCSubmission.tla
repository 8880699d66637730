---------------------------- MODULE MCSubmission ----------------------------
(***************************************************************************)
(* An episode of two steps, started and resumed.  Two steps are enough for *)
(* a delivery between two commands, a container found missing partway and  *)
(* a failed step before a submission.                                      *)
(***************************************************************************)
EXTENDS Submission

(* An ordinary inference, and one whose server ignored max_tokens. *)
SomeUsages == {<<1, 1>>, <<2, 2>>}
=============================================================================
