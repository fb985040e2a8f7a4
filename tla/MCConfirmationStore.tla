------------------------ MODULE MCConfirmationStore ------------------------
(* Instances of ConfirmationStore for TLC.                                 *)
EXTENDS ConfirmationStore, TLC

Callers ==
  Permutations(Previews) \cup Permutations(Confirms) \cup Permutations(Payloads)
=============================================================================
