----------------------------- MODULE MCRigLink -----------------------------
(***************************************************************************)
(* Two coroutines and MaxOps calls among them: enough for a mode whose     *)
(* second line is awaited, a command that meets it, and one that follows;  *)
(* or for a keying, the call that disarms and the one that tunes. One      *)
(* change of the separator comes before, between or after them.            *)
(***************************************************************************)
EXTENDS RigLink, TLC

Coroutines == Permutations(Tasks)
=============================================================================
