----------------------------- MODULE MCMemoryJobs -----------------------------
(***************************************************************************)
(* Two job lanes, of one replica or of two, or a single one; one thread    *)
(* whose requests name two scopes.                                         *)
(***************************************************************************)
EXTENDS MemoryJobs, TLC

CONSTANTS w1, w2, inProject, withResource

MCSymmetry == Permutations({w1, w2})

=============================================================================
