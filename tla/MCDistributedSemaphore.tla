----------------------- MODULE MCDistributedSemaphore -----------------------
(***************************************************************************)
(* Small instances of DistributedSemaphore: two calls on the first replica *)
(* and one on the second, or both on a single one.                         *)
(***************************************************************************)
EXTENDS DistributedSemaphore, TLC

CONSTANTS n1, n2, r1, r2, r3

MCHome == (r1 :> n1) @@ (r2 :> n1) @@ (r3 :> n2)

MCPairHome == [r \in {r1, r2} |-> n1]

\* The two calls of the first replica are interchangeable.
MCSymmetry == Permutations({r1, r2})
=============================================================================
