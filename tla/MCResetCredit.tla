---------------------------- MODULE MCResetCredit ----------------------------
(***************************************************************************)
(* Three attempts on the credits of one account, the first and the third   *)
(* in one process, the second in another.                                  *)
(***************************************************************************)
EXTENDS ResetCredit, TLC

CONSTANTS p1, p2, a1, a2, a3

MCProcessOf == (a1 :> p1) @@ (a2 :> p2) @@ (a3 :> p1)

\* The attempts of one process are interchangeable.
MCSymmetry == Permutations({a1, a3})

=============================================================================
