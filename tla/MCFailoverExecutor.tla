------------------------- MODULE MCFailoverExecutor -------------------------
(***************************************************************************)
(* A small instance of FailoverExecutor: r1 has a chain with an alias that *)
(* has no client and one it cannot use; an image request shares the other  *)
(* two aliases with r1; r2 has a chain that is too small for it, r3 one it *)
(* cannot use.                                                             *)
(***************************************************************************)
EXTENDS FailoverExecutor, TLC

CONSTANTS r1, r2, r3, img, upA, upB, upC, upD

MCChain == (r1 :> <<upA, upC, upD, upB>>) @@ (r2 :> <<upD>>) @@ (r3 :> <<upB>>) @@ (img :> <<upA, upB>>)
MCIncapable == {<<r1, upD>>, <<r2, upD>>, <<r3, upB>>}
MCTooSmall == {<<r2, upD>>}

=============================================================================
