--------------------------- MODULE MCTokenManager ---------------------------
(***************************************************************************)
(* A small instance of TokenManager: two managers of one account, with one *)
(* caller each that may abort and call again.                              *)
(***************************************************************************)
EXTENDS TokenManager, TLC

CONSTANTS m1, m2, r1, r2

MCManagerOf == (r1 :> m1) @@ (r2 :> m2)

=============================================================================
