------------------------- MODULE MCConcurrencyGate -------------------------
(***************************************************************************)
(* A small instance of ConcurrencyGate: three callers of one key and one   *)
(* of another; the operator switches the gate off and on.                  *)
(***************************************************************************)
EXTENDS ConcurrencyGate, TLC

CONSTANTS c1, c2, c3, c4, k1, k2

MCKeyOf == (c1 :> k1) @@ (c2 :> k1) @@ (c3 :> k1) @@ (c4 :> k2)

On(global) == [enabled |-> TRUE, global |-> global]
Off == [enabled |-> FALSE, global |-> 1]

MCSettings == {Off, On(1)}

=============================================================================
