-------------------------- MODULE MCCloseTimeChain --------------------------
(* CloseTimeChain for TLC: times on both sides of the rounding boundaries  *)
(* of the finest, the default and the coarsest resolution.                 *)
EXTENDS CloseTimeChain

MCTimes == {0, 1, 14, 15, 59, 60, 61, 300}
=============================================================================
