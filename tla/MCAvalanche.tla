---------------------------- MODULE MCAvalanche -----------------------------
(* Avalanche for TLC: with three proposers the weights are 33, 66 and      *)
(* 100, so the first two stages (50 and 65 percent) decide alike and one   *)
(* value of closePercent_ stands for both.                                 *)
EXTENDS Avalanche

MCPercents == {60, 100, 200}
=============================================================================
