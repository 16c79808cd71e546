------------------------------- MODULE Powers -------------------------------
(***************************************************************************)
(* Powers as the code has them: a product, multiplied by a factor turn by  *)
(* turn.                                                                   *)
(***************************************************************************)
EXTENDS Integers

Powers(b) == LET power[n \in Nat] == IF n = 0 THEN 1 ELSE b * power[n - 1] IN power
=============================================================================
