--------------------------- MODULE MCContextShapes ---------------------------
(* Small instances of ContextShapes for TLC.                                *)
EXTENDS ContextShapes, TLC

CONSTANTS small, large

(* The engine's profile refuses the large shape at the first input only...  *)
FirstBounded == [i \in Inputs |-> IF i = 1 THEN {small} ELSE {small, large}]

(* ...or at the second input only.                                          *)
SecondBounded == [i \in Inputs |-> IF i = 2 THEN {small} ELSE {small, large}]

Symmetric == Permutations(Contexts)
=============================================================================
