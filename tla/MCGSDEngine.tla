---------------------------- MODULE MCGSDEngine ----------------------------
(* Small instances of GSDEngine: d needs a and b. *)
EXTENDS GSDEngine

CONSTANTS a, b, c, d

MCPosition == [t \in Tasks |-> CHOOSE i \in 1 .. 4 : <<a, b, c, d>>[i] = t]

MCDependencies == [t \in Tasks |-> IF t = d THEN {a, b} ELSE {}]

MCCallers == Loops \X Tasks
=============================================================================
