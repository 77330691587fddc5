---------------------------- MODULE MCControlLink ----------------------------
(* ControlLink for TLC. *)
EXTENDS ControlLink, TLC

CONSTANTS r0, r1, r2

Symmetry == Permutations(Requests \ {Greeting})
=============================================================================
