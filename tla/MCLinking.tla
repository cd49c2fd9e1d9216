----------------------------- MODULE MCLinking ------------------------------
(* Model checking relocation on every program of a family of shapes, and   *)
(* on the programs that other runs execute.                                *)
EXTENDS Linking, IRShapes, IRLoops

MCIRs == Shapes \cup Plain \cup Family \cup Loops
=============================================================================
