----------------------------- MODULE MCPeephole -----------------------------
(* Model checking the peephole pass on loops. *)
EXTENDS Peephole, IRLoops

(* With one whose rewriting lets a jump skip what was erased in front of   *)
(* another jump: x = x behind a store to x.                                *)
SelfAssigned == LoopOf(<<Set("x", V("y"))>>, <<Set("x", Bin("ADD", V("x"), K(1)))>>,
                       <<Set("x", V("x"))>>)

MCIRs == Loops \cup {SelfAssigned}
=============================================================================
