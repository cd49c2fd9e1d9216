---------------------------- MODULE MCOptimised -----------------------------
(* Model checking the peephole pass against the code it starts from. *)
EXTENDS OptimisedProgram, IRLoops

MCIRs == {LoopOf(a, b, c) : a \in Branches \ {<< >>}, b \in Branches,
                            c \in {<< >>, <<Set("x", Bin("ADD", V("x"), K(1)))>>}}
           \cup {Member(s, t, Set("g", V("n"))) : s \in Statements, t \in Statements}
MCPrograms == {Link(ir) : ir \in MCIRs}
MCLoopHead == {LoopHead}
MCLoopHeadCode == {Link(LoopHead)}
MCInputs == {"0", "1"}
=============================================================================
