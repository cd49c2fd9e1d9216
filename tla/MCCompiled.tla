----------------------------- MODULE MCCompiled -----------------------------
(* Model checking compiled programs against the meaning of their IR, and   *)
(* the virtual machine on them.                                            *)
EXTENDS CompiledProgram, IRPrograms

(* A definition of its own, which TLC evaluates once. *)
Samples == {Compiled(ir) : ir \in Plain \cup Family}

MCPrograms == Samples
MCInputs == {"0", "1", "2", "3", "5", "z"}
=============================================================================
