------------------------------ MODULE Linking -------------------------------
(***************************************************************************)
(* Relocation as a step of the compiler: BytecodeGenerator::relocation     *)
(* turns the blocks of a program into the linked code.  The properties say *)
(* that every name in the code has become the right address, against the   *)
(* layout that the generated blocks have, and that the virtual machine can *)
(* rely on the result.                                                     *)
(***************************************************************************)
EXTENDS Layout, LinkedProgram

CONSTANT IRs    \* the programs that may be compiled

ASSUME ProgramsWellFormed == \A p \in IRs : WellFormedIR(p)

VARIABLES
  ir,
  linked        \* the linked program, or NotLinked

vars == <<ir, linked>>

NotLinked == [size |-> 0]
Done == linked # NotLinked

Init == ir \in IRs /\ linked = NotLinked

Relocate ==
  /\ ~Done
  /\ linked' = Link(ir)
  /\ UNCHANGED ir

Terminated == Done /\ UNCHANGED vars

Next == Relocate \/ Terminated

Spec == Init /\ [][Next]_vars

-----------------------------------------------------------------------------
(* Properties *)

(* Where a jump to block b of function fn belongs: the first instruction   *)
(* generated for that block or, if it is empty, for the ones after it.     *)
StartOf(layout, fn, b) == Min({i \in DOMAIN layout : layout[i].fn = fn /\ layout[i].block >= b})

BlockIn(fn, name) == CHOOSE b \in DOMAIN ir.funcs[fn].blocks :
                       ir.funcs[fn].blocks[b].name = name

Source(w) == IF w.fn = 0 THEN ir.globals[w.next]
             ELSE ir.funcs[w.fn].blocks[w.block].insts[w.next]

(* Every JMP and both targets of every JIF lead to the block they name. *)
JumpsResolved ==
  Done =>
    LET layout == LayoutOf(ir)
        leadsTo(fn, target, name) == target = StartOf(layout, fn, BlockIn(fn, name))
    IN \A i \in DOMAIN linked.code :
         LET fn == layout[i].fn
             jump == Source(layout[i])
         IN /\ OpAt(linked, i) = "JMP" => leadsTo(fn, linked.code[i].target, jump.to)
            /\ OpAt(linked, i) = "JIF" => /\ leadsTo(fn, linked.code[i].target1, jump.yes)
                                          /\ leadsTo(fn, linked.code[i].target2, jump.no)

(* Every call leads to the FUNC of the function it names, or to its        *)
(* builtin, wherever in the program it stands.                             *)
CallsResolved ==
  Done =>
    LET layout == LayoutOf(ir)
        leadsTo(target, name) ==
          IF name \in DOMAIN BuiltinIndex
            THEN target = BuiltinIndex[name]
            ELSE \E f \in DOMAIN ir.funcs :
                   ir.funcs[f].name = name /\ target = StartOf(layout, f, 0)
    IN \A i \in DOMAIN linked.code :
         OpAt(linked, i) = "CALL" =>
           leadsTo(linked.code[i].target, Called(Source(layout[i])).call)

(* The code is what the virtual machine relies on: jumps stay in the body  *)
(* of their function, calls are followed by as many ARGs as the callee has *)
(* PARAMs, no function runs into the next, and the entry points are right. *)
LinkedWell == Done => WellLinked(linked)

(* main is entered at its FUNC and stops at its last instruction, and the  *)
(* initialisers are the code in front of the first function.               *)
EntryPoints ==
  Done =>
    LET layout == LayoutOf(ir)
        main == CHOOSE f \in DOMAIN ir.funcs : ir.funcs[f].name = ENTRY_FUNC
    IN /\ linked.entry = StartOf(layout, main, 0)
       /\ linked.entry_end = Max({i \in DOMAIN layout : layout[i].fn = main})
       /\ linked.global_len = Cardinality({i \in DOMAIN layout : layout[i].fn = 0})
=============================================================================
