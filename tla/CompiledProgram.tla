-------------------------- MODULE CompiledProgram ---------------------------
(***************************************************************************)
(* The virtual machine executing what the bytecode generator makes of an   *)
(* IR program implements the abstract machine IRMachine on that program.   *)
(* The refinement mapping reads the abstract stack off the frames, their   *)
(* saved pcs and pc, through the layout of the generated code.             *)
(*                                                                         *)
(* The programs loaded carry the IR they come from, and their layout.      *)
(***************************************************************************)
EXTENDS VM, Layout

Compiled(ir) ==
  LET p == Link(ir)
  IN [code |-> p.code, size |-> p.size, entry |-> p.entry, entry_end |-> p.entry_end,
      global_len |-> p.global_len, source |-> ir, layout |-> LayoutOf(ir)]

-----------------------------------------------------------------------------
(* The programs that the generator and the machine translate as they are   *)
(* meant.  The README says what each condition excludes, and what the code *)
(* does there.                                                             *)

Simple(x) == IsVar(x) \/ (IsConst(x) /\ (IsInt(x.const) \/ IsStr(x.const)))
Unindexed(x) == Simple(x) /\ (IsVar(x) => x.idx = << >>)

(* An argument is an expression of the caller's, ... *)
ArgumentsOK(ir, f, c) ==
  /\ c.call \in DOMAIN BuiltinIndex =>
       /\ Len(c.args) = IF c.call = "read" THEN 0 ELSE 1
       /\ \A k \in DOMAIN c.args : Simple(c.args[k])
  /\ c.call \notin DOMAIN BuiltinIndex =>
       /\ c.call # ENTRY_FUNC
       /\ \A k \in DOMAIN c.args : /\ Unindexed(c.args[k])
                                   /\ IsVar(c.args[k]) => Local(ir, f, c.args[k].var)

(* ... an operation has its instruction, ... *)
OperationOK(b) == \/ b.binary \in Selected /\ Simple(b.lhs) /\ Simple(b.rhs)
                  \/ b.binary = "BNOT" /\ b.lhs = NoOperand /\ IsVar(b.rhs)

SourceMeant(src) ==
  \/ "binary" \in DOMAIN src /\ OperationOK(src)
  \/ "array" \in DOMAIN src /\ \A k \in DOMAIN src.array : Unindexed(src.array[k])
  \/ Simple(src)

(* ... a constant is assigned to a local, and a condition is a variable.   *)
InstMeant(ir, f, i) ==
  /\ i.tag = "ASSIGN" => IF IsCall(i.src) THEN ArgumentsOK(ir, f, i.src)
                         ELSE /\ SourceMeant(i.src)
                              /\ IsConst(i.src) => i.dest.idx # << >> \/ Local(ir, f, i.dest.var)
  /\ i.tag = "RETURN" => i.ret = NoOperand \/ Simple(i.ret)
  /\ i.tag = "BRANCH" => IsVar(i.cond) /\ i.cond.idx = << >>
  /\ i.tag # "CALL"

(* Initialisers mention global variables only. *)
InitialiserMeant(ir, i) ==
  LET code == genInst(i)
  IN SourceMeant(i.src) /\ \A l \in DOMAIN code : Mentioned(code[l]) \subseteq Declared(ir)

Meant(ir) ==
  /\ \A k \in DOMAIN ir.globals : InitialiserMeant(ir, ir.globals[k])
  /\ \A f \in DOMAIN ir.funcs :
       LET func == ir.funcs[f]
           last == <<Len(func.blocks), Len(func.blocks[Len(func.blocks)].insts)>>
       IN /\ \A k, l \in DOMAIN func.params : func.params[k] = func.params[l] => k = l
          /\ \A b \in DOMAIN func.blocks : \A k \in DOMAIN func.blocks[b].insts :
               LET i == func.blocks[b].insts[k]
               IN /\ InstMeant(ir, func, i)
                  /\ func.name = ENTRY_FUNC => (i.tag = "RETURN" <=> <<b, k>> = last)

ASSUME ProgramsCompiled ==
  \A p \in Programs : WellFormedIR(p.source) /\ Meant(p.source) /\ p = Compiled(p.source)

-----------------------------------------------------------------------------
(* The refinement mapping *)

Where(i) == prog.layout[i]
Assigned(scope) == [n \in {m \in DOMAIN scope : scope[m] # None} |-> scope[n]]

(* A callee counts as called once its PARAMs have run. *)
Entering == Where(pc).block = 0
Active == IF Entering THEN Top - 1 ELSE Top

InitialisersDone == [fn |-> 0, block |-> 2, next |-> 1, vars |-> << >>]

AbsActivation(k) ==
  LET w == Where(Spot(frame, pc, k))
  IN [fn |-> w.fn, block |-> w.block, next |-> w.next, vars |-> Assigned(frame[k].symbols)]

AbsStack ==
  IF mode = "INIT" /\ pc < prog.global_len
    THEN <<[fn |-> 0, block |-> 1, next |-> Where(pc).next, vars |-> << >>]>>
  ELSE IF mode = "INIT" \/ Active < 2 THEN <<InitialisersDone>>
  ELSE [k \in 1 .. Active - 1 |-> AbsActivation(k + 1)]

(* The last VM instruction of an assigned call stores register 1. *)
Storing ==
  LET w == Where(pc)
  IN /\ ~Entering /\ w.last /\ w.fn # 0
     /\ LET inst == prog.source.funcs[w.fn].blocks[w.block].insts[w.next]
        IN inst.tag = "ASSIGN" /\ IsCall(inst.src)

AbsAnswer == IF Storing THEN [given |-> TRUE, value |-> reg[1]] ELSE [given |-> FALSE]

Sources == {p.source : p \in Programs}

IRM == INSTANCE IRMachine
         WITH IRs <- Sources, ir <- prog.source,
              stack <- AbsStack, globals <- Assigned(frame[1].symbols),
              answer <- AbsAnswer

(* The generated code does what the IR says: every step of the machine is  *)
(* a step of the abstract machine or none at all.  This is the correctness *)
(* of instruction selection, relocation, calling convention, scoping and   *)
(* the VM's handlers together.                                             *)
ImplementsIR == IRM!Spec
=============================================================================
