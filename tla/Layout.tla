------------------------------- MODULE Layout -------------------------------
(***************************************************************************)
(* Which IR instruction each instruction of the linked code comes from, by *)
(* the order in which the bytecode generator emits them and the number of  *)
(* instructions each gives.  It uses no address that relocation computes.  *)
(***************************************************************************)
EXTENDS Codegen, FiniteSets, FiniteSetsExt

(* Where instruction i of the linked code comes from: function fn, block   *)
(* (0 is the FUNC and PARAM header), IR instruction next, and whether it   *)
(* is the last VM instruction of that IR instruction.                      *)
Origin(fn, block, insts) ==
  FlattenSeq([k \in DOMAIN insts |->
    LET n == Len(genInst(insts[k]))
    IN [j \in 1 .. n |-> [fn |-> fn, block |-> block, next |-> k, last |-> j = n]]])

HeaderOrigin(fn, f) ==
  [j \in 1 .. Len(f.params) + 1 |-> [fn |-> fn, block |-> 0, next |-> j, last |-> FALSE]]

(* The blocks of ir2VmInst, with origins for instructions. *)
OriginBlocks(ir) ==
  <<Origin(0, 1, ir.globals)>>
    \o FlattenSeq([f \in DOMAIN ir.funcs |->
                     <<HeaderOrigin(f, ir.funcs[f])>>
                       \o [b \in DOMAIN ir.funcs[f].blocks |->
                             Origin(f, b, ir.funcs[f].blocks[b].insts)]])

LayoutOf(ir) == LET flat == FlattenSeq(OriginBlocks(ir))
                IN [i \in 0 .. Len(flat) - 1 |-> flat[i + 1]]
=============================================================================
