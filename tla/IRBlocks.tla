------------------------------ MODULE IRBlocks ------------------------------
(***************************************************************************)
(* The instructions of a basic block as far as control goes: what          *)
(* compiler/ir/ir_instruction.hpp calls ASSIGN and CALL is one kind, EVAL, *)
(* named for the expression it comes from.  Blocks are numbered in the     *)
(* order of their creation.                                                *)
(***************************************************************************)
EXTENDS Integers, Sequences

Eval(e) == [tag |-> "EVAL", what |-> e]
Ret == [tag |-> "RETURN"]
(* from is the jump's "block" field, which loops do not set. *)
Jmp(from, to) == [tag |-> "JMP", from |-> from, to |-> to]
Unset == 0
Branch(c, yes, no) == [tag |-> "BRANCH", cond |-> c, yes |-> yes, no |-> no]

Instruction ==
  [tag : {"EVAL"}, what : STRING] \cup [tag : {"RETURN"}]
    \cup [tag : {"JMP"}, from : Int, to : Int]
    \cup [tag : {"BRANCH"}, cond : STRING, yes : Int, no : Int]

TargetsOf(i) == CASE i.tag = "JMP" -> {i.to}
                  [] i.tag = "BRANCH" -> {i.yes, i.no}
                  [] OTHER -> {}

(* Leaves its block for good, so that the next block does not follow. *)
Leaves(i) == i.tag \in {"JMP", "RETURN", "BRANCH"}
=============================================================================
