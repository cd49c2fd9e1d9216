--------------------------------- MODULE IR ---------------------------------
(***************************************************************************)
(* The intermediate representation between the compiler's front end and    *)
(* its bytecode generator: the classes of compiler/ir/ir_instruction.hpp   *)
(* and compiler/ir/basicblock.hpp, without the def-use links of SSA.       *)
(*                                                                         *)
(* IR programs are records                                                 *)
(*   globals  a sequence of assignments                                    *)
(*   funcs    a sequence of [name, params, blocks]; a block is a record    *)
(*            [name, insts]                                                *)
(* with instructions                                                       *)
(*   [tag |-> "ASSIGN", dest |-> var, src |-> source]                      *)
(*   [tag |-> "CALL", call |-> name, args |-> operands]                    *)
(*   [tag |-> "RETURN", ret |-> operand or NoOperand]                      *)
(*   [tag |-> "JMP", to |-> block name]                                    *)
(*   [tag |-> "BRANCH", cond |-> var, yes |-> name, no |-> name].          *)
(* A var is [var, idx], a constant [const].  A source is an operand, a     *)
(* [binary, lhs, rhs], an [array] or a [call, args].  User functions are   *)
(* named apart from builtins, as the IR generator's mangling name#argc     *)
(* does.                                                                   *)
(***************************************************************************)
NoOperand == [absent |-> TRUE]
IsVar(x) == "var" \in DOMAIN x
IsConst(x) == "const" \in DOMAIN x
IsCall(x) == "call" \in DOMAIN x

(* What names mean: the global variables, and the names that stand for a   *)
(* local in f.                                                             *)
Declared(ir) == {ir.globals[k].dest.var : k \in DOMAIN ir.globals}
Local(ir, f, name) == name \in {f.params[k] : k \in DOMAIN f.params} \/ name \notin Declared(ir)

ENTRY_FUNC == "main"
=============================================================================
