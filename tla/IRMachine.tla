----------------------------- MODULE IRMachine ------------------------------
(***************************************************************************)
(* What a program means, at the level of its IR: an abstract machine that  *)
(* executes one IR instruction at a time, with a stack of activations and  *)
(* no registers, code addresses or calling convention.  It is the          *)
(* specification that the bytecode generator (module Codegen) and the      *)
(* virtual machine (module VM) implement together: see CompiledProgram.    *)
(*                                                                         *)
(* The meaning given here is the language's: a variable is global if it    *)
(* has an initialiser, unless it is a parameter of the function, and local *)
(* otherwise; an argument is the value of its expression, calls return to  *)
(* where they were made, and a return of main ends the program.  A         *)
(* variable that was never assigned is empty.                              *)
(***************************************************************************)
EXTENDS IR, CYXValue, Integers, Sequences, FiniteSetsExt

CONSTANTS
  IRs,        \* the programs
  Inputs      \* the words std::cin may deliver

VARIABLES
  ir,
  stack,      \* activations [fn, block, next, vars]; fn 0 initialises the globals
  globals,    \* the assigned globals
  answer,     \* what a call has returned and its caller has not yet stored
  out,
  status

vars == <<ir, stack, globals, answer, out, status>>

NoAnswer == [given |-> FALSE]
Answer(v) == [given |-> TRUE, value |-> v]

VoidBuiltins == {"print", "println", "int", "string"}
Builtins == VoidBuiltins \cup {"read", "len"}
Comparisons == {"LT", "LE", "GT", "GE", "EQ", "NE"}

-----------------------------------------------------------------------------
(* Positions: the instruction an activation executes next *)

Blocks(fn) == IF fn = 0 THEN <<[name |-> "globals", insts |-> ir.globals]>>
                        ELSE ir.funcs[fn].blocks

(* The first instruction at or after the n-th of block b; the block after  *)
(* the last one is the end of the function.                                *)
Position(fn, b, n) ==
  LET full == {c \in b + 1 .. Len(Blocks(fn)) : Blocks(fn)[c].insts # << >>}
  IN IF b <= Len(Blocks(fn)) /\ n <= Len(Blocks(fn)[b].insts)
       THEN [fn |-> fn, block |-> b, next |-> n]
     ELSE [fn |-> fn, next |-> 1,
           block |-> IF full = {} THEN Len(Blocks(fn)) + 1 ELSE Min(full)]

BlockNamed(fn, name) == CHOOSE b \in DOMAIN Blocks(fn) : Blocks(fn)[b].name = name
FuncNamed(name) == CHOOSE f \in DOMAIN ir.funcs : ir.funcs[f].name = name

Activation(pos, scope) ==
  [fn |-> pos.fn, block |-> pos.block, next |-> pos.next, vars |-> scope]

Depth == Len(stack)
Running == stack[Depth]
AtEnd == Running.block > Len(Blocks(Running.fn))
Inst == Blocks(Running.fn)[Running.block].insts[Running.next]

(* The stack with the running activation moved. *)
GoTo(s, pos) == [s EXCEPT ![Len(s)] = Activation(pos, @.vars)]
Advance(s) == LET a == s[Len(s)] IN GoTo(s, Position(a.fn, a.block, a.next + 1))

-----------------------------------------------------------------------------
(* Variables and expressions *)

(* The scope with name holding v; an empty variable is an unassigned one. *)
Bound(scope, name, v) ==
  LET names == IF v = None THEN DOMAIN scope \ {name} ELSE DOMAIN scope \cup {name}
  IN [n \in names |-> IF n = name THEN v ELSE scope[n]]

IsLocal(name) == Running.fn # 0 /\ Local(ir, ir.funcs[Running.fn], name)
Scope(name) == IF IsLocal(name) THEN Running.vars ELSE globals
Value(name) == IF name \in DOMAIN Scope(name) THEN Scope(name)[name] ELSE None

Path(idx) == [k \in DOMAIN idx |-> IF "var" \in DOMAIN idx[k]
                                     THEN AsInt(Value(idx[k].var)) ELSE idx[k].const]
Element(x) == Walk(Value(x.var), Path(x.idx))
Operand(x) == IF IsVar(x) THEN Element(x) ELSE x.const

Apply(op, a, b) ==
  IF a = Bad \/ b = Bad THEN Bad
  ELSE CASE op \in Comparisons -> Flag(Compare(op, a, b))
         [] op \in {"LAND", "LOR"} -> Logic(op, a, b)
         [] OTHER -> Arith(op, a, b)

Expression(src) ==
  CASE "binary" \in DOMAIN src ->
         IF src.lhs = NoOperand
           THEN Negate(src.binary, Operand(src.rhs))
           ELSE Apply(src.binary, Operand(src.lhs), Operand(src.rhs))
    [] "array" \in DOMAIN src -> Arr([k \in DOMAIN src.array |-> Operand(src.array[k])])
    [] OTHER -> Operand(src)

(* Variable or array element x gets v, and the stack s otherwise. *)
Write(x, v, s) ==
  LET new == Put(Value(x.var), Path(x.idx), v)
  IN IF IsLocal(x.var)
       THEN /\ stack' = [s EXCEPT ![Depth].vars = Bound(@, x.var, new)]
            /\ UNCHANGED globals
       ELSE /\ globals' = Bound(globals, x.var, new)
            /\ stack' = s

-----------------------------------------------------------------------------
Init ==
  /\ ir \in IRs
  /\ stack = <<Activation(Position(0, 1, 1), << >>)>>
  /\ globals = << >>
  /\ answer = NoAnswer
  /\ out = << >>
  /\ status = "running"

(* The initialisers are done and main begins. *)
EnterMain ==
  /\ status = "running" /\ Running.fn = 0 /\ AtEnd
  /\ stack' = <<Activation(Position(FuncNamed(ENTRY_FUNC), 1, 1), << >>)>>
  /\ UNCHANGED <<ir, globals, answer, out, status>>

Executes(tag) == status = "running" /\ ~AtEnd /\ Inst.tag = tag
Calls(names) == Executes("ASSIGN") /\ IsCall(Inst.src) /\ ~answer.given
                /\ Inst.src.call \in names

Compute ==
  /\ Executes("ASSIGN") /\ ~IsCall(Inst.src)
  /\ Expression(Inst.src) # Bad /\ Element(Inst.dest) # Bad
  /\ Write(Inst.dest, Expression(Inst.src), Advance(stack))
  /\ UNCHANGED <<ir, answer, out, status>>

(* The arguments are evaluated by the caller and bound to the parameters.  *)
Call ==
  /\ Calls({ir.funcs[f].name : f \in DOMAIN ir.funcs})
  /\ LET callee == FuncNamed(Inst.src.call)
         params == ir.funcs[callee].params
         arg(name) == Operand(Inst.src.args[CHOOSE k \in DOMAIN params : params[k] = name])
         given == {name \in {params[k] : k \in DOMAIN params} : arg(name) # None}
     IN /\ \A name \in given : arg(name) # Bad
        /\ stack' = Append(stack, Activation(Position(callee, 1, 1),
                                             [name \in given |-> arg(name)]))
  /\ UNCHANGED <<ir, globals, answer, out, status>>

Argument == Operand(Inst.src.args[1])

Output ==
  /\ Calls({"print", "println"}) /\ Argument # Bad
  /\ out' = Append(out, Argument)
  /\ answer' = Answer(answer'.value)
  /\ UNCHANGED <<ir, stack, globals, status>>

(* int and string convert a variable in place. *)
Convert ==
  /\ Calls({"int", "string"}) /\ Argument # Bad
  /\ LET x == Inst.src.args[1]
         v == IF Inst.src.call = "int" THEN Int64(AsInt(Argument)) ELSE Str(AsStr(Argument))
     IN IF IsVar(x) THEN Write(x, v, stack) ELSE UNCHANGED <<stack, globals>>
  /\ answer' = Answer(answer'.value)
  /\ UNCHANGED <<ir, out, status>>

ReadWord ==
  /\ Calls({"read"})
  /\ \E word \in Inputs : answer' = Answer(Str(word))
  /\ UNCHANGED <<ir, stack, globals, out, status>>

Length ==
  /\ Calls({"len"}) /\ (IsStr(Argument) \/ IsArr(Argument))
  /\ answer' = Answer(Int64(IF IsStr(Argument) THEN Len(Argument.str)
                                               ELSE Len(Argument.arr)))
  /\ UNCHANGED <<ir, stack, globals, out, status>>

(* The caller stores what its call returned.  A builtin that returns       *)
(* nothing leaves the destination with any value.                          *)
Store ==
  /\ Executes("ASSIGN") /\ answer.given /\ Element(Inst.dest) # Bad
  /\ Write(Inst.dest, answer.value, Advance(stack))
  /\ answer' = NoAnswer
  /\ UNCHANGED <<ir, out, status>>

Return ==
  /\ Executes("RETURN") /\ Depth > 1
  /\ Inst.ret # NoOperand => Operand(Inst.ret) # Bad
  /\ stack' = SubSeq(stack, 1, Depth - 1)
  /\ answer' = Answer(IF Inst.ret = NoOperand THEN answer'.value ELSE Operand(Inst.ret))
  /\ UNCHANGED <<ir, globals, out, status>>

Finish ==
  /\ Executes("RETURN") /\ Depth = 1
  /\ status' = "halted"
  /\ UNCHANGED <<ir, stack, globals, answer, out>>

Jump ==
  /\ Executes("JMP")
  /\ LET fn == Running.fn
     IN stack' = GoTo(stack, Position(fn, BlockNamed(fn, Inst.to), 1))
  /\ UNCHANGED <<ir, globals, answer, out, status>>

Branch ==
  /\ Executes("BRANCH") /\ HasTruth(Operand(Inst.cond))
  /\ LET fn == Running.fn
         to == IF Truth(Operand(Inst.cond)) THEN Inst.yes ELSE Inst.no
     IN stack' = GoTo(stack, Position(fn, BlockNamed(fn, to), 1))
  /\ UNCHANGED <<ir, globals, answer, out, status>>

(* A run-time error: the instruction has no result. *)
Fails ==
  \/ Executes("ASSIGN") /\ ~IsCall(Inst.src) /\ Expression(Inst.src) = Bad
  \/ Executes("ASSIGN") /\ (IsCall(Inst.src) => answer.given) /\ Element(Inst.dest) = Bad
  \/ Calls(Builtins) /\ Inst.src.args # << >> /\ Argument = Bad
  \/ Calls({"len"}) /\ ~IsStr(Argument) /\ ~IsArr(Argument)
  \/ Executes("BRANCH") /\ ~HasTruth(Operand(Inst.cond))
  \/ Executes("RETURN") /\ Inst.ret # NoOperand /\ Operand(Inst.ret) = Bad

Fail ==
  /\ Fails
  /\ status' = "aborted"
  /\ UNCHANGED <<ir, stack, globals, answer, out>>

Next ==
  \/ EnterMain \/ Compute \/ Call \/ Output \/ Convert \/ ReadWord \/ Length
  \/ Store \/ Return \/ Finish \/ Jump \/ Branch \/ Fail

Spec == Init /\ [][Next]_vars
=============================================================================
