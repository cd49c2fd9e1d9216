---------------------------- MODULE Expressions -----------------------------
(***************************************************************************)
(* What expressions become: the expression visitors of class IRGenerator   *)
(* in compiler/ir/ir_generator.cpp, the folding of temporaries in          *)
(* simplifyIR, and removeUnusedVarDef, on the body of one function.        *)
(*                                                                         *)
(* A visitor leaves its result in one of two places: a literal in          *)
(* cur_value, anything else as a variable on the stack tmp_vars, and who   *)
(* called it looks there.  The state of the visitors is a record:          *)
(*   vars    the IRVar objects; one is known by its place here, 0 is none  *)
(*   insts   the instructions of the block                                 *)
(*   tmp_vars, cur_value, var_cnt, check   the members (check_var_exist)   *)
(*   table   the symbols of the function                                   *)
(*   fate    "going", "exited" at CERR or UNREACHABLE, "crashed"           *)
(* There is no other function to call, and no variable outside.            *)
(*                                                                         *)
(* Operands are [var |-> its place] and [const |-> a value].               *)
(***************************************************************************)
EXTENDS CYXValue, Integers, Sequences, SequencesExt, TLC

(* What is_array, index, is_ir_gen, name, def and use hold. *)
IRVar(name, gen, def) ==
  [name |-> name, gen |-> gen, def |-> def, use |-> {}, elem |-> FALSE, index |-> << >>]

NoGenerator ==
  [vars |-> << >>, insts |-> << >>, tmp_vars |-> << >>, cur_value |-> None, var_cnt |-> 0,
   check |-> FALSE, table |-> << >>, fate |-> "going"]

Buildins == {"print", "println", "read", "int", "double", "string", "len"}

token2IROp(kw) ==
  CASE kw \in {"+=", "++x", "x++"} -> "+"
    [] kw \in {"-=", "--x", "x--"} -> "-"
    [] kw = "*=" -> "*"
    [] kw = "/=" -> "/"
    [] kw = "%=" -> "%"
    [] OTHER -> kw

Going(g) == g.fate = "going"
Dies(g, how) == IF Going(g) THEN [g EXCEPT !.fate = how] ELSE g

New(g, v) == [g EXCEPT !.vars = Append(@, v)]
Newest(g) == Len(g.vars)
Push(g, id) == [g EXCEPT !.tmp_vars = Append(@, id)]
addInst(g, inst) == [g EXCEPT !.insts = Append(@, inst)]
Assign(dest, src) == [tag |-> "ASSIGN", dest |-> dest, src |-> src]
Result(g, id) == [g |-> g, var |-> id]
Checked(g) == [g EXCEPT !.check = TRUE]

(* Wrong: the flag stays. *)
StillChecked(g) == g

Unchecked(g) == [g EXCEPT !.check = FALSE]

(* A use that stands for def. *)
addUse(g, def, id) == [g EXCEPT !.vars[def].use = @ \cup {id}]
NewUse(g, name, gen, def) == addUse(New(g, IRVar(name, gen, def)), def, Newest(g) + 1)

newVariable(g) ==
  LET name == "t" \o ToString(g.var_cnt)
      made == New(g, IRVar(name, TRUE, 0))
  IN Push([made EXCEPT !.var_cnt = @ + 1, !.table = (name :> Newest(made)) @@ @], Newest(made))

(* The variable on top, or a use of what it stands for. *)
consumeVariable(g, force) ==
  LET top == Last(g.tmp_vars)
      v == g.vars[top]
      popped == [g EXCEPT !.tmp_vars = Front(@)]
  IN IF g.tmp_vars = << >> THEN Result(Dies(g, "crashed"), 0)
     ELSE IF ~force \/ v.elem THEN Result(popped, top)
     ELSE Result(NewUse(popped, v.name, v.gen, IF v.def = 0 THEN top ELSE v.def), Newest(g) + 1)

(* The literal if there is one, else the variable. *)
consumeOperand(g) ==
  LET v == consumeVariable(g, TRUE)
  IN IF ~IsNone(g.cur_value)
       THEN [g |-> [g EXCEPT !.cur_value = None], operand |-> [const |-> g.cur_value]]
     ELSE [g |-> v.g, operand |-> [var |-> v.var]]

-----------------------------------------------------------------------------
RECURSIVE visit(_, _), visitAll(_, _, _)

visitChecked(g, e) == Unchecked(visit(Checked(g), e))

(* x++ keeps the old value in a new variable first. *)
keepBefore(g, self, change) ==
  LET old == newVariable(NewUse(g, g.vars[self].name, FALSE, self))
  IN addInst(addInst(old, Assign(Newest(old), [var |-> Newest(g) + 1])), change)

visitSelf(g, op) ==
  LET self == consumeVariable(g, TRUE)
      copied == NewUse(self.g, self.g.vars[self.var].name, FALSE, self.var)
      change == Assign(self.var, [binary |-> token2IROp(op), lhs |-> [var |-> Newest(copied)],
                                  rhs |-> [const |-> Int64(1)]])
      used == NewUse(copied, copied.vars[self.var].name, FALSE, self.var)
  IN IF ~Going(self.g) THEN self.g
     ELSE IF op \in {"x++", "x--"} THEN keepBefore(copied, self.var, change)
     ELSE addInst(Push(used, Newest(used)), change)

(* A literal is computed here and now. *)
Folded(op, v) == IF op # "-" THEN Negate(IF op = "!" THEN "LNOT" ELSE "BNOT", v)
                 ELSE IF IsInt(v) THEN Int64(-v.int) ELSE Bad

visitOperator(g, op) ==
  LET arg == consumeOperand(g)
      folded == IF "const" \in DOMAIN arg.operand THEN Folded(op, arg.operand.const) ELSE None
      src == IF folded # None THEN [const |-> folded]
             ELSE [binary |-> op, rhs |-> arg.operand,
                   lhs |-> IF op = "-" THEN [const |-> Int64(0)] ELSE [none |-> TRUE]]
      dest == newVariable(arg.g)
  IN CASE ~Going(arg.g) -> arg.g
       [] folded = Bad -> Dies(arg.g, "exited")
       [] OTHER -> addInst(dest, Assign(Newest(dest), src))

visitUnaryExpr(g, e) ==
  LET arg == visitChecked(g, e.arg)
  IN IF ~Going(arg) THEN arg
     ELSE IF e.unary \in {"++x", "--x", "x++", "x--"} THEN visitSelf(arg, e.unary)
     ELSE visitOperator(arg, e.unary)

(* x op= e reads x again, and leaves nothing on the stack. *)
visitOpAssign(g, e) ==
  LET origin == consumeVariable(visitChecked(g, e.lhs), FALSE)
      dest == consumeVariable(Push(origin.g, origin.var), TRUE)
      lhs == consumeVariable(Push(dest.g, origin.var), TRUE)
      rhs == consumeOperand(visitChecked(lhs.g, e.rhs))
  IN IF ~Going(origin.g) THEN origin.g
     ELSE addInst(rhs.g, Assign(dest.var, [binary |-> token2IROp(e.binary), lhs |-> [var |-> lhs.var],
                                           rhs |-> rhs.operand]))

visitBinaryExpr(g, e) ==
  LET lhs == consumeOperand(visitChecked(g, e.lhs))
      rhs == consumeOperand(visitChecked(lhs.g, e.rhs))
      dest == newVariable(rhs.g)
  IN IF e.binary \in {"+=", "-=", "*=", "/=", "%="} THEN visitOpAssign(g, e)
     ELSE addInst(dest, Assign(Newest(dest), [binary |-> e.binary, lhs |-> lhs.operand, rhs |-> rhs.operand]))

visitAssignExpr(g, e) ==
  LET src == consumeOperand(visitChecked(g, e.to))
      dest == consumeVariable(visit(src.g, e.assign), FALSE)
  IN addInst(dest.g, Assign(dest.var, src.operand))

(* A name nobody knows is an error where a value is wanted, a new variable *)
(* elsewhere.                                                              *)
visitIdentifierExpr(g, e) ==
  LET known == e.id \in DOMAIN g.table
      var == New(g, IRVar(e.id, FALSE, IF known THEN g.table[e.id] ELSE 0))
  IN CASE known -> Push(var, Newest(var))
       [] ~known /\ g.check -> Dies(g, "exited")
       [] OTHER -> Push([var EXCEPT !.table = (e.id :> Newest(var)) @@ @, !.check = FALSE], Newest(var))

(* The results of some expressions, one after the other. *)
visitAll(g, exprs, checked) ==
  FoldLeft(LAMBDA acc, e : LET x == consumeOperand(IF checked THEN visitChecked(acc.g, e) ELSE visit(acc.g, e))
                           IN [g |-> x.g, operands |-> Append(acc.operands, x.operand)],
           [g |-> g, operands |-> << >>], exprs)

visitFuncCallExpr(g, e) ==
  LET args == visitAll(g, e.args, TRUE)
      dest == newVariable(args.g)
  IN IF e.call \notin Buildins THEN Dies(g, "exited")
     ELSE addInst(dest, Assign(Newest(dest), [call |-> e.call, args |-> args.operands]))

visitArrayExpr(g, e) ==
  LET content == visitAll(g, e.array, FALSE)
      dest == newVariable(content.g)
  IN addInst(dest, Assign(Newest(dest), [array |-> content.operands]))

visitArrayIdExpr(g, e) ==
  LET index == visitAll(g, e.idx, FALSE)
      var == New(index.g, [IRVar(e.elem, FALSE, 0) EXCEPT !.elem = TRUE, !.index = index.operands])
  IN Push(var, Newest(var))

visitReturnStmt(g, e) ==
  LET ret == consumeOperand(visit(g, e.retval)) IN addInst(ret.g, [tag |-> "RETURN", ret |-> ret.operand])

visit(g, e) ==
  LET kind == DOMAIN e
  IN CASE ~Going(g) -> g
       [] Going(g) /\ "null" \in kind -> Dies(g, "crashed")
       [] Going(g) /\ "lit" \in kind -> [g EXCEPT !.cur_value = Int64(e.lit)]
       [] Going(g) /\ "text" \in kind -> [g EXCEPT !.cur_value = Str(e.text)]
       [] Going(g) /\ "id" \in kind -> visitIdentifierExpr(g, e)
       [] Going(g) /\ "unary" \in kind -> visitUnaryExpr(g, e)
       [] Going(g) /\ "binary" \in kind -> visitBinaryExpr(g, e)
       [] Going(g) /\ "assign" \in kind -> visitAssignExpr(g, e)
       [] Going(g) /\ "call" \in kind -> visitFuncCallExpr(g, e)
       [] Going(g) /\ "array" \in kind -> visitArrayExpr(g, e)
       [] Going(g) /\ "elem" \in kind -> visitArrayIdExpr(g, e)
       [] Going(g) /\ "stmt" \in kind -> visitReturnStmt(g, e)

-----------------------------------------------------------------------------
(* Wrong: the temporary may have another name. *)
foldsAnything(vars, cur, next) ==
  /\ cur.tag = "ASSIGN" /\ next.tag = "ASSIGN" /\ "var" \in DOMAIN next.src
  /\ vars[cur.dest].def = 0 /\ vars[cur.dest].gen

(* t0 = ..., x = t0 *)
folds(vars, cur, next) ==
  /\ cur.tag = "ASSIGN" /\ next.tag = "ASSIGN" /\ "var" \in DOMAIN next.src
  /\ vars[cur.dest].def = 0 /\ vars[cur.dest].gen
  /\ vars[next.src.var].name = vars[cur.dest].name

(* Neighbours, from the front. *)
simplifyIR(g) ==
  LET pass(done, inst) ==
        IF done # << >> /\ folds(g.vars, Last(done), inst)
          THEN Append(Front(done), [inst EXCEPT !.src = Last(done).src])
        ELSE Append(done, inst)
  IN [g EXCEPT !.insts = FoldLeft(pass, << >>, @)]

killUse(vars, def, id) == IF def = 0 THEN vars ELSE [vars EXCEPT ![def].use = @ \ {id}]

unused(vars, inst) ==
  LET dest == vars[inst.dest] IN ~dest.elem /\ dest.def = 0 /\ dest.use = {}

(* Of a binary the left operand alone is taken off the list of uses. *)
forgotten(vars, src) ==
  LET operand == IF "binary" \in DOMAIN src THEN src.lhs ELSE src
  IN IF "var" \in DOMAIN operand THEN killUse(vars, vars[operand.var].def, operand.var) ELSE vars

(* Backwards, to the first instruction that is no assignment. *)
removeUnusedVarDef(g) ==
  LET look(acc, inst) ==
        CASE acc.stopped \/ inst.tag # "ASSIGN" -> [acc EXCEPT !.stopped = TRUE, !.insts = <<inst>> \o @]
          [] OTHER -> IF ~unused(acc.vars, inst) \/ "call" \in DOMAIN inst.src
                        THEN [acc EXCEPT !.insts = <<inst>> \o @]
                      ELSE [acc EXCEPT !.vars = forgotten(@, inst.src)]
      done == FoldLeft(look, [vars |-> g.vars, insts |-> << >>, stopped |-> FALSE], Reverse(g.insts))
  IN [g EXCEPT !.vars = done.vars, !.insts = done.insts]
=============================================================================
