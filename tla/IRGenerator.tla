---------------------------- MODULE IRGenerator -----------------------------
(***************************************************************************)
(* How the front end lays out statements in basic blocks: the statement    *)
(* visitors of compiler/ir/ir_generator.cpp, simplifyIR and fixEdges.      *)
(*                                                                         *)
(* A program is a sequence of statements                                   *)
(*   Do(e)  an expression statement;  Return, Break, Continue              *)
(*   If(c, then, else)   While(c, body)   For(init, c, step, body)         *)
(* and the expressions e, c, init, step are names: what they compute is    *)
(* abstracted, an instruction [tag |-> "EVAL", what |-> e] stands for all  *)
(* the assignments and calls an expression gives, and a condition may      *)
(* come out either way.  A block is the sequence of its instructions; its  *)
(* number is its place in the function's list of blocks.                   *)
(***************************************************************************)
EXTENDS IRBlocks, SequencesExt, FiniteSetsExt

Do(e) == [kind |-> "do", what |-> e]
Return == [kind |-> "return"]
Break == [kind |-> "break"]
Continue == [kind |-> "continue"]
If(c, then, else) == [kind |-> "if", cond |-> c, then |-> then, else |-> else]
While(c, body) == [kind |-> "while", cond |-> c, body |-> body]
For(init, c, step, body) ==
  [kind |-> "for", init |-> init, cond |-> c, step |-> step, body |-> body]

-----------------------------------------------------------------------------
(* The state of the generator: the blocks of the function, the edges       *)
(* (pres and succs together), cur_basic_block, loop_stack, the jumps that  *)
(* wait for the end of the innermost loop, as <<block, index>>, and        *)
(* whether an empty list was asked for its last element.                   *)

Start == [blocks |-> << << >> >>, edges |-> {}, cur |-> 1, loops |-> << >>,
          breaks |-> {}, continues |-> {}, undefined |-> FALSE]

LastBlock(g) == Len(g.blocks)

(* Wrong: predecessor and successor swapped. *)
LINKSwapped(g, p, s) == [g EXCEPT !.edges = @ \cup {<<s, p>>}]

LINK(g, p, s) == [g EXCEPT !.edges = @ \cup {<<p, s>>}]

(* newBasicBlock, linked from p and made the current block. *)
Open(g, p) == LET b == LastBlock(g) + 1
              IN LINK([g EXCEPT !.blocks = Append(@, << >>), !.cur = b], p, b)

Add(g, b, i) == [g EXCEPT !.blocks[b] = Append(@, i)]
Emit(g, i) == Add(g, g.cur, i)

Fix(g, jumps, to) ==
  FoldSet(LAMBDA j, acc : [acc EXCEPT !.blocks[j[1]][j[2]].to = to], g, jumps)

EnterLoop(g) == [g EXCEPT !.breaks = {}, !.continues = {}]
LeaveLoop(g, outer) == [g EXCEPT !.breaks = outer.breaks, !.continues = outer.continues,
                                 !.loops = outer.loops]

(* The jump is first aimed at the innermost loop, then fixed at its end. *)
JumpOut(g) == Emit(g, Jmp(g.cur, Last(g.loops)))
Here(g) == <<g.cur, Len(g.blocks[g.cur]) + 1>>

visitBreakStmt(g) == [JumpOut(g) EXCEPT !.breaks = @ \cup {Here(g)}]
visitContinueStmt(g) == [JumpOut(g) EXCEPT !.continues = @ \cup {Here(g)}]

RECURSIVE visit(_, _)

visitBlockStmt(g, stmts) == FoldLeft(visit, g, stmts)

(* Wrong: an arm that returned is not told apart. *)
DoneNever(insts) == FALSE

Done(insts) == Last(insts).tag \in {"RETURN", "JMP"}

(* The arms are generated first, the branch and the jump over the false    *)
(* arm then: the jump is added to the block the true arm began with,       *)
(* whatever block it ended in.                                             *)
visitIfStmt(g, s) ==
  LET c == Emit(Open(g, g.cur), Eval(s.cond))
      t == Open(c, c.cur)
      thenEnd == visitBlockStmt(t, s.then)
      f == Open(thenEnd, c.cur)
      elseEnd == visitBlockStmt(f, s.else)
      out == LINK(Open(elseEnd, thenEnd.cur), elseEnd.cur, LastBlock(elseEnd) + 1)
      b == Add(out, c.cur, Branch(s.cond, t.cur, f.cur))
  IN IF b.blocks[t.cur] = << >> THEN [b EXCEPT !.undefined = TRUE]
     ELSE IF Done(b.blocks[t.cur]) THEN b
     ELSE Add(b, t.cur, Jmp(t.cur, out.cur))

(* Wrong: a continue goes to the condition, past the step. *)
visitForContinuesAtCond(g, s) ==
  LET i == Emit(Open(EnterLoop(g), g.cur), Eval(s.init))
      c == Emit(Open([i EXCEPT !.loops = Append(@, i.cur)], i.cur), Eval(s.cond))
      body == Open(c, c.cur)
      bodyEnd == visitBlockStmt(body, s.body)
      final == Open(bodyEnd, bodyEnd.cur)
      looped == Emit(Emit(LINK(final, final.cur, c.cur), Eval(s.step)), Jmp(Unset, c.cur))
      out == Open(looped, c.cur)
      b == Add(out, c.cur, Branch(s.cond, body.cur, out.cur))
  IN LeaveLoop(Fix(Fix(b, b.breaks, out.cur), b.continues, c.cur), g)

visitForStmt(g, s) ==
  LET i == Emit(Open(EnterLoop(g), g.cur), Eval(s.init))
      c == Emit(Open([i EXCEPT !.loops = Append(@, i.cur)], i.cur), Eval(s.cond))
      body == Open(c, c.cur)
      bodyEnd == visitBlockStmt(body, s.body)
      final == Open(bodyEnd, bodyEnd.cur)
      looped == Emit(Emit(LINK(final, final.cur, c.cur), Eval(s.step)), Jmp(Unset, c.cur))
      out == Open(looped, c.cur)
      b == Add(out, c.cur, Branch(s.cond, body.cur, out.cur))
  IN LeaveLoop(Fix(Fix(b, b.breaks, out.cur), b.continues, final.cur), g)

(* A continue keeps its first target, the condition. *)
visitWhileStmt(g, s) ==
  LET w == EnterLoop(g)
      c == Emit(Open([w EXCEPT !.loops = Append(@, LastBlock(w) + 1)], w.cur), Eval(s.cond))
      body == Open(c, c.cur)
      bodyEnd == visitBlockStmt(body, s.body)
      looped == LINK(Emit(bodyEnd, Jmp(Unset, c.cur)), bodyEnd.cur, c.cur)
      out == Open(looped, c.cur)
      b == Add(out, c.cur, Branch(s.cond, body.cur, out.cur))
  IN LeaveLoop(Fix(b, b.breaks, out.cur), g)

visit(g, s) ==
  CASE s.kind = "do" -> Emit(g, Eval(s.what))
    [] s.kind = "return" -> Emit(g, Ret)
    [] s.kind = "break" -> visitBreakStmt(g)
    [] s.kind = "continue" -> visitContinueStmt(g)
    [] s.kind = "if" -> visitIfStmt(g, s)
    [] s.kind = "while" -> visitWhileStmt(g, s)
    [] s.kind = "for" -> visitForStmt(g, s)

visitTree(program) == visitBlockStmt(Start, program)

-----------------------------------------------------------------------------
(* simplifyIR: of two equal jumps in a row the second stays, and whatever  *)
(* else follows a jump is dropped, to the end of the block.  Folding a     *)
(* temporary into its use is below what an EVAL shows.                     *)

simplifyBlock(insts) ==
  LET step(acc, i) ==
        IF acc.dropping THEN acc
        ELSE IF acc.kept = << >> \/ Last(acc.kept).tag # "JMP"
          THEN [acc EXCEPT !.kept = Append(@, i)]
        ELSE IF i.tag # "JMP" THEN [acc EXCEPT !.dropping = TRUE]
        ELSE IF i.to = Last(acc.kept).to THEN [acc EXCEPT !.kept = Append(Front(@), i)]
        ELSE [acc EXCEPT !.kept = Append(@, i)]
  IN FoldLeft(step, [kept |-> << >>, dropping |-> FALSE], insts).kept

simplifyIR(g) == [g EXCEPT !.blocks = [b \in DOMAIN @ |-> simplifyBlock(@[b])]]

(* fixEdges: a block that ends in a return, or in a jump elsewhere, does   *)
(* not go on with the edge's target; the jump's own target is linked from  *)
(* the block the jump names, which must be set by then.                    *)
fixEdges(g) ==
  LET leaves(e) == LET insts == g.blocks[e[1]]
                   IN insts # << >> /\ \/ Last(insts).tag = "RETURN"
                                       \/ Last(insts).tag = "JMP" /\ Last(insts).to # e[2]
      removed == {e \in g.edges : leaves(e)}
      jumps == {Last(g.blocks[e[1]]) : e \in {r \in removed : Last(g.blocks[r[1]]).tag = "JMP"}}
  IN [g EXCEPT !.edges = (@ \ removed) \cup {<<j.from, j.to>> : j \in jumps},
               !.undefined = @ \/ \E j \in jumps : j.from = Unset]

Generate(program, simplify) ==
  fixEdges(IF simplify THEN simplifyIR(visitTree(program)) ELSE visitTree(program))
=============================================================================
