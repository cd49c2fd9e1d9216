------------------------------ MODULE FrontEnd -------------------------------
(***************************************************************************)
(* From a text to the intermediate representation: compiler/lexer.cpp,     *)
(* compiler/parser.cpp and the visitors of expressions in                  *)
(* compiler/ir/ir_generator.cpp one after the other, as main.cpp calls     *)
(* them.  The parser asks the lexer for one token at a time and nothing    *)
(* flows back, so here all tokens are read before they are parsed.         *)
(*                                                                         *)
(* A program whose one function has a straight body goes on to the         *)
(* generator; of others the text and the tree are of interest.             *)
(***************************************************************************)
EXTENDS Parser, Expressions, Meaning

CONSTANT Sources    \* [program |-> statements, sep |-> what is between two tokens]

VARIABLES
  source,
  tree,       \* what the parser returns
  rest,       \* the statements of main that are not visited yet
  gen         \* the generator, see Expressions

vars == <<text, pos, tokens, phase, source, tree, rest, gen>>

Init ==
  /\ source \in Sources
  /\ \E words \in {Stmts(source.program)} : text = TextOf(words, source.sep) \o source.sep
  /\ LexerInit
  /\ tree = << >> /\ rest = << >> /\ gen = NoGenerator

Parse ==
  /\ phase = "parsing"
  /\ LET parsed == parseStmts(1, "INVALID", << >>)
     IN /\ tree' = parsed.ast
        /\ phase' = CASE parsed.at = Exited -> "exited"
                      [] parsed.at = Stuck -> "endless"
                      [] OTHER -> "parsed"
  /\ UNCHANGED <<text, pos, tokens, source, rest, gen>>

-----------------------------------------------------------------------------
IsReturn(s) == "stmt" \in DOMAIN s /\ s.stmt = "return"

(* One function, and no statement in it but expressions and a last return. *)
Straight(program) ==
  /\ Len(program) = 1 /\ "stmt" \in DOMAIN program[1] /\ program[1].stmt = "def"
  /\ LET block == program[1].block
     IN \A k \in DOMAIN block : "stmt" \in DOMAIN block[k] => IsReturn(block[k]) /\ k = Len(block)

VisitTree ==
  /\ phase = "parsed" /\ Straight(tree)
  /\ rest' = tree[1].block
  /\ phase' = "visiting"
  /\ UNCHANGED <<text, pos, tokens, source, tree, gen>>

VisitStmt ==
  /\ phase = "visiting" /\ rest # << >> /\ Going(gen)
  /\ gen' = visit(gen, Head(rest))
  /\ rest' = Tail(rest)
  /\ UNCHANGED <<text, pos, tokens, phase, source, tree>>

Visited == phase = "visiting" /\ rest = << >> /\ Going(gen)

(* Without -no-code-simplify and with it. *)
SimplifyIR ==
  /\ Visited
  /\ gen' \in {simplifyIR(gen), gen}
  /\ phase' = "generated"
  /\ UNCHANGED <<text, pos, tokens, source, tree, rest>>

(* With -remove-unused-code and without it. *)
RemoveUnusedVarDef ==
  /\ phase = "generated"
  /\ gen' \in {removeUnusedVarDef(gen), gen}
  /\ phase' = "done"
  /\ UNCHANGED <<text, pos, tokens, source, tree, rest>>

Next ==
  \/ NextToken /\ UNCHANGED <<source, tree, rest, gen>>
  \/ Parse
  \/ VisitTree
  \/ VisitStmt
  \/ SimplifyIR
  \/ RemoveUnusedVarDef

Spec == Init /\ [][Next]_vars

-----------------------------------------------------------------------------
(* What instructions do, over the terms of Meaning. *)
OperandValue(s, o) ==
  IF "const" \in DOMAIN o THEN Known(o.const)
  ELSE LET v == gen.vars[o.var]
           plain(i) == IF "const" \in DOMAIN i THEN Known(i.const) ELSE ValueOf(s.env, gen.vars[i.var].name)
       IN IF v.elem THEN ElementOf(s.env, v.name, [k \in DOMAIN v.index |-> plain(v.index[k])])
          ELSE ValueOf(s.env, v.name)

OperandValues(s, os) == [k \in DOMAIN os |-> OperandValue(s, os[k])]

SrcValue(s, src) ==
  CASE "binary" \in DOMAIN src ->
         Got(s, IF "none" \in DOMAIN src.lhs THEN Unary(src.binary, OperandValue(s, src.rhs))
                ELSE Binary(src.binary, OperandValue(s, src.lhs), OperandValue(s, src.rhs)))
    [] "call" \in DOMAIN src ->
         LET after == Called(s, src.call, OperandValues(s, src.args)) IN Got(after, AnswerOf(after))
    [] "array" \in DOMAIN src -> Got(s, Term("array", OperandValues(s, src.array)))
    [] OTHER -> Got(s, OperandValue(s, src))

Done(s, inst) ==
  IF inst.tag = "RETURN" THEN [s EXCEPT !.ret = OperandValue(s, inst.ret)]
  ELSE LET src == SrcValue(s, inst.src)
           dest == gen.vars[inst.dest]
       IN [src.s EXCEPT !.env = Changed(@, dest.name, OperandValues(s, dest.index), src.v)]

Executed == Does(FoldLeft(Done, Silent, gen.insts))

-----------------------------------------------------------------------------
(* Wherever blanks and comments are put, the lexer finds the tokens that   *)
(* were written, and the end of the text behind them: nothing runs         *)
(* together, and no comment eats what is next to it (lexer.cpp:78).        *)
ReadAsWritten ==
  LET words == Stmts(source.program)
  IN phase # "lexing" => tokens = Append(words, [kw |-> "INVALID", value |-> ""])

(* The tree has the operands where precedence and parentheses put them,    *)
(* for all pairs of operators and all statements (parser.cpp:160).         *)
GroupedAsWritten == phase \notin {"lexing", "parsing"} => tree = source.program

(* What the visitors pass each other through cur_value and tmp_vars is     *)
(* what they mean: after each statement, with temporaries folded or not,   *)
(* with unused definitions removed or not, the instructions make the calls *)
(* that the statements make, in their order, with the same arguments, and  *)
(* return the same (ir_generator.cpp:8, 851, 937).                         *)
MeaningKept ==
  phase \in {"visiting", "generated", "done"} /\ Going(gen) =>
    Executed = MeaningOf(SubSeq(tree[1].block, 1, Len(tree[1].block) - Len(rest)))

(* Every program that is written as the grammar says is read and parsed   *)
(* to its end, and as far as it is straight becomes instructions: no loop  *)
(* of the lexer or the parser waits for a token that does not come         *)
(* (lexer.cpp:38, 291, parser.cpp:259), and no visitor exits or crashes.   *)
Compiles == phase \notin {"endless", "exited"} /\ Going(gen)
=============================================================================
