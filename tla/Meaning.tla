------------------------------ MODULE Meaning -------------------------------
(***************************************************************************)
(* References for the front end: how a program is written, and what the    *)
(* body of a function means.                                               *)
(*                                                                         *)
(* Programs are the trees of module Parser.  Written out, an operand is in *)
(* parentheses where the order of operators demands it, and operators of   *)
(* one level group to the left.                                            *)
(*                                                                         *)
(* A value is a term: [value] of a literal, or [op, args].  Expressions    *)
(* are evaluated from left to right.  What a body does is the sequence of  *)
(* its calls, with their arguments, and what it returns.                   *)
(***************************************************************************)
EXTENDS CYXValue, Integers, Sequences, SequencesExt, FiniteSetsExt, TLC

Sym(kw) == [kw |-> kw, value |-> ""]
Name(x) == [kw |-> "IDENTIFIER", value |-> x]

(* From the weakest to the strongest. *)
Levels == <<{"=", "+=", "-=", "*=", "/=", "%="}, {"||"}, {"&&"}, {"|"}, {"^"}, {"&"}, {"==", "!="},
            {"<", "<=", ">", ">="}, {"<<", ">>"}, {"+", "-"}, {"*", "/", "%"}, {"**"}>>
Level(op) == CHOOSE k \in DOMAIN Levels : op \in Levels[k]
Operand == Len(Levels) + 1

LevelOf(e) == CASE "binary" \in DOMAIN e -> Level(e.binary)
                [] "assign" \in DOMAIN e -> Level("=")
                [] OTHER -> Operand

RECURSIVE Written(_), WrittenStmt(_), List(_), Stmts(_), Matches(_), Indices(_), Eval(_, _)

Group(e, level) == IF LevelOf(e) < level THEN <<Sym("(")>> \o Written(e) \o <<Sym(")")>> ELSE Written(e)

List(es) == IF es = << >> THEN << >> ELSE IF Len(es) = 1 THEN Written(es[1])
            ELSE Written(es[1]) \o <<Sym(",")>> \o List(Tail(es))

Indices(idx) == IF idx = << >> THEN << >>
                ELSE <<Sym("[")>> \o Written(idx[1]) \o <<Sym("]")>> \o Indices(Tail(idx))

Written(e) ==
  CASE "lit" \in DOMAIN e -> <<[kw |-> "INTEGER", value |-> ToString(e.lit)]>>
    [] "text" \in DOMAIN e -> <<[kw |-> "STRING", value |-> e.text]>>
    [] "double" \in DOMAIN e -> <<[kw |-> "DOUBLE", value |-> e.double]>>
    [] "id" \in DOMAIN e -> <<Name(e.id)>>
    [] "array" \in DOMAIN e -> <<Sym("[")>> \o List(e.array) \o <<Sym("]")>>
    [] "elem" \in DOMAIN e -> <<Name(e.elem)>> \o Indices(e.idx)
    [] "call" \in DOMAIN e -> <<Name(e.call), Sym("(")>> \o List(e.args) \o <<Sym(")")>>
    [] "unary" \in DOMAIN e ->
         CASE e.unary \in {"x++", "x--"} -> Written(e.arg) \o <<Sym(SubSeq(e.unary, 2, 3))>>
           [] e.unary \in {"++x", "--x"} -> <<Sym(SubSeq(e.unary, 1, 2))>> \o Written(e.arg)
           [] OTHER -> <<Sym(e.unary)>> \o Group(e.arg, Operand)
    [] "binary" \in DOMAIN e ->
         Group(e.lhs, Level(e.binary)) \o <<Sym(e.binary)>> \o Group(e.rhs, Level(e.binary) + 1)
    [] "assign" \in DOMAIN e -> Written(e.assign) \o <<Sym("=")>> \o Group(e.to, Level("=") + 1)

Parens(s) == <<Sym("(")>> \o s \o <<Sym(")")>>

(* A semicolon stands only in front of a statement that could be taken for *)
(* the continuation of the one before it.                                  *)
Continuing == UNION {Levels[k] : k \in DOMAIN Levels} \cup {"(", "[", "++", "--"}
Separated(ss) == IF Len(ss) > 1 /\ WrittenStmt(ss[2])[1].kw \in Continuing THEN <<Sym(";")>> ELSE << >>
Stmts(ss) == IF ss = << >> THEN << >> ELSE WrittenStmt(ss[1]) \o Separated(ss) \o Stmts(Tail(ss))

Braces(ss) == <<Sym("{")>> \o Stmts(ss) \o <<Sym("}")>>

Match(m) == Parens(Written(m.cond)) \o <<Sym("=>")>> \o Braces(m.block)
Matches(ms) == IF ms = << >> THEN << >> ELSE IF Len(ms) = 1 THEN Match(ms[1])
               ELSE Match(ms[1]) \o <<Sym(",")>> \o Matches(Tail(ms))

WrittenStmt(s) ==
  CASE "stmt" \notin DOMAIN s -> Written(s)
    [] "stmt" \in DOMAIN s ->
       CASE s.stmt = "return" -> <<Sym("return")>> \o Written(s.retval)
         [] s.stmt \in {"break", "continue"} -> <<Sym(s.stmt)>>
         [] s.stmt = "import" -> <<Sym("import")>> \o Written(s.path)
         [] s.stmt = "while" -> <<Sym("while")>> \o Parens(Written(s.cond)) \o Braces(s.block)
         [] s.stmt = "for" ->
              <<Sym("for")>> \o Parens(Written(s.init) \o <<Sym(";")>> \o Written(s.cond) \o <<Sym(";")>>
                                       \o Written(s.final)) \o Braces(s.block)
         [] s.stmt = "if" ->
              <<Sym("if")>> \o Parens(Written(s.cond)) \o Braces(s.true)
              \o (IF s.false = << >> THEN << >> ELSE <<Sym("else")>> \o Braces(s.false))
         [] s.stmt = "def" ->
              <<Sym("def")>> \o Written(s.name) \o Parens(List([k \in DOMAIN s.params |-> [id |-> s.params[k]]]))
              \o Braces(s.block)
         [] s.stmt = "switch" ->
              <<Sym("switch")>> \o Parens(Written(s.cond)) \o <<Sym("{")>>
              \o Matches(s.matches) \o <<Sym("}")>>

(* The text of tokens with sep between them, or nothing where none is      *)
(* needed: two words would be one, two operators another one.              *)
Spelling(token) == CASE token.kw = "STRING" -> "\"" \o token.value \o "\""
                     [] token.kw \in {"IDENTIFIER", "INTEGER", "DOUBLE"} -> token.value
                     [] OTHER -> token.kw

First(s) == SubSeq(s, 1, 1)
Final(s) == SubSeq(s, Len(s), Len(s))
Signs == {SubSeq(s, 1, 1) : s \in {"(", ")", "{", "}", "[", "]", "^", "~", ";", ":", ",", "\"", "!", "&", "|",
                                   "+", "-", "*", "/", "%", "=", "<", ">"}}
Merging == {"!=", "==", "=>", "&&", "||", "++", "+=", "--", "-=", "**", "*=", "/=", "//", "/*", "%=",
            "<=", "<<", ">=", ">>"}

Apart(s, t) == (Final(s) \notin Signs /\ First(t) \notin Signs) \/ Final(s) \o First(t) \in Merging

TextOf(words, sep) ==
  LET spelled == [k \in DOMAIN words |-> Spelling(words[k])]
      gap(k) == IF k = 1 THEN "" ELSE IF sep # "" THEN sep
                ELSE IF Apart(spelled[k - 1], spelled[k]) THEN " " ELSE ""
      upTo[k \in 0 .. Len(words)] == IF k = 0 THEN "" ELSE upTo[k - 1] \o gap(k) \o spelled[k]
  IN upTo[Len(words)]

-----------------------------------------------------------------------------
Known(v) == [value |-> v]
Term(op, args) == [op |-> op, args |-> args]
Nothing == Term("nothing", << >>)

IsKnown(t) == "value" \in DOMAIN t

Unary(op, t) ==
  IF ~IsKnown(t) THEN Term(op, <<t>>)
  ELSE Known(IF op = "-" THEN Int64(-t.value.int) ELSE Negate(IF op = "!" THEN "LNOT" ELSE "BNOT", t.value))

Binary(op, s, t) == IF op = "-" /\ s = Known(Int64(0)) THEN Unary("-", t) ELSE Term(op, <<s, t>>)

(* A name that was never given a value. *)
ValueOf(env, x) == IF x \in DOMAIN env THEN env[x] ELSE Nothing
ElementOf(env, x, idx) == Term("elem", <<ValueOf(env, x)>> \o idx)
Changed(env, x, idx, v) ==
  (x :> IF idx = << >> THEN v ELSE Term("put", <<ValueOf(env, x)>> \o idx \o <<v>>)) @@ env

Silent == [env |-> << >>, calls |-> << >>, ret |-> Nothing]

Called(s, f, args) == [s EXCEPT !.calls = Append(@, [call |-> f, args |-> args])]
AnswerOf(s) == Term("answer", <<Known(Int64(Len(s.calls)))>>)

Got(s, v) == [s |-> s, v |-> v]

EvalAll(s, es) ==
  FoldLeft(LAMBDA acc, e : LET x == Eval(acc.s, e) IN Got(x.s, Append(acc.v, x.v)), Got(s, << >>), es)

EvalSelf(s, op, x) ==
  LET old == ValueOf(s.env, x)
      new == Binary(IF op \in {"++x", "x++"} THEN "+" ELSE "-", old, Known(Int64(1)))
  IN Got([s EXCEPT !.env = Changed(@, x, << >>, new)], IF op \in {"x++", "x--"} THEN old ELSE new)

(* Assigns to a variable or an element. *)
Give(s, lhs, v) ==
  IF "id" \in DOMAIN lhs THEN Got([s EXCEPT !.env = Changed(@, lhs.id, << >>, v)], v)
  ELSE LET idx == EvalAll(s, lhs.idx) IN Got([idx.s EXCEPT !.env = Changed(@, lhs.elem, idx.v, v)], v)

EvalBinary(s, e) ==
  LET lhs == Eval(s, e.lhs)
      rhs == Eval(lhs.s, e.rhs)
      v == Binary(IF Level(e.binary) = 1 THEN SubSeq(e.binary, 1, 1) ELSE e.binary, lhs.v, rhs.v)
  IN IF Level(e.binary) = 1 THEN Give(rhs.s, e.lhs, v) ELSE Got(rhs.s, v)

Eval(s, e) ==
  CASE "lit" \in DOMAIN e -> Got(s, Known(Int64(e.lit)))
    [] "text" \in DOMAIN e -> Got(s, Known(Str(e.text)))
    [] "id" \in DOMAIN e -> Got(s, ValueOf(s.env, e.id))
    [] "array" \in DOMAIN e -> LET all == EvalAll(s, e.array) IN Got(all.s, Term("array", all.v))
    [] "elem" \in DOMAIN e -> LET all == EvalAll(s, e.idx) IN Got(all.s, ElementOf(all.s.env, e.elem, all.v))
    [] "call" \in DOMAIN e ->
         LET all == EvalAll(s, e.args)
             after == Called(all.s, e.call, all.v)
         IN Got(after, AnswerOf(after))
    [] "unary" \in DOMAIN e ->
         IF e.unary \in {"++x", "--x", "x++", "x--"} THEN EvalSelf(s, e.unary, e.arg.id)
         ELSE LET arg == Eval(s, e.arg) IN Got(arg.s, Unary(e.unary, arg.v))
    [] "binary" \in DOMAIN e -> EvalBinary(s, e)
    [] "assign" \in DOMAIN e -> LET to == Eval(s, e.to) IN Give(to.s, e.assign, to.v)
    [] "stmt" \in DOMAIN e -> LET ret == Eval(s, e.retval) IN Got([ret.s EXCEPT !.ret = ret.v], ret.v)

Does(s) == [calls |-> s.calls, ret |-> s.ret]

(* What a body does. *)
MeaningOf(body) == Does(EvalAll(Silent, body).s)
=============================================================================
