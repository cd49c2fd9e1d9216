------------------------------- MODULE Parser -------------------------------
(***************************************************************************)
(* compiler/parser.cpp: recursive descent over the tokens.  A function     *)
(* takes the position of cur_token and returns [ast, at]: the tree, and    *)
(* the position of cur_token behind it; pre_token is the one in front.     *)
(*                                                                         *)
(* Expressions: [lit], [double], [text], [id], [array], [elem, idx],       *)
(*   [call, args], [unary, arg], [binary, lhs, rhs], [assign, to]          *)
(* Statements: an expression, or [stmt |-> its keyword, ...]               *)
(***************************************************************************)
EXTENDS Lexer, CYXValue, SequencesExt

(* Positions without a token: the parser has exited at CERR or UNREACHABLE *)
(* or at a null pointer, or it goes round a loop without moving.           *)
Exited == 0
Stuck == -1

Cur(p) == IF p < 1 THEN "STOPPED" ELSE tokens[p].kw
Value(p) == IF p < 1 THEN "" ELSE tokens[p].value
Before(p) == IF p < 2 THEN "INVALID" ELSE tokens[p - 1].kw

(* INVALID comes again and again. *)
Next1(p) == IF p < 1 \/ p = Len(tokens) THEN p ELSE p + 1

eat(p, kw) == IF p < 1 THEN p ELSE IF Cur(p) = kw THEN Next1(p) ELSE Exited
optional(p, kw) == IF Cur(p) = kw THEN Next1(p) ELSE p

Parsed(ast, at) == [ast |-> ast, at |-> at]
nullptr == [null |-> TRUE]

BinaryOps == {"+", "-", "*", "/", "%", "&", "^", "|", "**", "<<", ">>", "&&", "||",
              "==", "!=", "<=", "<", ">=", ">", "=", "+=", "-=", "*=", "%=", "/="}

(* Wrong: && and || alike. *)
flatPriority(kw) ==
  CASE kw = "**" -> 16
    [] kw \in {"*", "/", "%"} -> 15
    [] kw \in {"+", "-"} -> 14
    [] kw \in {"<", "<=", ">", ">=", "==", "!="} -> 12
    [] kw \in {"&&", "||"} -> 7
    [] OTHER -> 0

opcodePriority(kw) ==
  CASE kw = "**" -> 16
    [] kw \in {"*", "/", "%"} -> 15
    [] kw \in {"+", "-"} -> 14
    [] kw \in {"<<", ">>"} -> 13
    [] kw \in {"<", "<=", ">", ">="} -> 12
    [] kw \in {"==", "!="} -> 11
    [] kw = "&" -> 10
    [] kw = "^" -> 9
    [] kw = "|" -> 8
    [] kw = "&&" -> 7
    [] kw = "||" -> 6
    [] kw = "=" -> 3
    [] OTHER -> 0

-----------------------------------------------------------------------------
RECURSIVE parse(_, _, _), parseUnaryExpr(_), parseBinaryExpr(_, _), parseArrayExpr(_, _),
          parseArrayIdExpr(_, _, _), parseArgListStmt(_, _), parseStmts(_, _, _),
          parseParamListStmt(_, _), parseMatches(_, _)

(* Every circle of calls goes through an expression or a statement. *)
expr(p, priority) == parse("expr", p, priority)
stmt(p) == parse("stmt", p, 0)

parseGroupingExpr(p) ==
  LET inner == expr(eat(p, "("), 0) IN Parsed(inner.ast, eat(inner.at, ")"))

(* A name behind "def" is not a call. *)
parseIdentifier(p) ==
  LET name == Value(p)
      q == Next1(p)
  IN CASE Cur(q) = "(" /\ Before(p) # "def" ->
            LET args == parseArgListStmt(Next1(q), << >>)
            IN Parsed([call |-> name, args |-> args.ast], eat(args.at, ")"))
       [] Cur(q) = "[" -> parseArrayIdExpr(q, name, << >>)
       [] Cur(q) \in {"++", "--"} -> Parsed([unary |-> "x" \o Cur(q), arg |-> [id |-> name]], Next1(q))
       [] OTHER -> Parsed([id |-> name], q)

parsePrimaryExpr(p) ==
  CASE Cur(p) = "IDENTIFIER" -> parseIdentifier(p)
    [] Cur(p) = "INTEGER" -> Parsed([lit |-> ParseInt(Value(p))], Next1(p))
    [] Cur(p) = "DOUBLE" -> Parsed([double |-> Value(p)], Next1(p))
    [] Cur(p) = "STRING" -> Parsed([text |-> Value(p)], Next1(p))
    [] Cur(p) = "(" -> parseGroupingExpr(p)
    [] OTHER -> Parsed(nullptr, p)

parseUnaryExpr(p) ==
  LET op == IF Cur(p) \in {"++", "--"} THEN Cur(p) \o "x" ELSE Cur(p)
      arg == parseUnaryExpr(Next1(p))
  IN IF Cur(p) \in {"-", "!", "~", "++", "--"} THEN Parsed([unary |-> op, arg |-> arg.ast], arg.at)
     ELSE parsePrimaryExpr(p)

Operation(op, lhs, rhs) == IF op = "=" THEN [assign |-> lhs, to |-> rhs]
                           ELSE [binary |-> op, lhs |-> lhs, rhs |-> rhs]

(* An operator takes what binds as strong as itself on its left. *)
parseBinaryExpr(lhs, priority) ==
  LET op == Cur(lhs.at)
      rhs == expr(Next1(lhs.at), opcodePriority(op) + 1)
  IN IF op \notin BinaryOps \/ priority > opcodePriority(op) THEN lhs
     ELSE parseBinaryExpr(Parsed(Operation(op, lhs.ast, rhs.ast), rhs.at), priority)

(* An array literal drops what was in front of it. *)
parseExpr(p, priority) ==
  LET lhs == parseUnaryExpr(p)
  IN IF Cur(lhs.at) = "[" THEN parseArrayExpr(Next1(lhs.at), << >>) ELSE parseBinaryExpr(lhs, priority)

parseArrayExpr(p, content) ==
  LET x == stmt(p)
      all == IF x.ast = nullptr THEN content ELSE Append(content, x.ast)
  IN IF Cur(x.at) = "," THEN parseArrayExpr(Next1(x.at), all) ELSE Parsed([array |-> all], eat(x.at, "]"))

parseArrayIdExpr(p, name, index) ==
  LET x == stmt(Next1(p))
  IN IF Cur(p) # "[" THEN Parsed([elem |-> name, idx |-> index], p)
     ELSE parseArrayIdExpr(eat(x.at, "]"), name, Append(index, x.ast))

(* Commas are skipped wherever they are. *)
parseArgListStmt(p, args) ==
  LET arg == expr(p, 0)
  IN CASE Cur(p) \in {")", "STOPPED"} -> Parsed(args, p)
       [] Cur(p) = "," -> parseArgListStmt(Next1(p), args)
       [] OTHER -> IF arg.at = p THEN Parsed(args, Stuck)
                   ELSE parseArgListStmt(arg.at, Append(args, arg.ast))

-----------------------------------------------------------------------------
(* Statements up to the token end. *)
parseStmts(p, end, stmts) ==
  LET s == stmt(p)
  IN IF Cur(p) \in {end, "STOPPED"} THEN Parsed(stmts, p)
     ELSE IF s.at = p THEN Parsed(stmts, Stuck) ELSE parseStmts(s.at, end, Append(stmts, s.ast))

parseBlockStmt(p) ==
  LET stmts == parseStmts(eat(p, "{"), "}", << >>) IN Parsed(stmts.ast, eat(stmts.at, "}"))

parseElseStmt(p) == IF Cur(p) = "else" THEN parseBlockStmt(Next1(p)) ELSE Parsed(<< >>, p)

parseIfStmt(p) ==
  LET cond == expr(eat(Next1(p), "("), 0)
      true == parseBlockStmt(eat(cond.at, ")"))
      false == parseElseStmt(true.at)
  IN Parsed([stmt |-> "if", cond |-> cond.ast, true |-> true.ast, false |-> false.ast], false.at)

parseWhileStmt(p) ==
  LET cond == expr(eat(Next1(p), "("), 0)
      block == parseBlockStmt(eat(cond.at, ")"))
  IN Parsed([stmt |-> "while", cond |-> cond.ast, block |-> block.ast], block.at)

parseForStmt(p) ==
  LET init == expr(eat(Next1(p), "("), 0)
      cond == expr(eat(init.at, ";"), 0)
      final == expr(eat(cond.at, ";"), 0)
      block == parseBlockStmt(eat(final.at, ")"))
  IN Parsed([stmt |-> "for", init |-> init.ast, cond |-> cond.ast, final |-> final.ast,
             block |-> block.ast], block.at)

parseReturnStmt(p) ==
  LET retval == expr(Next1(p), 0) IN Parsed([stmt |-> "return", retval |-> retval.ast], retval.at)

parseParamListStmt(p, params) ==
  CASE Cur(p) = "," -> parseParamListStmt(Next1(p), params)
    [] Cur(p) = "IDENTIFIER" -> parseParamListStmt(Next1(p), Append(params, Value(p)))
    [] OTHER -> Parsed(params, eat(p, ")"))

parseFuncDeclStmt(p) ==
  LET name == parsePrimaryExpr(Next1(p))
      params == parseParamListStmt(eat(name.at, "("), << >>)
      block == parseBlockStmt(params.at)
  IN Parsed([stmt |-> "def", name |-> name.ast, params |-> params.ast, block |-> block.ast], block.at)

parseMatches(p, matches) ==
  LET cond == parsePrimaryExpr(eat(p, "("))
      block == parseBlockStmt(eat(eat(cond.at, ")"), "=>"))
      all == Append(matches, [cond |-> cond.ast, block |-> block.ast])
  IN IF Cur(p) \in {"}", "STOPPED"} THEN Parsed(matches, p)
     ELSE IF Cur(block.at) = "," THEN parseMatches(Next1(block.at), all) ELSE Parsed(all, block.at)

parseSwitchStmt(p) ==
  LET cond == parsePrimaryExpr(eat(Next1(p), "("))
      matches == parseMatches(eat(eat(cond.at, ")"), "{"), << >>)
  IN Parsed([stmt |-> "switch", cond |-> cond.ast, matches |-> matches.ast], eat(matches.at, "}"))

(* A path that is no string is a null pointer. *)
parseImportStmt(p) ==
  LET path == parsePrimaryExpr(Next1(p))
  IN IF Cur(Next1(p)) = "STRING" THEN Parsed([stmt |-> "import", path |-> path.ast], path.at)
     ELSE Parsed(nullptr, IF p < 1 THEN p ELSE Exited)

parseStmt(p) ==
  LET s == CASE Cur(p) = "def" -> parseFuncDeclStmt(p)
             [] Cur(p) = "if" -> parseIfStmt(p)
             [] Cur(p) = "for" -> parseForStmt(p)
             [] Cur(p) = "while" -> parseWhileStmt(p)
             [] Cur(p) = "import" -> parseImportStmt(p)
             [] Cur(p) = "return" -> parseReturnStmt(p)
             [] Cur(p) \in {"break", "continue"} -> Parsed([stmt |-> Cur(p)], Next1(p))
             [] Cur(p) = "switch" -> parseSwitchStmt(p)
             [] OTHER -> expr(p, 0)
  IN Parsed(s.ast, optional(s.at, ";"))

parse(rule, p, priority) == IF rule = "expr" THEN parseExpr(p, priority) ELSE parseStmt(p)
=============================================================================
