------------------------------- MODULE Lexer --------------------------------
(***************************************************************************)
(* compiler/lexer.cpp: the tokens of a text.  The position in the text is  *)
(* pos, 1 for the first character; row and column, which only messages     *)
(* mention, are left out.  A keyword or an operator is its own spelling.   *)
(***************************************************************************)
EXTENDS Integers, Sequences

VARIABLES
  text,
  pos,
  tokens,     \* what nextToken has returned so far
  phase       \* of the compilation

(* isspace; a vertical tab, which it takes too, cannot be written here.    *)
Blanks == {" ", "\n", "\t", "\r", "\f"}
Quotes == {"'", "\""}
CharsOf(s) == {SubSeq(s, k, k) : k \in 1 .. Len(s)}
Numerals == CharsOf("0123456789")
Letters == CharsOf("abcdefghijklmnopqrstuvwxyzABCDEFGHIJKLMNOPQRSTUVWXYZ_")

Words == {"if", "else", "for", "while", "switch", "break", "continue",
          "true", "false", "def", "return", "import"}
Pairs == {"!=", "&&", "||", "++", "+=", "--", "-=", "**", "*=", "/=", "%=",
          "==", "=>", "<=", "<<", ">=", ">>"}
Singles == CharsOf("(){}[]^~;:,!&|+-*/%=<>")

(* Behind the last character advance stays at EOF. *)
EndOfText == Len(text) + 1
Spelled(p, q) == SubSeq(text, p, IF q > EndOfText THEN Len(text) ELSE q - 1)
CharAt(p) == Spelled(p, p + 1)
PairAt(p) == Spelled(p, p + 2)

Token(kw, value, next) == [kw |-> kw, value |-> value, next |-> next]

(* A loop that waits for a mark the text does not have. *)
Endless == Token("ENDLESS", "", 0)

(* The first position from p on that is not of these characters. *)
Behind(p, chars) ==
  CHOOSE q \in p .. EndOfText :
    CharAt(q) \notin chars /\ \A r \in p .. q - 1 : CharAt(r) \in chars

(* The first position from p on where the text is s, 0 if there is none.   *)
Find(p, s) ==
  LET at(q) == Spelled(q, q + Len(s)) = s
  IN IF \A q \in p .. EndOfText : ~at(q) THEN 0
     ELSE CHOOSE q \in p .. EndOfText : at(q) /\ \A r \in p .. q - 1 : ~at(r)

-----------------------------------------------------------------------------
RECURSIVE Begin(_)

skipSingleLineComment(p) == IF Find(p, "\n") = 0 THEN EndOfText ELSE Find(p, "\n")

(* Wrong: the mark's second character stays. *)
skipToMark(p) == IF Find(p, "*/") = 0 THEN 0 ELSE Find(p, "*/") + 1

skipMultiLineComment(p) == IF Find(p, "*/") = 0 THEN 0 ELSE Find(p, "*/") + 2

(* Where the next token begins, behind blanks and comments. *)
Begin(p) ==
  LET q == Behind(p, Blanks)
  IN CASE CharAt(q) = "#" -> Begin(skipSingleLineComment(q + 1))
       [] PairAt(q) = "//" -> Begin(skipSingleLineComment(q + 2))
       [] PairAt(q) = "/*" ->
            LET end == skipMultiLineComment(q + 2) IN IF end = 0 THEN 0 ELSE Begin(end)
       [] OTHER -> q

(* One point makes a DOUBLE, a second one ends it. *)
number(p) ==
  LET whole == Behind(p, Numerals)
      end == IF CharAt(whole) = "." THEN Behind(whole + 1, Numerals) ELSE whole
  IN Token(IF end = whole THEN "INTEGER" ELSE "DOUBLE", Spelled(p, end), end)

identifier(p) ==
  LET end == Behind(p, Letters \cup Numerals)
      word == Spelled(p, end)
  IN IF word \in Words THEN Token(word, "", end) ELSE Token("IDENTIFIER", word, end)

string(p) ==
  LET end == Find(p + 1, CharAt(p))
  IN IF end = 0 THEN Endless ELSE Token("STRING", Spelled(p + 1, end), end + 1)

(* INVALID stands for the end of the text and for any other character.     *)
nextToken(p) ==
  LET q == Begin(p)
  IN CASE q = 0 -> Endless
       [] CharAt(q) \in Quotes -> string(q)
       [] CharAt(q) \in Letters -> identifier(q)
       [] CharAt(q) \in Numerals -> number(q)
       [] PairAt(q) \in Pairs -> Token(PairAt(q), "", q + 2)
       [] PairAt(q) \notin Pairs /\ CharAt(q) \in Singles -> Token(CharAt(q), "", q + 1)
       [] OTHER -> Token("INVALID", "", q)

-----------------------------------------------------------------------------
LexerInit ==
  /\ pos = 1
  /\ tokens = << >>
  /\ phase = "lexing"

NextToken ==
  /\ phase = "lexing"
  /\ LET token == nextToken(pos)
     IN /\ tokens' = Append(tokens, [kw |-> token.kw, value |-> token.value])
        /\ pos' = token.next
        /\ phase' = CASE token.kw = "INVALID" -> "parsing"
                      [] token.kw = "ENDLESS" -> "endless"
                      [] OTHER -> "lexing"
  /\ UNCHANGED text
=============================================================================
