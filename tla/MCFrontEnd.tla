----------------------------- MODULE MCFrontEnd ------------------------------
(* Model checking the front end on programs written in several ways. *)
EXTENDS FrontEnd

Lit(n) == [lit |-> n]
Id(x) == [id |-> x]
Txt(s) == [text |-> s]
Bin(op, l, r) == [binary |-> op, lhs |-> l, rhs |-> r]
Un(op, e) == [unary |-> op, arg |-> e]
Let(x, e) == [assign |-> Id(x), to |-> e]
CallOf(f, args) == [call |-> f, args |-> args]
At(x, idx) == [elem |-> x, idx |-> idx]
ArrayOf(content) == [array |-> content]
Ret(e) == [stmt |-> "return", retval |-> e]
Def(f, params, block) == [stmt |-> "def", name |-> Id(f), params |-> params, block |-> block]

A == Id("a")
B == Id("b")
X == Id("x")

-----------------------------------------------------------------------------
(* Any two operators, grouped either way. *)
Operators == UNION {Levels[k] : k \in 2 .. Len(Levels)}
Grouped ==
  {Let("x", Bin(op, Bin(oq, A, B), Lit(3))) : op \in Operators, oq \in Operators \ {"**"}}
  \cup {Let("x", Bin(op, A, Bin(oq, B, Lit(3)))) : op \in Operators \ {"**"}, oq \in Operators}
  \cup {Let("x", Bin(op, Un(u, A), Un(v, B))) : op \in Operators, u \in {"-", "!", "--x", "x++"}, v \in {"-", "~", "++x"}}
  \cup {Un(u, Bin(op, A, B)) : op \in Operators, u \in {"-", "!"}}
  \cup {Bin(op, X, Bin(oq, A, B)) : op \in Levels[1] \ {"="}, oq \in Operators}

(* Statements of every kind, in each other. *)
Body == {<< >>, <<Let("x", Lit(1))>>, <<[stmt |-> "break"]>>, <<CallOf("f", <<A, Bin("+", B, Lit(1))>>), [stmt |-> "continue"]>>}
Structured ==
  LET nested ==
        {[stmt |-> "if", cond |-> Bin("<", A, Lit(3)), true |-> t, false |-> f] : t \in Body, f \in Body}
        \cup {[stmt |-> "while", cond |-> Bin("&&", A, Un("!", B)), block |-> t] : t \in Body}
        \cup {[stmt |-> "for", init |-> Let("i", Lit(0)), cond |-> Bin("<=", Id("i"), A),
               final |-> Un("x++", Id("i")), block |-> t] : t \in Body}
        \cup {[stmt |-> "switch", cond |-> A, matches |-> [k \in 1 .. n |-> [cond |-> Lit(k), block |-> t]]]
                : n \in 0 .. 2, t \in Body}
  IN {<<Def(f, ps, <<s, Ret(ArrayOf(<<A, Txt("it's /* no */ comment")>>))>>), Let("x", At("v", <<Lit(1), B>>))>>
        : f \in {"f"}, ps \in {<< >>, <<"p", "q">>}, s \in nested}
     \cup {<<[stmt |-> "import", path |-> Txt("lib.cyx")], [stmt |-> "while", cond |-> A, block |-> <<s>>]>> : s \in nested}

-----------------------------------------------------------------------------
(* Expressions without effects, and one that reads. *)
Values == {Lit(7), Txt("s"), A, Un("-", Lit(7)), Un("~", B), Bin("+", A, Lit(2)), Bin("*", Bin("-", A, B), Bin("/", B, A)),
           Un("-", Bin("<<", A, Un("!", B))), Bin("+", CallOf("read", << >>), CallOf("len", <<A>>)), At("v", <<Lit(0)>>),
           ArrayOf(<<A, Lit(1), Bin("+", A, B)>>)}

Actions == {Let("x", e) : e \in Values}
  \cup {Bin("+=", X, e) : e \in {Lit(7), A, Bin("+", A, Lit(2)), Un("-", Lit(7)), At("v", <<Lit(0)>>)}}
  \cup {CallOf("print", <<e>>) : e \in Values}
  \cup {[assign |-> At("v", <<e>>), to |-> B] : e \in {Lit(1), A, Bin("+", A, Lit(1))}}
  \cup {Let("b", Un(u, A)) : u \in {"++x", "x++", "--x", "x--"}}
  \cup {Un(u, B) : u \in {"++x", "x--"}}
  \cup {Bin("*=", At("v", <<Lit(1)>>), Bin("-", A, B)), CallOf("println", <<Un("x++", A), Bin("-", B, Lit(1)), X>>)}

(* An array literal is no left operand, and two statements are enough for  *)
(* what one may leave to the next.                                         *)
Main(one, two, last) ==
  <<Def("main", << >>, <<Let("a", CallOf("read", << >>)), Let("b", Lit(2)), Let("x", A), Let("v", ArrayOf(<<A, B>>)),
                         one, two, CallOf("print", <<A, B, Id("v")>>)>> \o last)>>

Lasts == {<< >>, <<CallOf("print", <<X>>)>>, <<Ret(X)>>}

MCSources ==
  {[program |-> <<s>>, sep |-> sep] : s \in Grouped, sep \in {""}}
  \cup {[program |-> p, sep |-> sep] : p \in Structured, sep \in {"", "\n", " /*if*/", "#/*\n"}}
  \cup {[program |-> Main(s, t, last), sep |-> " "] : s \in Actions, t \in Actions, last \in Lasts}
  \cup {[program |-> Main(s, s, << >>), sep |-> sep] : s \in Actions, sep \in {"", " //\"\n", " /**/"}}
=============================================================================
