----------------------------- MODULE IRPrograms -----------------------------
(***************************************************************************)
(* Sample programs, in the IR the front end builds for them, with the      *)
(* source they come from.  They are inputs of the runs: small enough to be *)
(* executed for every input word, chosen so that every opcode, nested and  *)
(* recursive calls, arrays, globals and run-time errors occur.             *)
(***************************************************************************)
EXTENDS Codegen

V(name) == [var |-> name, idx |-> << >>]
At(name, idx) == [var |-> name, idx |-> idx]
K(n) == [const |-> Int64(n)]
T(s) == [const |-> Str(s)]

Set(x, src) == [tag |-> "ASSIGN", dest |-> V(x), src |-> src]
SetAt(x, idx, src) == [tag |-> "ASSIGN", dest |-> At(x, idx), src |-> src]
Bin(op, a, b) == [binary |-> op, lhs |-> a, rhs |-> b]
CallOf(f, args) == [call |-> f, args |-> args]
Return(x) == [tag |-> "RETURN", ret |-> x]
Goto(b) == [tag |-> "JMP", to |-> b]
If(x, yes, no) == [tag |-> "BRANCH", cond |-> V(x), yes |-> yes, no |-> no]
BB(name, insts) == [name |-> name, insts |-> insts]
Fun(name, params, blocks) == [name |-> name, params |-> params, blocks |-> blocks]
Main(blocks) == Fun(ENTRY_FUNC, << >>, blocks)
Program(globals, funcs) == [globals |-> globals, funcs |-> funcs]

ReadInt(x, t) == <<Set(x, CallOf("read", << >>)), Set(t, CallOf("int", <<V(x)>>))>>

(* def main() { n = read() int(n) println(fib(n)) }                        *)
(* def fib(n) { if (n < 2) { return n } return fib(n - 1) + fib(n - 2) }   *)
Fibonacci == Program(<< >>,
  <<Main(<<BB("L1", ReadInt("n", "t0") \o
                    <<Set("t1", CallOf("fib#1", <<V("n")>>)),
                      Set("t2", CallOf("println", <<V("t1")>>)),
                      Return(NoOperand)>>)>>),
    Fun("fib#1", <<"n">>,
        <<BB("L2", <<Set("t3", Bin("LT", V("n"), K(2))), If("t3", "L3", "L5")>>),
          BB("L3", <<Return(V("n"))>>),
          BB("L5", <<Set("t4", Bin("SUB", V("n"), K(1))),
                     Set("t5", CallOf("fib#1", <<V("t4")>>)),
                     Set("t6", Bin("SUB", V("n"), K(2))),
                     Set("t7", CallOf("fib#1", <<V("t6")>>)),
                     Set("t8", Bin("ADD", V("t5"), V("t7"))),
                     Return(V("t8"))>>)>>)>>)

(* step = 1  def main() { i = 0 n = read() int(n)                          *)
(*   while (i < n) { s = add(i, 2, n) println(s) i = i + step } }          *)
(* def add(a, b, c) { d = pick(c, a) return d + b }                        *)
(* def pick(c, a) { if (c == a && c != 9) { return c } return a }          *)
Loop == Program(<<Set("step", K(1))>>,
  <<Main(<<BB("L1", <<Set("i", K(0))>> \o ReadInt("n", "t0")),
           BB("L2", <<Set("t1", Bin("LT", V("i"), V("n"))), If("t1", "L3", "L4")>>),
           BB("L3", <<Set("s", CallOf("add#3", <<V("i"), K(2), V("n")>>)),
                      Set("t2", CallOf("println", <<V("s")>>)),
                      Set("i", Bin("ADD", V("i"), V("step"))),
                      Goto("L2")>>),
           BB("L4", <<Return(NoOperand)>>)>>),
    Fun("add#3", <<"a", "b", "c">>,
        <<BB("L5", <<Set("d", CallOf("pick#2", <<V("c"), V("a")>>)),
                     Set("t3", Bin("ADD", V("d"), V("b"))),
                     Return(V("t3"))>>)>>),
    Fun("pick#2", <<"c", "a">>,
        <<BB("L6", <<Set("t4", Bin("EQ", V("c"), V("a"))),
                     Set("t5", Bin("NE", V("c"), K(9))),
                     Set("t6", Bin("LAND", V("t4"), V("t5"))),
                     If("t6", "L7", "L8")>>),
          BB("L7", <<Return(V("c"))>>),
          BB("L8", <<Return(V("a"))>>)>>)>>)

(* g = [7, "x"]  h = 3                                                     *)
(* def main() { k = read() int(k) a = [k, 5, g] a[0] = 4 g[1] = a[1]       *)
(*   println(a[k]) b = a[2] b = b + k println(len(b)) h = k c = ~k         *)
(*   string(c) println(c + g[1]) clear() }                                 *)
(* def clear() { h = g  return 0 }                                         *)
Arrays == Program(
  <<Set("g", [array |-> <<K(7), T("x")>>]), Set("h", K(3))>>,
  <<Main(<<BB("L1", ReadInt("k", "t0") \o
             <<Set("a", [array |-> <<V("k"), K(5), V("g")>>]),
               SetAt("a", <<[const |-> 0]>>, K(4)),
               SetAt("g", <<[const |-> 1]>>, At("a", <<[const |-> 1]>>)),
               Set("t1", CallOf("println", <<At("a", <<[var |-> "k"]>>)>>)),
               Set("b", At("a", <<[const |-> 2]>>)),
               Set("b", Bin("ADD", V("b"), V("k"))),
               Set("t2", CallOf("len", <<V("b")>>)),
               Set("t3", CallOf("println", <<V("t2")>>)),
               Set("h", V("k")),
               Set("c", Bin("BNOT", NoOperand, V("k"))),
               Set("t4", CallOf("string", <<V("c")>>)),
               Set("t5", Bin("ADD", V("c"), At("g", <<[const |-> 1]>>))),
               Set("t6", CallOf("println", <<V("t5")>>)),
               Set("t7", CallOf("clear#0", << >>)),
               Return(NoOperand)>>)>>),
    Fun("clear#0", << >>, <<BB("L2", <<Set("h", V("g")), Return(K(0))>>)>>)>>)

(* def main() { n = read() int(n) println(10 / n) m = 6 % n                *)
(*   if (m > 0) { println(twice(m)) } }                                    *)
(* def twice(n) { return n * 2 }                                           *)
Divide == Program(<< >>,
  <<Main(<<BB("L1", ReadInt("n", "t0") \o
                    <<Set("t1", Bin("DIV", K(10), V("n"))),
                      Set("t2", CallOf("println", <<V("t1")>>)),
                      Set("m", Bin("MOD", K(6), V("n"))),
                      Set("t3", Bin("GT", V("m"), K(0))),
                      If("t3", "L2", "L3")>>),
           BB("L2", <<Set("t4", CallOf("twice#1", <<V("m")>>)),
                      Set("t5", CallOf("println", <<V("t4")>>))>>),
           BB("L3", <<Return(NoOperand)>>)>>),
    Fun("twice#1", <<"n">>,
        <<BB("L4", <<Set("t6", Bin("MUL", V("n"), K(2))), Return(V("t6"))>>)>>)>>)

(* def main() { n = read() s = n + twice("a") println(s) print(len(s)) }   *)
(* def twice(a) { b = a * 2 string(b) return b }                           *)
Words == Program(<< >>,
  <<Main(<<BB("L1", <<Set("n", CallOf("read", << >>)),
                      Set("t1", CallOf("twice#1", <<T("a")>>)),
                      Set("s", Bin("ADD", V("n"), V("t1"))),
                      Set("t2", CallOf("println", <<V("s")>>)),
                      Set("t3", CallOf("len", <<V("s")>>)),
                      Set("t4", CallOf("print", <<V("t3")>>)),
                      Return(NoOperand)>>)>>),
    Fun("twice#1", <<"a">>,
        <<BB("L2", <<Set("b", Bin("MUL", V("a"), K(2))),
                     Set("t5", CallOf("string", <<V("b")>>)),
                     Return(V("b"))>>)>>)>>)

(* g = 2  def main() { println(twice(g)) }   def twice(n) { return n * 2 } *)
GlobalArgument == Program(<<Set("g", K(2))>>,
  <<Main(<<BB("L1", <<Set("t0", CallOf("read", << >>)),
                      Set("t1", CallOf("twice#1", <<V("g")>>)),
                      Set("t2", CallOf("println", <<V("t1")>>)),
                      Return(NoOperand)>>)>>),
    Fun("twice#1", <<"n">>,
        <<BB("L2", <<Set("t3", Bin("MUL", V("n"), K(2))), Return(V("t3"))>>)>>)>>)

(* def main() { n = read() int(n) if (n == 1) { return 1 } println("on") } *)
EarlyReturn == Program(<< >>,
  <<Main(<<BB("L1", ReadInt("n", "t0") \o
                    <<Set("t1", Bin("EQ", V("n"), K(1))), If("t1", "L2", "L3")>>),
           BB("L2", <<Return(K(1))>>),
           BB("L3", <<Set("t2", CallOf("println", <<T("on")>>)),
                      Return(NoOperand)>>)>>)>>)

(* x = twice(4)  def main() { println(x) }  def twice(n) { return n * 2 }  *)
GlobalCall == Program(<<Set("x", CallOf("twice#1", <<K(4)>>))>>,
  <<Main(<<BB("L1", <<Set("t2", CallOf("println", <<V("x")>>)),
                      Return(NoOperand)>>)>>),
    Fun("twice#1", <<"n">>,
        <<BB("L2", <<Set("t3", Bin("MUL", V("n"), K(2))), Return(V("t3"))>>)>>)>>)

(* def main() { a = !read() }, with the operand converted first            *)
Negation == Program(<< >>,
  <<Main(<<BB("L1", ReadInt("a", "t0") \o
                    <<Set("b", Bin("LNOT", NoOperand, V("a"))),
                      Set("t1", CallOf("println", <<V("b")>>)),
                      Return(NoOperand)>>)>>)>>)

(* def main() { a = [1, 2] println(same(a[1])) }  def same(x) { return x } *)
ElementArgument == Program(<< >>,
  <<Main(<<BB("L1", <<Set("a", [array |-> <<K(1), K(2)>>]),
                      Set("t1", CallOf("same#1", <<At("a", <<[const |-> 1]>>)>>)),
                      Set("t2", CallOf("println", <<V("t1")>>)),
                      Return(NoOperand)>>)>>),
    Fun("same#1", <<"x">>, <<BB("L2", <<Return(V("x"))>>)>>)>>)

(* def main() { n = read() int(n) i = n + 0                                *)
(*   while (i < 3) { i = i + 1 s = i + 100 } println(i) }                  *)
LoopHead == Program(<< >>,
  <<Main(<<BB("L1", ReadInt("n", "t1") \o <<Set("i", Bin("ADD", V("n"), K(0)))>>),
           BB("L2", <<Set("t3", Bin("LT", V("i"), K(3))), If("t3", "L3", "L4")>>),
           BB("L3", <<Set("i", Bin("ADD", V("i"), K(1))),
                      Set("s", Bin("ADD", V("i"), K(100))),
                      Goto("L2")>>),
           BB("L4", <<Set("t6", CallOf("println", <<V("i")>>)), Return(NoOperand)>>)>>)>>)

(* A family of programs: every pair of statements of main around a branch, *)
(* with every body of the function they may call.                          *)
(*   g = 1  r = [2, 0]                                                     *)
(*   def main() { a = 1 s if (a) { t } println(a) println(g) println(r) }  *)
(*   def f(n) { b return n }   def h(n, m) { return n + m }                *)
Zero == <<[const |-> 0]>>
By(x) == <<[var |-> x]>>

Statements == {
  Set("a", K(0)),
  Set("a", V("g")),
  Set("g", V("a")),
  Set("a", Bin("SUB", V("g"), V("a"))),
  Set("a", Bin("LT", V("a"), V("g"))),
  Set("r", Bin("ADD", V("r"), V("a"))),
  SetAt("r", By("a"), K(7)),
  SetAt("r", Zero, V("a")),
  Set("a", At("r", By("g"))),
  Set("r", [array |-> <<V("a"), K(1), V("r")>>]),
  Set("c", CallOf("string", <<V("a")>>)),
  Set("a", CallOf("f#1", <<V("a")>>)),
  Set("c", CallOf("f#1", <<K(0)>>)),
  Set("a", CallOf("h#2", <<V("a"), K(1)>>)) }

Bodies == {
  Set("n", K(3)),
  Set("a", V("n")),
  Set("g", V("n")),
  SetAt("r", By("n"), V("g")),
  Set("n", Bin("BAND", V("g"), V("n"))),
  Set("n", CallOf("h#2", <<V("n"), V("n")>>)) }

Member(s, t, b) == Program(<<Set("g", K(1)), Set("r", [array |-> <<K(2), K(0)>>])>>,
  <<Main(<<BB("L1", <<Set("a", K(1)), s, If("a", "L2", "L3")>>),
           BB("L2", <<t>>),
           BB("L3", <<Set("t1", CallOf("println", <<V("a")>>)),
                      Set("t2", CallOf("println", <<V("g")>>)),
                      Set("t3", CallOf("println", <<V("r")>>)),
                      Return(NoOperand)>>)>>),
    Fun("f#1", <<"n">>, <<BB("L4", <<b, Return(V("n"))>>)>>),
    Fun("h#2", <<"n", "m">>, <<BB("L5", <<Set("t4", Bin("ADD", V("n"), V("m"))),
                                          Return(V("t4"))>>)>>)>>)

Family == {Member(s, t, b) : s \in Statements, t \in Statements, b \in Bodies}

(* The programs that use nothing the runtime treats oddly. *)
Plain == {Fibonacci, Loop, Arrays, Divide, Words}
Odd == {GlobalArgument, EarlyReturn, GlobalCall, Negation, ElementArgument}
=============================================================================
