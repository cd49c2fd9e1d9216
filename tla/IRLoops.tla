------------------------------- MODULE IRLoops -------------------------------
(***************************************************************************)
(* A family of programs with a branch inside a loop, in the blocks the     *)
(* front end makes of                                                      *)
(*   y = 2                                                                 *)
(*   def main() { x = read() int(x) i = 0                                  *)
(*     while (i < 2) { i = i + 1 if (x == i) { A } else { B } C }          *)
(*     println(x) }                                                        *)
(*   def f(n) { n = n + y return n }                                       *)
(* where A and B end in continue or break, or do not, and B may be absent. *)
(* simplifyCFG has removed empty blocks and those that nothing leads to.   *)
(***************************************************************************)
EXTENDS IRPrograms

Simple == {
  << >>,
  <<Set("x", Bin("ADD", V("x"), K(1)))>>,
  <<Set("x", V("y"))>>,
  <<Set("x", CallOf("f#1", <<V("x")>>))>>,
  <<Set("t8", CallOf("println", <<V("x")>>))>> }

Leaves == {<< >>, <<Goto("L2")>>, <<Goto("L8")>>}
Branches == {s \o l : s \in Simple, l \in Leaves}

IsJump(insts) == insts # << >> /\ Last(insts).tag = "JMP"

LoopOf(a, b, c) == Program(<<Set("y", K(2))>>,
  <<Main(<<BB("L1", ReadInt("x", "t0") \o <<Set("i", K(0))>>),
           BB("L2", <<Set("t1", Bin("LT", V("i"), K(2))), If("t1", "L3", "L8")>>),
           BB("L3", <<Set("i", Bin("ADD", V("i"), K(1)))>>),
           BB("L4", <<Set("t2", Bin("EQ", V("x"), V("i"))),
                      If("t2", "L5", IF b = << >> THEN "L7" ELSE "L6")>>),
           BB("L5", IF IsJump(a) THEN a ELSE a \o <<Goto("L7")>>)>>
         \o (IF b = << >> THEN << >> ELSE <<BB("L6", b)>>)
         \o (IF IsJump(a) /\ IsJump(b) THEN << >> ELSE <<BB("L7", c \o <<Goto("L2")>>)>>)
         \o <<BB("L8", <<Set("t3", CallOf("println", <<V("x")>>)),
                         Return(NoOperand)>>)>>),
    Fun("f#1", <<"n">>, <<BB("L9", <<Set("n", Bin("ADD", V("n"), V("y"))),
                                     Return(V("n"))>>)>>)>>)

Loops == {LoopOf(a, b, c) : a \in Branches \ {<< >>}, b \in Branches, c \in Simple}
=============================================================================
