---------------------------- MODULE ControlFlow -----------------------------
(***************************************************************************)
(* A function from its statements to the blocks that are compiled:         *)
(* IRGenerator, then CFG::simplifyCFG of compiler/ir/cfg.cpp, block by     *)
(* block; and then the blocks executed side by side with the statements.   *)
(*                                                                         *)
(* An expression is an event.  The two machines go on silently to their    *)
(* next event and take it together, a condition with the same outcome.     *)
(* Where the code does what no statement says, they part.                  *)
(***************************************************************************)
EXTENDS IRGenerator, SimplifyCFG

(* What may be compiled: the body of a function, whether it is main,       *)
(* whether simplifyIR runs (no -no-code-simplify) and whether simplifyCFG  *)
(* does (no -no-cfg-simplify): [body, main, simplifyIR, simplifyCFG].      *)
CONSTANT Compilations

VARIABLES
  compiled,    \* one of Compilations
  rest,        \* what the statements still have to do
  block,       \* the block the code is in, or Nowhere, and its next instruction
  inst,
  finished     \* both are at the end, or have parted, or the generator read
               \* what is not there

machines == <<rest, block, inst, finished>>
vars == <<graph, compiled, machines>>

Init ==
  /\ compiled \in Compilations
  /\ LET g == Generate(compiled.body, compiled.simplifyIR)
     IN /\ code = g.blocks /\ edges = g.edges
        /\ blocks = [b \in DOMAIN g.blocks |-> b]
        /\ finished = g.undefined
  /\ pass = IF compiled.simplifyCFG THEN "on" ELSE "off"
  /\ it = 1
  /\ rest = compiled.body /\ block = 1 /\ inst = 1

Compile == ~finished /\ simplifyCFG /\ UNCHANGED <<compiled, machines>>

-----------------------------------------------------------------------------
(* The statements.  A loop in progress is [kind |-> "loop"], with what its *)
(* step is; behind its body an "again" mark says where the body ends.      *)

Loop(c, body, step) == [kind |-> "loop", cond |-> c, body |-> body, step |-> step]
Again(loop) == [kind |-> "again", loop |-> loop]
Choose(c, yes, no) == [kind |-> "choose", cond |-> c, yes |-> yes, no |-> no]

NextStmt == IF rest = << >> THEN "end" ELSE Head(rest).kind

(* The rest from the mark of the innermost loop on. *)
FromMark == SubSeq(rest, Min({k \in DOMAIN rest : rest[k].kind = "again"}), Len(rest))

StmtWaits == NextStmt \in {"do", "choose", "return", "end"}

StmtAhead ==
  LET s == Head(rest)
      later == Tail(rest)
  IN CASE NextStmt = "if" -> <<Do(s.cond), Choose(s.cond, s.then, s.else)>> \o later
       [] NextStmt = "while" -> <<Loop(s.cond, s.body, << >>)>> \o later
       [] NextStmt = "for" -> <<Do(s.init), Loop(s.cond, s.body, <<Do(s.step)>>)>> \o later
       [] NextStmt = "loop" -> <<Do(s.cond), Choose(s.cond, Append(s.body, Again(s)), << >>)>> \o later
       [] NextStmt = "again" -> s.loop.step \o <<s.loop>> \o later
       [] NextStmt = "break" -> Tail(FromMark)
       [] NextStmt = "continue" -> FromMark

Running == pass # "on" /\ ~finished

StmtStep ==
  /\ Running /\ ~StmtWaits
  /\ rest' = StmtAhead
  /\ UNCHANGED <<graph, compiled, finished, block, inst>>

-----------------------------------------------------------------------------
(* The code: the blocks lie one behind another as they are listed, and     *)
(* behind the last one the next function begins.  Relocation gives 0 for a *)
(* target without instructions.  Either way the code leaves the function.  *)

Nowhere == 0

Insts == IF block = Nowhere THEN << >> ELSE code[block]
AtEnd == inst > Len(Insts)
PlaceOf(b) == CHOOSE k \in DOMAIN blocks : blocks[k] = b
NextBlock == IF block = Last(blocks) THEN Nowhere ELSE blocks[PlaceOf(block) + 1]
Address(b) == IF code[b] = << >> THEN Nowhere ELSE b

(* fetch stops in front of main's last instruction, which is that of its   *)
(* header if the blocks have none.                                         *)
MainEnds ==
  /\ compiled.main
  /\ LET coded == {k \in DOMAIN blocks : code[blocks[k]] # << >>}
     IN coded # {} => block = blocks[Max(coded)] /\ inst = Len(Insts)

CodeWaits == block = Nowhere \/ MainEnds \/ (IF AtEnd THEN FALSE ELSE Insts[inst].tag # "JMP")

CodeStep ==
  /\ Running /\ ~CodeWaits
  /\ block' = IF AtEnd THEN NextBlock ELSE Address(Insts[inst].to)
  /\ inst' = 1
  /\ UNCHANGED <<graph, compiled, finished, rest>>

(* What each machine waits for: an event, a branch on a condition, or the  *)
(* end of the function.  Astray is what no statement says: the code of     *)
(* another function; a part of an expression, because main ends in it;     *)
(* what follows a return in main, which ends nothing.                      *)
Finish == [finish |-> TRUE]
Astray == [astray |-> TRUE]
StmtEvent == CASE NextStmt \in {"return", "end"} -> Finish
               [] NextStmt = "do" -> Eval(Head(rest).what)
               [] OTHER -> [branch |-> Head(rest).cond]
EventOf(i) == CASE i.tag = "RETURN" -> IF compiled.main THEN Astray ELSE Finish
                [] i.tag = "EVAL" -> i
                [] i.tag = "BRANCH" -> [branch |-> i.cond]
CodeEvent == CASE block = Nowhere -> Astray
               [] block # Nowhere /\ MainEnds ->
                    IF Insts # << >> /\ Last(Insts).tag = "EVAL" THEN Astray ELSE Finish
               [] OTHER -> EventOf(Insts[inst])

Waiting == Running /\ StmtWaits /\ CodeWaits

TakeEval ==
  /\ Waiting /\ StmtEvent = CodeEvent
  /\ StmtEvent # Finish /\ NextStmt = "do"
  /\ rest' = Tail(rest) /\ inst' = inst + 1
  /\ UNCHANGED <<graph, compiled, finished, block>>

TakeBranch(outcome) ==
  /\ Waiting /\ StmtEvent = CodeEvent
  /\ StmtEvent # Finish /\ NextStmt = "choose"
  /\ rest' = (IF outcome THEN Head(rest).yes ELSE Head(rest).no) \o Tail(rest)
  /\ block' = Address(IF outcome THEN Insts[inst].yes ELSE Insts[inst].no)
  /\ inst' = 1
  /\ UNCHANGED <<graph, compiled, finished>>

TakeFinish ==
  /\ Waiting /\ StmtEvent = Finish /\ CodeEvent = Finish
  /\ finished' = TRUE
  /\ UNCHANGED <<graph, compiled, rest, block, inst>>

(* There is nothing more to compare. *)
Part ==
  /\ Waiting /\ StmtEvent # CodeEvent
  /\ finished' = TRUE
  /\ UNCHANGED <<graph, compiled, rest, block, inst>>

Stop == finished /\ UNCHANGED vars

Silent == StmtStep \/ CodeStep
Take == TakeEval \/ (\E outcome \in BOOLEAN : TakeBranch(outcome)) \/ TakeFinish

Next == Compile \/ Silent \/ Take \/ Part \/ Stop

Spec == Init /\ [][Next]_vars

(* The compiler's loop and both machines go on as long as they can. *)
FairSpec == Spec /\ WF_vars(Compile) /\ WF_vars(StmtStep) /\ WF_vars(CodeStep)

-----------------------------------------------------------------------------
(* Properties *)

RECURSIVE Returns(_)
Returns(stmts) ==
  \E k \in DOMAIN stmts :
    LET s == stmts[k]
    IN \/ s.kind = "return"
       \/ s.kind = "if" /\ (Returns(s.then) \/ Returns(s.else))
       \/ s.kind \in {"while", "for"} /\ Returns(s.body)

EndsInReturn == compiled.body # << >> /\ Last(compiled.body).kind = "return"

(* A return in main that is not its end does not end it. *)
NoReturnInMain ==
  compiled.main => ~Returns(IF EndsInReturn THEN Front(compiled.body) ELSE compiled.body)

(* With -no-cfg-simplify nobody ends the function but its own text, and    *)
(* nobody removes the targets that have no address.                        *)
WholeWithout ==
  ~compiled.simplifyCFG =>
    EndsInReturn /\ \A b \in Listed : \A t \in Targets(b) : code[t] # << >>

(* What the blocks do is what the statements say: the same expressions in  *)
(* the same order for every outcome of the conditions, and the end of the  *)
(* function at the same point, main's where fetch stops and any other's at *)
(* a return that simplifyCFG has to append (the visitors with the jumps    *)
(* they fix later, simplifyIR, fixEdges, simplifyCFG).                     *)
InStep == Waiting /\ NoReturnInMain /\ WholeWithout => StmtEvent = CodeEvent

(* simplifyCFG comes to its end, and the code never turns around in jumps  *)
(* without doing anything: it always gets to its next event, or leaves the *)
(* function.                                                               *)
Reaches == []<>(Waiting \/ finished)
=============================================================================
