---------------------------- MODULE SimplifyCFG -----------------------------
(***************************************************************************)
(* CFG::simplifyCFG of compiler/ir/cfg.cpp for one function: one pass over *)
(* the list of blocks that removes empty and unreachable ones while it     *)
(* goes, one action per turn of the loop.                                  *)
(***************************************************************************)
EXTENDS IRBlocks, SequencesExt

VARIABLES
  blocks,      \* func->blocks, the list: block numbers
  code,        \* the instructions of every block
  edges,       \* pres and succs of the blocks in the list
  it,          \* the iterator's place in the list
  pass         \* "on", "done", or "off" with -no-cfg-simplify

graph == <<blocks, code, edges, it, pass>>

Listed == {blocks[k] : k \in DOMAIN blocks}

Pres(b) == {p \in Listed : <<p, b>> \in edges}
Succs(b) == {s \in Listed : <<b, s>> \in edges}
OneSuccessor(b) == \E s \in Succs(b) : Succs(b) = {s}

-----------------------------------------------------------------------------

(* Wrong: a branch's second target is forgotten. *)
RetargetYes(i, from, to) ==
  CASE i.tag = "JMP" -> [i EXCEPT !.to = IF @ = from THEN to ELSE @]
    [] i.tag = "BRANCH" -> [i EXCEPT !.yes = IF @ = from THEN to ELSE @]
    [] OTHER -> i

Retarget(i, from, to) ==
  CASE i.tag = "JMP" -> [i EXCEPT !.to = IF @ = from THEN to ELSE @]
    [] i.tag = "BRANCH" -> [i EXCEPT !.yes = IF @ = from THEN to ELSE @,
                                     !.no = IF @ = from THEN to ELSE @]
    [] OTHER -> i

Retargeted(insts, from, to) == [k \in DOMAIN insts |-> Retarget(insts[k], from, to)]

Simplifying == pass = "on" /\ it <= Len(blocks)

Empty(b) == code[b] = << >> /\ Pres(b) # {} /\ OneSuccessor(b)

(* An empty block goes: its predecessors go on with its successor. *)
RemoveEmpty ==
  /\ Simplifying /\ Empty(blocks[it])
  /\ LET b == blocks[it]
     IN \E succ \in Succs(b) :
          /\ edges' = {e \in edges : b \notin {e[1], e[2]}} \cup {<<p, succ>> : p \in Pres(b)}
          /\ code' = [p \in DOMAIN code |->
                        IF p \in Pres(b) THEN Retargeted(code[p], b, succ) ELSE code[p]]
  /\ blocks' = RemoveAt(blocks, it)
  /\ UNCHANGED <<it, pass>>

(* Wrong: a block that nothing jumps to is taken for unreachable. *)
UnreachableByJump(k) ==
  k # 1 /\ \A b \in DOMAIN code : \A j \in DOMAIN code[b] :
             code[b][j].tag = "JMP" => code[b][j].to # blocks[k]

Unreachable(k) == k # 1 /\ Pres(blocks[k]) = {}

RemoveUnreachable ==
  /\ Simplifying /\ ~Empty(blocks[it]) /\ Unreachable(it)
  /\ edges' = {e \in edges : e[1] # blocks[it]}
  /\ blocks' = RemoveAt(blocks, it)
  /\ UNCHANGED <<code, it, pass>>

(* Wrong: the iterator is not moved on. *)
KeepStays ==
  /\ Simplifying /\ ~Empty(blocks[it]) /\ ~Unreachable(it)
  /\ UNCHANGED graph

Keep ==
  /\ Simplifying /\ ~Empty(blocks[it]) /\ ~Unreachable(it)
  /\ it' = it + 1
  /\ UNCHANGED <<blocks, code, edges, pass>>

(* Wrong: an empty last block is left empty. *)
AppendReturnBehindCode ==
  /\ pass = "on" /\ it > Len(blocks)
  /\ LET b == blocks[Len(blocks)]
     IN code' = IF code[b] = << >> \/ Last(code[b]).tag = "RETURN" THEN code
                ELSE [code EXCEPT ![b] = Append(@, Ret)]
  /\ pass' = "done"
  /\ UNCHANGED <<blocks, edges, it>>

(* The last block of the list returns. *)
AppendReturn ==
  /\ pass = "on" /\ it > Len(blocks)
  /\ LET b == blocks[Len(blocks)]
     IN code' = IF code[b] # << >> /\ Last(code[b]).tag = "RETURN" THEN code
                ELSE [code EXCEPT ![b] = Append(@, Ret)]
  /\ pass' = "done"
  /\ UNCHANGED <<blocks, edges, it>>

simplifyCFG == RemoveEmpty \/ RemoveUnreachable \/ Keep \/ AppendReturn

-----------------------------------------------------------------------------
(* Properties *)

Targets(b) == UNION {TargetsOf(code[b][k]) : k \in DOMAIN code[b]}

FallsThrough(b) == \A k \in DOMAIN code[b] : ~Leaves(code[b][k])

TypeOK ==
  /\ code \in Seq(Seq(Instruction))
  /\ blocks \in Seq(DOMAIN code) /\ blocks # << >>
  /\ \A j, k \in DOMAIN blocks : blocks[j] = blocks[k] => j = k
  /\ edges \subseteq Listed \X Listed
  /\ it \in 1 .. Len(blocks) + 1
  /\ pass \in {"on", "done", "off"}

(* Every block the code can go to next, by a jump or because it is next in *)
(* the list, is a successor in the graph, which is what removing blocks    *)
(* and the dominators rely on: fixEdges leaves out no way that a block is  *)
(* left, and simplifyCFG moves the edges with the jumps.                   *)
EdgesCover ==
  \A k \in DOMAIN blocks :
    /\ Targets(blocks[k]) \subseteq Succs(blocks[k])
    /\ FallsThrough(blocks[k]) /\ k < Len(blocks) => blocks[k + 1] \in Succs(blocks[k])

(* No block that is left jumps or branches to one that is not: simplifyCFG *)
(* finds the jumps to a block it removes by the edges into it.             *)
NoDangling == \A b \in Listed : Targets(b) \subseteq Listed

(* An empty block goes on with one later block, or is the last: no empty   *)
(* block is its own successor when simplifyCFG removes it, and none is     *)
(* left standing between others.                                           *)
EmptyGoesOn ==
  \A k \in DOMAIN blocks :
    code[blocks[k]] = << >> =>
      /\ \A s \in Succs(blocks[k]) : blocks[k] < s
      /\ k = Len(blocks) \/ OneSuccessor(blocks[k])

(* When the blocks are handed to the bytecode generator every target of a  *)
(* jump has instructions: relocation knows no address for an empty block   *)
(* (collectBlockMap), and takes 0.                                         *)
TargetsHaveCode ==
  pass = "done" => \A b \in Listed : \A t \in Targets(b) : code[t] # << >>

-----------------------------------------------------------------------------
(* The pass by itself, on any function whose graph covers its jumps.       *)

SimplifyInit ==
  /\ TypeOK /\ it = 1 /\ pass = "on"
  /\ EdgesCover /\ EmptyGoesOn

SimplifySpec == SimplifyInit /\ [][simplifyCFG]_graph
=============================================================================
