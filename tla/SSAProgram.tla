----------------------------- MODULE SSAProgram -----------------------------
(***************************************************************************)
(* The names that transformToSSA gives to x against the definitions of x   *)
(* in the function, and the function executed as it comes out of SSA.      *)
(*                                                                         *)
(* Values are abstracted to what matters of them: whether a name holds     *)
(* what x would hold in the function as it was written.                    *)
(***************************************************************************)
EXTENDS SSA

VARIABLES
  at,        \* the next instruction, <<block, place>>
  current,   \* the names that hold what x holds
  given      \* x has been given a value

machine == <<at, current, given>>
vars == <<graph, state, phase, ssa, machine>>

Init ==
  /\ SSAInit
  /\ at = <<0, 0>> /\ current = {} /\ given = FALSE

Transform == TransformToSSA /\ UNCHANGED machine

Transformed == names.fate = "alive" /\ phase = IF options.eliminate THEN "final" ELSE "plain"

(* The block that is generated behind this one. *)
Following(b) == blocks[1 + CHOOSE k \in DOMAIN blocks : blocks[k] = b]

Behind(b) ==
  IF code[b] = << >> \/ ~Leaves(Last(code[b])) THEN {Following(b)} ELSE TargetsOf(Last(code[b]))

(* The graph is that of the code: not so for a conditional in a true arm,  *)
(* whatever SSA does.                                                      *)
GraphTrue == \A b \in Listed : Behind(b) = Succs(b)

StartProgram ==
  /\ Transformed /\ GraphTrue
  /\ at' = <<Entry, 1>> /\ phase' = "running"
  /\ UNCHANGED <<graph, state, ssa, current, given>>

-----------------------------------------------------------------------------
Running == phase = "running"
AtEnd == at[2] > Len(insts[at[1]])
NextInst == insts[at[1]][at[2]]
On == at' = <<at[1], at[2] + 1>>

Fall ==
  /\ Running /\ AtEnd
  /\ at' = <<Following(at[1]), 1>>
  /\ UNCHANGED <<graph, state, phase, ssa, current, given>>

Go ==
  /\ Running /\ ~AtEnd
  /\ \E b \in TargetsOf(NextInst) : at' = <<b, 1>>
  /\ UNCHANGED <<graph, state, phase, ssa, current, given>>

Leave ==
  /\ Running /\ ~AtEnd /\ NextInst.tag = "RETURN"
  /\ phase' = "left"
  /\ UNCHANGED <<graph, state, ssa, machine>>

(* A new value of x: the name of the definition holds it, no other does. A *)
(* definition that was removed counts too, for what was folded out of it.  *)
Evaluate ==
  /\ Running /\ ~AtEnd /\ NextInst.tag = "EVAL"
  /\ IF NextInst.what \in Sets THEN current' = {names.id[NextInst.at]} /\ given' = TRUE
     ELSE UNCHANGED <<current, given>>
  /\ On
  /\ UNCHANGED <<graph, state, phase, ssa>>

CopyName ==
  /\ Running /\ ~AtEnd /\ NextInst.tag = "COPY"
  /\ current' =
       IF NextInst.from \in current /\ (NextInst.const \/ NextInst.def \notin names.dead)
       THEN current \cup {NextInst.to} ELSE current \ {NextInst.to}
  /\ On
  /\ UNCHANGED <<graph, state, phase, ssa, given>>

Stopped ==
  /\ phase = "left" \/ names.fate # "alive" \/ (Transformed /\ ~GraphTrue)
  /\ UNCHANGED vars

Next == Transform \/ StartProgram \/ Fall \/ Go \/ Leave \/ Evaluate \/ CopyName \/ Stopped

Spec == Init /\ [][Next]_vars

-----------------------------------------------------------------------------
RECURSIVE Sources(_, _), Out(_, _)

(* The definitions in the program that one in SSA stands for, through phis *)
(* that are not among those seen.                                          *)
Sources(def, seen) ==
  IF def = Nobody \/ def \in seen THEN {}
  ELSE IF def[2] # 0 THEN {def}
  ELSE UNION {Sources(names.args[def[1]][k].def, seen \cup {def}) : k \in DOMAIN names.args[def[1]]}

(* The definitions that reach the end of block b, without going back       *)
(* through the blocks seen.                                                *)
Out(b, seen) ==
  IF SetsAt(b) # {} THEN {<<b, Max(SetsAt(b))>>}
  ELSE UNION {Out(p, seen \cup {b}) : p \in (Pres(b) \cap Reachable) \ (seen \cup {b})}

Reaching(site) ==
  LET before == {k \in SetsAt(site[1]) : k < site[2]}
  IN IF before # {} THEN {<<site[1], Max(before)>>}
     ELSE UNION {Out(p, {}) : p \in Pres(site[1]) \cap Reachable}

DominatorsFound == \A b \in Reachable \ {Entry} : idom[b] # Null

(* From the renaming to the last optimisation in SSA form, what reads x    *)
(* names, directly or through phis, exactly the definitions that reach it  *)
(* on the paths of the graph, wherever tarjan found the dominators: no phi *)
(* is missing, no name outlives its block, and no phi that goes for being  *)
(* unused or trivial takes a definition along.                             *)
ReachingKept ==
  /\ phase \in {"named", "used", "trivial", "small"}
  /\ names.fate = "alive" /\ DominatorsFound
  => \A r \in Readers :
       r[1] \in Reachable => Sources(names.refs[r], {}) = Reaching(r)

Copies(b) == {k \in DOMAIN insts[b] : insts[b][k].tag = "COPY"}

(* A copy stands with the definition it copies, and is executed there.     *)
CopiesPlaced ==
  \A b \in DOMAIN insts : \A k \in Copies(b) :
    /\ insts[b][k].def[1] = b
    /\ \A j \in 1 .. k - 1 : insts[b][j].tag # "BRANCH"

(* Out of SSA, the name that an instruction reads holds what x would hold, *)
(* and its definition has not been removed as dead code: although copies   *)
(* are not at the end of the phi's predecessors but with the definitions,  *)
(* wherever they are, and although all names of x live at the same time.   *)
(* This is of graphs whose dominators were found and whose copies were     *)
(* executed where the definitions are.                                     *)
NamesCurrent ==
  /\ Running /\ DominatorsFound /\ CopiesPlaced
  /\ ~AtEnd /\ given
  /\ NextInst.tag = "EVAL" /\ NextInst.what \in Gets /\ NextInst.at \notin names.dead
  => /\ names.reads[NextInst.at] \in current
     /\ NextInst.at \notin names.folded => names.refs[NextInst.at] \notin names.dead

(* "avoid insert as following code: jmp L1, x1 = x2" says the comment in   *)
(* phiElimination: no copy is behind an instruction that leaves the block  *)
(* for another.                                                            *)
NoLostCopy ==
  phase = "plain" /\ names.fate = "alive" =>
    \A b \in DOMAIN insts : \A k \in Copies(b), j \in 1 .. Len(insts[b]) :
      TargetsOf(insts[b][j]) # {} => k < j
=============================================================================
