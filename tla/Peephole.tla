------------------------------ MODULE Peephole -------------------------------
(***************************************************************************)
(* The peephole pass, compiler/bytecode/peephole_optimization.cpp: it runs *)
(* between ir2VmInst and relocation and erases instructions from the       *)
(* blocks, or redirects their jumps, until a round changes nothing.        *)
(*                                                                         *)
(* An instruction has an identity, a number, because the pass keeps        *)
(* iterators: its window goes on naming instructions that a later step     *)
(* erases.  A read through such an iterator finds the null pointer that    *)
(* the pass stored there before it erased the list node.                   *)
(***************************************************************************)
EXTENDS Codegen

CONSTANT IRs    \* the programs to optimise

ASSUME ProgramsWellFormed == \A p \in IRs : WellFormedIR(p)

VARIABLES
  source,   \* the blocks as they were generated
  blocks,   \* block_list: the name and the instructions, by identity, of each block
  node,     \* the instruction with each identity
  window,   \* every instruction of interest visited so far and still remembered
  block,    \* traversal's position: the block and ...
  at,       \* ... the index in it of the next instruction
  changed,
  outcome   \* "running", "done", or "crashed" (an empty block, a read behind the window)

vars == <<source, blocks, node, window, block, at, changed, outcome>>

Null == [op |-> "NULL"]

(* The opcodes traversal looks at.  Any other instruction neither enters   *)
(* the window nor empties it, be it a call or an operation on a register.  *)
Windowed == {"STOREA", "STOREI", "STORES", "STOREX", "LOADA", "LOADI", "LOADS", "LOADX",
             "JMP", "JIF"}

Here == blocks[block].insts

-----------------------------------------------------------------------------
(* The rewritings of pass, on a record s of the pass's state.  The entry   *)
(* of the current instruction has just been put at the end of s.window.    *)

Node(s, k) == IF k \in DOMAIN s.window THEN s.node[s.window[k]] ELSE Null

(* list::erase at the node of that instruction. *)
Without(insts, id) ==
  IF id \in ToSet(insts)
    THEN RemoveAt(insts, CHOOSE k \in DOMAIN insts : insts[k] = id) ELSE insts

(* Wrong: leaves the list node where it is. *)
RemoveKeepsNode(s) ==
  [s EXCEPT !.node[Last(s.window)] = Null, !.window = Front(@), !.removed = TRUE]

(* Erases the current instruction: the next one takes its index. *)
RemoveCurrent(s) ==
  LET id == Last(s.window)
  IN [s EXCEPT !.node[id] = Null,
               !.blocks[block].insts = Without(@, id),
               !.window = Front(@),
               !.removed = TRUE]

(* Wrong: does not compare the registers. *)
SameCellAnyRegister(i, j) ==
  /\ i.op = "STOREX" /\ j.op \in {"LOADX", "STOREX"}
  /\ i.name = j.name
  /\ i.idx = << >> /\ j.idx = << >>

SameCell(i, j) ==
  /\ i.op = "STOREX" /\ j.op \in {"LOADX", "STOREX"}
  /\ i.name = j.name /\ i.reg = j.reg
  /\ i.idx = << >> /\ j.idx = << >>

loadStorePass(s) ==
  LET len == Len(s.window)
  IN IF len > 1 /\ SameCell(Node(s, len - 1), Node(s, len)) THEN RemoveCurrent(s) ELSE s

(* Both targets are still unresolved, so they are always equal. *)
jmpJmpPass(s) ==
  LET len == Len(s.window)
  IN IF ~s.removed /\ len > 1 /\ Node(s, len - 1).op = "JMP" /\ Node(s, len).op = "JMP"
       THEN RemoveCurrent(s) ELSE s

IsSameJif(i) == i.op = "JIF" /\ i.label1 = i.label2

(* From the front of the window on, a JIF with one target becomes a JMP    *)
(* and stays there; what leaves the window, unseen, is the entry behind    *)
(* it.  It counts as a change when that uses the window up.  A JIF that is *)
(* the last entry has none behind it: erase(end()), undefined, at best     *)
(* drops the last entry.                                                   *)
jifSamePass(s) ==
  LET w == s.window
      stops == {k \in 1 .. Len(w) + 1 : \/ ~IsSameJif(Node(s, 2 * k - 1))
                                        \/ \E i \in 1 .. k - 1 : w[2 * i - 1] = w[2 * k - 1]}
      turns == Min(stops) - 1
      kept == IF 2 * turns <= Len(w) THEN turns ELSE turns - 1
      Jump(i) == [op |-> "JMP", label |-> i.label1]
      jifs == {w[2 * k - 1] : k \in 1 .. turns}
  IN [s EXCEPT !.node = [id \in DOMAIN @ |-> IF id \in jifs THEN Jump(@[id]) ELSE @[id]],
               !.window = [k \in 1 .. kept |-> w[2 * k - 1]] \o SubSeq(w, 2 * turns + 1, Len(w)),
               !.removed = @ \/ (turns > 0 /\ 2 * turns = Len(w))]

(* A STOREX of register 0 in front of a JIF goes, whatever it stores to;   *)
(* traversal then steps past the JIF.                                      *)
storeJifPass(s, len) ==
  LET store == s.window[len - 1]
      past == IF \E k \in DOMAIN s.blocks[block].insts :
                   k < s.at /\ s.blocks[block].insts[k] = store
                THEN s.at ELSE s.at + 1
      left == [k \in DOMAIN s.blocks |-> [s.blocks[k] EXCEPT !.insts = Without(@, store)]]
  IN IF /\ len >= 2
        /\ Node(s, len).op = "JIF"
        /\ Node(s, len - 1).op = "STOREX" /\ Node(s, len - 1).reg = 0
       THEN [s EXCEPT !.node[store] = Null,
                      !.blocks = left,
                      !.window = RemoveAt(@, len - 1),
                      !.at = past,
                      !.removed = TRUE]
       ELSE s

(* jump_map: the last block of that name, or the first one if none has it. *)
Headed(s, label) ==
  LET named == {k \in DOMAIN s.blocks : s.blocks[k].name = label}
  IN s.blocks[IF named = {} THEN 1 ELSE Max(named)].insts

(* checkTarget: where a jump to label is led on to by a JMP that heads the *)
(* block.                                                                  *)
checkTarget(s, label) ==
  LET first == s.node[Headed(s, label)[1]]
  IN IF first.op = "JMP" THEN first.label ELSE label

(* Wrong: both labels of a JIF from the first. *)
RedirectCopied(s, id) ==
  LET i == s.node[id]
      labels == IF i.op = "JMP" THEN {i.label} ELSE {i.label1, i.label2}
  IN IF \E l \in labels : Headed(s, l) = << >> THEN [s EXCEPT !.crashed = TRUE]
     ELSE IF i.op = "JMP" THEN [s EXCEPT !.node[id].label = checkTarget(s, @)]
     ELSE [s EXCEPT !.node[id].label1 = checkTarget(s, @),
                    !.node[id].label2 = checkTarget(s, i.label1)]

(* Wrong: the second label of a JIF is left alone. *)
RedirectFirst(s, id) ==
  LET i == s.node[id]
      labels == IF i.op = "JMP" THEN {i.label} ELSE {i.label1}
  IN IF \E l \in labels : Headed(s, l) = << >> THEN [s EXCEPT !.crashed = TRUE]
     ELSE IF i.op = "JMP" THEN [s EXCEPT !.node[id].label = checkTarget(s, @)]
     ELSE [s EXCEPT !.node[id].label1 = checkTarget(s, @)]

(* The process dies on front() of an empty block. *)
Redirect(s, id) ==
  LET i == s.node[id]
      labels == IF i.op = "JMP" THEN {i.label} ELSE {i.label1, i.label2}
  IN IF \E l \in labels : Headed(s, l) = << >> THEN [s EXCEPT !.crashed = TRUE]
     ELSE IF i.op = "JMP" THEN [s EXCEPT !.node[id].label = checkTarget(s, @)]
     ELSE [s EXCEPT !.node[id].label1 = checkTarget(s, @),
                    !.node[id].label2 = checkTarget(s, @)]

(* What the first n turns of the loop over the window make of s. *)
Redirects(s, op) ==
  LET after[n \in 0 .. Len(s.window)] ==
        IF n = 0 THEN s
        ELSE IF s.node[s.window[n]].op = op THEN Redirect(after[n - 1], s.window[n])
        ELSE after[n - 1]
  IN after

RedirectAll(s, op) == Redirects(s, op)[Len(s.window)]

jmpToJmpPass(s) == RedirectAll(s, "JMP")
jifPass(s) == RedirectAll(s, "JIF")

pass(s) ==
  LET stores == jifSamePass(jmpJmpPass(loadStorePass(s)))
  IN jifPass(jmpToJmpPass(storeJifPass(stores, Len(s.window))))

-----------------------------------------------------------------------------
(* block_list as ir2VmInst leaves it, its instructions numbered. *)
Generated(ir) ==
  LET bs == ir2VmInst(ir)
  IN [blocks |-> [k \in DOMAIN bs |->
                    LET first == Offset(bs, k)
                    IN [name |-> bs[k].name, insts |-> [j \in DOMAIN bs[k].insts |-> first + j]]],
      node |-> FlattenSeq([k \in DOMAIN bs |-> bs[k].insts]),
      end |-> EntryEndBlock(ir),
      global_len |-> Size(bs, 1)]

Init ==
  /\ source \in {Generated(ir) : ir \in IRs}
  /\ blocks = source.blocks
  /\ node = source.node
  /\ window = << >>
  /\ block = 1 /\ at = 1
  /\ changed = TRUE
  /\ outcome = "running"

Running == outcome = "running" /\ block <= Len(blocks)
Windows(id) == node[id].op \in Windowed

Skip ==
  /\ Running /\ at <= Len(Here) /\ ~Windows(Here[at])
  /\ at' = at + 1
  /\ UNCHANGED <<source, blocks, node, window, block, changed, outcome>>

(* jifSamePass shortens the window by what nobody counts: it reads behind  *)
(* the end itself, or storeJifPass does, which relies on the length from   *)
(* before.  The process may die of it.                                     *)
ReadsBehind(s) == IsSameJif(Node(jmpJmpPass(loadStorePass(s)), 1))

Visit ==
  /\ Running /\ at <= Len(Here) /\ Windows(Here[at])
  /\ LET visited == [blocks |-> blocks, node |-> node, window |-> Append(window, Here[at]),
                     at |-> at, removed |-> FALSE, crashed |-> FALSE]
         s == pass(visited)
     IN /\ blocks' = s.blocks /\ node' = s.node /\ window' = s.window
        /\ at' = IF s.removed THEN s.at ELSE s.at + 1
        /\ changed' = (changed \/ s.removed)
        /\ outcome' \in (IF s.crashed THEN {} ELSE {outcome})
                       \cup (IF s.crashed \/ ReadsBehind(visited) THEN {"crashed"} ELSE {})
  /\ UNCHANGED <<source, block>>

NextBlock ==
  /\ Running /\ at > Len(Here)
  /\ block' = block + 1 /\ at' = 1
  /\ UNCHANGED <<source, blocks, node, window, changed, outcome>>

(* Wrong: forgets that the round starts afresh. *)
NextRoundUnreset ==
  /\ outcome = "running" /\ block > Len(blocks) /\ changed
  /\ window' = << >>
  /\ block' = 1 /\ at' = 1
  /\ UNCHANGED <<source, blocks, node, changed, outcome>>

(* The next round starts with the window the last one left. *)
NextRound ==
  /\ outcome = "running" /\ block > Len(blocks) /\ changed
  /\ changed' = FALSE
  /\ block' = 1 /\ at' = 1
  /\ UNCHANGED <<source, blocks, node, window, outcome>>

Finish ==
  /\ outcome = "running" /\ block > Len(blocks) /\ ~changed
  /\ outcome' = "done"
  /\ UNCHANGED <<source, blocks, node, window, block, at, changed>>

Terminated == outcome # "running" /\ UNCHANGED vars

Next == Skip \/ Visit \/ NextBlock \/ NextRound \/ Finish \/ Terminated

Spec == Init /\ [][Next]_vars

(* traversal is a loop that nothing suspends: while the pass runs it goes  *)
(* on.  (Weak fairness of Next, with its ENABLED spelled out.)             *)
FairSpec == Spec /\ (<>[](outcome = "running") => []<><<Next>>_vars)

-----------------------------------------------------------------------------
(* Properties *)

(* The program that goes on to relocation.  ir2VmInst has counted the      *)
(* initialisers before the pass ran.                                       *)
Result ==
  LET rewritten == [k \in DOMAIN blocks |->
                      Block(blocks[k].name,
                            [j \in DOMAIN blocks[k].insts |-> node[blocks[k].insts[j]]])]
  IN [relocation(rewritten, source.end) EXCEPT !.global_len = source.global_len]

Erased == {id \in DOMAIN node : node[id] = Null}

(* Every instruction is in its block, once and in its place, unless it has *)
(* been erased; the window names instructions of the program.              *)
TypeOK ==
  /\ \A k \in DOMAIN blocks :
       /\ blocks[k].name = source.blocks[k].name
       /\ ToSet(blocks[k].insts) = ToSet(source.blocks[k].insts) \ Erased
       /\ \A i, j \in DOMAIN blocks[k].insts : i < j => blocks[k].insts[i] < blocks[k].insts[j]
  /\ DOMAIN blocks = DOMAIN source.blocks /\ DOMAIN node = DOMAIN source.node
  /\ ToSet(window) \subseteq DOMAIN node
  /\ block \in 1 .. Len(blocks) + 1 /\ at \in Nat \ {0}
  /\ changed \in BOOLEAN /\ outcome \in {"running", "done", "crashed"}

Labels(i) == IF i.op = "JMP" THEN {i.label}
             ELSE IF i.op = "JIF" THEN {i.label1, i.label2} ELSE {}

Insts(bs, label) == bs[CHOOSE k \in DOMAIN bs : bs[k].name = label].insts

(* How block k is left at once when the instructions gone are erased: the  *)
(* labels of a jump that has nothing else in front of it.                  *)
Ways(gone, k) ==
  LET ids == source.blocks[k].insts
      first == {j \in DOMAIN ids : /\ source.node[ids[j]].op \in {"JMP", "JIF"}
                                   /\ \A i \in 1 .. j - 1 : ids[i] \in gone}
  IN {Labels(source.node[ids[j]]) : j \in first}

(* The blocks that are left at once for some of the labels, whichever side *)
(* a JIF takes.                                                            *)
LeftFor(gone, labels) ==
  {source.blocks[k].name :
     k \in {l \in DOMAIN source.blocks : \E w \in Ways(gone, l) : w \subseteq labels}}

(* The labels from which one comes to label by such jumps of the original  *)
(* code alone, by at most n of them, and by any number.                    *)
ComesWithin(gone, label) ==
  LET after[n \in 0 .. Len(source.blocks)] ==
        IF n = 0 THEN {label}
        ELSE LET before == after[n - 1] IN before \cup LeftFor(gone, before)
  IN after
ComesTo(gone, label) == ComesWithin(gone, label)[Len(source.blocks)]

(* However often the jumps are redirected, in whatever order and while the *)
(* blocks they are led through change, a jump goes where the original jump *)
(* would have gone in the end, each side of a JIF to its own place; a JIF  *)
(* becomes a JMP only if both sides go there.                              *)
JumpsLead ==
  \A id \in DOMAIN node :
    LET i == node[id]  j == source.node[id]
    IN /\ i.op = "JMP" => /\ j.op \in {"JMP", "JIF"}
                          /\ Labels(j) \subseteq ComesTo(Erased, i.label)
       /\ i.op = "JIF" => /\ j.op = "JIF"
                          /\ j.label1 \in ComesTo(Erased, i.label1)
                          /\ j.label2 \in ComesTo(Erased, i.label2)

(* No jump is left that leads to a block whose instructions have all been  *)
(* erased.  checkTarget reads the first one, and relocation would send the *)
(* jump to instruction 0.                                                  *)
NoJumpToNothing ==
  \A id \in DOMAIN node : \A l \in Labels(node[id]) : Insts(blocks, l) # << >>

(* Every round but the last changes something, and the rounds come to an   *)
(* end.                                                                    *)
Stops == <>(outcome # "running")
=============================================================================
