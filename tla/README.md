# A TLA+ model of the CYX compiler and virtual machine

CYX is a small dynamically typed language. The program `cyx2` compiles a source
file and runs it: lexer, parser, IR generator, control flow graph with an optional
SSA form and its optimisations, bytecode generator with an optional peephole pass,
and a virtual machine; bytecode can also be written to a file and run later.

This directory models what a program goes through from its text to its execution: the
lexer and the parser, how expressions become instructions and statements become basic
blocks, the simplification of the control flow graph, the bytecode generator, the peephole
pass, the bytecode file, the linked code and the virtual machine; and what `-ssa` and its
optimisations add. Its centres are four comparisons of what is compiled with what it means:
*the instructions make the calls that the text of a function asks for*, *the blocks do what
the statements say*, *the virtual machine on the generated code does what the IR means*, and
*names in and out of SSA hold what the variable would hold*.

## The system

Everything runs in one thread; there is no concurrency, no message and no crash
recovery. What makes the code hard is that its parts agree only by convention. The
generator and the machine share register numbers, the order of ARG and PARAM, the
size of each translated instruction and a few absolute addresses, and nothing in
the code checks any of it.

| component | state | operations | what makes it correct |
|---|---|---|---|
| virtual machine (`core/vm.cpp`, `vm.hpp`, `frame.hpp`) | registers, vector of frames, pc, mode | `fetch` and a handler per opcode | calls and returns match, PARAM reads its own ARG, frames do not disturb each other, it stops |
| values (`common/value.hpp`) | a variant | operators and conversions | the type rules of each operator, arrays by value |
| builtins (`common/buildin.hpp`) | input and output | print, println, read, int, double, string, len | argument protocol of `callBuildin` |
| bytecode generator (`compiler/bytecode/bytecode_generator.cpp`) | list of blocks of instructions, two tables of addresses | `gen...` per IR instruction, `relocation` | the code does what the IR says; each name becomes the right address |
| peephole pass (`peephole_optimization.cpp`) | a window on the instructions | six rewritings, until none applies | the rewritten code does the same |
| bytecode file (`bytecode_writer.cpp`, `bytecode_reader.cpp`) | bytes, constant tables | write, read | what is read is what was written |
| control flow graph (`compiler/ir/cfg.cpp`) | edges, dominator tree, frontiers | `simplifyCFG`, `tarjan`, `calcDominanceFrontier` | no reachable block is lost; dominators are dominators |
| SSA (`compiler/ir/cfg.cpp`) | phis, stacks of names, def-use chains | phi insertion, renaming, folding, propagation, phi and dead code elimination | a name stands for the definitions that reach it; leaving SSA keeps the meaning |
| IR generator (`compiler/ir/ir_generator.cpp`) | scopes, current block, loop targets | a visitor per syntax node, `simplifyIR`, `removeUnusedVarDef` | blocks are closed, jumps go to the right loop, unused means unused |
| lexer and parser (`compiler/lexer.cpp`, `parser.cpp`) | position in the text, the token before it | a token, a function per kind of statement and expression | tokens do not run together, operands go where precedence puts them, every loop moves on |
| driver (`main.cpp`) | options | runs the parts in order | |

How they interact: `main` calls the parts one after another; each hands its whole
result to the next. The generator hands the machine a vector of instructions and
three numbers, `entry`, `entry_end` and `global_var_len`.

Hard behaviours, each listed with its line in `PROJECT.json` under `hazards`:

* **calling convention.** CALL saves pc and pushes a frame; each PARAM advances the
  *caller's* saved pc and reads the ARG there; RET resumes behind it. It works only
  if generator and machine count alike, through any recursion.
* **scoping at run time.** `findSymbol` looks in the running frame, then in the
  globals, and inserts an empty variable if it finds none. STOREI and STORES do not
  look, PARAM looks in the caller's frame only.
* **registers.** Comparisons leave their result in register 0, everything else in
  register 1 (arrays in 2). A wrong choice reads a stale value.
* **addresses.** Block addresses are sums of sizes; empty blocks have none; the
  global initialisers are a block of their own that the fix-ups skip.
* **the peephole window.** The pass compares an instruction with the last load, store or
  jump it has seen, however far back that is and whatever came between; its window
  survives calls, ends of blocks and rounds, and names instructions already erased.
* **the end.** `fetch` stops *before* the last instruction of main's last block;
  nothing else stops the machine, and a return of main does not.

* **blocks that are filled later.** The visitors of `if` and loops generate the arms first
  and add branches and jumps afterwards; the current block may have moved on by then.
  `break` and `continue` are aimed twice.
* **two records of the same fact.** Where a block goes on is in its jumps and in the edges
  of the graph; `fixEdges` brings the edges into line by the last instruction alone, and
  `simplifyCFG`, which erases from the lists it iterates over, finds jumps by the edges.
* **one format, two programs.** The bytecode writer and the reader share no code; a field
  written in another order, or a file that was cut off, is noticed only by its effects.
* **order by address.** Successors and global initialisers are kept in hashed containers:
  the dominator computation must work for every order.
* **results left in two places.** A visitor of an expression leaves a literal in `cur_value` and
  everything else on `tmp_vars`; who called it looks there, and what nobody takes stays for the
  next. `check_var_exist` is switched off by whoever comes back first.
* **names that live together.** The passes in SSA form move, fold and remove definitions by lists
  of users that each of them has to maintain. On the way out every name keeps its variable, so a
  copy must be executed after its definition and before the next read, on every path.

## Modules

| module | models | how |
|---|---|---|
| `CYXValue` | class `Value` | records with one field, which names the alternative of the variant; `Bad` is `UNREACHABLE()` or a null array |
| `IR` | `ir_instruction.hpp`, `basicblock.hpp` | the shape of IR programs, as records |
| `LinkedProgram` | what the generator hands to the machine | the record, and `WellLinked`: what the machine relies on in it |
| `VM` | class `VM` | one action per handler; one step is one turn of `run`'s loop |
| `Codegen` | class `BytecodeGenerator` | one operator per `gen...` function, then `relocation` |
| `Layout` | the order in which the generator emits code | which IR instruction each VM instruction comes from; no address of `relocation` is used |
| `Linking` | `relocation` as a step | properties of its result against the layout |
| `IRMachine` | what an IR program means | the abstract specification: activations, named variables, no registers or addresses |
| `CompiledProgram` | `VM` on the code of `Codegen` | the refinement mapping to `IRMachine` |
| `Peephole` | class `PeepholeOptimization` | one step of `traversal` per action, each rewriting an operator |
| `OptimisedProgram` | the pass between generator and machine | `Peephole`, then `VM` on the code without and with the pass, on the same input |
| `IRBlocks` | the control instructions of `ir_instruction.hpp` | EVAL stands for the instructions of an expression |
| `IRGenerator` | the statement visitors, `simplifyIR`, `fixEdges` of class `IRGenerator` | an operator each, from a program of statements to blocks and edges |
| `SimplifyCFG` | `CFG::simplifyCFG` | one action per turn of its loop |
| `ControlFlow` | a function from its statements to the blocks that are compiled | `IRGenerator`, `SimplifyCFG`, then statements and blocks executed side by side |
| `Dominators` | `dfs`, `find`, `tarjan`, `calcDominanceFrontier` of class `CFG` | on what `IRGenerator` and `SimplifyCFG` leave, one action per call of `dfs` and return from it, and per turn of `tarjan`'s loops |
| `SSA` | the other passes of `CFG::transformToSSA` | one action per pass, for one variable of a function |
| `SSAProgram` | a function that went through SSA | `SSA`, its definitions against those that reach, then its blocks executed |
| `VMInstruction` | `vm_instruction.hpp` | the fields of each instruction |
| `BytecodeFile` | classes `BytecodeWriter` and `BytecodeReader` | one action per instruction written or read |
| `Lexer` | class `Lexer` | the text and a position; one action per token |
| `Parser` | class `Parser` | one operator per `parse...` function, from a place among the tokens to a tree and the place behind it |
| `Expressions` | the expression visitors, the folding in `simplifyIR`, `removeUnusedVarDef` of class `IRGenerator` | one operator per visitor on the state of the visitors |
| `Meaning` | how a program is written, what a body of expressions does | the references of `FrontEnd` |
| `FrontEnd` | from a text to the instructions of a function | `Lexer`, then `Parser`, then `Expressions`, a statement at a time |
| `Vectors` | `std::vector` | sequences of elements of any kind, offsets in a vector of vectors |
| `VectorLemmas`, `CodegenLemmas` | | facts about vectors; about the code that is generated, what relocation makes of it, and where in it each IR instruction is |
| `VMProofs`, `LinkingProofs`, `PeepholeProofs`, `BytecodeFileProofs` | | the theorems about the module of that name |
| `CFGProofs` | | the theorems about `SimplifyCFG` and `Dominators` |
| `CompiledProofs` | | the theorem that `CompiledProgram` implements `IRMachine` |
| `IRPrograms`, `IRShapes`, `IRLoops` | | the programs the runs use |
| `MCFrontEnd`, `MCCompiled`, `MCLinking`, `MCPeephole`, `MCOptimised`, `MCControlFlow`, `MCSSA`, `MCBytecodeFile` | | instances for TLC |

State of `VM` and the code: `prog` is `vm_insts` with `entry`, `entry_end` and
`global_var_init_len`; `reg` and `frame` are the members of the same name, except
that sequences count from 1, so `frame[1]` is the code's `frame[0]`; `pc` and `mode`
are the members; `status` says whether `run` goes on, has returned, or the process
died (`UNREACHABLE()` exits, `at()` throws, division by zero, a null pointer); `out`
is what was printed. A fault is the action `Abort`, so that every partial operation
of the code is guarded by exactly the condition under which it works. Where the code
has undefined behaviour (an argument that is no ARG, popping the last frame) the
model stops as well.

`Codegen` keeps names in calls and jumps until the fix-ups, as the code does, and
models what `std::map::operator[]` does with a missing name: 0.

State of `Peephole` and the code: `blocks` is `block_list` with an identity in place of
each pointer, `node` the instruction behind it, `window` the deque, `block` and `at` the
place of the iterator `it`, `changed` the member. `Skip` and `Visit` are the two branches
of the inner loop; `Visit` contains the whole of `pass`. The pass keeps iterators to list
nodes it erases and reads through them later (`window[len - 2]` after `pop_back`, too). It
stores a null pointer in a node before it erases it, and that is what such a read finds in
the build, so the model gives `Null` there; for the language it is undefined. `front()` of an
empty block, which `-no-cfg-simplify` makes possible, ends in the outcome `crashed`. `jifSamePass`
erases the entry behind a JIF instead of the JIF, so that the next read is behind the window
(`ReadsBehind`): the model lets the process die or go on there. It takes a JIF with one target at
the front of the window, and no generated code has one: a condition is computed from operands,
whose loads stay in front of it.

`OptimisedProgram` runs the machine twice, on `plain` and on `Result`. The first run records
the words it read, the second reads the same ones. `loose` remembers that some erasure was not
`Justified`: the instruction compared with is not the neighbour in the block, or the stored
condition is a variable mentioned elsewhere, or the block is the initialisers'.

`IRMachine` is a specification, not a translation: a variable is global if it has an
initialiser, unless it is a parameter of the function, and local otherwise (`Local` in `IR`);
an argument is the value of its expression, a call returns
to where it was made, a return of main ends the program. An argument list binds
parameters in one step, so the refinement mapping counts a callee as entered once
its PARAMs have run. A builtin that returns nothing leaves its destination
unspecified.

`IRGenerator` computes: its record is the state of the visitors (`cur_basic_block`,
`loop_stack`, the jumps that wait for the end of the loop). What an expression computes is left
out: it is an event with a name, and a condition comes out either way. `LINK` adds to `pres`
and `succs` at once, so one set of `edges` stands for both. `undefined` marks the programs in
which `back()` is asked of an empty list, or a jump without a `block` is linked; these stop.

State of `SimplifyCFG` and the code: `blocks` is `func->blocks`, `it` the iterator,
`code` what the blocks contain, a block removed from the list included; `pass` is `off` with
`-no-cfg-simplify`. `ControlFlow` runs the statements (`rest` is what is still to be done, with a
mark behind the body of each loop) and the blocks (`block`, `inst`, falling through to the next of
the list as the bytecode generator lays them out). Both go on silently to their next event,
and take it together. The function is main or another one. A return ends another one, and main ends
where `fetch` stops, which is in front of its last instruction (`MainEnds`). Behind the last block the code is
in the next function, and a jump to a block without instructions has no address: then `block` is `Nowhere`.
What no statement says is `Astray`; where the two are not at the same event they `Part`.

`Dominators` has the maps of class `CFG` under their names (`bucket` is `tree`, `ds` the two
`disjoint_set` maps, `frontier` is `dominance_frontier`); `dfn` is the vector, from which
`dfn_map` follows. `calls` is the stack of the recursive `dfs`: of each call under way its block and the
successors its loop has not come to, `todo`. They come in any order, since the code keeps them in a hash
set of addresses. `Visit` is a call that goes in, `ComeBack` its return, which notes the father in the
caller's loop (`Noted`), `VisitAgain` a call that is back at once. `find` and the runner are recursive
functions; the runner stops at the latest after as many steps as there are blocks, if the fathers of the
tree are right.

`SSA` follows one variable x, which four kinds of event set, read, increment and print. The passes
keep names, stacks and phis per variable, so variables do not meet, but for one collision: `x1`
renamed to 0 is called what `x` renamed to 10 is. An `IRVar` that is a definition is its place in
the program (its site), a list `use` a set of users, and what the code spreads over `IRVar`, `IRPhi`
and the maps of `CFG` is the record `names`. `home` is the field `block` of the instruction a
definition belongs to, which `phiElimination` changes. `options` are `-constant-folding`,
`-constant-propagation` (which works on top of it) and `-dead-code-elimination`. `fate` says
that the compiler exited at an `UNREACHABLE()` or died at a null argument.

`SSAProgram` executes the blocks that leave SSA with either outcome of each branch. Values are left
out: `current` is the set of names that hold what x would hold in the program as it was written. A
definition makes its own name the only one; a copy between names hands the quality on. `GraphTrue`
leaves out graphs whose edges are not those of the code (finding 2), which SSA cannot repair.

`Lexer` reads `text` by position; the loops over characters are `Behind` and `Find`. `tokens` is what
`nextToken` has returned, and a place in it is `cur_token`, the one before it `pre_token`. The parser
asks for a token at a time, and nothing flows back to the lexer, so the model reads all of them first.
`Exited` is an exit at `eat` or a null pointer, `Stuck` a loop that takes no token; nodes are records
named for their fields.

`Expressions` keeps `cur_value`, `tmp_vars`, `var_cnt` and `check_var_exist` under (nearly) these
names; `vars` are the `IRVar` objects, whose `def` and `use` are places in it. In `FrontEnd`, `source` is the
program as a tree and what separates its tokens; `text` is that tree written out by `Meaning`, which puts
parentheses and semicolons only where they are needed. `gen` is the state of the visitors, `rest` the
statements to come. The terms of `Meaning` keep an operation unevaluated, so that two results are the
same only if they were computed the same way; `Executed` is what the instructions do, on these terms.

The model was compared with the program: the instructions that `FrontEnd` gives for 396 programs
like those of the run are, name for name, those that `cyx2` prints, with `-no-code-simplify` and
`-remove-unused-code` on and off.

`BytecodeFile`: the file is a sequence of cells, one per value written, each with its kind. `Die` is a
writer that is killed or whose disk is full, which the code does not ask; a prefix of the cells remains. A
cell that is missing or of another kind leaves what was to be read uninitialised (`bytecode_reader.cpp:66-78`), and
the code goes on with it, as length of a string, count of a list, tag or opcode. From there the reader is `astray`,
and two ends are possible. It comes out of its loop when `peek` meets the end of the file, and the program it
runs has anything behind the instructions read so far (`misloaded`). Or the process is gone (`exited`), at an
`UNREACHABLE()`, at `LOGE`, or for a length it has no memory for. Nothing is claimed of how it goes on, only of what it had
in front of it. A header that is cut off leaves entry points that are anything; `LOGE` exits only if both of the two
bytes in front are wrong. A file cut inside a cell has no case of its own. Bytes hold what the code puts in
them (registers and small counts); values beyond 255 do not occur.

Definitions whose comment starts with "Wrong" are slips of the kind these modules
guard against; nothing uses them. Each makes one property fail when it takes the
place of the definition behind it, which shows that the property depends on it.

## Runs

| run | question | result |
|---|---|---|
| `front_end` (`MCFrontEnd.cfg`) | Is a text read as it was written, grouped as precedence and parentheses say, and do the instructions mean what it says? | 303482 states, holds |
| `compiled` (`MCCompiled.cfg`) | Does the generated code do what the IR means; does it keep types, the calling convention, the isolation of frames and the global table, and stop? | 28617 states, holds |
| `linking` (`MCLinking.cfg`) | Is every jump, call and entry point resolved to the right place, and the result what the machine relies on? | 15830 states, holds |
| `peephole` (`MCPeephole.cfg`) | Does the pass keep jumps on their way, no jumped-to block empty, and does it end? | 72900 states, holds |
| `optimised` (`MCOptimised.cfg`) | Does the optimised code do what the plain code does, as long as every erasure is justified? | 122744 states, holds |
| `file` (`MCBytecodeFile.cfg`) | Is a program that was written read back as it was, in step, and what is lost when the writer died? | 358904 states, holds |
| `lowering` (`MCControlFlow.cfg`) | Do the blocks do what the statements say and end where they end; does removing blocks leave jumps and edges whole? | 103567 states, holds |
| `ssa` (`MCSSA.cfg`) | What does the dominator computation get right, do names stand for the definitions that reach, and does the program that leaves SSA read what it should? | 3396112 states, holds |
| `loop_head` (`MCLoopHead.cfg`) | Does the optimised code always do what the plain code does? | violated |
| `nested_if` (`MCNestedIf.cfg`) | `lowering`, with a conditional in the true arm of another | violated |
| `lost_copy` (`MCLostCopy.cfg`) | Is no copy of phi elimination behind an instruction that leaves its block? | violated |
| `negation_file` (`MCNegationFile.cfg`) | `file`, with a `~` instruction | violated |

### The properties

* `ReadAsWritten` — whatever blanks and comments stand between them, the tokens are those that were
  written: none runs into the next, no comment eats its neighbour.
* `GroupedAsWritten` — the tree is the one that was written out, so that precedence, the grouping to the
  left and the parentheses agree with the table of `Meaning`, for any two operators.
* `MeaningKept` — after each statement, the instructions made so far call what the statements call, in
  the same order, with arguments computed the same way, and return the same; with temporaries folded and
  unused definitions removed or not. It is about the hand-over through `cur_value` and `tmp_vars`, the
  flag `check_var_exist`, and def-use lists that are incomplete.
* `Compiles` — lexer and parser come to the end of every such text, and no visitor exits or crashes.
* `CallProtocol` — above the globals' frame lies main's; every further frame serves a
  CALL of the frame below: that CALL's target is the function the frame executes, and
  the saved pc has moved past it by the number of PARAMs executed so far. So a PARAM
  reads the ARG of its own position of its own call, and RET resumes behind the last.
* `FrameIsolation` — no step changes or removes a variable of a suspended call.
* `GlobalTable` — only the names of the initialisers are ever entered in `frame[0]`.
* `Termination` — every program of the run stops.
* `ImplementsIR` — refinement of `IRMachine`: same values in the same variables at every
  IR instruction, same output, same outcome. It is a theorem as well.
* `JumpsResolved`, `CallsResolved`, `EntryPoints` — each address is the one the layout
  gives the name. `LinkedWell` — the result satisfies `WellLinked`, which is what
  `VM` assumes of its programs (`ASSUME ProgramsLinked`), so the two modules fit.
  All four are theorems as well.
* `JumpsLead` — a jump, however often redirected, goes where the jump it was made of would have
  gone in the end: through blocks of the generated code that are left at once, each side of a JIF on its own.
  A block is left at once for some labels if it has a jump with these labels and everything in front
  of it has been erased. Whether that was right to erase is not asked here but by `JustifiedIsSafe`.
  One program of the run (`SelfAssigned`) has a block that is left at once only after an erasure.
  `JumpsLead` is a theorem as well.
* `NoJumpToNothing` — no block that a jump names has lost all its instructions.
* `Stops` — the rounds of the pass come to an end.
* `SameBehaviour` — the optimised program reads, prints and ends like the plain one. It fails
  (finding 1). `JustifiedIsSafe` says where it does not: for every program whose
  erasures were all justified; this covers the rewritings themselves, the redirections and
  the relocation of the rewritten blocks. Of the 516 programs of the run 378 are of that kind.
* `CallsStayLinked` — for these, `CallProtocol` holds in the rewritten code.
* `InStep` — statements and blocks reach the same events in the same order, for every outcome of
  the conditions: an expression, a branch on a condition, the end of the function. It says
  at once that visitors, late jumps, `simplifyIR`, `fixEdges` and `simplifyCFG` agree, and that
  the return is appended without which a function would run on and main lose an instruction. It is about
  functions without an early return in main (`NoReturnInMain`) and, with `-no-cfg-simplify`, about those whose own
  text ends in a return and whose jumps all lead to instructions (`WholeWithout`): the code does
  something else with the others (see the further differences).
* `EdgesCover` — wherever a block can go on, by a jump or by falling through, there is an edge.
  `NoDangling` — no listed block names a removed one. `TargetsHaveCode` — no jump handed to
  the bytecode generator leads to a block without instructions. `EmptyGoesOn` — empty blocks
  have one successor, a later one: what makes removing them safe.
* `Reaches` — simplifyCFG ends, and the code always gets to its next event or out of the function.
* `EntryStaysFirst` — no edge leads back to the first block, in the front end's graphs and at every
  turn of `simplifyCFG`. `calcDominanceFrontier` skips blocks with less than two predecessors; the entry with
  one would be a join that it skips.
* `FathersLeadUp` — the links that `find` follows form no circle, although `dfs` overwrites them.
  `IdomNeverWrong` — whatever the order of successors, a block has its immediate dominator or
  none. `FrontierRight` — where none is missing the frontiers are the dominance frontiers. Dominance
  is defined without the tree: by what can be reached from the entry without a block (`Reached`).
  All but `IdomNeverWrong` are theorems as well.
* `ReachingKept` — from the renaming to the last optimisation, what reads x names exactly the
  definitions that reach it on the paths of the graph, directly or through phis. It says at once
  that no phi is missing, no name outlives its block, and no phi that goes takes a definition along.
* `NamesCurrent` — out of SSA, the name that an instruction reads holds what x would hold there, and
  its definition was not removed as dead. It is about the executions in which every copy stands in
  the block of the definition it copies and not behind a branch (`CopiesPlaced`), since
  the code puts them elsewhere as well, and the program then goes wrong (finding 3 and below).
  `NoLostCopy` — what a comment in `phiElimination` promises of the place of copies.
* `Aligned` — the reader starts each instruction where the writer started the one of the same
  number, and has read what was written, in cut files too. `RoundTrip` — a file written to its
  end is loaded, with the same header and all instructions. `OnlyTheCutIsLost` — of a file that was cut off,
  every instruction that it has as a whole is loaded as it was written, whatever the reader makes of the one that
  the file ends in.

### Bounds

* Texts of `front_end`: any two operators around three operands, grouped either way, without a blank where
  none is needed (1045 texts); every kind of statement around four bodies, with four separators, two of
  them comments with tokens in them (396); main functions with any two of 38 statements and three endings, and one statement twice with three
  separators. A level of precedence meets one other at a time, and what a visitor leaves behind
  (a literal, a variable, the flag) the next statement finds. Statements begin with a `;` only where they
  would continue the one before.
* Programs: `VM` is about any set of well linked programs; `compiled` fixes some. Five
  samples contain the opcodes of the model, recursion (three levels deep for input 3,
  and eight calls for 5), nested calls with up to three parameters, all builtins and
  run-time errors. The family of `compiled` puts every pair of 14 statements around a
  branch and calls a function with each of 6 bodies: locals and globals, arrays, elements
  indexed by a variable, calls as statement and operand, shadowing. The interactions
  looked for (a scope changed by an earlier access, a register left over, a saved pc)
  need two statements and a call.
* Input words: `0 1 2 3 5 z`. They choose loop counts, recursion depth, division by
  zero and a word that is not a number.
* Shapes of `linking`, 7915 programs: main has three blocks, left by falling through, a jump or a
  branch to any block (13 ways each for the first two); three kinds of contents; a
  callee with 0 to 2 parameters, in front of main or behind it; with and without
  global initialisers; and the programs of `compiled` and `peephole`. Offsets depend on sizes only,
  and every kind of block precedes every other.
* Programs of `peephole` and `optimised`: a branch inside a loop, where either arm is a simple
  statement, a `continue`, a `break` or both, or absent, followed by a statement (650 programs;
  320 of them are executed), which gives every kind of jump to a jump, to a block in front of it and behind
  it; and the pairs of statements of `compiled` with one function body. A rewriting looks at two
  window entries and the target of a jump. The join behind the arms always ends in a jump here, so it is
  never emptied; other joins may be (see the further differences).
* The second execution in `optimised` has as many turns as the first took: the pass only erases
  instructions and shortens jumps. A program that a loose rewriting makes endless is cut there.
* Functions of `lowering`: 172 statements of two levels (loops, conditionals, the ways to leave
  them, in front of, behind or inside other statements), each alone and in front of a statement, a
  conditional or a loop; as main and as another function; with and without `simplifyCFG`, and without it also with a
  return at the end of the text. Of 1376 compilations with `simplifyCFG` 1113 have no early return in main; of 2752
  without it, 140 have what `InStep` asks for, and the others are checked by the rest of the properties. Lowering is recursive on the syntax, and
  each visitor sees of what it contains only the block it ends in and the jumps that wait; two
  levels and a successor have each combination. Left out are true arms that are empty or open a
  block (`nested_if`), and a `break` as last statement of a while (see below).
  `simplifyIR` is on in the run: without it, code behind a jump stays, and hides the jump from
  `fixEdges`.
* Functions of `ssa`: 363, made of eight conditionals, loops and assignments, alone, in pairs, and
  these inside a loop or an arm; all orders of the successors of each block. In the code both these and the
  children in the dominator tree are hash sets of addresses. The children of each block come in ascending or in descending
  order, chosen block by block; the other orders of three and more children are not tried, since all of them are
  more states than a run can have. A copy or a phi goes wrong between two definitions and a read with a fork, a loop or
  both between them, which pairs inside a loop have. Of 2901 dominator computations 1098 leave some
  block without a dominator; the others are those `FrontierRight` and `ReachingKept` are about. Of
  57204 programs executed, one for each choice of order and options, 35844 have their dominators, and
  of these 6204 all copies with their definitions, 5004 of them with phis: those `NamesCurrent` is
  about. One function ends in a crash of the compiler and one in its exit.
* Files: every linked sample without negation, and all 441 pairs of 21 instruction forms, one per
  way of writing (a pair shows that an instruction ends where the next begins); the writer dies
  after any number of cells.
* `Width = 8` bits for `&`, `|` and `^`; other integers are unbounded and stay small.

### Fairness

`VM!FairSpec` adds weak fairness of `Next`. It is justified by `VM::run`: a
single-threaded loop that nothing suspends, except `read`, which waits for input that
the runs always have. `Termination` is about the programs of the run: a CYX program
may loop for ever. `Peephole!FairSpec` says of `traversal`, also a plain loop, that it goes on
while it runs; it is weak fairness of `Next` with ENABLED written out as
`outcome = "running"`, since TLC is slow in finding out whether a `Visit` is enabled.
`ControlFlow!FairSpec` says of the compiler's loop and of both machines, each a plain loop, that they
go on while they can; taking an event is left to the two together, so `Reaches` ends where both
wait.

### Findings

1. **The pass erases loads at loop heads** (`peephole_optimization.cpp:27`, run `loop_head`): the
   window outlives its block, so a store in front of a loop makes the load at the head go.
2. **A conditional inside a true arm breaks the arm** (`ir_generator.cpp:371`, run `nested_if`): the
   jump over the false arm is added to the block in which the arm began. `if (d) { x if (c) { y } z }`
   does x and leaves; the inner conditional and z are never reached.
3. **Copies are put behind branches** (`cfg.cpp:606`, run `lost_copy`): `phiElimination` puts a copy in
   front of a JMP but behind a branch, where nothing executes it. With `-ssa`,
   `x = 1 while (v) { while (w) { x = x + 1 } } print(x)` prints what x was before the loops.
4. **`~a` cannot be read back** (`bytecode_writer.cpp:109`, run `negation_file`): the writer puts the
   register first, the reader (`bytecode_reader.cpp:103`) takes the type first.

Further differences, found with these modules, which the passing runs leave out (the programs they
occur in are in `IRPrograms`, or easily made) and which have no run of their own:

* A loop that ends in `break` loses an edge (`ir_generator.cpp:1071`): `fixEdges` looks at the last
  instruction, the loop's own jump. When the block behind the loop is empty it is removed, and the
  break names a deleted block.
* A copy stands with the definition it copies, not at the end of the phi's predecessor, and the first
  copy of a phi takes the phi's variable to its own block (`cfg.cpp:584`), so that later copies of
  it go there too. With `-ssa`, two counting loops in a row lose the second one's sum.
* A variable assigned in an inner loop only crashes the compiler with `-ssa` (`cfg.cpp:593`):
  `removeUnusedPhis` leaves a phi that only an unused phi reads, and its argument has no definition.
* A parameter or a global that is read before it is assigned ends the compiler with `-ssa`
  (`cfg.cpp:810`), since nothing ever pushed a name for it.
* A return or a branch on a bare variable is not renamed (`cfg.cpp:743`) and reads version 0.
* `!a` generates no code (`bytecode_generator.cpp:91`): in `genBinary` the branch for unary
  operations handles `~` alone, and the assignment stores what register 1 holds. `Negation`
  violates `ImplementsIR`.
* A return inside main does not end the program (`vm.cpp:323`): it pops main's frame, and execution
  continues behind it in the globals' frame. `EarlyReturn` violates `GlobalTable`.
* Calls in global initialisers are not resolved (`bytecode_generator.cpp:511`): they keep
  target -1, which is `print`. `GlobalCall` violates `CallsResolved`.
* With `-no-cfg-simplify`, which `src/README.md:73` describes as disabling the removal of redundant blocks, nothing
  appends the return either (`cfg.cpp:225`). A function whose text does not end in one runs on into the next
  function, and main, which stops in front of its last instruction (`bytecode_generator.cpp:536`), loses that
  one. `ControlFlow` parts there; `InStep` leaves these functions out.
* Jumps to an empty block go to instruction 0 (`bytecode_generator.cpp:476`), so
  `-no-cfg-simplify` can turn an `if` without `else` into an endless loop.
* The peephole pass can empty a block that is jumped to (`peephole_optimization.cpp:61`), and `front()` of it
  crashes the compiler, in `if (x < 2) { y = 6 } else { x = y } x = x while (x < 1) { x = x + 1 }`: the join holds
  `x = x` alone, the false arm in front of it ends in a store of x, and both its instructions go. The programs
  of run `peephole` have no such join; with one, `NoJumpToNothing` is violated.
* The peephole pass erases stores behind calls (`peephole_optimization.cpp:31`): calls are not of
  interest to the window, so `n = read() n = read()` keeps the first word.
* The number of initialisers is stale (`bytecode_generator.cpp:22`): the pass erases some of them
  after they were counted, and the machine then initialises too much.
* The join behind nested conditionals may have no immediate dominator (`cfg.cpp:44`), depending on
  the order of addresses: `father` is overwritten when a block is reached again. SSA then
  renames nothing in what the join dominates.
* Global initialisers are visited in the order of a hash map (`ir_generator.cpp:765`).
* `removeUnusedVarDef` returns, instead of going on, at the first instruction that is no
  assignment (`ir_generator.cpp:949`), so that it seldom removes anything.
* Nobody takes the value of a statement that is a literal: it stays in `cur_value`, and in
  `y = 3 5 x = y print(x)` the assignment to x finds it and prints 5 (`ir_generator.cpp:224`). A
  condition that is a literal, as in `while (1)`, leaves `tmp_vars` empty and crashes the compiler
  (`ir_generator.cpp:675`).
* A variable that the program calls `t0` is the first temporary as well (`ir_generator.cpp:657`).
* `-remove-unused-code`, which `main.cpp:30` describes as removing unused variable definitions, removes an
  array that only its elements mention (`ir_generator.cpp:951`): elements are no uses.
* Operands are read when the operation is executed: `a + a++` is 3 for a = 1. `&&` and `||` compute both sides.
* `true` and `false` are keywords no expression begins with: `x = true` leaves the parser in a loop without
  progress (`parser.cpp:309`), as do the end of the text and an unknown character in a block. A string or a comment
  without its end keeps the lexer in a loop (`lexer.cpp:291`, `39`). At the top level an unknown
  character ends the program without a message.
* `2 ** 3 ** 2` groups to the left and is 64; the table is said to be copied from one (`parser.cpp:213`) in which it
  groups to the right. So does `a = b = 1`, which has no variable to assign to then, and crashes.
* An array literal drops the operand in front of it (`parser.cpp:162`): `println(x)` with `[2,3]` on the next line
  prints nothing; `x = [1] + a` is `(x = [1]) + a`.
* A name without a definition is accepted in an array literal, an index and a return, which do not set the flag.
* `f(1 2)` is accepted (`parser.cpp:354`); `switch` and `import` generate nothing.
* A bare `return` crashes the compiler (`parser.cpp:441`, `ir_generator.cpp:602`), as does an empty
  true arm in some builds (`ir_generator.cpp:371`).

Differences between `IRMachine` and the code. The programs they occur in do not satisfy `Meant` of
`CompiledProgram`, which is the assumption of `compiled` and of the theorem about it; where there is a name
behind it, `IRPrograms` has such a program.

* A global passed as an argument arrives empty, since PARAM looks in the caller's frame
  only (`GlobalArgument`); `f(a[1])` passes the whole array (`ElementArgument`).
* An array literal ignores the index of an element `a[i]` in it; a branch on an array element tests the array.
* A constant assigned to a global inside a function makes a local, since STOREI and STORES do not look.
* A unary operation has an instruction only if it is `~` of a variable (`Negation`, above).
* A return inside main does not end the program (`EarlyReturn`, above), and a call of main ends it where
  main does: `fetch` stops at an address, in any activation.
* Of two parameters of one name the second counts, and the first is lost.
* An initialiser that mentions a variable without one makes it a global of every function.
* A builtin takes its one argument from the instruction behind the call, whatever there is.
* A branch on a constant has no instruction that computes its condition. Constants other than integers and
  strings have no instruction here either, as doubles are left out. A call that is not in an assignment
  (`IRCall` as an instruction) is excluded as well: the IR generator makes none.

Of the same kind as finding 1, and without a run of their own: a variable that is the condition
of the next branch is erased though it is used later (`peephole_optimization.cpp:198`, allowed
by `Justified` only if nothing else mentions it); and a JIF with one target, which the comment
at line 136 says becomes a JMP, stays unless it is at the front of the window, where no run has one.

## Proofs

`VMProofs` proves for *every* set of well linked programs and inputs, any recursion
and any length of execution:

* `TypeCorrect`: `Spec => []TypeOK`. `TypeOK` says that `frame` is a nonempty vector of
  frames with an integer pc each, and is inductive as it stands: RET of the last frame
  is a fault, so the vector never becomes empty.
* `CallProtocolHolds`: `Spec => []CallProtocol`. With `TypeOK` and `ProgramsLinked` it is
  inductive. The argument: `ArgsTaken(i)`, the number of PARAMs of its function that
  instruction i is past, changes only at a PARAM (lemma `Advance`); that is when the
  caller's saved pc moves (`LinkedParam`). CALL enters at a FUNC, where it is 0
  (`AtHead`, `LinkedCall`); jumps stay in the body, where it is the arity (`InBody`,
  `JumpStep`); at RET the saved pc therefore stands on the last ARG, and the instruction
  behind it is of the caller (`CallerNext`, `LinkedRet`). main's frame is never popped
  because, by hypothesis, main has no RET but the one it stops at (`NotMain`).
* `FramesIsolated`: `Spec => FrameIsolation`, from `TypeOK` and a lemma per way in which a
  handler changes the frames (`DeclareKeeps`, `AssignKeeps`, `CallFrames`, `ParamFrames`,
  `RetFrames`).
* `GlobalTableKept`: `Spec => [](NoReturnInMain(prog) => GlobalTable)`, from `CallProtocol`.
  In `MAIN` the running frame is never `frame[0]`, so no access can enter a name there, and
  a PARAM's caller is not `frame[0]` either. In `INIT` every name that an access reaches is
  one an initialiser mentions; the ARG of a builtin is still in front of `global_len`,
  because a FUNC stands there (`OwnIsGlobal`).

The assumption is `ProgramsLinked`, and the next theorems discharge it. `CallProtocol` and `GlobalTableKept` have the hypothesis
`NoReturnInMain`, which excludes the programs that return from main early (see above); `GlobalTable`
fails without it.

`LinkingProofs` proves this assumption of everything the generator links, for *every* set of well
formed IR programs, with any number of globals, functions, blocks and instructions:

* `LinkedWellHolds`: `Spec => []LinkedWell`. With `VMProofs` it follows that the calling convention
  holds in the code of every such program, main's early returns apart.
* `JumpsAreResolved`, `CallsAreResolved`, `EntryPointsHold`: the other properties of run `linking`.

Its assumption is `ProgramsWellFormed` (`WellFormedIR` in `Codegen`), which TLC checks of the programs
of each run: names of functions and blocks differ, jumps lead to blocks of their function that have
code, calls name a builtin or a function with as many parameters, the last block of a function
does not run out of it, initialisers make no calls, there is a main without parameters. The code gives
functions the name with the number of parameters behind it (`ir_generator.cpp:284`), exits at a call of a name that is not
among them, and numbers its blocks; `simplifyCFG` ends every function by a return, and `TargetsGetCode` is about
the jumps. What remains is in the list of further differences above: calls in initialisers and, with
`-no-cfg-simplify`, jumps to empty blocks.

The argument: instruction lists are vectors, and what stands at an address is found by the sums of the
sizes in front of it (`FlattenFrom`, `FlattenPlaces`; the sums are `Offsets`). `GenOps` says that every
instruction of a block's code is one of those that `genInst` makes of one IR instruction, and which ones
these may be. So every address of the linked code has a place, a function, a block and an instruction in it
(`Whereabouts`), and the fix-ups, which look names up in tables of sums, give the sum of the block with that
name, since names differ. `WellLinked` then follows from three facts, each about vectors of
functions alone: the functions lie one behind the other and begin by a FUNC and their PARAMs
(`Arranged`), what leaves a body goes where `WellLinked` says (`Flowing`), and main is entered at its head (`Entered`).

`CompiledProofs` proves the refinement:

* `CompiledProgramsImplementIR`: `Spec => ImplementsIR`. Whatever the IR program, its input, its
  recursion and the length of its execution, every turn of `run`'s loop on the generated and relocated
  code is a step of `IRMachine` or none.

The assumption is `ProgramsCompiled`: each program is what the generator makes of an IR program
that is well formed and `Meant`, and TLC checks it of the programs of `compiled`. `Meant` excludes
the differences listed under the findings and nothing else. `ProgramsLinked` follows from it (`CompiledLinked`).
The theorem is one of safety: that the machine goes on is not part of it.

An IR instruction is up to as many turns as it has operands and elements, and only its last one is a step
of `IRMachine`. The invariant is `TypeOK`, `CallProtocol` and `GlobalTable`, which `VMProofs` proves, with
`Sound`, which says how far the machine is:

* it stands at an instruction of the code of one IR instruction, or in the header of a function, as
  the layout says (`AtSpot`, `AtHeader`; that these are all places and lie one behind the other is in `CodegenLemmas`);
* inside the code of an IR instruction, the registers hold the operands loaded so far, or the
  result (`Ready`). A load enters a variable that is missing, but none with a global's name and
  none of the callers' (`Grown`), so that earlier loads stay valid;
* no frame above the globals' has a global's name but as a parameter (`ScopesOK`), so `findSymbol`, which
  looks for names at run time, finds the variable that `IRMachine` means. In the initialisers the
  variables of those that ran are entered (`Earlier`), and with `GlobalTable` no others in main;
* in a header, the parameters bound so far hold what the caller's arguments are (`Passing`). `CallProtocol`
  says that the caller's saved pc is at that argument, and a call of the abstract machine happens when the last
  PARAM has run (`CalledTurn`); a function without parameters is entered by its FUNC;
* no register and no variable holds the garbage that only a fault computes (`Clean`).

The steps are one lemma per kind of IR instruction: each of its turns either leaves the abstract state
alone (`Interior`), completes the assignment (`Final`), transfers control (`JumpTurn`, `BranchTurn`,
`ReturnTurn`), makes a frame (`UserTurn`), or does what a builtin does (`BuiltinTurns`); or it aborts, and then the
expression has no value in `IRMachine` either (`Aborts`). Behind the last instruction of a block the code goes on
in the next that is not empty, as `IRMachine` does (`NextSpot`), and a jump leads to the block of its name (`JumpSpot`).
RET resumes the caller at the instruction that stores the result (`Resumes`), since `CallProtocol` has it stand on
the call's last ARG. The program ends where `fetch` stops, which is main's only return (`EndOfMain`).

`PeepholeProofs` proves, for every set of well formed programs, `InstructionsStay`: `Spec => []TypeOK` of `Peephole`. The
pass keeps iterators to nodes that it erases and erases through iterators found in a window that outlives
blocks and rounds; the theorem says that whatever comes out, an instruction is in its block once and in
its order, or has been erased from the block and set to null, both or neither. The generated
program is numbered without repetition (`GeneratedNumbered`); each rewriting keeps that (`Kept`, a lemma
per rewriting), and the loop of the redirections, which is recursive over the window, stays within a set of
states (`Versions`) that one redirection does not leave. The invariant adds to `TypeOK` that numbers belong to
one block only, without which erasing an instruction from the blocks could take it from two.

And it proves `JumpsStayStraight`: `Spec => []JumpsLead`. `ComesTo` collects labels in as many steps as
there are blocks. That this is enough (`ComesToClosed`) is a pigeonhole argument: a step that adds no name of a block
adds nothing afterwards, and there are no more names than blocks. With it `ComesTo` is the least set closed under going on
(`ComesToLeast`), transitive (`ComesOn`) and grows with what is erased (`ComesMore`). A
redirection looks at the jump that heads a block *now*; since instructions keep their order, what stood in front of it
has been erased, so the block is left at once for the labels that jump had (`LedFurther`), and by the
invariant these lead where it goes now. The last step needs that the block looked at has the label's name, which is
so unless no block has it: then the code looks at the first block, the initialisers, and takes a
jump there for the target's. `JumpFree` says there is none.

`BytecodeFileProofs` proves for *every* program whose instructions are `Writable` and for a file of any length,
complete or cut at any cell:

* `ReadsTyped`: what is read is well formed; `ReaderKeepsItsPlace`: `[](Writable(prog) => Aligned)`;
  `FilesRoundTrip`: `[](Writable(prog) => RoundTrip)`; `NothingElseIsLost`: `[](Writable(prog) => OnlyTheCutIsLost)`.

`Writable` says of each instruction that its fields have the kinds that the code writes for its opcode, and that
it is no unary operation, for which the theorems are false (finding 4). The module of run `file` states it of
the programs of that run, by an assumption that TLC checks. The argument goes from the inside out: a cell
read as the kind it was written as gives its value; then an index list, a value, an array; then a field, the
fields of an instruction, an instruction; if the file ends inside one of them, there is nothing to read as that
kind. The invariant says that cells 1 to the length of the file are what was written
(`Contents`), and that the reader's place is the start of the instruction of the same number (`Progress`). Every
instruction takes a cell at least, so the later ones start further on (`StartGrows`), and where the
reader goes astray no instruction further on ends in the file (`WholeOnesLoaded`).

`CFGProofs` proves for *every* function, whatever its number of blocks, their contents and
the shape of the graph, from `SimplifyInit`: types, edges that cover the jumps (`EdgesCover`), and
empty blocks that lead on (`EmptyGoesOn`). These are what run `lowering` checks of the graphs the
front end makes, in every state. That they start from `SimplifyInit` is a hypothesis about the front
end: a loop that ends in `break` makes a graph without `EdgesCover`.

* `GraphTyped`, `EdgesStayCovering`, `EmptyBlocksGoOn`: `SimplifySpec => []TypeOK`, `[]EdgesCover`,
  `[]EmptyGoesOn`.
* `NothingDangles`: `SimplifySpec => []NoDangling`, from `EdgesCover`: edges join listed blocks only.
* `TargetsGetCode`: `SimplifySpec => []TargetsHaveCode`.

The inductive invariant is `TypeOK /\ EdgesCover /\ EmptyGoesOn /\ Passed /\ Returned`.
`EdgesCover` alone is not inductive: when an empty block goes, its predecessors must gain exactly
its one successor, and that successor must not be the block itself; `EmptyGoesOn` says so, because
empty blocks lead to later ones. The block in front of a removed one may fall through; it then had
the removed block as successor and now has the next (`RemoveEmptyKeeps`), and what falls into an unreachable
block cannot exist, since the edge would be there (`RemoveUnreachableKeeps`). `Passed` says that
the blocks the iterator has left behind are not empty, or are the entry or the last; `Returned` says
that the last block has code when the pass is done; together they give `TargetsHaveCode`.

About the dominators, for every such function in which no edge leads to the first block
(`DominatorsSpec`), and every order of successors:

* `EntryIsLeftFirst`: `DominatorsSpec => []EntryStaysFirst`. What `simplifyCFG` removes is never the first
  block, because it has no predecessors, and an empty block in front of it that goes would need an edge to it.
* `FathersAlwaysLeadUp`: `DominatorsSpec => []FathersLeadUp`. `father` is not the tree of the search: it is
  overwritten each time a block is met again, also from below. The invariant is about the blocks whose call of `dfs` is
  over (`Done`): no set of them has its fathers in itself (`NoCircle`), hence no circle. When a visited block is met
  again its father becomes the block of the innermost call, which is not over; when a call ends, its
  block joins `Done` with the caller, which is under way, for a father. At the end only the entry's call remains, so every block
  leads up, and in fewer steps than there are blocks (a pigeonhole argument on chains of sets, `ChainStops`).
* `FrontiersAreRight`: `DominatorsSpec => [](IdomNeverWrong => FrontierRight)`. First what is reached without d
  is the least set that has the entry and all successors but d (`ReachedLeast`); so dominance is an
  order with the entry on top (`DominatesTransitive`, `DominatesAntisymmetric`, `EntryOnTop`), what dominates a block from above
  dominates its predecessors (`DominatesBefore`), and one predecessor makes no join (`OnlyWay`). With right
  parents a runner passes exactly the dominators of the predecessor short of stop and what dominates it (`RunnersAre`): at each
  step, whatever dominates the predecessor is behind it or above it (`ClimbingAt`), and there are fewer above it with every
  step (`FewerAbove`). Runners from predecessors that are not reached pass nothing that is (`RunnerOffTheTree`).

`IdomNeverWrong` is a hypothesis of the last theorem and stays model-checked. It is false of graphs in
general, even small ones without a loop: with edges 1-2, 1-3, 2-3, 2-4 and 3-4, `tarjan` may name 2 for the immediate
dominator of 4, which can be reached by 3. No function of run `ssa` has such a graph;
that it holds there is a property of the graphs that `IRGenerator` makes.

Recursive functions are no obstacle: sums of sizes, FlattenSeq and the redirection loop are handled by
induction over a set of numbers or a closed set of states (`VectorLemmas`), not over an operator.

Only model-checked:

* `NoJumpToNothing` of the peephole pass. It is not true of every well formed program: of two jumps in a row
  the second goes, even if it is all that a block has. It is checked of the programs of run `peephole`, and
  what they have in front of, in and behind a block is not all that the generator can make: there is a program
  of which it is false (see the further differences).
* `JustifiedIsSafe` and `CallsStayLinked`, which compare two executions, or one of rewritten code.
* `IdomNeverWrong`, which depends on the graphs of the front end (see above), and `ReachingKept` and
  `NamesCurrent`: as `InStep`, they begin with statements that are lowered by RECURSIVE operators, so a proof would
  be an induction over their syntax.
* The properties of `FrontEnd`, which is recursive descent throughout.
* `Stops`, `Termination` and `Reaches`: liveness under fairness is out of the prover's reach.

## Not modelled

* Doubles and what needs them (EXP, LOADD, STORED, the builtin `double`), overflow of
  `long long`, the order of strings, the text of printed arrays.
* Of SSA: the values that folding computes, array elements, what a definition reads apart from its
  own variable, and the operands of returns and branches.
* Of the lexer: rows and columns, which only messages mention; of the parser: literals too large for
  `long long`, and the value of a literal with a point.
* Of the IR generator: nested scopes, the first scan of functions, global initialisers, and calls of other functions
  in expressions; expressions and control flow are modelled apart, the one for a body without
  branches, the other with expressions as events.
* Of the bytecode file: single bytes, files that no writer made.
* AST classes and dumps: no behaviour of their own.

## Plan

1. done: `CYXValue`, `LinkedProgram`, `VM` with its proofs; `IR`, `Codegen`, `Layout`,
   `Linking`; `IRMachine` and the refinement in `CompiledProgram`.
2. done: `Peephole`, `OptimisedProgram`.
3. done: `IRBlocks`, `IRGenerator`, `SimplifyCFG` with its proofs, `ControlFlow`, `Dominators`.
4. done: `VMInstruction`, `BytecodeFile`.
5. done: `SSA`, `SSAProgram`.
6. done: `Lexer`, `Parser`, `Expressions`, `Meaning`, `FrontEnd`.
7. Scopes, the first scan and global initialisers, with calls between functions.
8. done: theorems about relocation (which discharge the assumption about the machine's programs), the
   bytecode file, and the types and the jumps of the peephole pass.
9. done: the theorem that compiled programs implement their IR.
10. done: theorems about the fathers and the frontiers of the dominator computation.
11. Theorems: `NoJumpToNothing`, for the programs it holds of.
