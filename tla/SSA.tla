-------------------------------- MODULE SSA ---------------------------------
(***************************************************************************)
(* CFG::transformToSSA of compiler/ir/cfg.cpp behind the dominators: phis, *)
(* names, the optimisations and the way out of SSA, for one variable x of  *)
(* a function.  Variables do not meet in these passes: names, stacks and   *)
(* phis are kept per variable, unless "x1" and 0 make the name that "x"    *)
(* and 10 do.                                                              *)
(*                                                                         *)
(* Of the events of a program four are about x:                            *)
(*   "set"  x = 1        "get"  x = read()                                 *)
(*   "inc"  x = x + 1    "use"  print(x)                                   *)
(* The object IRVar of a definition is its site <<block, instruction>>,    *)
(* <<block, 0>> for the phi of a block; what SSA calls it is a number, the *)
(* ssa_index.  What refers to a definition (the lists "use") is a user:    *)
(* "inst" and a site, "arg" and <<block, place in the phi>>, or "copy".    *)
(***************************************************************************)
EXTENDS Dominators, IRGenerator, TLC

CONSTANT Programs

Sets == {"set", "get", "inc"}
Gets == {"inc", "use"}

Nobody == <<0, 0>>

(* The optimisations asked for: propagation works on top of folding.       *)
Options == {o \in [fold : BOOLEAN, propagate : BOOLEAN, eliminate : BOOLEAN] : o.propagate => o.fold}

VARIABLES
  options,
  names,      \* the record below
  insts       \* the blocks of instructions after phi elimination

ssa == <<options, names, insts>>

(* phis    the blocks that have one                                        *)
(* args    of the phi of a block: a sequence of [id, def, const]           *)
(* count, stack, defs   counter, stack and ssa_def_map                     *)
(* id      the ssa_index of a definition                                   *)
(* reads   the name of x in what reads it                                  *)
(* refs    the site in what reads it: its field def                        *)
(* uses    the users of a definition                                       *)
(* folded  the "inc"s that have become constants                           *)
(* home    the block of the instruction a definition belongs to            *)
(* dead    the definitions that were removed                               *)
(* fate    "alive", "exited" at UNREACHABLE, "crashed" at a null pointer   *)

SetsAt(b) == {k \in DOMAIN code[b] : code[b][k].tag = "EVAL" /\ code[b][k].what \in Sets}
GetsAt(b) == {k \in DOMAIN code[b] : code[b][k].tag = "EVAL" /\ code[b][k].what \in Gets}

Sites == {<<b, 0>> : b \in Listed} \cup UNION {{<<b, k>> : k \in SetsAt(b)} : b \in Listed}
Readers == UNION {{<<b, k>> : k \in GetsAt(b)} : b \in Listed}

Phi(b) == <<b, 0>>
User(kind, b, k) == [kind |-> kind, at |-> <<b, k>>]

What(site) == code[site[1]][site[2]].what

NoNames ==
  [phis |-> {}, args |-> << >>, count |-> 0, stack |-> << >>, defs |-> << >>,
   id |-> << >>, reads |-> << >>, refs |-> << >>, uses |-> << >>, folded |-> {},
   home |-> << >>, dead |-> {}, fate |-> "alive"]

-----------------------------------------------------------------------------
RECURSIVE PhisFor(_), rename(_, _, _), renameNoPop(_, _, _), tryFindConstant(_, _)

(* Wrong: a phi is no definition that needs phis further on. *)
PhisOnce(defining) == UNION {frontier[b] : b \in defining}

(* The work list of insertPhiNode, until it is empty. *)
PhisFor(defining) ==
  LET phis == UNION {frontier[b] : b \in defining}
  IN IF phis \subseteq defining THEN phis ELSE PhisFor(defining \cup phis)

collectVarAssign == {b \in Listed : SetsAt(b) # {}}

(* What the symbol table gave to all that read x: its first definition.    *)
Declaration ==
  IF \A b \in Listed : SetsAt(b) = {} THEN Nobody
  ELSE LET b == Min(collectVarAssign) IN <<b, Min(SetsAt(b))>>

insertPhiNode ==
  [NoNames EXCEPT !.phis = PhisFor(collectVarAssign),
                  !.args = [b \in Listed |-> << >>],
                  !.id = [s \in Sites |-> 0],
                  !.reads = [r \in Readers |-> 0],
                  !.refs = [r \in Readers |-> Declaration],
                  !.uses = [s \in Sites |-> {}],
                  !.home = [s \in Sites |-> s[1]]]

addUse(n, def, user) == IF def = Nobody THEN n ELSE [n EXCEPT !.uses[def] = @ \cup {user}]
killUse(n, def, user) == IF def = Nobody THEN n ELSE [n EXCEPT !.uses[def] = @ \ {user}]

(* newId, and the entry in ssa_def_map. *)
newId(n, site) ==
  [n EXCEPT !.id[site] = n.count, !.count = @ + 1,
            !.stack = Append(@, [id |-> n.count, def |-> site]),
            !.defs = (n.count :> site) @@ @]

getId(n) == IF n.stack = << >> THEN [id |-> 0, def |-> Nobody] ELSE Last(n.stack)

(* A name without a definition ends the compiler. *)
renameVar(n, site) ==
  LET id == getId(n).id
  IN IF id \notin DOMAIN n.defs THEN [n EXCEPT !.fate = "exited"]
     ELSE addUse([n EXCEPT !.reads[site] = id, !.refs[site] = n.defs[id]],
                 n.defs[id], User("inst", site[1], site[2]))

(* The source before the destination. *)
renameIrArgs(n, b, k) ==
  LET read == IF k \in GetsAt(b) THEN renameVar(n, <<b, k>>) ELSE n
  IN IF k \in SetsAt(b) THEN [newId(read, <<b, k>>) EXCEPT !.uses[<<b, k>>] = {}] ELSE read

addArg(n, s) ==
  LET top == getId(n)
      arg == [id |-> top.id, def |-> top.def, const |-> FALSE]
  IN addUse([n EXCEPT !.args[s] = Append(@, arg)], top.def, User("arg", s, Len(n.args[s]) + 1))

(* The definitions of the block itself, its names then for the phis behind *)
(* it.                                                                     *)
renameBlock(n, b) ==
  LET phi == IF b \in n.phis THEN newId(n, Phi(b)) ELSE n
      body == FoldLeft(LAMBDA acc, k : renameIrArgs(acc, b, k), phi, [k \in DOMAIN code[b] |-> k])
  IN FoldSet(LAMBDA s, acc : addArg(acc, s), body, Succs(b) \cap n.phis)

(* What a block pushed, as many as there still are. *)
popped(n, b) ==
  LET pushed == Cardinality(SetsAt(b)) + (IF b \in n.phis THEN 1 ELSE 0)
  IN [n EXCEPT !.stack = SubSeq(@, 1, Max({0, Len(@) - pushed}))]

(* Wrong: the names of a block stay on the stack. *)
renameNoPop(n, b, order) ==
  FoldLeft(LAMBDA acc, c : renameNoPop(acc, c, order), renameBlock(n, b), order[b])

(* Down the dominator tree. *)
rename(n, b, order) ==
  popped(FoldLeft(LAMBDA acc, c : rename(acc, c, order), renameBlock(n, b), order[b]), b)

-----------------------------------------------------------------------------
(* Unused phis go, but what they used stays used. *)
removeUnusedPhis(n) == [n EXCEPT !.phis = {b \in @ : n.uses[Phi(b)] # {}}]

(* All arguments have one name. *)
Trivial(args) == args # << >> /\ \A k \in DOMAIN args : args[k].id = args[1].id

(* The definition noted last: none if there is only one argument. *)
SameDef(args) == IF Len(args) = 1 THEN Nobody ELSE Last(args).def

redirect(n, user, arg) ==
  LET at == user.at
      moved == IF user.kind = "inst" THEN [n EXCEPT !.reads[at] = arg.id, !.refs[at] = arg.def]
               ELSE [n EXCEPT !.args[at[1]][at[2]] = [@ EXCEPT !.id = arg.id, !.def = arg.def]]
  IN addUse(moved, arg.def, user)

destroyPhiNode(n, b) ==
  FoldSet(LAMBDA k, acc : killUse(acc, acc.args[b][k].def, User("arg", b, k)),
          [n EXCEPT !.phis = @ \ {b}], DOMAIN n.args[b])

removeTrivialPhi(n, b) ==
  LET arg == [id |-> n.args[b][1].id, def |-> SameDef(n.args[b])]
      users == n.uses[Phi(b)]
  IN IF b \notin n.phis \/ ~Trivial(n.args[b]) THEN n
     ELSE IF users # {} /\ arg.def = Nobody THEN [n EXCEPT !.fate = "crashed"]
     ELSE destroyPhiNode(FoldSet(LAMBDA u, acc : redirect(acc, u, arg),
                                 [n EXCEPT !.uses[Phi(b)] = {}], users), b)

(* Constant: a "set", or an "inc" of what is constant. *)
tryFindConstant(n, site) ==
  /\ site # Nobody /\ site[2] # 0
  /\ \/ What(site) = "set"
     \/ What(site) = "inc" /\ tryFindConstant(n, n.refs[site])

IsConst(n, site) == site[2] # 0 /\ (What(site) = "set" \/ site \in n.folded)

fold(n, site) ==
  IF What(site) # "inc" \/ ~tryFindConstant(n, site) THEN n
  ELSE killUse([n EXCEPT !.folded = @ \cup {site}], n.refs[site], User("inst", site[1], site[2]))

constantFolding(n) == FoldSet(LAMBDA s, acc : fold(acc, s), n, {s \in Sites : s[2] # 0})

propagate(n, user) ==
  LET arg == n.args[user[1]][user[2]]
  IN IF arg.def = Nobody THEN [n EXCEPT !.fate = "crashed"]
     ELSE IF ~IsConst(n, arg.def) THEN n
     ELSE killUse([n EXCEPT !.args[user[1]][user[2]].const = TRUE], arg.def, User("arg", user[1], user[2]))

constantPropagation(n) ==
  FoldSet(LAMBDA u, acc : propagate(acc, u), n,
          UNION {{<<b, k>> : k \in DOMAIN n.args[b]} : b \in n.phis})

-----------------------------------------------------------------------------
(* Instructions on the way out: those of the block, an EVAL with its site, *)
(* and copies between names.                                               *)
Copy(to, from, site, user) ==
  [tag |-> "COPY", to |-> to, from |-> from.id, def |-> from.def,
   const |-> from.const, dest |-> site, user |-> user]

Instructions(b) ==
  [k \in DOMAIN code[b] |-> IF code[b][k].tag = "EVAL" THEN code[b][k] @@ [at |-> <<b, k>>] ELSE code[b][k]]

(* Wrong: behind the jump as well. *)
insertLast(list, inst) == Append(list, inst)

(* In front of a jump, but behind a branch. *)
insertCopy(list, inst) == IF Last(list).tag = "JMP" THEN Append(Front(list), inst) \o <<Last(list)>> ELSE Append(list, inst)

(* A constant goes to the block of the instruction it was found in, a name *)
(* to the block of the instruction its definition belongs to.  The first   *)
(* copy takes the phi's own variable along, which from then on belongs     *)
(* there.                                                                  *)
eliminateArg(s, b, k) ==
  LET arg == s.n.args[b][k]
      to == IF arg.const THEN arg.def[1] ELSE s.n.home[arg.def]
      user == User("arg", b, k)
      copy == Copy(s.n.id[Phi(b)], arg, IF k = 1 THEN Phi(b) ELSE Nobody, user)
      listed == [s.insts EXCEPT ![to] = insertCopy(@, copy)]
  IN IF arg.def = Nobody THEN [s EXCEPT !.n.fate = "crashed"]
     ELSE IF k = 1 THEN [insts |-> listed, n |-> [s.n EXCEPT !.home[Phi(b)] = to]]
     ELSE [insts |-> listed, n |-> addUse(s.n, Phi(b), User("copy", b, k))]

eliminate(s, b) ==
  FoldLeft(LAMBDA acc, k : eliminateArg(acc, b, k), s, [k \in DOMAIN s.n.args[b] |-> k])

phiElimination(n) ==
  LET phis == SelectSeq(blocks, LAMBDA b : b \in n.phis)
  IN FoldLeft(eliminate, [n |-> n, insts |-> [b \in Listed |-> Instructions(b)]], phis)

-----------------------------------------------------------------------------
(* Dead code: backwards, a definition that nothing uses goes.  A call      *)
(* stays, without its result; all copies of a phi but the first are of a   *)
(* new variable that names the phi's as its definition, and stay, as does  *)
(* what was not renamed.                                                   *)

Unused(n, inst) ==
  \/ inst.tag = "EVAL" /\ inst.what \in Sets /\ n.uses[inst.at] = {} /\ inst.at \in Range(n.defs)
  \/ inst.tag = "COPY" /\ inst.dest # Nobody /\ n.uses[inst.dest] = {}

(* A use that is not killed keeps what it reads. *)
forget(n, inst) ==
  IF inst.tag = "COPY" THEN IF inst.const THEN n ELSE killUse(n, inst.def, inst.user)
  ELSE LET gone == [n EXCEPT !.dead = @ \cup {inst.at}]
       IN IF inst.what = "inc" /\ inst.at \notin n.folded
          THEN killUse(gone, n.refs[inst.at], User("inst", inst.at[1], inst.at[2])) ELSE gone

removeDead(s, b) ==
  LET look(acc, inst) ==
        IF ~Unused(acc.n, inst) THEN [acc EXCEPT !.kept = <<inst>> \o @]
        ELSE [n |-> forget(acc.n, inst), kept |-> IF inst.tag = "EVAL" THEN <<inst>> \o acc.kept ELSE acc.kept]
      done == FoldLeft(look, [n |-> s.n, kept |-> << >>], Reverse(s.insts[b]))
  IN [n |-> done.n, insts |-> [s.insts EXCEPT ![b] = done.kept]]

deadCodeElimination(s) == FoldLeft(removeDead, s, Reverse(blocks))

-----------------------------------------------------------------------------
SSAInit ==
  /\ \E p \in Programs :
       LET g == Generate(p, TRUE)
       IN code = g.blocks /\ edges = g.edges /\ blocks = [b \in DOMAIN g.blocks |-> b]
  /\ it = 1 /\ pass = "on"
  /\ DominatorsInit
  /\ options = [fold |-> FALSE, propagate |-> FALSE, eliminate |-> FALSE]
  /\ names = NoNames /\ insts = << >>

BuildDominateTree == buildDominateTree /\ UNCHANGED ssa

Pass(from, to, n) ==
  /\ phase = from /\ names.fate = "alive"
  /\ phase' = to /\ names' = n
  /\ UNCHANGED <<graph, state>>

InsertPhis == Pass("built", "phis", insertPhiNode) /\ UNCHANGED <<options, insts>>

(* The children of each block in either order of addresses. *)
TryRename ==
  \E reversed \in SUBSET {b \in Listed : Cardinality(bucket[b]) > 1} :
    LET up == [b \in Listed |-> SetToSortSeq(bucket[b], <)]
        order == [b \in Listed |-> IF b \in reversed THEN Reverse(up[b]) ELSE up[b]]
    IN Pass("phis", "named", rename(names, Entry, order)) /\ UNCHANGED <<options, insts>>

RemoveUnusedPhis == Pass("named", "used", removeUnusedPhis(names)) /\ UNCHANGED <<options, insts>>

(* From here on it matters what was asked for on the command line. *)
RemoveTrivialPhi ==
  /\ options' \in Options
  /\ Pass("used", IF options'.fold THEN "trivial" ELSE "small", FoldLeft(removeTrivialPhi, names, blocks))
  /\ UNCHANGED insts

Fold ==
  /\ LET folded == constantFolding(names)
     IN Pass("trivial", "small",
             removeUnusedPhis(IF options.propagate THEN constantPropagation(folded) ELSE folded))
  /\ UNCHANGED <<options, insts>>

(* A crash leaves nothing to go on with. *)
PhiElimination ==
  LET out == phiElimination(names)
  IN Pass("small", "plain", out.n) /\ insts' = out.insts /\ UNCHANGED options

DeadCodeElimination ==
  /\ options.eliminate
  /\ LET out == deadCodeElimination([n |-> names, insts |-> insts])
     IN Pass("plain", "final", out.n) /\ insts' = out.insts /\ UNCHANGED options

TransformToSSA ==
  \/ BuildDominateTree \/ InsertPhis \/ TryRename \/ RemoveUnusedPhis
  \/ RemoveTrivialPhi \/ Fold \/ PhiElimination \/ DeadCodeElimination
=============================================================================
