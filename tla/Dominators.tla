----------------------------- MODULE Dominators ------------------------------
(***************************************************************************)
(* The dominator tree and the dominance frontiers that -ssa builds:        *)
(* CFG::buildDominateTree of compiler/ir/cfg.cpp, on the graph that        *)
(* simplifyCFG leaves of a function.  One action per call of dfs(), per    *)
(* return from it and per loop turn of tarjan().                           *)
(***************************************************************************)
EXTENDS SimplifyCFG, FiniteSetsExt

VARIABLES
  calls,     \* the calls of dfs() under way, the innermost last: a block
             \* and those of its successors that it has not come to
  dfn,       \* the blocks in the order dfs reached them
  father,
  sdom,      \* semidominator
  ds,        \* disjoint_set and disjoint_set_val: [up, val]
  bucket,    \* "tree" while tarjan runs
  idom,
  frontier,  \* dominance_frontier
  phase,     \* "simplify", "dfs", "semi", "tree", "built", or one of SSA's
  i          \* tarjan's counter

state == <<calls, dfn, father, sdom, ds, bucket, idom, frontier, i>>
tarjans == <<sdom, ds, bucket, idom, frontier>>
Null == 0

(* Entries of the maps are made when they are read: 0 for dfn_map.         *)
Dfn(b) == IF \E k \in DOMAIN dfn : dfn[k] = b THEN (CHOOSE k \in DOMAIN dfn : dfn[k] = b) - 1 ELSE 0

Entry == blocks[1]

-----------------------------------------------------------------------------
(* What dfs has visited, and in the end all it can reach. *)
Reachable == ToSet(dfn)

DominatorsInit ==
  /\ calls = << >> /\ dfn = << >> /\ i = 0
  /\ father = [b \in DOMAIN code |-> Null]
  /\ sdom = [b \in DOMAIN code |-> b]
  /\ ds = [up |-> sdom, val |-> sdom]
  /\ bucket = [b \in {Null} \cup DOMAIN code |-> {}]
  /\ idom = [b \in {Null} \cup DOMAIN code |-> Null]
  /\ frontier = [b \in DOMAIN code |-> {}]
  /\ phase = "simplify"

Simplify ==
  /\ simplifyCFG
  /\ UNCHANGED <<state, phase>>

Call(b) == [block |-> b, todo |-> Succs(b)]

Search ==
  /\ phase = "simplify" /\ pass = "done"
  /\ phase' = "dfs"
  /\ calls' = <<Call(Entry)>> /\ dfn' = <<Entry>>
  /\ UNCHANGED <<graph, father, tarjans, i>>

Searching == phase = "dfs" /\ calls # << >>
Innermost == Last(calls)

(* The successors are a hash set of addresses: they come in any order. *)
Without(c) == [calls EXCEPT ![Len(calls)].todo = @ \ {c}]

(* Wrong: the father is noted in front of the call. *)
NotedFirst(when, b, c) == IF when = "call" THEN [father EXCEPT ![c] = b] ELSE father

(* The father is noted when the call is back. *)
Noted(when, b, c) == IF when = "return" THEN [father EXCEPT ![c] = b] ELSE father

Visit(c) ==
  /\ c \notin Reachable
  /\ calls' = Append(Without(c), Call(c)) /\ dfn' = Append(dfn, c)
  /\ father' = Noted("call", Innermost.block, c)

(* A call that is back at once: the block was visited before. *)
VisitAgain(c) ==
  /\ c \in Reachable
  /\ calls' = Without(c)
  /\ father' = [father EXCEPT ![c] = Innermost.block]
  /\ UNCHANGED dfn

ComeBack ==
  /\ Innermost.todo = {} /\ Len(calls) > 1
  /\ calls' = Front(calls)
  /\ father' = Noted("return", calls[Len(calls) - 1].block, Innermost.block)
  /\ UNCHANGED dfn

dfs ==
  /\ Searching
  /\ ComeBack \/ \E c \in Innermost.todo : Visit(c) \/ VisitAgain(c)
  /\ UNCHANGED <<graph, tarjans, phase, i>>

Number ==
  /\ Searching /\ Innermost.todo = {} /\ Len(calls) = 1
  /\ calls' = << >>
  /\ phase' = "semi" /\ i' = Len(dfn)
  /\ UNCHANGED <<graph, dfn, father, tarjans>>

-----------------------------------------------------------------------------
(* The disjoint sets with the path from b to its root compressed, where    *)
(* the semidominators are sd: val[b] becomes the block with the least      *)
(* semidominator on the path.                                              *)
find(d, sd, b) ==
  LET found[c \in Reachable] ==
        IF d.up[c] = c THEN d
        ELSE LET f == found[d.up[c]]
                 parent == f.up[c]
                 better == Dfn(sd[f.val[parent]]) < Dfn(sd[f.val[c]])
             IN [up |-> [f.up EXCEPT ![c] = f.up[parent]],
                 val |-> [f.val EXCEPT ![c] = IF better THEN f.val[parent] ELSE @]]
  IN found[b]

(* Wrong: the father for the semidominator, whatever other way there is. *)
SemiIsFather(c) == father[c]

(* The predecessors' semidominators, as their val stands: find is called   *)
(* on the block itself, which is its own root then.                        *)
Semi(c) ==
  LET candidates == {Dfn(sdom[c])} \cup {Dfn(sdom[ds.val[p]]) : p \in Pres(c) \cap Reachable}
  IN dfn[Min(candidates) + 1]

Tarjan ==
  /\ phase = "semi" /\ i > 1
  /\ LET c == dfn[i]
         t == father[c]
         sd == [sdom EXCEPT ![c] = Semi(c)]
         filled == [bucket EXCEPT ![Semi(c)] = @ \cup {c}]
         linked == [ds EXCEPT !.up[c] = t]
         d == FoldSet(LAMBDA b, acc : find(acc, sd, b), linked, filled[t])
     IN /\ sdom' = sd /\ ds' = d
        /\ bucket' = [filled EXCEPT ![t] = {}]
        /\ idom' = [b \in DOMAIN idom |->
                      IF b \notin filled[t] THEN idom[b]
                      ELSE IF Dfn(sd[d.val[b]]) < Dfn(t) THEN d.val[b] ELSE t]
  /\ i' = i - 1
  /\ UNCHANGED <<graph, calls, dfn, father, frontier, phase>>

StartTree ==
  /\ phase = "semi" /\ i <= 1
  /\ phase' = "tree" /\ i' = 2
  /\ UNCHANGED <<graph, calls, dfn, father, tarjans>>

(* What is not final goes by its dominator's. *)
Closer(c) == IF idom[c] # sdom[c] THEN [idom EXCEPT ![c] = idom[idom[c]]] ELSE idom

(* The second loop: top down. *)
Tree ==
  /\ phase = "tree" /\ i <= Len(dfn)
  /\ idom' = Closer(dfn[i])
  /\ bucket' = [bucket EXCEPT ![idom'[dfn[i]]] = @ \cup {dfn[i]}]
  /\ i' = i + 1
  /\ UNCHANGED <<graph, calls, dfn, father, sdom, ds, frontier, phase>>

(* The runner after n steps up the tree from p, unless it stops before:    *)
(* it needs no more steps than there are blocks.                           *)
runner(p, stop) ==
  LET after[n \in 0 .. Len(dfn)] ==
        IF n = 0 THEN p
        ELSE LET r == after[n - 1] IN IF r \in {stop, Null} THEN r ELSE idom[r]
  IN after

(* Wrong: up to the entry, whatever dominates the join. *)
runnersToTheTop(p, stop) == {runner(p, Null)[n] : n \in 0 .. Len(dfn)} \ {Null}

(* The blocks from p up the tree, short of stop. *)
runners(p, stop) == {runner(p, stop)[n] : n \in 0 .. Len(dfn)} \ {stop, Null}

calcDominanceFrontier ==
  /\ phase = "tree" /\ i > Len(dfn)
  /\ LET joins == {b \in Listed : Cardinality(Pres(b)) >= 2}
         runs(b) == UNION {runners(p, idom[b]) : p \in Pres(b)}
     IN frontier' = [r \in DOMAIN frontier |-> {b \in joins : r \in runs(b)}]
  /\ phase' = "built"
  /\ UNCHANGED <<graph, calls, dfn, father, sdom, ds, bucket, idom, i>>

buildDominateTree ==
  Simplify \/ Search \/ dfs \/ Number \/ Tarjan \/ StartTree \/ Tree \/ calcDominanceFrontier

-----------------------------------------------------------------------------
(* Properties *)

(* No edge leads back to the first block: the loops that the front end     *)
(* makes begin with a block of their own, and simplifyCFG sends no jump    *)
(* past it.  calcDominanceFrontier relies on it: a first block with one    *)
(* predecessor is where two ways meet, but not one of its joins.           *)
EntryStaysFirst == Pres(Entry) = {}

(* The block that n fathers up from b, short of the entry. *)
Above(b, n) ==
  LET up[k \in 0 .. Len(dfn)] ==
        [c \in Reachable |-> IF k = 0 \/ c = Entry THEN c ELSE up[k - 1][father[c]]]
  IN up[n][b]

(* The recursion of find ends: although dfs overwrites the father of a     *)
(* block it has visited before, the fathers, which become the links of the *)
(* disjoint sets, never go round in a circle and lead to the entry.        *)
FathersLeadUp ==
  phase = "semi" => \A b \in Reachable : Above(b, Len(dfn)) = Entry

(* What can be reached from the entry without d: by n steps, and by any    *)
(* number.                                                                 *)
ReachedWithin(d) ==
  LET after[n \in 0 .. Len(dfn)] ==
        IF n = 0 THEN {Entry} \ {d}
        ELSE LET before == after[n - 1]
             IN before \cup ((UNION {Succs(b) : b \in before}) \ {d})
  IN after
Reached(d) == ReachedWithin(d)[Len(dfn)]

(* What dominance is, without sets of fathers: the blocks that cannot be   *)
(* reached without d.                                                      *)
Dominated == [d \in Reachable |-> {d} \cup (Reachable \ Reached(d))]

IsImmediate(dominated, d, b) ==
  /\ d \in Reachable \ {b} /\ b \in dominated[d]
  /\ \A e \in Reachable \ {b} : b \in dominated[e] => d \in dominated[e]

InFrontier(dominated, d, b) ==
  /\ \E p \in Pres(b) \cap Reachable : p \in dominated[d]
  /\ d = b \/ b \notin dominated[d]

(* A block has its immediate dominator or none, whatever the order in      *)
(* which the successors were visited: the overwritten fathers can make     *)
(* tarjan lose a dominator, but never name a wrong one.                    *)
IdomNeverWrong ==
  phase = "built" =>
    LET dominated == Dominated
    IN \A b \in Reachable \ {Entry} : idom[b] = Null \/ IsImmediate(dominated, idom[b], b)

(* Where no dominator is lost the frontiers, which say where SSA puts the  *)
(* phis, are the dominance frontiers.                                      *)
FrontierRight ==
  phase = "built" /\ (\A b \in Reachable \ {Entry} : idom[b] # Null) =>
    LET dominated == Dominated
    IN \A b, d \in Reachable : b \in frontier[d] <=> InFrontier(dominated, d, b)

-----------------------------------------------------------------------------
(* The dominators by themselves, of any function whose graph covers its    *)
(* jumps and leaves the entry first.                                       *)

DominatorsSpec ==
  /\ SimplifyInit /\ EntryStaysFirst /\ DominatorsInit
  /\ [][buildDominateTree]_<<graph, state, phase>>
=============================================================================
