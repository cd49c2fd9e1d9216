--------------------------- MODULE PeepholeProofs ---------------------------
(***************************************************************************)
(* What the peephole pass keeps of every program: each instruction stays   *)
(* in its block and in its place or is erased, and the window names        *)
(* instructions of the program, whatever the rewritings do to them.        *)
(* And where its jumps lead: to where the original jumps lead in the end,  *)
(* however they have been redirected.                                      *)
(***************************************************************************)
EXTENDS Peephole, CodegenLemmas, FiniteSetTheorems, TLAPS

(* A block's instructions are ordered by their numbers. *)
Ordered(insts) == \A i, j \in DOMAIN insts : i < j => insts[i] < insts[j]

(* The JMPs and JIFs have their labels, and nothing else. *)
Shaped(i) ==
  /\ i.op = "JMP" => i = [op |-> "JMP", label |-> i.label]
  /\ i.op = "JIF" => i = [op |-> "JIF", label1 |-> i.label1, label2 |-> i.label2]

(* The numbered blocks of a generated program. *)
Numbered(g) ==
  /\ IsVector(g.blocks) /\ g.blocks # << >>
  /\ \A k \in DOMAIN g.blocks :
       /\ g.blocks[k] = [name |-> g.blocks[k].name, insts |-> g.blocks[k].insts]
       /\ IsVector(g.blocks[k].insts) /\ Ordered(g.blocks[k].insts)
       /\ ToSet(g.blocks[k].insts) \subseteq DOMAIN g.node \cap Nat
  /\ \A k, l \in DOMAIN g.blocks :
       ToSet(g.blocks[k].insts) \cap ToSet(g.blocks[l].insts) # {} => k = l
  /\ \A id \in DOMAIN g.node : g.node[id] # Null /\ Shaped(g.node[id])

Gone(nodes) == {id \in DOMAIN nodes : nodes[id] = Null}

(* b is what is left of block o when the instructions E are erased. *)
Left(b, o, E) ==
  /\ b = [name |-> o.name, insts |-> b.insts]
  /\ IsVector(b.insts) /\ Ordered(b.insts) /\ ToSet(b.insts) = ToSet(o.insts) \ E

(* What the rewritings keep. *)
Kept(s) ==
  /\ s = [blocks |-> s.blocks, node |-> s.node, window |-> s.window, at |-> s.at,
          removed |-> s.removed, crashed |-> s.crashed]
  /\ IsVector(s.blocks) /\ DOMAIN s.blocks = DOMAIN source.blocks
  /\ \A k \in DOMAIN s.blocks : Left(s.blocks[k], source.blocks[k], Gone(s.node))
  /\ DOMAIN s.node = DOMAIN source.node /\ s.node = [id \in DOMAIN s.node |-> s.node[id]]
  /\ \A id \in DOMAIN s.node : Shaped(s.node[id])
  /\ IsVector(s.window) /\ ToSet(s.window) \subseteq DOMAIN source.node
  /\ s.at \in Nat \ {0}
  /\ s.removed \in BOOLEAN /\ s.crashed \in BOOLEAN

(* The instruction that was put in the window last is in the block that is *)
(* being traversed.                                                        *)
Current(s) ==
  /\ block \in DOMAIN s.blocks
  /\ Len(s.window) >= 1
  /\ s.window[Len(s.window)] \in ToSet(s.blocks[block].insts)

-----------------------------------------------------------------------------
(* Parts of vectors *)

(* A vector that is not empty has a first element. *)
LEMMA NotEmpty ==
  ASSUME NEW s, IsVector(s), s # << >>
  PROVE  1 \in DOMAIN s
<1>1. Len(s) \in Nat /\ DOMAIN s = 1 .. Len(s) /\ s = [k \in 1 .. Len(s) |-> s[k]]
  BY VectorShape
<1>2. Len(s) # 0
  BY <1>1
<1> QED BY <1>1, <1>2

(* An end of a vector. *)
LEMMA EndOf ==
  ASSUME NEW s, IsVector(s), NEW n \in 0 .. Len(s)
  PROVE  LET t == SubSeq(s, n + 1, Len(s))
         IN IsVector(t) /\ Len(t) = Len(s) - n /\ \A k \in 1 .. Len(s) - n : t[k] = s[k + n]
<1> DEFINE t == SubSeq(s, n + 1, Len(s))
           l == Len(s)
<1>1. l \in Nat /\ s \in Seq({s[k] : k \in DOMAIN s})
  BY VectorShape DEF IsVector
<1>2. t = [k \in 1 .. l - n |-> s[k + n]]
  <2>1. t = [k \in 1 .. 1 + l - (n + 1) |-> s[k + (n + 1) - 1]]
    OBVIOUS
  <2>2. 1 + l - (n + 1) = l - n /\ \A k \in Int : k + (n + 1) - 1 = k + n
    BY <1>1
  <2> QED BY <2>1, <2>2
<1>3. t = [k \in 1 .. l - n |-> t[k]] /\ \A k \in 1 .. l - n : t[k] = s[k + n]
  <2> HIDE DEF t
  <2> QED BY <1>2
<1>4. l - n \in Nat
  BY <1>1
<1> HIDE DEF t
<1>5. IsVector(t) /\ Len(t) = l - n
  BY <1>3, <1>4, Vector
<1> QED BY <1>3, <1>5 DEF t

(* The front of a vector. *)
LEMMA FrontOf ==
  ASSUME NEW s, IsVector(s), NEW n \in 0 .. Len(s)
  PROVE  LET t == SubSeq(s, 1, n)
         IN IsVector(t) /\ Len(t) = n /\ \A k \in 1 .. n : t[k] = s[k]
<1> DEFINE t == SubSeq(s, 1, n)
<1>1. Len(s) \in Nat /\ s \in Seq({s[k] : k \in DOMAIN s}) /\ n \in Nat
  BY VectorShape DEF IsVector
<1>2. t = [k \in 1 .. n |-> s[k]]
  <2>1. t = [k \in 1 .. 1 + n - 1 |-> s[k + 1 - 1]]
    OBVIOUS
  <2>2. 1 + n - 1 = n /\ \A k \in Int : k + 1 - 1 = k
    BY <1>1
  <2> QED BY <2>1, <2>2
<1>3. t = [k \in 1 .. n |-> t[k]] /\ \A k \in 1 .. n : t[k] = s[k]
  <2> HIDE DEF t
  <2> QED BY <1>2
<1> HIDE DEF t
<1>4. IsVector(t) /\ Len(t) = n
  BY <1>1, <1>3, Vector
<1> QED BY <1>3, <1>4 DEF t

(* A vector without one of its elements. *)
LEMMA RemovedAt ==
  ASSUME NEW s, IsVector(s), NEW k \in 1 .. Len(s)
  PROVE  LET t == RemoveAt(s, k)
         IN /\ IsVector(t) /\ Len(t) = Len(s) - 1
            /\ \A j \in 1 .. k - 1 : t[j] = s[j]
            /\ \A j \in k .. Len(s) - 1 : t[j] = s[j + 1]
<1> DEFINE a == SubSeq(s, 1, k - 1)
           z == SubSeq(s, k + 1, Len(s))
           l == Len(s)
<1>1. l \in Nat /\ k \in Nat /\ k - 1 \in 0 .. l /\ k \in 0 .. l
  BY VectorShape
<1>2. IsVector(a) /\ Len(a) = k - 1 /\ \A j \in 1 .. k - 1 : a[j] = s[j]
  BY <1>1, FrontOf
<1>3. IsVector(z) /\ Len(z) = l - k /\ \A j \in 1 .. l - k : z[j] = s[j + k]
  BY <1>1, EndOf
<1>4. RemoveAt(s, k) = a \o z
  BY DEF RemoveAt
<1> HIDE DEF a, z
<1>5. /\ IsVector(a \o z) /\ Len(a \o z) = Len(a) + Len(z)
      /\ \A j \in 1 .. Len(a) : (a \o z)[j] = a[j]
      /\ \A j \in 1 .. Len(z) : (a \o z)[Len(a) + j] = z[j]
  <2>1. IsVector(a) /\ IsVector(z)
    BY <1>2, <1>3
  <2> QED BY <2>1, VectorConcat
<1> DEFINE t == a \o z
<1>6. Len(t) = l - 1
  <2>1. (k - 1) + (l - k) = l - 1
    BY <1>1
  <2> QED BY <2>1, <1>2, <1>3, <1>5
<1>7. \A j \in 1 .. k - 1 : t[j] = s[j]
  BY <1>2, <1>5
<1>8. ASSUME NEW j \in k .. l - 1
      PROVE  t[j] = s[j + 1]
  <2> DEFINE i == j - (k - 1)
  <2>1. i \in 1 .. l - k /\ (k - 1) + i = j /\ i + k = j + 1
    BY <1>1
  <2> HIDE DEF i
  <2>2. t[(k - 1) + i] = z[i]
    BY <2>1, <1>2, <1>3, <1>5
  <2>3. z[i] = s[i + k]
    BY <2>1, <1>3
  <2> QED BY <2>1, <2>2, <2>3
<1> HIDE DEF t
<1>9. t = RemoveAt(s, k) /\ IsVector(t)
  BY <1>4, <1>5 DEF t
<1> QED BY <1>6, <1>7, <1>8, <1>9

-----------------------------------------------------------------------------
(* Erasing *)

(* Erasing an instruction keeps the others, and their order. *)
LEMMA WithoutShape ==
  ASSUME NEW s, IsVector(s), Ordered(s), ToSet(s) \subseteq Nat, NEW id
  PROVE  LET t == Without(s, id)
         IN IsVector(t) /\ Ordered(t) /\ ToSet(t) = ToSet(s) \ {id}
<1> DEFINE l == Len(s)
<1>1. l \in Nat /\ DOMAIN s = 1 .. l /\ \A j \in 1 .. l : s[j] \in Nat
  <2>1. \A j \in DOMAIN s : s[j] \in Nat
    BY DEF ToSet
  <2> QED BY <2>1, VectorShape
<1>2. CASE id \notin ToSet(s)
  BY <1>2 DEF Without
<1>3. CASE id \in ToSet(s)
  <2> DEFINE k == CHOOSE j \in DOMAIN s : s[j] = id
             t == RemoveAt(s, k)
             m == l - 1
             up(j) == IF j < k THEN j ELSE j + 1
  <2>1. k \in 1 .. l /\ s[k] = id
    BY <1>1, <1>3 DEF ToSet
  <2>2. Without(s, id) = t
    BY <1>3 DEF Without
  <2> HIDE DEF k
  <2>3. /\ IsVector(t) /\ Len(t) = l - 1
        /\ \A j \in 1 .. k - 1 : t[j] = s[j]
        /\ \A j \in k .. l - 1 : t[j] = s[j + 1]
    BY <2>1, RemovedAt
  <2> HIDE DEF t, l
  <2>4. m \in Nat /\ DOMAIN t = 1 .. m
    <3>1. DOMAIN t = 1 .. Len(t)
      BY <2>3, VectorShape
    <3> QED BY <3>1, <2>1, <2>3, <1>1
  <2>5. \A j \in 1 .. m : up(j) \in 1 .. l /\ up(j) # k /\ t[j] = s[up(j)]
    BY <2>1, <2>3, <1>1
  <2>6. \A i, j \in 1 .. m : i < j => up(i) < up(j)
    BY <2>1, <1>1
  <2>7. \A j \in 1 .. l : j # k => \E i \in 1 .. m : up(i) = j
    <3> TAKE j \in 1 .. l
    <3>1. CASE j < k
      BY <3>1, <1>1, <2>1
    <3>2. CASE j > k
      <4>1. j - 1 \in 1 .. m /\ up(j - 1) = j
        BY <3>2, <1>1, <2>1
      <4> QED BY <4>1
    <3> QED BY <3>1, <3>2, <1>1, <2>1
  <2>8. \A i, j \in 1 .. l : i < j => s[i] < s[j]
    BY <1>1 DEF Ordered
  <2>9. \A j \in 1 .. l : j # k => s[j] # id
    BY <2>1, <2>8, <1>1
  <2> HIDE DEF up, m
  <2>10. Ordered(t)
    <3> SUFFICES ASSUME NEW i \in 1 .. m, NEW j \in 1 .. m, i < j
                 PROVE  t[i] < t[j]
      BY <2>4 DEF Ordered
    <3> QED BY <2>5, <2>6, <2>8
  <2>11. ToSet(t) = ToSet(s) \ {id}
    <3>1. ASSUME NEW x \in ToSet(t) PROVE x \in ToSet(s) \ {id}
      <4>1. PICK j \in 1 .. m : x = t[j]
        BY <2>4 DEF ToSet
      <4> QED BY <4>1, <2>5, <2>9, <1>1 DEF ToSet
    <3>2. ASSUME NEW x \in ToSet(s) \ {id} PROVE x \in ToSet(t)
      <4>1. PICK j \in 1 .. l : x = s[j]
        BY <1>1 DEF ToSet
      <4>2. j # k
        BY <4>1, <2>1
      <4>3. PICK i \in 1 .. m : up(i) = j
        BY <4>2, <2>7
      <4>4. x = t[i]
        BY <4>1, <4>3, <2>5
      <4> QED BY <4>4, <2>4 DEF ToSet
    <3> QED BY <3>1, <3>2
  <2> QED BY <2>2, <2>3, <2>10, <2>11
<1> QED BY <1>2, <1>3

(* What is left of a block when one instruction more is erased. *)
LEMMA EraseOne ==
  ASSUME NEW b, NEW o, NEW E, Left(b, o, E), ToSet(o.insts) \subseteq Nat, NEW id
  PROVE  /\ Left([b EXCEPT !.insts = Without(@, id)], o, E \cup {id})
         /\ id \notin ToSet(o.insts) => Left(b, o, E \cup {id})
<1> DEFINE t == Without(b.insts, id)
           c == [b EXCEPT !.insts = Without(@, id)]
<1>1. /\ b = [name |-> o.name, insts |-> b.insts]
      /\ IsVector(b.insts) /\ Ordered(b.insts) /\ ToSet(b.insts) = ToSet(o.insts) \ E
  BY DEF Left
<1>2. ToSet(b.insts) \subseteq Nat
  BY <1>1
<1>3. IsVector(t) /\ Ordered(t) /\ ToSet(t) = ToSet(b.insts) \ {id}
  BY <1>1, <1>2, WithoutShape
<1>4. c = [b EXCEPT !.insts = t]
  OBVIOUS
<1> HIDE DEF t, c
<1>5. c = [name |-> o.name, insts |-> t]
  BY <1>1, <1>4
<1>6. c = [name |-> o.name, insts |-> c.insts] /\ c.insts = t
  BY <1>5
<1>7. Left(c, o, E \cup {id})
  BY <1>1, <1>3, <1>6 DEF Left
<1>8. id \notin ToSet(o.insts) => Left(b, o, E \cup {id})
  BY <1>1 DEF Left
<1> QED BY <1>7, <1>8 DEF c

(* One more instruction is gone. *)
LEMMA GoneOne ==
  ASSUME NEW nodes, NEW id \in DOMAIN nodes
  PROVE  Gone([nodes EXCEPT ![id] = Null]) = Gone(nodes) \cup {id}
BY DEF Gone

(* The null pointer has no labels. *)
LEMMA NullShaped == Shaped(Null)
BY DEF Shaped, Null

(* The state after an instruction is erased from the blocks, the program   *)
(* and perhaps the window.                                                 *)
LEMMA Erasing ==
  ASSUME Numbered(source), NEW s, Kept(s), NEW id \in DOMAIN source.node,
         NEW t, t = [blocks |-> t.blocks, node |-> [s.node EXCEPT ![id] = Null],
                     window |-> t.window, at |-> t.at, removed |-> TRUE, crashed |-> s.crashed],
         IsVector(t.blocks), DOMAIN t.blocks = DOMAIN s.blocks,
         \A k \in DOMAIN s.blocks :
           \/ t.blocks[k] = [s.blocks[k] EXCEPT !.insts = Without(@, id)]
           \/ t.blocks[k] = s.blocks[k] /\ id \notin ToSet(source.blocks[k].insts),
         IsVector(t.window), ToSet(t.window) \subseteq DOMAIN source.node,
         t.at \in Nat \ {0}
  PROVE  Kept(t)
<1>1. DOMAIN s.node = DOMAIN source.node /\ \A i \in DOMAIN s.node : Shaped(s.node[i])
  BY DEF Kept
<1>2. DOMAIN t.node = DOMAIN source.node /\ t.node = [s.node EXCEPT ![id] = Null]
      /\ t.node = [i \in DOMAIN t.node |-> t.node[i]]
  BY <1>1
<1>3. Gone(t.node) = Gone(s.node) \cup {id}
  BY <1>1, <1>2, GoneOne
<1>4. \A i \in DOMAIN t.node : Shaped(t.node[i])
  BY <1>1, <1>2, NullShaped
<1>5. ASSUME NEW k \in DOMAIN t.blocks
      PROVE  Left(t.blocks[k], source.blocks[k], Gone(t.node))
  <2>1. Left(s.blocks[k], source.blocks[k], Gone(s.node)) /\ k \in DOMAIN source.blocks
    BY DEF Kept
  <2>2. ToSet(source.blocks[k].insts) \subseteq Nat
    BY <2>1 DEF Numbered
  <2>3. /\ Left([s.blocks[k] EXCEPT !.insts = Without(@, id)], source.blocks[k],
                Gone(s.node) \cup {id})
        /\ id \notin ToSet(source.blocks[k].insts) =>
             Left(s.blocks[k], source.blocks[k], Gone(s.node) \cup {id})
    BY <2>1, <2>2, EraseOne
  <2>4. \/ t.blocks[k] = [s.blocks[k] EXCEPT !.insts = Without(@, id)]
        \/ t.blocks[k] = s.blocks[k] /\ id \notin ToSet(source.blocks[k].insts)
    OBVIOUS
  <2> QED BY <2>3, <2>4, <1>3
<1>6. s.crashed \in BOOLEAN /\ t.crashed = s.crashed /\ t.removed = TRUE
  BY DEF Kept
<1>7. DOMAIN t.blocks = DOMAIN source.blocks
  BY DEF Kept
<1>8. t = [blocks |-> t.blocks, node |-> t.node, window |-> t.window, at |-> t.at,
           removed |-> t.removed, crashed |-> t.crashed]
  BY <1>2, <1>6
<1> QED BY <1>2, <1>4, <1>5, <1>6, <1>7, <1>8 DEF Kept

-----------------------------------------------------------------------------
(* The rewritings *)

(* An instruction is erased, or none is. *)
OneErased(nodes, new) ==
  new = nodes \/ \E id \in DOMAIN nodes : new = [nodes EXCEPT ![id] = Null]

(* Some JIFs with one target have become JMPs to it. *)
JifsMerged(nodes, new) ==
  \E F \in SUBSET DOMAIN nodes :
    /\ \A id \in F : IsSameJif(nodes[id])
    /\ new = [id \in DOMAIN nodes |-> IF id \in F THEN [op |-> "JMP", label |-> nodes[id].label1]
                                      ELSE nodes[id]]

(* The current instruction leaves its block and the window. *)
LEMMA RemoveCurrentKeeps ==
  ASSUME Numbered(source), NEW s, Kept(s), Current(s)
  PROVE  Kept(RemoveCurrent(s)) /\ OneErased(s.node, RemoveCurrent(s).node)
<1> DEFINE id == s.window[Len(s.window)]
           t == RemoveCurrent(s)
           u == SubSeq(s.window, 1, Len(s.window) - 1)
<1>1. /\ IsVector(s.window) /\ ToSet(s.window) \subseteq DOMAIN source.node
      /\ IsVector(s.blocks) /\ DOMAIN s.blocks = DOMAIN source.blocks
      /\ s.at \in Nat \ {0}
  BY DEF Kept
<1>2. Len(s.window) \in Nat /\ Len(s.window) >= 1 /\ DOMAIN s.window = 1 .. Len(s.window)
  BY <1>1, VectorShape DEF Current
<1>3. id \in ToSet(s.window) /\ id \in DOMAIN source.node
  BY <1>1, <1>2 DEF ToSet
<1>4. block \in DOMAIN s.blocks /\ id \in ToSet(source.blocks[block].insts)
  <2>1. block \in DOMAIN s.blocks /\ id \in ToSet(s.blocks[block].insts)
    BY DEF Current
  <2>2. ToSet(s.blocks[block].insts) \subseteq ToSet(source.blocks[block].insts)
    BY <2>1 DEF Kept, Left
  <2> QED BY <2>1, <2>2
<1>5. IsVector(u) /\ Len(u) = Len(s.window) - 1
      /\ \A k \in 1 .. Len(s.window) - 1 : u[k] = s.window[k]
  BY <1>1, <1>2, VectorPop
<1>6. ToSet(u) \subseteq DOMAIN source.node
  <2> SUFFICES ASSUME NEW k \in DOMAIN u PROVE u[k] \in DOMAIN source.node
    BY DEF ToSet
  <2> HIDE DEF u
  <2>1. DOMAIN u = 1 .. Len(u)
    BY <1>5, VectorShape
  <2>2. k \in 1 .. Len(s.window) - 1
    BY <2>1, <1>5
  <2>3. k \in DOMAIN s.window /\ u[k] = s.window[k]
    BY <2>2, <1>2, <1>5
  <2> QED BY <2>3, <1>1 DEF ToSet
<1>7. t = [s EXCEPT !.node[id] = Null, !.blocks[block].insts = Without(@, id),
                    !.window = u, !.removed = TRUE]
  BY DEF RemoveCurrent, Last, Front
<1> HIDE DEF id, t, u
<1>8. s = [blocks |-> s.blocks, node |-> s.node, window |-> s.window, at |-> s.at,
           removed |-> s.removed, crashed |-> s.crashed]
  BY DEF Kept
<1> DEFINE bs == [s.blocks EXCEPT ![block].insts = Without(@, id)]
<1>9. t = [blocks |-> bs, node |-> [s.node EXCEPT ![id] = Null], window |-> u, at |-> s.at,
           removed |-> TRUE, crashed |-> s.crashed]
  BY <1>7, <1>8
<1>10. IsVector(bs) /\ DOMAIN bs = DOMAIN s.blocks
  <2>1. block \in 1 .. Len(s.blocks)
    BY <1>1, <1>4, VectorShape
  <2> QED BY <2>1, <1>1, VectorExcept
<1>11. ASSUME NEW k \in DOMAIN s.blocks
       PROVE  \/ bs[k] = [s.blocks[k] EXCEPT !.insts = Without(@, id)]
              \/ bs[k] = s.blocks[k] /\ id \notin ToSet(source.blocks[k].insts)
  <2>1. CASE k = block
    BY <2>1
  <2>2. CASE k # block
    <3>1. bs[k] = s.blocks[k]
      BY <2>2
    <3>2. id \notin ToSet(source.blocks[k].insts)
      BY <2>2, <1>1, <1>4 DEF Numbered
    <3> QED BY <3>1, <3>2
  <2> QED BY <2>1, <2>2
<1> HIDE DEF bs
<1>12. t = [blocks |-> t.blocks, node |-> [s.node EXCEPT ![id] = Null], window |-> t.window,
            at |-> t.at, removed |-> TRUE, crashed |-> s.crashed]
       /\ t.blocks = bs /\ t.window = u /\ t.at = s.at
  BY <1>9
<1>13. Kept(t)
  BY <1>1, <1>3, <1>5, <1>6, <1>10, <1>11, <1>12, Erasing
<1>14. OneErased(s.node, t.node)
  <2>1. t.node = [s.node EXCEPT ![id] = Null] /\ id \in DOMAIN s.node
    BY <1>3, <1>9 DEF Kept
  <2> QED BY <2>1 DEF OneErased
<1> QED BY <1>13, <1>14 DEF t

(* The first two rewritings erase the current instruction, or nothing, and *)
(* not twice.                                                              *)
LEMMA StoresAndJumpsKeep ==
  ASSUME Numbered(source), NEW s, Kept(s), Current(s), s.removed = FALSE
  PROVE  LET r == jmpJmpPass(loadStorePass(s))
         IN Kept(r) /\ OneErased(s.node, r.node)
<1> DEFINE t == loadStorePass(s)
<1>1. t = s \/ t = RemoveCurrent(s)
  BY DEF loadStorePass
<1>2. CASE t = s
  <2>1. jmpJmpPass(s) = s \/ jmpJmpPass(s) = RemoveCurrent(s)
    BY DEF jmpJmpPass
  <2>2. jmpJmpPass(t) = jmpJmpPass(s)
    BY <1>2
  <2>3. /\ Kept(RemoveCurrent(s)) /\ OneErased(s.node, RemoveCurrent(s).node)
        /\ OneErased(s.node, s.node)
    BY RemoveCurrentKeeps DEF OneErased
  <2> QED BY <2>1, <2>2, <2>3
<1>3. CASE t = RemoveCurrent(s)
  <2>1. Kept(t) /\ OneErased(s.node, t.node)
    BY <1>3, RemoveCurrentKeeps
  <2>2. t.removed = TRUE
    <3>1. s = [blocks |-> s.blocks, node |-> s.node, window |-> s.window, at |-> s.at,
               removed |-> s.removed, crashed |-> s.crashed]
      BY DEF Kept
    <3> QED BY <3>1, <1>3 DEF RemoveCurrent
  <2> HIDE DEF t
  <2>3. jmpJmpPass(t) = t
    BY <2>2 DEF jmpJmpPass
  <2> QED BY <2>1, <2>3 DEF t
<1> QED BY <1>1, <1>2, <1>3

(* A set of numbers with a bound has a greatest one. *)
LEMMA Greatest ==
  ASSUME NEW n \in Nat, NEW S, S \subseteq 0 .. n, S # {}
  PROVE  Max(S) \in S
<1> DEFINE T == {n - x : x \in S}
<1>1. T \subseteq Nat /\ T # {}
  <2>1. \A x \in 0 .. n : n - x \in Nat
    OBVIOUS
  <2>2. T \subseteq Nat
    BY <2>1
  <2>3. PICK x : x \in S
    OBVIOUS
  <2>4. n - x \in T
    BY <2>3
  <2> QED BY <2>2, <2>4
<1>2. PICK z \in T : \A y \in T : ~ (<<y, z>> \in Before)
  <2> HIDE DEF T
  <2> QED BY <1>1, BeforeWellFounded, WFMin
<1>3. PICK x \in S : z = n - x
  OBVIOUS
<1>4. \A y \in S : x >= y
  <2> TAKE y \in S
  <2>1. n - y \in T /\ n - y \in Nat /\ n - x \in Nat
    OBVIOUS
  <2>2. n - y < n - x => <<n - y, n - x>> \in Before
    BY <2>1 DEF Before
  <2>3. ~ (n - y < n - x)
    BY <2>1, <2>2, <1>2, <1>3
  <2> QED BY <2>3
<1> QED BY <1>4 DEF Max

(* The JIFs that become JMPs are not erased. *)
LEMMA JifSameKeeps ==
  ASSUME NEW s, Kept(s)
  PROVE  Kept(jifSamePass(s)) /\ JifsMerged(s.node, jifSamePass(s).node)
<1> DEFINE v == s.window
           stops == {k \in 1 .. Len(v) + 1 : \/ ~IsSameJif(Node(s, 2 * k - 1))
                                             \/ \E i \in 1 .. k - 1 : v[2 * i - 1] = v[2 * k - 1]}
           n == Min(stops) - 1
           m == IF 2 * n <= Len(v) THEN n ELSE n - 1
           Jump(i) == [op |-> "JMP", label |-> i.label1]
           front == {v[2 * k - 1] : k \in 1 .. n}
           f == [id \in DOMAIN s.node |-> IF id \in front THEN Jump(s.node[id]) ELSE s.node[id]]
           a == [k \in 1 .. m |-> v[2 * k - 1]]
           z == SubSeq(v, 2 * n + 1, Len(v))
           w == a \o z
           r == s.removed \/ (n > 0 /\ 2 * n = Len(v))
           t == jifSamePass(s)
<1>1. /\ IsVector(v) /\ ToSet(v) \subseteq DOMAIN source.node
      /\ s = [blocks |-> s.blocks, node |-> s.node, window |-> s.window, at |-> s.at,
              removed |-> s.removed, crashed |-> s.crashed]
      /\ DOMAIN s.node = DOMAIN source.node
      /\ \A id \in DOMAIN s.node : Shaped(s.node[id])
  BY DEF Kept
<1>2. Len(v) \in Nat /\ DOMAIN v = 1 .. Len(v)
  BY <1>1, VectorShape
<1>16. \A k \in Int : IsSameJif(Node(s, k)) =>
         k \in 1 .. Len(v) /\ IsSameJif(s.node[v[k]]) /\ s.node[v[k]].op = "JIF"
  <2>1. Null.op # "JIF"
    BY DEF Null
  <2> QED BY <2>1, <1>2 DEF Node, IsSameJif
<1>3. n \in Nat /\ \A k \in 1 .. n : IsSameJif(Node(s, 2 * k - 1))
  <2>1. stops # {} /\ stops \subseteq 1 .. Len(v) + 1
    <3>1. Len(v) + 1 \in 1 .. Len(v) + 1
      BY <1>2
    <3>2. 2 * (Len(v) + 1) - 1 \in Int /\ 2 * (Len(v) + 1) - 1 \notin 1 .. Len(v)
      BY <1>2
    <3>3. ~IsSameJif(Node(s, 2 * (Len(v) + 1) - 1))
      BY <3>2, <1>16
    <3> HIDE DEF v
    <3> QED BY <3>1, <3>3
  <2>2. \A k \in 1 .. Len(v) + 1 : k \notin stops => IsSameJif(Node(s, 2 * k - 1))
    OBVIOUS
  <2> HIDE DEF stops
  <2>3. stops \subseteq Nat
    BY <2>1, <1>2
  <2>4. Min(stops) \in stops /\ \A y \in stops : Min(stops) <= y
    BY <2>1, <2>3, Least
  <2>5. Min(stops) \in 1 .. Len(v) + 1
    BY <2>1, <2>4
  <2>6. n \in Nat /\ \A k \in 1 .. n : k \in 1 .. Len(v) + 1 /\ k \in Nat /\ k < Min(stops)
    BY <2>5, <1>2
  <2>7. \A k \in 1 .. n : k \notin stops
    BY <2>3, <2>4, <2>5, <2>6
  <2> QED BY <2>2, <2>6, <2>7
<1> HIDE DEF stops, n
<1>17. \A k \in 1 .. n : /\ 2 * k - 1 \in 1 .. Len(v) /\ IsSameJif(s.node[v[2 * k - 1]])
                          /\ s.node[v[2 * k - 1]].op = "JIF"
  <2>1. \A k \in 1 .. n : 2 * k - 1 \in Int
    BY <1>3
  <2> QED BY <2>1, <1>3, <1>16
<1>18. 2 * n <= Len(v) + 1 /\ m \in Nat /\ m <= n
  <2>1. CASE n = 0
    BY <2>1, <1>2
  <2>2. CASE n # 0
    <3>1. 2 * n - 1 \in 1 .. Len(v)
      BY <2>2, <1>3, <1>17
    <3> QED BY <2>2, <3>1, <1>2, <1>3
  <2> QED BY <2>1, <2>2
<1>4. t = [s EXCEPT !.node = f, !.window = w, !.removed = r]
  BY DEF jifSamePass, n, stops
<1>6. \A id \in front : s.node[id].op = "JIF" /\ IsSameJif(s.node[id])
  BY <1>17
<1>7. /\ DOMAIN f = DOMAIN source.node /\ f = [id \in DOMAIN f |-> f[id]]
      /\ \A id \in DOMAIN f : f[id] = IF id \in front THEN Jump(s.node[id]) ELSE s.node[id]
  BY <1>1
<1>19. front \subseteq DOMAIN s.node
  BY <1>1, <1>2, <1>17 DEF ToSet
<1>20. JifsMerged(s.node, f)
  <2>1. f = [id \in DOMAIN s.node |-> IF id \in front
                                       THEN [op |-> "JMP", label |-> s.node[id].label1]
                                       ELSE s.node[id]]
    OBVIOUS
  <2> HIDE DEF front, f
  <2> QED BY <2>1, <1>6, <1>19 DEF JifsMerged
<1> HIDE DEF front, f
<1>8. \A id \in DOMAIN f : Shaped(f[id]) /\ (f[id] = Null <=> s.node[id] = Null)
  <2> TAKE id \in DOMAIN f
  <2>1. CASE id \in front
    <3>1. f[id] = [op |-> "JMP", label |-> s.node[id].label1] /\ s.node[id].op = "JIF"
      BY <2>1, <1>6, <1>7
    <3>2. f[id].op = "JMP" /\ f[id].label = s.node[id].label1
      BY <3>1
    <3>3. Shaped(f[id])
      BY <3>1, <3>2 DEF Shaped
    <3>4. Null.op = "NULL"
      BY DEF Null
    <3>5. f[id] # Null /\ s.node[id] # Null
      BY <3>1, <3>2, <3>4
    <3> QED BY <3>3, <3>5
  <2>2. CASE id \notin front
    BY <2>2, <1>1, <1>7
  <2> QED BY <2>1, <2>2
<1>9. Gone(f) = Gone(s.node)
  BY <1>1, <1>7, <1>8 DEF Gone
<1>5. IsVector(a) /\ \A k \in DOMAIN a : a[k] \in ToSet(v)
  <2>1. a = [k \in 1 .. m |-> a[k]] /\ DOMAIN a = 1 .. m /\ \A k \in 1 .. m : a[k] = v[2 * k - 1]
    OBVIOUS
  <2>2. \A k \in 1 .. m : k \in 1 .. n
    BY <1>3, <1>18
  <2> HIDE DEF a, m
  <2>3. \A k \in 1 .. m : a[k] \in ToSet(v)
    BY <2>1, <2>2, <1>2, <1>17 DEF ToSet
  <2>4. IsVector(a)
    BY <2>1, <1>18, Vector
  <2> QED BY <2>1, <2>3, <2>4
<1>10. IsVector(z) /\ \A k \in DOMAIN z : z[k] \in ToSet(v)
  <2>1. CASE 2 * n <= Len(v)
    <3> DEFINE c == 2 * n
    <3>1. c \in 0 .. Len(v)
      BY <2>1, <1>2, <1>3
    <3> HIDE DEF c
    <3>2. /\ IsVector(SubSeq(v, c + 1, Len(v))) /\ Len(SubSeq(v, c + 1, Len(v))) = Len(v) - c
          /\ \A k \in 1 .. Len(v) - c : SubSeq(v, c + 1, Len(v))[k] = v[k + c]
      BY <3>1, <1>1, EndOf
    <3>3. z = SubSeq(v, c + 1, Len(v))
      BY DEF c
    <3> HIDE DEF z, v
    <3>4. IsVector(z) /\ Len(z) = Len(v) - c /\ \A k \in 1 .. Len(v) - c : z[k] = v[k + c]
      BY <3>2, <3>3
    <3>5. DOMAIN z = 1 .. Len(z)
      BY <3>4, VectorShape
    <3>6. \A k \in 1 .. Len(v) - c : k + c \in DOMAIN v
      BY <3>1, <1>2
    <3> QED BY <3>4, <3>5, <3>6 DEF ToSet
  <2>2. CASE 2 * n > Len(v)
    <3>1. 2 * n + 1 > Len(v) /\ 2 * n + 1 \in Int /\ v \in Seq({v[k] : k \in DOMAIN v})
      BY <2>2, <1>1, <1>2, <1>3 DEF IsVector
    <3>2. z = << >>
      <4> DEFINE S == {v[k] : k \in DOMAIN v}
      <4>1. v \in Seq(S)
        BY <3>1
      <4> HIDE DEF v, S
      <4> QED BY <3>1, <4>1, <1>2, SubSeqEmpty
    <3> HIDE DEF z
    <3>3. z = << >> /\ DOMAIN z = {}
      BY <3>2
    <3> QED BY <3>3, Empty
  <2>3. 2 * n <= Len(v) \/ 2 * n > Len(v)
    BY <1>2, <1>3
  <2> HIDE DEF z, v
  <2> QED BY <2>1, <2>2, <2>3
<1>11. IsVector(w) /\ ToSet(w) \subseteq DOMAIN source.node
  <2> HIDE DEF a, z
  <2>1. /\ IsVector(w) /\ Len(w) = Len(a) + Len(z)
        /\ \A j \in 1 .. Len(a) : w[j] = a[j]
        /\ \A j \in 1 .. Len(z) : w[Len(a) + j] = z[j]
    <3>1. IsVector(a) /\ IsVector(z)
      BY <1>5, <1>10
    <3> QED BY <3>1, VectorConcat
  <2> HIDE DEF w
  <2>2. DOMAIN w = 1 .. Len(w) /\ DOMAIN a = 1 .. Len(a) /\ DOMAIN z = 1 .. Len(z)
        /\ Len(a) \in Nat /\ Len(z) \in Nat
    BY <2>1, <1>5, <1>10, VectorShape
  <2> SUFFICES ASSUME NEW k \in DOMAIN w PROVE w[k] \in ToSet(v)
    BY <2>1, <1>1 DEF ToSet
  <2>3. CASE k <= Len(a)
    BY <2>1, <2>2, <2>3, <1>5
  <2>4. CASE k > Len(a)
    <3>1. k - Len(a) \in 1 .. Len(z) /\ Len(a) + (k - Len(a)) = k
      BY <2>1, <2>2, <2>4
    <3> QED BY <3>1, <2>1, <2>2, <1>10
  <2> QED BY <2>2, <2>3, <2>4
<1>12. r \in BOOLEAN
  BY DEF Kept
<1> HIDE DEF w, r, t
<1>13. t = [blocks |-> s.blocks, node |-> f, window |-> w, at |-> s.at, removed |-> r,
            crashed |-> s.crashed]
  BY <1>1, <1>4
<1>14. /\ t.blocks = s.blocks /\ t.node = f /\ t.window = w /\ t.at = s.at /\ t.removed = r
       /\ t.crashed = s.crashed
  BY <1>13
<1>15. Kept(t)
  <2>1. t = [blocks |-> t.blocks, node |-> t.node, window |-> t.window, at |-> t.at,
             removed |-> t.removed, crashed |-> t.crashed]
    BY <1>13, <1>14
  <2>2. /\ IsVector(s.blocks) /\ DOMAIN s.blocks = DOMAIN source.blocks
        /\ \A k \in DOMAIN s.blocks : Left(s.blocks[k], source.blocks[k], Gone(s.node))
        /\ s.at \in Nat \ {0} /\ s.crashed \in BOOLEAN
    BY DEF Kept
  <2> QED BY <2>1, <2>2, <1>7, <1>8, <1>9, <1>11, <1>12, <1>14 DEF Kept
<1> QED BY <1>14, <1>15, <1>20 DEF t

(* The store in front of a JIF leaves its block, wherever that is, and the *)
(* window.                                                                 *)
LEMMA StoreJifKeeps ==
  ASSUME Numbered(source), NEW s, Kept(s), NEW n \in Nat
  PROVE  Kept(storeJifPass(s, n)) /\ OneErased(s.node, storeJifPass(s, n).node)
<1> DEFINE N == Len(s.window)
           id == s.window[n - 1]
           past == IF \E k \in DOMAIN s.blocks[block].insts :
                        k < s.at /\ s.blocks[block].insts[k] = id
                     THEN s.at ELSE s.at + 1
           bs == [k \in DOMAIN s.blocks |->
                    [s.blocks[k] EXCEPT !.insts = Without(@, id)]]
           w == RemoveAt(s.window, n - 1)
           t == [s EXCEPT !.node[id] = Null, !.blocks = bs, !.window = w, !.at = past,
                          !.removed = TRUE]
<1>1. /\ IsVector(s.window) /\ ToSet(s.window) \subseteq DOMAIN source.node
      /\ IsVector(s.blocks) /\ DOMAIN s.blocks = DOMAIN source.blocks
      /\ s.at \in Nat \ {0}
      /\ s = [blocks |-> s.blocks, node |-> s.node, window |-> s.window, at |-> s.at,
              removed |-> s.removed, crashed |-> s.crashed]
  BY DEF Kept
<1>2. N \in Nat /\ DOMAIN s.window = 1 .. N
  BY <1>1, VectorShape
<1> DEFINE stores == /\ n >= 2
                     /\ Node(s, n).op = "JIF"
                     /\ Node(s, n - 1).op = "STOREX" /\ Node(s, n - 1).reg = 0
<1>5. storeJifPass(s, n) = IF stores THEN t ELSE s
  BY DEF storeJifPass
<1>6. stores => n >= 2 /\ n \in DOMAIN s.window
  <2>1. Null.op # "JIF"
    BY DEF Null
  <2> QED BY <2>1 DEF Node
<1>7. s = [blocks |-> s.blocks, node |-> s.node, window |-> s.window, at |-> s.at,
           removed |-> s.removed, crashed |-> s.crashed]
  BY <1>1
<1> HIDE DEF stores
<1>3. storeJifPass(s, n) = s \/ (n >= 2 /\ n \in DOMAIN s.window /\ storeJifPass(s, n) = t)
  <2> HIDE DEF t
  <2> QED BY <1>5, <1>6
<1>4. ASSUME n >= 2, n \in DOMAIN s.window
      PROVE  Kept(t) /\ OneErased(s.node, t.node)
  <2>1. n - 1 \in 1 .. N /\ n \in 1 .. N
    BY <1>2, <1>4
  <2>2. id \in DOMAIN source.node
    BY <2>1, <1>1, <1>2 DEF ToSet
  <2>3. /\ IsVector(w) /\ Len(w) = N - 1
        /\ \A j \in 1 .. (n - 1) - 1 : w[j] = s.window[j]
        /\ \A j \in n - 1 .. N - 1 : w[j] = s.window[j + 1]
    BY <2>1, <1>1, RemovedAt
  <2>4. ToSet(w) \subseteq DOMAIN source.node
    <3> SUFFICES ASSUME NEW k \in DOMAIN w PROVE w[k] \in DOMAIN source.node
      BY DEF ToSet
    <3> HIDE DEF w
    <3>1. DOMAIN w = 1 .. Len(w)
      BY <2>3, VectorShape
    <3>2. k \in 1 .. N - 1
      BY <3>1, <2>3
    <3>3. \E j \in 1 .. N : w[k] = s.window[j]
      <4>1. CASE k < n - 1
        <5>1. k \in 1 .. (n - 1) - 1 /\ k \in 1 .. N
          BY <4>1, <3>2, <1>2
        <5> QED BY <5>1, <2>3
      <4>2. CASE k >= n - 1
        <5>1. k \in n - 1 .. N - 1 /\ k + 1 \in 1 .. N
          BY <4>2, <3>2, <2>1, <1>2
        <5> QED BY <5>1, <2>3
      <4> QED BY <4>1, <4>2, <3>2, <1>2
    <3> QED BY <3>3, <1>1, <1>2 DEF ToSet
  <2>5. past \in Nat \ {0}
    BY <1>1
  <2>6. IsVector(bs) /\ DOMAIN bs = DOMAIN s.blocks
    <3>1. Len(s.blocks) \in Nat /\ DOMAIN s.blocks = 1 .. Len(s.blocks)
      BY <1>1, VectorShape
    <3>2. bs = [k \in 1 .. Len(s.blocks) |-> bs[k]]
      BY <3>1
    <3> HIDE DEF bs
    <3> QED BY <3>1, <3>2, Vector
  <2>7. \A k \in DOMAIN s.blocks : bs[k] = [s.blocks[k] EXCEPT !.insts = Without(@, id)]
    OBVIOUS
  <2> HIDE DEF id, past, bs, w
  <2>11. t = [s EXCEPT !.node[id] = Null, !.blocks = bs, !.window = w, !.at = past,
                       !.removed = TRUE]
    OBVIOUS
  <2> HIDE DEF t
  <2>8. t = [blocks |-> bs, node |-> [s.node EXCEPT ![id] = Null], window |-> w, at |-> past,
             removed |-> TRUE, crashed |-> s.crashed]
    BY <1>7, <2>11
  <2>9. t = [blocks |-> t.blocks, node |-> [s.node EXCEPT ![id] = Null], window |-> t.window,
             at |-> t.at, removed |-> TRUE, crashed |-> s.crashed]
        /\ t.blocks = bs /\ t.window = w /\ t.at = past
    BY <2>8
  <2>10. /\ IsVector(t.blocks) /\ DOMAIN t.blocks = DOMAIN s.blocks
         /\ IsVector(t.window) /\ ToSet(t.window) \subseteq DOMAIN source.node
         /\ t.at \in Nat \ {0}
         /\ \A k \in DOMAIN s.blocks :
              t.blocks[k] = [s.blocks[k] EXCEPT !.insts = Without(@, id)]
    BY <2>3, <2>4, <2>5, <2>6, <2>7, <2>9
  <2>12. OneErased(s.node, t.node)
    <3>1. t.node = [s.node EXCEPT ![id] = Null] /\ DOMAIN s.node = DOMAIN source.node
      BY <2>8 DEF Kept
    <3> QED BY <2>2, <3>1 DEF OneErased
  <2> QED BY <2>2, <2>9, <2>10, <2>12, Erasing
<1> HIDE DEF t
<1>8. OneErased(s.node, s.node)
  BY DEF OneErased
<1> QED BY <1>3, <1>4, <1>8

-----------------------------------------------------------------------------
(* Redirecting *)

(* What redirecting may make of instruction i: a JMP stays a JMP and a JIF *)
(* a JIF, with labels from L.                                              *)
Variants(i, L) ==
  IF i.op = "JMP" THEN {[op |-> "JMP", label |-> l] : l \in L}
  ELSE IF i.op = "JIF" THEN {[op |-> "JIF", label1 |-> l, label2 |-> m] : l \in L, m \in L}
  ELSE {i}

(* All the labels of a program. *)
AllLabels(nodes) ==
  {nodes[id].label : id \in DOMAIN nodes} \cup {nodes[id].label1 : id \in DOMAIN nodes}
    \cup {nodes[id].label2 : id \in DOMAIN nodes}

(* The programs and the states that redirecting s may lead to. *)
Redirected(nodes) ==
  {f \in [DOMAIN nodes -> UNION {Variants(nodes[id], AllLabels(nodes)) : id \in DOMAIN nodes}] :
     \A id \in DOMAIN nodes : f[id] \in Variants(nodes[id], AllLabels(nodes))}
WithNodes(s, f, c) ==
  [blocks |-> s.blocks, node |-> f, window |-> s.window, at |-> s.at, removed |-> s.removed,
   crashed |-> c]
Versions(s) == {WithNodes(s, f, c) : f \in Redirected(s.node), c \in BOOLEAN}

(* An instruction is a variant of itself. *)
LEMMA OwnVariant ==
  ASSUME NEW nodes, NEW id \in DOMAIN nodes, Shaped(nodes[id])
  PROVE  nodes[id] \in Variants(nodes[id], AllLabels(nodes))
<1> DEFINE i == nodes[id]
           L == AllLabels(nodes)
<1>1. i.label \in L /\ i.label1 \in L /\ i.label2 \in L
  BY DEF AllLabels
<1>2. Shaped(i)
  OBVIOUS
<1> HIDE DEF i, L
<1>3. i \in Variants(i, L)
  <2>1. CASE i.op = "JMP"
    BY <2>1, <1>1, <1>2 DEF Shaped, Variants
  <2>2. CASE i.op = "JIF"
    BY <2>2, <1>1, <1>2 DEF Shaped, Variants
  <2>3. CASE i.op \notin {"JMP", "JIF"}
    BY <2>3 DEF Variants
  <2> QED BY <2>1, <2>2, <2>3
<1> QED BY <1>3 DEF i, L

(* A variant has the opcode, and its labels are from L. *)
LEMMA VariantShape ==
  ASSUME NEW i, NEW L, NEW v \in Variants(i, L)
  PROVE  /\ v.op = i.op
         /\ i.op = "JMP" => v = [op |-> "JMP", label |-> v.label] /\ v.label \in L
         /\ i.op = "JIF" => /\ v = [op |-> "JIF", label1 |-> v.label1, label2 |-> v.label2]
                            /\ v.label1 \in L /\ v.label2 \in L
         /\ i.op \notin {"JMP", "JIF"} => v = i
<1>1. CASE i.op = "JMP"
  <2>1. PICK l \in L : v = [op |-> "JMP", label |-> l]
    BY <1>1 DEF Variants
  <2>2. v.op = "JMP" /\ v.label = l
    BY <2>1
  <2> QED BY <1>1, <2>1, <2>2
<1>2. CASE i.op = "JIF"
  <2>1. PICK l \in L, m \in L : v = [op |-> "JIF", label1 |-> l, label2 |-> m]
    BY <1>2 DEF Variants
  <2>2. v.op = "JIF" /\ v.label1 = l /\ v.label2 = m
    BY <2>1
  <2> QED BY <1>2, <2>1, <2>2
<1>3. CASE i.op \notin {"JMP", "JIF"}
  BY <1>3 DEF Variants
<1> QED BY <1>1, <1>2, <1>3

(* A state is a version of itself. *)
LEMMA OwnVersion ==
  ASSUME NEW s, Kept(s)
  PROVE  s \in Versions(s)
<1>1. /\ s = WithNodes(s, s.node, s.crashed) /\ s.crashed \in BOOLEAN
      /\ s.node = [id \in DOMAIN s.node |-> s.node[id]]
      /\ \A id \in DOMAIN s.node : Shaped(s.node[id])
  BY DEF Kept, WithNodes
<1>2. \A id \in DOMAIN s.node : s.node[id] \in Variants(s.node[id], AllLabels(s.node))
  BY <1>1, OwnVariant
<1>3. s.node \in Redirected(s.node)
  BY <1>1, <1>2 DEF Redirected
<1> QED BY <1>1, <1>3 DEF Versions
(* What the versions of a state have in common. *)
LEMMA VersionShape ==
  ASSUME NEW s, NEW x \in Versions(s)
  PROVE  /\ x = WithNodes(s, x.node, x.crashed) /\ x.crashed \in BOOLEAN
         /\ x.blocks = s.blocks /\ x.window = s.window
         /\ DOMAIN x.node = DOMAIN s.node /\ x.node = [id \in DOMAIN s.node |-> x.node[id]]
         /\ \A id \in DOMAIN s.node : x.node[id] \in Variants(s.node[id], AllLabels(s.node))
<1>1. PICK f \in Redirected(s.node), c \in BOOLEAN : x = WithNodes(s, f, c)
  BY DEF Versions
<1>2. /\ x.node = f /\ x.crashed = c /\ x.blocks = s.blocks /\ x.window = s.window
  BY <1>1 DEF WithNodes
<1>3. /\ DOMAIN f = DOMAIN s.node /\ f = [id \in DOMAIN s.node |-> f[id]]
      /\ \A id \in DOMAIN s.node : f[id] \in Variants(s.node[id], AllLabels(s.node))
  BY DEF Redirected
<1> QED BY <1>1, <1>2, <1>3

(* Such a state is a version. *)
LEMMA VersionMade ==
  ASSUME NEW s, NEW f, NEW c \in BOOLEAN, f = [id \in DOMAIN s.node |-> f[id]],
         \A id \in DOMAIN s.node : f[id] \in Variants(s.node[id], AllLabels(s.node))
  PROVE  WithNodes(s, f, c) \in Versions(s)
<1>1. f \in Redirected(s.node)
  BY DEF Redirected
<1> QED BY <1>1 DEF Versions

(* The block that a jump leads to has its label for name, or is the first. *)
LEMMA HeadedBlock ==
  ASSUME Numbered(source), NEW s, Kept(s), NEW l
  PROVE  \E k \in DOMAIN s.blocks :
           Headed(s, l) = s.blocks[k].insts /\ (k = 1 \/ s.blocks[k].name = l)
<1> DEFINE named == {k \in DOMAIN s.blocks : s.blocks[k].name = l}
           k == IF named = {} THEN 1 ELSE Max(named)
<1>1. Headed(s, l) = s.blocks[k].insts
  BY DEF Headed
<1>2. k \in DOMAIN s.blocks /\ (k = 1 \/ k \in named)
  <2>1. IsVector(s.blocks) /\ DOMAIN s.blocks = DOMAIN source.blocks
    BY DEF Kept
  <2>2. IsVector(source.blocks) /\ source.blocks # << >>
    BY DEF Numbered
  <2>3. Len(s.blocks) \in Nat /\ DOMAIN s.blocks = 1 .. Len(s.blocks)
    BY <2>1, VectorShape
  <2>4. 1 \in DOMAIN source.blocks
    BY <2>2, NotEmpty
  <2>5. CASE named = {}
    BY <2>1, <2>4, <2>5
  <2>6. CASE named # {}
    <3>1. named \subseteq 0 .. Len(s.blocks) /\ k = Max(named)
      BY <2>3, <2>6
    <3>2. named \subseteq DOMAIN s.blocks
      OBVIOUS
    <3> HIDE DEF named, k
    <3> QED BY <3>1, <3>2, <2>3, <2>6, Greatest
  <2> QED BY <2>5, <2>6
<1> QED BY <1>1, <1>2

(* The instruction that heads a block is one of the program. *)
LEMMA HeadedBy ==
  ASSUME Numbered(source), NEW s, Kept(s), NEW x \in Versions(s), NEW l, Headed(x, l) # << >>
  PROVE  Headed(x, l)[1] \in DOMAIN s.node
<1>1. Headed(x, l) = Headed(s, l)
  <2>1. x.blocks = s.blocks
    BY VersionShape
  <2> QED BY <2>1 DEF Headed
<1>2. PICK k \in DOMAIN s.blocks : Headed(s, l) = s.blocks[k].insts
  BY HeadedBlock
<1> DEFINE h == s.blocks[k].insts
<1>4. IsVector(h) /\ ToSet(h) \subseteq DOMAIN s.node
  <2>1. Left(s.blocks[k], source.blocks[k], Gone(s.node)) /\ k \in DOMAIN source.blocks
        /\ DOMAIN s.node = DOMAIN source.node
    BY DEF Kept
  <2>2. ToSet(source.blocks[k].insts) \subseteq DOMAIN source.node
    BY <2>1 DEF Numbered
  <2> QED BY <2>1, <2>2 DEF Left
<1>5. h # << >>
  BY <1>1, <1>2
<1> HIDE DEF h
<1>6. h[1] \in ToSet(h)
  <2>1. 1 \in DOMAIN h
    BY <1>4, <1>5, NotEmpty
  <2> QED BY <2>1 DEF ToSet
<1> QED BY <1>1, <1>2, <1>4, <1>6 DEF h

(* A jump is led on to a label of the program. *)
LEMMA TargetOf ==
  ASSUME Numbered(source), NEW s, Kept(s), NEW x \in Versions(s),
         NEW l \in AllLabels(s.node), Headed(x, l) # << >>
  PROVE  checkTarget(x, l) \in AllLabels(s.node)
<1> DEFINE id == Headed(x, l)[1]
           L == AllLabels(s.node)
<1>1. id \in DOMAIN s.node
  BY HeadedBy
<1>2. x.node[id] \in Variants(s.node[id], L)
  BY <1>1, VersionShape
<1>3. x.node[id].op = "JMP" => x.node[id].label \in L
  BY <1>2, VariantShape
<1> QED BY <1>3 DEF checkTarget

(* What redirecting makes of a jump, unless the process dies. *)
LEMMA RedirectShape ==
  ASSUME NEW x, NEW id \in DOMAIN x.node, NEW i, i = x.node[id], Shaped(i),
         i.op \in {"JMP", "JIF"}, x.crashed \in BOOLEAN,
         x = [blocks |-> x.blocks, node |-> x.node, window |-> x.window, at |-> x.at,
              removed |-> x.removed, crashed |-> x.crashed]
  PROVE  \/ Redirect(x, id) = WithNodes(x, x.node, TRUE)
         \/ /\ i.op = "JMP" /\ Headed(x, i.label) # << >>
            /\ Redirect(x, id) =
                 WithNodes(x, [x.node EXCEPT ![id] = [op |-> "JMP",
                                                      label |-> checkTarget(x, i.label)]],
                           x.crashed)
         \/ /\ i.op = "JIF" /\ Headed(x, i.label1) # << >> /\ Headed(x, i.label2) # << >>
            /\ Redirect(x, id) =
                 WithNodes(x, [x.node EXCEPT ![id] = [op |-> "JIF",
                                                      label1 |-> checkTarget(x, i.label1),
                                                      label2 |-> checkTarget(x, i.label2)]],
                           x.crashed)
<1> DEFINE labels == IF i.op = "JMP" THEN {i.label} ELSE {i.label1, i.label2}
           t == Redirect(x, id)
<1>2. PICK f, c, q : f = x.node /\ c = x.crashed /\ q = x
  OBVIOUS
<1>3. x = [blocks |-> q.blocks, node |-> f, window |-> q.window, at |-> q.at,
           removed |-> q.removed, crashed |-> c]
  BY <1>2
<1> DEFINE new(e) == [blocks |-> q.blocks, node |-> [f EXCEPT ![id] = e],
                      window |-> q.window, at |-> q.at, removed |-> q.removed, crashed |-> c]
<1>4. \A e : new(e) = WithNodes(x, [x.node EXCEPT ![id] = e], x.crashed)
  BY <1>2 DEF WithNodes
<1>5. CASE \E l \in labels : Headed(x, l) = << >>
  <2>1. t = [x EXCEPT !.crashed = TRUE]
    BY <1>5 DEF Redirect
  <2> HIDE DEF t
  <2>2. t = WithNodes(q, f, TRUE)
    BY <2>1, <1>3 DEF WithNodes
  <2> QED BY <2>2, <1>2 DEF t
<1>6. CASE ~(\E l \in labels : Headed(x, l) = << >>)
  <2>2. CASE i.op = "JMP"
    <3> DEFINE a == i.label
               l == checkTarget(x, a)
               e == [op |-> "JMP", label |-> l]
    <3>1. i = [op |-> "JMP", label |-> a] /\ Headed(x, a) # << >>
      BY <2>2, <1>6 DEF Shaped
    <3>3. t = [x EXCEPT !.node[id].label = checkTarget(x, @)]
      BY <1>6, <2>2 DEF Redirect
    <3>4. x.node[id].label = a
      OBVIOUS
    <3>6. f[id] = [op |-> "JMP", label |-> a] /\ id \in DOMAIN f
      BY <3>1, <1>2
    <3> HIDE DEF t, a
    <3>7. t = [x EXCEPT !.node[id].label = l]
      BY <3>3, <3>4
    <3> HIDE DEF l
    <3>8. t = new(e)
      BY <3>6, <3>7, <1>3
    <3> HIDE DEF new
    <3>9. t = WithNodes(x, [x.node EXCEPT ![id] = e], x.crashed)
      BY <3>8, <1>4
    <3> QED BY <3>1, <3>9, <2>2 DEF t, a, l
  <2>3. CASE i.op # "JMP"
    <3> DEFINE a == i.label1
               b == i.label2
               l == checkTarget(x, a)
               m == checkTarget(x, b)
               e == [op |-> "JIF", label1 |-> l, label2 |-> m]
    <3>1. /\ i = [op |-> "JIF", label1 |-> a, label2 |-> b]
          /\ Headed(x, a) # << >> /\ Headed(x, b) # << >>
      BY <2>3, <1>6 DEF Shaped
    <3>3. t = [x EXCEPT !.node[id].label1 = checkTarget(x, @),
                        !.node[id].label2 = checkTarget(x, @)]
      BY <1>6, <2>3 DEF Redirect
    <3>4. x.node[id].label1 = a /\ x.node[id].label2 = b /\ x.node = f
      BY <1>2
    <3>6. f[id] = [op |-> "JIF", label1 |-> a, label2 |-> b] /\ id \in DOMAIN f
      BY <3>1, <1>2
    <3> HIDE DEF t, a, b
    <3> DEFINE y == [x EXCEPT !.node[id].label1 = l]
               h == [op |-> "JIF", label1 |-> l, label2 |-> b]
    <3>7. t = [y EXCEPT !.node[id].label2 = checkTarget(x, y.node[id].label2)]
      BY <3>3, <3>4
    <3> HIDE DEF l
    <3>8. y = new(h)
      BY <3>6, <1>3
    <3>9. y.node = [f EXCEPT ![id] = h] /\ y.node[id] = h
      BY <3>6, <3>8
    <3>10. t = [y EXCEPT !.node[id].label2 = m]
      BY <3>7, <3>9
    <3> HIDE DEF m, y
    <3>11. t = [y EXCEPT !.node = [y.node EXCEPT ![id] = [h EXCEPT !.label2 = m]]]
      BY <3>9, <3>10
    <3>12. [h EXCEPT !.label2 = m] = e /\ [[f EXCEPT ![id] = h] EXCEPT ![id] = e] = [f EXCEPT ![id] = e]
      <4>1. [h EXCEPT !.label2 = m] = e
        OBVIOUS
      <4>2. \A u, v : [[f EXCEPT ![id] = u] EXCEPT ![id] = v] = [f EXCEPT ![id] = v]
        OBVIOUS
      <4> QED BY <4>1, <4>2
    <3> HIDE DEF h, e
    <3>13. t = [y EXCEPT !.node = [f EXCEPT ![id] = e]]
      BY <3>9, <3>11, <3>12
    <3>14. t = new(e)
      BY <3>8, <3>13
    <3> HIDE DEF new
    <3>15. t = WithNodes(x, [x.node EXCEPT ![id] = e], x.crashed)
      BY <3>14, <1>4
    <3> QED BY <3>1, <3>15, <2>3 DEF t, a, b, l, m, e
  <2> QED BY <2>2, <2>3
<1> QED BY <1>5, <1>6

(* Redirecting a jump makes another version of the state. *)
LEMMA RedirectStays ==
  ASSUME Numbered(source), NEW s, Kept(s), NEW x \in Versions(s),
         NEW id \in DOMAIN s.node, s.node[id].op \in {"JMP", "JIF"}
  PROVE  Redirect(x, id) \in Versions(s)
<1> DEFINE L == AllLabels(s.node)
<1>1. /\ x = WithNodes(s, x.node, x.crashed) /\ x.crashed \in BOOLEAN
      /\ DOMAIN x.node = DOMAIN s.node /\ x.node = [j \in DOMAIN s.node |-> x.node[j]]
      /\ \A j \in DOMAIN s.node : x.node[j] \in Variants(s.node[j], L)
  BY VersionShape
<1>2. PICK i : i = x.node[id]
  OBVIOUS
<1>3. /\ i.op = s.node[id].op /\ Shaped(i)
      /\ i.op = "JMP" => i.label \in L
      /\ i.op = "JIF" => i.label1 \in L /\ i.label2 \in L
  <2>1. i \in Variants(s.node[id], L)
    BY <1>1, <1>2
  <2> HIDE DEF L
  <2>2. i.op = s.node[id].op
    BY <2>1, VariantShape
  <2> QED BY <2>1, <2>2, VariantShape DEF Shaped
<1>4. x = [blocks |-> x.blocks, node |-> x.node, window |-> x.window, at |-> x.at,
           removed |-> x.removed, crashed |-> x.crashed]
  <2>1. PICK f, c : x = WithNodes(s, f, c)
    BY <1>1
  <2> QED BY <2>1 DEF WithNodes
<1>5. \A g, c : WithNodes(x, g, c) = WithNodes(s, g, c)
  <2>1. PICK f, c : x = WithNodes(s, f, c)
    BY <1>1
  <2> QED BY <2>1 DEF WithNodes
<1>6. WithNodes(x, x.node, TRUE) \in Versions(s)
  BY <1>1, <1>5, VersionMade
<1>7. ASSUME NEW e \in Variants(s.node[id], L)
      PROVE  WithNodes(x, [x.node EXCEPT ![id] = e], x.crashed) \in Versions(s)
  <2> DEFINE g == [x.node EXCEPT ![id] = e]
  <2>1. g = [j \in DOMAIN s.node |-> g[j]]
    BY <1>1
  <2>2. \A j \in DOMAIN s.node : g[j] \in Variants(s.node[j], L)
    BY <1>1, <1>7
  <2> HIDE DEF g
  <2>3. WithNodes(s, g, x.crashed) \in Versions(s)
    BY <2>1, <2>2, <1>1, VersionMade
  <2> QED BY <2>3, <1>5 DEF g
<1>8. \A l \in L : Headed(x, l) # << >> => checkTarget(x, l) \in L
  BY TargetOf
<1> HIDE DEF L
<1>9. CASE i.op = "JMP"
  <2> DEFINE e == [op |-> "JMP", label |-> checkTarget(x, i.label)]
  <2>1. Headed(x, i.label) # << >> => e \in Variants(s.node[id], L)
    BY <1>3, <1>8, <1>9 DEF Variants
  <2>2. Headed(x, i.label) # << >> =>
          WithNodes(x, [x.node EXCEPT ![id] = e], x.crashed) \in Versions(s)
    BY <2>1, <1>7
  <2> QED BY <2>2, <1>1, <1>2, <1>3, <1>4, <1>6, <1>9, RedirectShape
<1>10. CASE i.op = "JIF"
  <2> DEFINE e == [op |-> "JIF", label1 |-> checkTarget(x, i.label1),
                   label2 |-> checkTarget(x, i.label2)]
  <2>1. Headed(x, i.label1) # << >> /\ Headed(x, i.label2) # << >> =>
          e \in Variants(s.node[id], L)
    BY <1>3, <1>8, <1>10 DEF Variants
  <2>2. Headed(x, i.label1) # << >> /\ Headed(x, i.label2) # << >> =>
          WithNodes(x, [x.node EXCEPT ![id] = e], x.crashed) \in Versions(s)
    BY <2>1, <1>7
  <2> QED BY <2>2, <1>1, <1>2, <1>3, <1>4, <1>6, <1>10, RedirectShape
<1> QED BY <1>3, <1>9, <1>10

(* The loop over the window stays in a set of states that redirecting does *)
(* not leave.  Redirects is recursive: that it has a value is shown first. *)
LEMMA RedirectAllIn ==
  ASSUME NEW s, IsVector(s.window), NEW op, NEW X, s \in X,
         \A n \in 1 .. Len(s.window) : \A x \in X :
           s.node[s.window[n]].op = op => Redirect(x, s.window[n]) \in X
  PROVE  RedirectAll(s, op) \in X
<1> DEFINE N == Len(s.window)
           wanted(n) == s.node[s.window[n]].op = op
           step(n, x) == IF wanted(n) THEN Redirect(x, s.window[n]) ELSE x
           D == [n \in Nat |-> [x \in X |-> IF n \in 1 .. N THEN step(n, x) ELSE x]]
<1>1. N \in Nat
  BY VectorShape
<1>3. ASSUME NEW n \in 1 .. N, NEW x \in X
      PROVE  step(n, x) \in X
  OBVIOUS
<1> HIDE DEF N, step
<1>4. D \in [Nat -> [X -> X]] /\ \A n \in 1 .. N : \A x \in X : D[n][x] = step(n, x)
  BY <1>1, <1>3
<1> HIDE DEF D
<1>5. PICK f : f \in Recursive(X, s, D, N)
  BY <1>1, <1>4, RecursiveExists
<1>6. f \in [0 .. N -> X] /\ f[0] = s /\ \A n \in 1 .. N : f[n] = D[n][f[n - 1]]
  BY <1>5 DEF Recursive
<1>7. ASSUME NEW n \in 0 .. N
      PROVE  f[n] = IF n = 0 THEN s
                    ELSE IF wanted(n) THEN Redirect(f[n - 1], s.window[n]) ELSE f[n - 1]
  <2>1. CASE n = 0
    BY <2>1, <1>6
  <2>2. CASE n # 0
    <3>1. n \in 1 .. N /\ n - 1 \in 0 .. N
      BY <2>2, <1>1
    <3>2. f[n - 1] \in X /\ f[n] = D[n][f[n - 1]]
      BY <3>1, <1>6
    <3>3. f[n] = step(n, f[n - 1])
      BY <3>1, <3>2, <1>4
    <3> QED BY <3>3, <2>2 DEF step
  <2> QED BY <2>1, <2>2
<1>8. f = [n \in 0 .. N |-> IF n = 0 THEN s
                            ELSE IF wanted(n) THEN Redirect(f[n - 1], s.window[n]) ELSE f[n - 1]]
  BY <1>6, <1>7
<1> DEFINE r == Redirects(s, op)
<1>9. r = [n \in 0 .. N |-> IF n = 0 THEN s
                            ELSE IF wanted(n) THEN Redirect(r[n - 1], s.window[n]) ELSE r[n - 1]]
  BY <1>8 DEF Redirects, N
<1> HIDE DEF r
<1>10. \A n \in 0 .. N :
         r[n] = IF n = 0 THEN s
                ELSE IF wanted(n) THEN Redirect(r[n - 1], s.window[n]) ELSE r[n - 1]
  BY <1>9
<1> DEFINE S == {n \in Nat : n <= N => r[n] \in X}
<1>11. 0 \in S
  BY <1>1, <1>10
<1>12. ASSUME NEW n \in Nat, n \in S
       PROVE  n + 1 \in S
  <2> SUFFICES ASSUME n + 1 <= N
               PROVE  r[n + 1] \in X
    OBVIOUS
  <2>1. n + 1 \in 1 .. N /\ n + 1 \in 0 .. N /\ n + 1 # 0 /\ (n + 1) - 1 = n /\ r[n] \in X
    BY <1>1, <1>12
  <2>2. r[n + 1] = step(n + 1, r[n])
    BY <2>1, <1>10 DEF step
  <2> QED BY <2>1, <2>2, <1>3
<1>13. N \in S
  <2> HIDE DEF S
  <2> QED BY <1>1, <1>11, <1>12, Induction
<1>14. r[N] \in X
  BY <1>1, <1>13
<1> QED BY <1>14 DEF r, N, RedirectAll

(* It makes a version of the state. *)
LEMMA RedirectAllStays ==
  ASSUME Numbered(source), NEW s, Kept(s), NEW op \in {"JMP", "JIF"}
  PROVE  RedirectAll(s, op) \in Versions(s)
<1>1. IsVector(s.window) /\ ToSet(s.window) \subseteq DOMAIN s.node
  BY DEF Kept
<1>2. ASSUME NEW n \in 1 .. Len(s.window), NEW x \in Versions(s), s.node[s.window[n]].op = op
      PROVE  Redirect(x, s.window[n]) \in Versions(s)
  <2>1. s.window[n] \in DOMAIN s.node
    BY <1>1, VectorShape DEF ToSet
  <2> QED BY <2>1, <1>2, RedirectStays
<1>3. s \in Versions(s)
  BY OwnVersion
<1> QED BY <1>1, <1>2, <1>3, RedirectAllIn

(* A version of a state keeps what the state does. *)
LEMMA VersionKept ==
  ASSUME NEW s, Kept(s), NEW x \in Versions(s)
  PROVE  Kept(x)
<1>1. /\ x = WithNodes(s, x.node, x.crashed) /\ x.crashed \in BOOLEAN
      /\ DOMAIN x.node = DOMAIN s.node /\ x.node = [id \in DOMAIN s.node |-> x.node[id]]
      /\ \A id \in DOMAIN s.node : x.node[id] \in Variants(s.node[id], AllLabels(s.node))
  BY VersionShape
<1>2. PICK f, c : f = x.node /\ c = x.crashed
  OBVIOUS
<1>3. x = [blocks |-> s.blocks, node |-> f, window |-> s.window, at |-> s.at,
           removed |-> s.removed, crashed |-> c]
  BY <1>1, <1>2 DEF WithNodes
<1>4. /\ x.blocks = s.blocks /\ x.window = s.window /\ x.at = s.at /\ x.removed = s.removed
      /\ x = [blocks |-> x.blocks, node |-> x.node, window |-> x.window, at |-> x.at,
              removed |-> x.removed, crashed |-> x.crashed]
  BY <1>3
<1>5. ASSUME NEW id \in DOMAIN s.node
      PROVE  Shaped(x.node[id]) /\ (x.node[id] = Null <=> s.node[id] = Null)
  <2> DEFINE i == s.node[id]
             v == x.node[id]
             L == AllLabels(s.node)
  <2>1. v \in Variants(i, L) /\ Shaped(i)
    BY <1>1 DEF Kept
  <2> HIDE DEF i, v, L
  <2>2. /\ v.op = i.op
        /\ i.op = "JMP" => v = [op |-> "JMP", label |-> v.label]
        /\ i.op = "JIF" => v = [op |-> "JIF", label1 |-> v.label1, label2 |-> v.label2]
        /\ i.op \notin {"JMP", "JIF"} => v = i
    BY <2>1, VariantShape
  <2>3. Shaped(v)
    BY <2>2 DEF Shaped
  <2>4. Null.op = "NULL"
    BY DEF Null
  <2>5. v = Null <=> i = Null
    BY <2>2, <2>4
  <2> QED BY <2>3, <2>5 DEF i, v
<1>6. Gone(x.node) = Gone(s.node)
  BY <1>1, <1>5 DEF Gone
<1>7. \A id \in DOMAIN x.node : Shaped(x.node[id])
  BY <1>1, <1>5
<1>8. DOMAIN x.node = DOMAIN source.node /\ x.node = [id \in DOMAIN x.node |-> x.node[id]]
  BY <1>1 DEF Kept
<1>9. /\ IsVector(x.blocks) /\ DOMAIN x.blocks = DOMAIN source.blocks
      /\ \A k \in DOMAIN x.blocks : Left(x.blocks[k], source.blocks[k], Gone(x.node))
      /\ IsVector(x.window) /\ ToSet(x.window) \subseteq DOMAIN source.node
      /\ x.at \in Nat \ {0} /\ x.removed \in BOOLEAN
  BY <1>4, <1>6 DEF Kept
<1> QED BY <1>1, <1>4, <1>7, <1>8, <1>9 DEF Kept

(* One visit of the pass keeps every instruction in its place, or erases   *)
(* it.                                                                     *)
LEMMA PassKeeps ==
  ASSUME Numbered(source), NEW s, Kept(s), Current(s), s.removed = FALSE
  PROVE  Kept(pass(s))
<1> DEFINE a == jifSamePass(jmpJmpPass(loadStorePass(s)))
           b == storeJifPass(a, Len(s.window))
           c == RedirectAll(b, "JMP")
<1>1. Kept(a)
  BY StoresAndJumpsKeep, JifSameKeeps
<1> HIDE DEF a
<1>2. Kept(b)
  <2>1. Len(s.window) \in Nat
    BY VectorShape DEF Kept
  <2> QED BY <2>1, <1>1, StoreJifKeeps
<1> HIDE DEF b
<1>3. Kept(c)
  <2>1. c \in Versions(b)
    BY <1>2, RedirectAllStays
  <2> QED BY <2>1, <1>2, VersionKept
<1> HIDE DEF c
<1>4. Kept(RedirectAll(c, "JIF"))
  <2>1. RedirectAll(c, "JIF") \in Versions(c)
    BY <1>3, RedirectAllStays
  <2> QED BY <2>1, <1>3, VersionKept
<1>5. pass(s) = RedirectAll(c, "JIF")
  <2>1. pass(s) = jifPass(jmpToJmpPass(b))
    BY DEF pass, a, b
  <2>2. jmpToJmpPass(b) = c
    BY DEF jmpToJmpPass, c
  <2>3. jifPass(jmpToJmpPass(b)) = RedirectAll(c, "JIF")
    BY <2>2 DEF jifPass
  <2> QED BY <2>1, <2>3
<1> QED BY <1>4, <1>5

-----------------------------------------------------------------------------
(* Generated programs *)

(* An instruction, and not the null pointer. *)
Real(i) == i # Null /\ Shaped(i)

(* The code of IR instructions has real instructions. *)
LEMMA GenReal ==
  ASSUME NEW insts, InstsOK(insts), NEW j \in 1 .. Len(genInsts(insts))
  PROVE  Real(genInsts(insts)[j])
<1>1. PICK n, l : /\ From(insts, j, n, l) /\ GoodCode(insts[n], genInst(insts[n]))
                  /\ genInsts(insts)[j] = genInst(insts[n])[l]
  BY GenOps
<1> DEFINE s == genInst(insts[n])
           i == insts[n]
           x == s[l]
<1>2. l \in 1 .. Len(s)
  BY <1>1 DEF From
<1>3. /\ x.op # "NULL"
      /\ x.op = "JMP" => x = [op |-> "JMP", label |-> i.to]
      /\ x.op = "JIF" => x = [op |-> "JIF", label1 |-> i.yes, label2 |-> i.no]
  BY <1>1, <1>2 DEF GoodCode
<1>4. genInsts(insts)[j] = x
  BY <1>1
<1> HIDE DEF x
<1>5. Real(x)
  <2>1. x # Null
    BY <1>3 DEF Null
  <2>2. x.op = "JMP" => x = [op |-> "JMP", label |-> x.label]
    BY <1>3
  <2>3. x.op = "JIF" => x = [op |-> "JIF", label1 |-> x.label1, label2 |-> x.label2]
    BY <1>3
  <2> QED BY <2>1, <2>2, <2>3 DEF Real, Shaped
<1> QED BY <1>4, <1>5

(* So has a function's header. *)
LEMMA HeaderReal ==
  ASSUME NEW f, IsVector(f.params), NEW j \in 1 .. Len(genFunc(f))
  PROVE  Real(genFunc(f)[j])
<1> DEFINE g == genFunc(f)
           n == Len(f.params)
<1>1. /\ n \in Nat /\ Len(g) = n + 1 /\ g[1].op = "FUNC"
      /\ \A k \in 2 .. n + 1 : g[k].op = "PARAM"
  BY GenFunc
<1>2. j \in 1 .. Len(g)
  OBVIOUS
<1> DEFINE x == g[j]
<1> HIDE DEF g, n
<1>3. x.op \in {"FUNC", "PARAM"}
  <2>1. CASE j = 1
    BY <2>1, <1>1
  <2>2. CASE j # 1
    <3>1. j \in 2 .. n + 1
      BY <2>2, <1>1, <1>2
    <3> QED BY <3>1, <1>1
  <2> QED BY <2>1, <2>2
<1> HIDE DEF x
<1>4. Real(x)
  BY <1>3 DEF Real, Shaped, Null
<1> QED BY <1>4 DEF x, g

(* So has every block of a program. *)
LEMMA BlocksReal ==
  ASSUME NEW ir, WellFormedIR(ir), NEW B, B = ir2VmInst(ir)
  PROVE  \A k \in 1 .. Len(B) : \A j \in 1 .. Size(B, k) : Real(B[k].insts[j])
<1> DEFINE F == Len(ir.funcs)
           nb == BlockCount(ir)
           RealAt(insts) == \A j \in 1 .. Len(insts) : Real(insts[j])
<1>1. Coding(ir, B, F, nb)
  BY BlockCoding
<1>2. RealAt(genInsts(ir.globals))
  BY Globals, GenReal
<1>3. \A f \in 1 .. F : /\ RealAt(genFunc(ir.funcs[f]))
                        /\ \A b \in 1 .. nb[f] : RealAt(genInsts(ir.funcs[f].blocks[b].insts))
  <2> TAKE f \in 1 .. F
  <2>1. /\ IsVector(ir.funcs[f].params)
        /\ \A b \in 1 .. nb[f] : InstsOK(ir.funcs[f].blocks[b].insts)
    BY Functions
  <2> QED BY <2>1, GenReal, HeaderReal
<1> HIDE DEF F, nb, RealAt
<1>4. ASSUME NEW k \in 1 .. Len(B)
      PROVE  RealAt(B[k].insts)
  <2>1. CASE k = 1
    BY <2>1, <1>1, <1>2 DEF Coding
  <2>2. CASE k # 1
    <3>1. k \in 2 .. Len(B)
      BY <2>2, <1>1 DEF Coding
    <3>2. PICK f \in 1 .. F : \E b \in 0 .. nb[f] : k = Pos(ir, f, b)
      BY <3>1, <1>1 DEF Coding
    <3>3. PICK b \in 0 .. nb[f] : k = Pos(ir, f, b)
      BY <3>2
    <3>4. CASE b = 0
      BY <3>3, <3>4, <1>1, <1>3 DEF Coding
    <3>5. CASE b # 0
      <4>1. b \in 1 .. nb[f]
        BY <3>5, <1>1 DEF Coding
      <4> QED BY <4>1, <3>3, <1>1, <1>3 DEF Coding
    <3> QED BY <3>4, <3>5
  <2> QED BY <2>1, <2>2
<1> QED BY <1>4 DEF RealAt, Size

(* The generator numbers the instructions of the blocks from 1 on, each    *)
(* block from where the one before it ends.                                *)
LEMMA GeneratedNumbered ==
  ASSUME NEW ir, WellFormedIR(ir), NEW g, g = Generated(ir)
  PROVE  Numbered(g) /\ g.node = [id \in DOMAIN g.node |-> g.node[id]]
<1> DEFINE B == ir2VmInst(ir)
           S == Starts(ir)
           N == Len(B)
           new(k) == [j \in DOMAIN B[k].insts |-> S[k - 1] + j]
           bs == [k \in DOMAIN B |-> [name |-> B[k].name, insts |-> new(k)]]
           flat == FlattenSeq(Code(B))
<1>1. g.blocks = bs /\ g.node = flat
  BY DEF Generated, Offset, Starts, Code
<1>2. /\ N \in Nat \ {0, 1} /\ DOMAIN B = 1 .. N
      /\ S \in [0 .. N -> Nat] /\ S[0] = 0
      /\ \A k \in 1 .. N : Size(B, k) \in Nat /\ S[k] = S[k - 1] + Size(B, k)
      /\ \A m \in 0 .. N : \A k \in 0 .. m : S[k] <= S[m]
      /\ Nested(Code(B)) /\ Len(Code(B)) = N /\ \A k \in 1 .. N : Code(B)[k] = B[k].insts
      /\ S = Offsets(Code(B))
  BY StartsShape DEF Started, Starts
<1>3. \A k \in 1 .. N : IsVector(B[k].insts) /\ DOMAIN B[k].insts = 1 .. Size(B, k)
  BY BlockVectors, VectorShape DEF Size
<1>4. \A k \in 1 .. N : \A j \in 1 .. Size(B, k) : Real(B[k].insts[j])
  BY BlocksReal
<1> HIDE DEF B, S, N, flat
<1>5. /\ IsVector(flat) /\ DOMAIN flat = 1 .. S[N] /\ flat = [id \in DOMAIN flat |-> flat[id]]
      /\ \A id \in DOMAIN flat : Real(flat[id])
  <2>1. IsVector(flat) /\ Len(flat) = S[N]
    BY <1>2, FlattenPlaces DEF flat
  <2>2. DOMAIN flat = 1 .. Len(flat) /\ flat = [id \in 1 .. Len(flat) |-> flat[id]]
    BY <2>1, VectorShape
  <2>3. ASSUME NEW id \in 1 .. Len(flat)
        PROVE  Real(flat[id])
    <3>1. \E k \in 1 .. Len(Code(B)) : \E j \in 1 .. Len(Code(B)[k]) :
            id = Offsets(Code(B))[k - 1] + j /\ flat[id] = Code(B)[k][j]
      BY <2>3, <1>2, FlattenFrom DEF flat
    <3>2. \E k \in 1 .. N : \E j \in 1 .. Size(B, k) : flat[id] = B[k].insts[j]
      <4>1. PICK k \in 1 .. Len(Code(B)) : \E j \in 1 .. Len(Code(B)[k]) : flat[id] = Code(B)[k][j]
        BY <3>1
      <4>2. PICK j \in 1 .. Len(Code(B)[k]) : flat[id] = Code(B)[k][j]
        BY <4>1
      <4>3. k \in 1 .. N /\ Code(B)[k] = B[k].insts
        BY <4>1, <1>2
      <4>4. j \in 1 .. Size(B, k) /\ flat[id] = B[k].insts[j]
        BY <4>2, <4>3 DEF Size
      <4> QED BY <4>3, <4>4
    <3> QED BY <3>2, <1>4
  <2> QED BY <2>1, <2>2, <2>3
<1>6. ASSUME NEW k \in 1 .. N
      PROVE  /\ IsVector(new(k)) /\ DOMAIN new(k) = 1 .. Size(B, k)
             /\ \A j \in 1 .. Size(B, k) : new(k)[j] = S[k - 1] + j
  <2> DEFINE s == new(k)
             n == Size(B, k)
  <2>1. n \in Nat /\ s = [j \in 1 .. n |-> S[k - 1] + j]
    BY <1>2, <1>3
  <2> HIDE DEF s, n
  <2>2. s = [j \in 1 .. n |-> s[j]] /\ \A j \in 1 .. n : s[j] = S[k - 1] + j
    BY <2>1
  <2>3. IsVector(s) /\ DOMAIN s = 1 .. n
    BY <2>1, <2>2, Vector
  <2> QED BY <2>2, <2>3 DEF s, n
<1>7. \A k \in 1 .. N : bs[k] = [name |-> B[k].name, insts |-> new(k)]
  BY <1>2
<1>8. IsVector(bs) /\ DOMAIN bs = 1 .. N
  <2>1. bs = [k \in 1 .. N |-> bs[k]] /\ N \in Nat
    BY <1>2
  <2> HIDE DEF bs
  <2> QED BY <2>1, Vector
<1>9. \A k \in 1 .. N : bs[k].insts = new(k) /\ bs[k].name = B[k].name
  <2> TAKE k \in 1 .. N
  <2> DEFINE s == new(k)
  <2>1. bs[k] = [name |-> B[k].name, insts |-> s]
    BY <1>7
  <2> HIDE DEF bs, new, s
  <2>2. bs[k].insts = s /\ bs[k].name = B[k].name
    BY <2>1
  <2> QED BY <2>2 DEF s
<1> HIDE DEF bs, new
<1>10. ASSUME NEW k \in 1 .. N
       PROVE  /\ bs[k] = [name |-> bs[k].name, insts |-> bs[k].insts]
              /\ IsVector(bs[k].insts)
              /\ ToSet(bs[k].insts) = S[k - 1] + 1 .. S[k]
              /\ Ordered(bs[k].insts)
              /\ ToSet(bs[k].insts) \subseteq DOMAIN flat \cap Nat
  <2> DEFINE s == new(k)
             a == S[k - 1]
             n == Size(B, k)
  <2>1. k - 1 \in 0 .. N /\ k \in 0 .. N /\ N \in 0 .. N
    BY <1>2
  <2>2. a \in Nat /\ n \in Nat /\ S[k] = a + n /\ S[k] <= S[N] /\ S[N] \in Nat
    BY <2>1, <1>2
  <2>3. IsVector(s) /\ DOMAIN s = 1 .. n /\ \A j \in 1 .. n : s[j] = a + j
    BY <1>6
  <2> HIDE DEF s, a, n
  <2>4. Ordered(s)
    BY <2>2, <2>3 DEF Ordered
  <2>5. ToSet(s) = a + 1 .. a + n
    <3>1. ASSUME NEW x \in ToSet(s) PROVE x \in a + 1 .. a + n
      <4>1. PICK j \in 1 .. n : x = s[j]
        BY <2>3 DEF ToSet
      <4> QED BY <4>1, <2>2, <2>3
    <3>2. ASSUME NEW x \in a + 1 .. a + n PROVE x \in ToSet(s)
      <4>1. x - a \in 1 .. n /\ a + (x - a) = x
        BY <2>2
      <4>2. s[x - a] = x /\ x - a \in DOMAIN s
        BY <4>1, <2>3
      <4> QED BY <4>2 DEF ToSet
    <3> QED BY <3>1, <3>2
  <2>6. \A x \in a + 1 .. a + n : x \in Nat /\ x \in 1 .. S[N]
    BY <2>2
  <2>7. bs[k].insts = s /\ bs[k] = [name |-> bs[k].name, insts |-> bs[k].insts]
    BY <1>7, <1>9 DEF s
  <2> QED BY <2>2, <2>3, <2>4, <2>5, <2>6, <2>7, <1>5 DEF a
<1>11. ASSUME NEW k \in 1 .. N, NEW l \in 1 .. N, k < l
       PROVE  ToSet(bs[k].insts) \cap ToSet(bs[l].insts) = {}
  <2>1. k \in 0 .. l - 1 /\ l - 1 \in 0 .. N /\ k - 1 \in 0 .. N /\ k \in 0 .. N /\ l \in 0 .. N
    <3>1. N \in Nat /\ k \in 1 .. N /\ l \in 1 .. N /\ k < l
      BY <1>2, <1>11
    <3> HIDE DEF N
    <3> QED BY <3>1
  <2>2. S[k] <= S[l - 1] /\ S[k] \in Nat /\ S[l - 1] \in Nat /\ S[k - 1] \in Nat /\ S[l] \in Nat
    BY <2>1, <1>2
  <2>3. \A x \in S[k - 1] + 1 .. S[k] : x \notin S[l - 1] + 1 .. S[l]
    BY <2>2
  <2> QED BY <2>3, <1>10
<1>12. \A k, l \in 1 .. N : ToSet(bs[k].insts) \cap ToSet(bs[l].insts) # {} => k = l
  <2> TAKE k, l \in 1 .. N
  <2>1. k < l \/ l < k \/ k = l
    BY <1>2
  <2> QED BY <2>1, <1>11
<1>13. bs # << >>
  <2>1. 1 \in DOMAIN bs
    BY <1>2, <1>8
  <2> QED BY <2>1
<1>14. Numbered(g)
  BY <1>1, <1>5, <1>8, <1>10, <1>12, <1>13 DEF Numbered, Real
<1> QED BY <1>1, <1>5, <1>14

-----------------------------------------------------------------------------
(* The invariant *)

(* What Kept says of the variables. *)
KeptState ==
  /\ IsVector(blocks) /\ DOMAIN blocks = DOMAIN source.blocks
  /\ \A k \in DOMAIN blocks : Left(blocks[k], source.blocks[k], Gone(node))
  /\ DOMAIN node = DOMAIN source.node /\ node = [id \in DOMAIN node |-> node[id]]
  /\ \A id \in DOMAIN node : Shaped(node[id])
  /\ IsVector(window) /\ ToSet(window) \subseteq DOMAIN source.node
  /\ at \in Nat \ {0}

(* The pass works on a numbered program, and between two visits its state  *)
(* is one that the rewritings keep.                                        *)
IInv ==
  /\ Numbered(source) /\ KeptState
  /\ block \in 1 .. Len(source.blocks) + 1
  /\ changed \in BOOLEAN /\ outcome \in {"running", "done", "crashed"}

(* The pass erases no block. *)
LEMMA SameBlocks ==
  ASSUME Numbered(source), KeptState
  PROVE  /\ Len(blocks) \in Nat /\ Len(blocks) = Len(source.blocks)
         /\ DOMAIN blocks = 1 .. Len(blocks)
<1>1. IsVector(blocks) /\ IsVector(source.blocks) /\ DOMAIN blocks = DOMAIN source.blocks
  BY DEF Numbered, KeptState
<1> DEFINE m == Len(blocks)
           n == Len(source.blocks)
<1>2. /\ m \in Nat /\ DOMAIN blocks = 1 .. m
      /\ n \in Nat /\ DOMAIN source.blocks = 1 .. n
  BY <1>1, VectorShape
<1> HIDE DEF m, n
<1>3. \A k \in Nat : k \in 1 .. m <=> k \in 1 .. n
  BY <1>1, <1>2
<1>4. m = n
  BY <1>2, <1>3
<1> QED BY <1>2, <1>4 DEF m, n

(* The invariant holds of the program as it was generated. *)
LEMMA InitHolds == Init => IInv
<1> SUFFICES ASSUME Init PROVE IInv
  OBVIOUS
<1>1. PICK ir \in IRs : source = Generated(ir)
  BY DEF Init
<1>2. Numbered(source) /\ source.node = [id \in DOMAIN source.node |-> source.node[id]]
  BY <1>1, ProgramsWellFormed, GeneratedNumbered
<1>3. Gone(node) = {}
  BY <1>2 DEF Init, Numbered, Gone
<1>4. IsVector(window) /\ ToSet(window) = {}
  BY Empty DEF Init, ToSet
<1>5. ASSUME NEW k \in DOMAIN blocks
      PROVE  Left(blocks[k], source.blocks[k], Gone(node))
  BY <1>2, <1>3 DEF Init, Numbered, Left
<1>6. KeptState
  BY <1>2, <1>4, <1>5 DEF Init, KeptState, Numbered
<1>7. Len(source.blocks) \in Nat
  BY <1>2, VectorShape DEF Numbered
<1> QED BY <1>2, <1>6, <1>7 DEF Init, IInv

(* What the rewritings are given satisfies what they need. *)
LEMMA VisitedKept ==
  ASSUME IInv, Visit
  PROVE  LET w == Append(window, blocks[block].insts[at])
             s == [blocks |-> blocks, node |-> node, window |-> w, at |-> at,
                   removed |-> FALSE, crashed |-> FALSE]
         IN Kept(s) /\ Current(s)
<1> DEFINE id == blocks[block].insts[at]
           w == Append(window, id)
           s == [blocks |-> blocks, node |-> node, window |-> w, at |-> at, removed |-> FALSE,
                 crashed |-> FALSE]
<1>1. /\ Numbered(source) /\ KeptState
      /\ block \in 1 .. Len(source.blocks) + 1
      /\ changed \in BOOLEAN /\ outcome \in {"running", "done", "crashed"}
  BY DEF IInv
<1>2. block \in DOMAIN blocks
  <2>1. /\ Len(blocks) \in Nat /\ Len(blocks) = Len(source.blocks)
        /\ DOMAIN blocks = 1 .. Len(blocks)
    BY <1>1, SameBlocks
  <2> QED BY <1>1, <2>1 DEF Visit, Running
<1>3. id \in ToSet(blocks[block].insts) /\ id \in DOMAIN source.node
  <2> DEFINE h == blocks[block].insts
  <2>1. IsVector(h) /\ ToSet(h) \subseteq DOMAIN source.node
    <3>1. Left(blocks[block], source.blocks[block], Gone(node)) /\ block \in DOMAIN source.blocks
      BY <1>1, <1>2 DEF KeptState
    <3>2. ToSet(source.blocks[block].insts) \subseteq DOMAIN source.node
      BY <1>1, <3>1 DEF Numbered
    <3> QED BY <3>1, <3>2 DEF Left
  <2>2. at <= Len(h) /\ at \in Nat \ {0}
    BY <1>1 DEF Visit, Here, KeptState
  <2> HIDE DEF h
  <2>3. at \in DOMAIN h
    BY <2>1, <2>2, VectorShape
  <2>4. h[at] \in ToSet(h)
    BY <2>3 DEF ToSet
  <2> QED BY <2>1, <2>4 DEF h
<1>4. /\ IsVector(w) /\ Len(w) = Len(window) + 1 /\ Len(window) \in Nat
      /\ \A k \in 1 .. Len(window) : w[k] = window[k]
      /\ w[Len(window) + 1] = id
  <2>1. IsVector(window)
    BY <1>1 DEF KeptState
  <2> QED BY <2>1, VectorAppend, VectorShape
<1>5. ToSet(w) \subseteq DOMAIN source.node
  <2>1. ToSet(window) \subseteq DOMAIN source.node /\ DOMAIN window = 1 .. Len(window)
    BY <1>1, VectorShape DEF KeptState
  <2>2. DOMAIN w = 1 .. Len(w)
    BY <1>4, VectorShape
  <2> HIDE DEF w, id
  <2> SUFFICES ASSUME NEW k \in DOMAIN w PROVE w[k] \in DOMAIN source.node
    BY DEF ToSet
  <2>3. CASE k = Len(window) + 1
    BY <2>3, <1>3, <1>4
  <2>4. CASE k # Len(window) + 1
    <3>1. k \in 1 .. Len(window)
      BY <2>2, <2>4, <1>4
    <3> QED BY <3>1, <2>1, <1>4 DEF ToSet
  <2> QED BY <2>3, <2>4
<1>6. Kept(s) /\ Current(s)
  <2>1. /\ s.blocks = blocks /\ s.node = node /\ s.window = w /\ s.at = at
        /\ s.removed = FALSE /\ s.crashed = FALSE
        /\ s = [blocks |-> s.blocks, node |-> s.node, window |-> s.window, at |-> s.at,
                removed |-> s.removed, crashed |-> s.crashed]
    OBVIOUS
  <2> HIDE DEF s, w, id
  <2>2. Kept(s)
    BY <2>1, <1>1, <1>4, <1>5 DEF Kept, KeptState
  <2>3. Current(s)
    BY <2>1, <1>2, <1>3, <1>4 DEF Current
  <2> QED BY <2>2, <2>3
<1> QED BY <1>6

(* A visit keeps it. *)
LEMMA VisitKeeps ==
  ASSUME IInv, Visit
  PROVE  IInv'
<1> DEFINE id == blocks[block].insts[at]
           w == Append(window, id)
           s == [blocks |-> blocks, node |-> node, window |-> w, at |-> at, removed |-> FALSE,
                 crashed |-> FALSE]
           t == pass(s)
<1>1. /\ Numbered(source) /\ KeptState
      /\ block \in 1 .. Len(source.blocks) + 1
      /\ changed \in BOOLEAN /\ outcome \in {"running", "done", "crashed"}
  BY DEF IInv
<1>6. Kept(t)
  <2>1. Kept(s) /\ Current(s)
    BY VisitedKept
  <2>2. s.removed = FALSE
    OBVIOUS
  <2> HIDE DEF s
  <2> QED BY <2>1, <2>2, <1>1, PassKeeps DEF t
<1>7. /\ blocks' = t.blocks /\ node' = t.node /\ window' = t.window
      /\ at' = (IF t.removed THEN t.at ELSE t.at + 1)
      /\ changed' = (changed \/ t.removed)
      /\ outcome' \in {outcome, "crashed"}
      /\ source' = source /\ block' = block
  BY DEF Visit, Here
<1> HIDE DEF t
<1>8. at' \in Nat \ {0}
  <2>1. t.at \in Nat \ {0}
    BY <1>6 DEF Kept
  <2> QED BY <2>1, <1>7
<1>9. KeptState'
  BY <1>6, <1>7, <1>8 DEF Kept, KeptState
<1>10. changed' \in BOOLEAN /\ outcome' \in {"running", "done", "crashed"}
  BY <1>1, <1>6, <1>7 DEF Kept
<1>11. (Numbered(source) /\ block \in 1 .. Len(source.blocks) + 1)'
  BY <1>1, <1>7
<1> QED BY <1>9, <1>10, <1>11 DEF IInv

(* Every step keeps the invariant. *)
LEMMA StepKeeps ==
  ASSUME IInv, [Next]_vars
  PROVE  IInv'
<1>1. /\ Numbered(source) /\ KeptState
      /\ block \in 1 .. Len(source.blocks) + 1
      /\ changed \in BOOLEAN /\ outcome \in {"running", "done", "crashed"}
  BY DEF IInv
<1>2. /\ Len(blocks) \in Nat /\ Len(blocks) = Len(source.blocks)
  BY <1>1, SameBlocks
<1>3. ASSUME UNCHANGED <<source, blocks, node, window>>, (at \in Nat \ {0})'
      PROVE  (Numbered(source) /\ KeptState)'
  BY <1>1, <1>3 DEF KeptState
<1>4. CASE Skip
  <2>1. at' \in Nat \ {0}
    BY <1>1, <1>4 DEF Skip, KeptState
  <2> QED BY <2>1, <1>1, <1>3, <1>4 DEF Skip, IInv
<1>5. CASE Visit
  BY <1>5, VisitKeeps
<1>6. CASE NextBlock
  <2>1. /\ UNCHANGED <<source, blocks, node, window, changed, outcome>>
        /\ block' = block + 1 /\ at' = 1 /\ block <= Len(blocks)
    BY <1>6 DEF NextBlock, Running
  <2>2. (block \in 1 .. Len(source.blocks) + 1)'
    BY <2>1, <1>1, <1>2
  <2>3. (Numbered(source) /\ KeptState)'
    BY <2>1, <1>3
  <2>4. changed' \in BOOLEAN /\ outcome' \in {"running", "done", "crashed"}
    BY <2>1, <1>1
  <2> QED BY <2>2, <2>3, <2>4 DEF IInv
<1>7. CASE NextRound
  <2>1. /\ UNCHANGED <<source, blocks, node, window, outcome>>
        /\ block' = 1 /\ at' = 1 /\ changed' = FALSE
    BY <1>7 DEF NextRound
  <2>2. (block \in 1 .. Len(source.blocks) + 1)'
    BY <2>1, <1>1, <1>2
  <2>3. (Numbered(source) /\ KeptState)'
    BY <2>1, <1>3
  <2>4. changed' \in BOOLEAN /\ outcome' \in {"running", "done", "crashed"}
    BY <2>1, <1>1
  <2> QED BY <2>2, <2>3, <2>4 DEF IInv
<1>8. CASE Finish
  BY <1>1, <1>3, <1>8 DEF Finish, KeptState, IInv
<1>9. CASE Terminated \/ UNCHANGED vars
  BY <1>1, <1>3, <1>9 DEF Terminated, vars, KeptState, IInv
<1> QED BY <1>4, <1>5, <1>6, <1>7, <1>8, <1>9 DEF Next

(* The invariant implies the type invariant that is checked. *)
LEMMA IInvTyped ==
  ASSUME IInv
  PROVE  TypeOK
<1>1. /\ Numbered(source) /\ KeptState
      /\ block \in 1 .. Len(source.blocks) + 1
      /\ changed \in BOOLEAN /\ outcome \in {"running", "done", "crashed"}
  BY DEF IInv
<1>2. Len(blocks) = Len(source.blocks)
  BY <1>1, SameBlocks
<1>3. Erased = Gone(node)
  BY DEF Erased, Gone
<1>4. ASSUME NEW k \in DOMAIN blocks
      PROVE  /\ blocks[k].name = source.blocks[k].name
             /\ ToSet(blocks[k].insts) = ToSet(source.blocks[k].insts) \ Erased
             /\ \A i, j \in DOMAIN blocks[k].insts :
                  i < j => blocks[k].insts[i] < blocks[k].insts[j]
  <2>1. Left(blocks[k], source.blocks[k], Gone(node))
    BY <1>1 DEF KeptState
  <2> QED BY <2>1, <1>3 DEF Left, Ordered
<1> QED BY <1>1, <1>2, <1>4 DEF TypeOK, KeptState

(* However the rewritings follow each other, every instruction stays in    *)
(* its block, once and in its place, or is erased from it and from the     *)
(* program, and the window that later rounds read through names no         *)
(* instruction that never was: traversal, pass and the rewritings of       *)
(* peephole_optimization.cpp.                                              *)
THEOREM InstructionsStay == Spec => []TypeOK
<1>1. IInv /\ [Next]_vars => IInv'
  BY StepKeeps
<1>2. IInv => TypeOK
  BY IInvTyped
<1> QED BY <1>1, <1>2, InitHolds, PTL DEF Spec

-----------------------------------------------------------------------------
(* Where the jumps lead *)

Names == {source.blocks[k].name : k \in DOMAIN source.blocks}

(* The steps by which the labels that come to a label are found. *)
Gathers(gone, label, f, n) ==
  /\ f[0] = {label}
  /\ \A i \in 1 .. n : f[i] = f[i - 1] \cup LeftFor(gone, f[i - 1])

(* ComesWithin is recursive: that it has a value is shown first. *)
LEMMA ComesToSteps ==
  ASSUME Numbered(source), NEW gone, NEW label
  PROVE  \E f : /\ ComesTo(gone, label) = f[Len(source.blocks)]
                /\ Gathers(gone, label, f, Len(source.blocks))
<1> DEFINE N == Len(source.blocks)
           X == SUBSET ({label} \cup Names)
           b == {label}
           step(x) == x \cup LeftFor(gone, x)
           D == [n \in Nat |-> [x \in X |-> step(x)]]
<1>1. N \in Nat
  BY VectorShape DEF Numbered
<1>2. b \in X /\ \A x \in X : step(x) \in X
  <2>1. \A x : LeftFor(gone, x) \subseteq Names
    BY DEF LeftFor, Names
  <2> QED BY <2>1
<1> HIDE DEF N, X, b, step
<1>3. D \in [Nat -> [X -> X]] /\ \A n \in Nat : \A x \in X : D[n][x] = step(x)
  BY <1>2
<1> HIDE DEF D
<1>4. PICK f : f \in Recursive(X, b, D, N)
  BY <1>1, <1>2, <1>3, RecursiveExists
<1>5. f \in [0 .. N -> X] /\ f[0] = b /\ \A n \in 1 .. N : f[n] = D[n][f[n - 1]]
  BY <1>4 DEF Recursive
<1>6. ASSUME NEW n \in 0 .. N
      PROVE  f[n] = IF n = 0 THEN b ELSE step(f[n - 1])
  <2>1. CASE n = 0
    BY <2>1, <1>5
  <2>2. CASE n # 0
    <3>1. n \in 1 .. N /\ n - 1 \in 0 .. N /\ n \in Nat
      BY <2>2, <1>1
    <3>2. f[n - 1] \in X /\ f[n] = D[n][f[n - 1]]
      BY <3>1, <1>5
    <3> QED BY <3>1, <3>2, <2>2, <1>3
  <2> QED BY <2>1, <2>2
<1>7. f = [n \in 0 .. N |-> IF n = 0 THEN b ELSE step(f[n - 1])]
  BY <1>5, <1>6
<1> DEFINE r == ComesWithin(gone, label)
<1>8. r = [n \in 0 .. N |-> IF n = 0 THEN b ELSE step(r[n - 1])]
  BY <1>7 DEF ComesWithin, N, b, step
<1> HIDE DEF r
<1>9. \A n \in 0 .. N : r[n] = IF n = 0 THEN b ELSE step(r[n - 1])
  BY <1>8
<1>10. r[0] = b /\ \A n \in 1 .. N : r[n] = step(r[n - 1])
  BY <1>1, <1>9
<1> QED BY <1>10 DEF r, N, b, step, ComesTo, Gathers

(* The more labels, the more blocks are left for them. *)
LEMMA LeftForGrows ==
  ASSUME NEW gone, NEW S, NEW T, S \subseteq T
  PROVE  LeftFor(gone, S) \subseteq LeftFor(gone, T)
<1>1. \A k : (\E w \in Ways(gone, k) : w \subseteq S) => \E w \in Ways(gone, k) : w \subseteq T
  OBVIOUS
<1> QED BY <1>1 DEF LeftFor

(* What each step adds stays. *)
LEMMA GathersGrow ==
  ASSUME NEW gone, NEW label, NEW f, NEW N \in Nat, Gathers(gone, label, f, N),
         NEW m \in 0 .. N, NEW n \in 0 .. m
  PROVE  f[n] \subseteq f[m]
<1> DEFINE S == {l \in Nat : n <= l /\ l <= N => f[n] \subseteq f[l]}
<1>1. 0 \in S
  <2>1. 0 \in Nat /\ (n <= 0 => n = 0)
    OBVIOUS
  <2> QED BY <2>1
<1>2. ASSUME NEW l \in Nat, l \in S
      PROVE  l + 1 \in S
  <2>1. CASE n <= l /\ l + 1 <= N
    <3>1. l + 1 \in 1 .. N /\ (l + 1) - 1 = l /\ l <= N
      BY <2>1
    <3>2. f[l + 1] = f[l] \cup LeftFor(gone, f[l])
      BY <3>1 DEF Gathers
    <3>3. f[n] \subseteq f[l]
      BY <2>1, <3>1, <1>2
    <3> QED BY <3>2, <3>3
  <2>2. CASE n = l + 1
    BY <2>2
  <2>3. CASE ~(n <= l + 1 /\ l + 1 <= N)
    BY <2>3
  <2> QED BY <2>1, <2>2, <2>3
<1>3. Nat \subseteq S
  <2> HIDE DEF S
  <2> QED BY <1>1, <1>2, Induction
<1>4. m \in S
  <2> HIDE DEF S
  <2> QED BY <1>3
<1> QED BY <1>4

(* As many steps as there are blocks are enough: a step that adds a block  *)
(* adds one that was not there before, and one that adds none is the last. *)
LEMMA ComesToClosed ==
  ASSUME Numbered(source), NEW gone, NEW label
  PROVE  /\ label \in ComesTo(gone, label)
         /\ LeftFor(gone, ComesTo(gone, label)) \subseteq ComesTo(gone, label)
<1> DEFINE N == Len(source.blocks)
<1>1. N \in Nat /\ DOMAIN source.blocks = 1 .. N
  BY VectorShape DEF Numbered
<1>2. PICK f : ComesTo(gone, label) = f[N] /\ Gathers(gone, label, f, N)
  BY ComesToSteps
<1> HIDE DEF N
<1>3. label \in f[N]
  <2>1. N \in 0 .. N /\ 0 \in 0 .. N
    BY <1>1
  <2>2. f[0] \subseteq f[N]
    BY <2>1, <1>1, <1>2, GathersGrow
  <2> QED BY <2>2, <1>2 DEF Gathers
<1>4. CASE \E n \in 0 .. N : LeftFor(gone, f[n]) \subseteq f[n]
  <2>1. PICK n \in 0 .. N : LeftFor(gone, f[n]) \subseteq f[n]
    BY <1>4
  <2> DEFINE S == {d \in Nat : n + d <= N => f[n + d] = f[n]}
  <2>2. 0 \in S
    BY <2>1
  <2>3. ASSUME NEW d \in Nat, d \in S
        PROVE  d + 1 \in S
    <3> SUFFICES ASSUME n + (d + 1) <= N PROVE f[n + (d + 1)] = f[n]
      OBVIOUS
    <3>1. n + (d + 1) \in 1 .. N /\ (n + (d + 1)) - 1 = n + d /\ n + d <= N
      BY <1>1, <2>1
    <3>2. f[n + (d + 1)] = f[n + d] \cup LeftFor(gone, f[n + d])
      BY <3>1, <1>2 DEF Gathers
    <3>3. f[n + d] = f[n]
      BY <3>1, <2>3
    <3> QED BY <3>2, <3>3, <2>1
  <2>4. N - n \in S
    <3> HIDE DEF S
    <3>1. Nat \subseteq S /\ N - n \in Nat
      BY <1>1, <2>1, <2>2, <2>3, Induction
    <3> QED BY <3>1
  <2>5. n + (N - n) = N
    BY <1>1, <2>1
  <2>6. f[N] = f[n]
    BY <2>4, <2>5, <1>1
  <2> QED BY <2>1, <2>6, <1>2, <1>3
<1>5. CASE \A n \in 0 .. N : ~(LeftFor(gone, f[n]) \subseteq f[n])
  <2> DEFINE name(k) == source.blocks[k].name
             Adds(n, k) == name(k) \in LeftFor(gone, f[n]) /\ name(k) \notin f[n]
             v == [n \in 0 .. N |-> CHOOSE k \in 1 .. N : Adds(n, k)]
  <2>1. ASSUME NEW n \in 0 .. N
        PROVE  v[n] \in 1 .. N /\ Adds(n, v[n])
    <3>1. PICK x \in LeftFor(gone, f[n]) : x \notin f[n]
      BY <1>5
    <3>2. \E k \in 1 .. N : Adds(n, k)
      BY <3>1, <1>1 DEF LeftFor
    <3> HIDE DEF Adds
    <3> QED BY <3>2
  <2>2. v \in [0 .. N -> 1 .. N]
    BY <2>1
  <2>3. /\ IsFiniteSet(0 .. N) /\ IsFiniteSet(1 .. N)
        /\ Cardinality(0 .. N) = N + 1 /\ Cardinality(1 .. N) = N
    <3>1. 0 \in Int /\ 1 \in Int /\ N \in Int /\ ~(0 > N) /\ (1 > N => N = 0)
      BY <1>1
    <3> QED BY <3>1, FS_Interval
  <2>4. Cardinality(1 .. N) < Cardinality(0 .. N)
    BY <2>3, <1>1
  <2> HIDE DEF v
  <2>5. PICK x, y \in 0 .. N : x # y /\ v[x] = v[y]
    BY <2>2, <2>3, <2>4, FS_PigeonHole
  <2>6. ASSUME NEW p \in 0 .. N, NEW q \in 0 .. N, p < q, v[p] = v[q]
        PROVE  FALSE
    <3>1. p + 1 \in 1 .. N /\ (p + 1) - 1 = p /\ p + 1 \in 0 .. q
      BY <1>1, <2>6
    <3>2. f[p + 1] = f[p] \cup LeftFor(gone, f[p])
      BY <3>1, <1>2 DEF Gathers
    <3>3. f[p + 1] \subseteq f[q]
      BY <3>1, <1>1, <1>2, GathersGrow
    <3>4. name(v[p]) \in f[q] /\ name(v[q]) \notin f[q]
      BY <3>2, <3>3, <2>1
    <3> QED BY <3>4, <2>6
  <2>7. x < y \/ y < x
    BY <2>5, <1>1
  <2> QED BY <2>5, <2>6, <2>7
<1> QED BY <1>4, <1>5

(* It is the least such set of labels. *)
LEMMA ComesToLeast ==
  ASSUME Numbered(source), NEW gone, NEW label, NEW S, label \in S, LeftFor(gone, S) \subseteq S
  PROVE  ComesTo(gone, label) \subseteq S
<1> DEFINE N == Len(source.blocks)
<1>1. N \in Nat
  BY VectorShape DEF Numbered
<1>2. PICK f : ComesTo(gone, label) = f[N] /\ Gathers(gone, label, f, N)
  BY ComesToSteps
<1> HIDE DEF N
<1> DEFINE T == {n \in Nat : n <= N => f[n] \subseteq S}
<1>3. 0 \in T
  BY <1>2 DEF Gathers
<1>4. ASSUME NEW n \in Nat, n \in T
      PROVE  n + 1 \in T
  <2> SUFFICES ASSUME n + 1 <= N PROVE f[n + 1] \subseteq S
    OBVIOUS
  <2>1. n + 1 \in 1 .. N /\ (n + 1) - 1 = n /\ f[n] \subseteq S
    BY <1>1, <1>4
  <2>2. f[n + 1] = f[n] \cup LeftFor(gone, f[n])
    BY <2>1, <1>2 DEF Gathers
  <2>3. LeftFor(gone, f[n]) \subseteq LeftFor(gone, S)
    BY <2>1, LeftForGrows
  <2> QED BY <2>1, <2>2, <2>3
<1>5. N \in T
  <2> HIDE DEF T
  <2> QED BY <1>1, <1>3, <1>4, Induction
<1> QED BY <1>1, <1>2, <1>5

(* Who comes to a label comes to where that leads. *)
LEMMA ComesOn ==
  ASSUME Numbered(source), NEW gone, NEW k, NEW l \in ComesTo(gone, k), NEW m,
         k \in ComesTo(gone, m)
  PROVE  l \in ComesTo(gone, m)
<1>1. LeftFor(gone, ComesTo(gone, m)) \subseteq ComesTo(gone, m)
  BY ComesToClosed
<1>2. ComesTo(gone, k) \subseteq ComesTo(gone, m)
  BY <1>1, ComesToLeast
<1> QED BY <1>2

(* Erasing more instructions bars no way. *)
LEMMA ComesMore ==
  ASSUME Numbered(source), NEW gone, NEW more, gone \subseteq more, NEW label
  PROVE  ComesTo(gone, label) \subseteq ComesTo(more, label)
<1> DEFINE S == ComesTo(more, label)
<1>1. label \in S /\ LeftFor(more, S) \subseteq S
  BY ComesToClosed
<1>2. \A k : Ways(gone, k) \subseteq Ways(more, k)
  BY DEF Ways
<1>3. LeftFor(gone, S) \subseteq LeftFor(more, S)
  BY <1>2 DEF LeftFor
<1> HIDE DEF S
<1>4. ComesTo(gone, label) \subseteq S
  BY <1>1, <1>3, ComesToLeast
<1> QED BY <1>4 DEF S

(* Every jump goes where the original jump goes, as far as nodes says. *)
Straight(nodes) ==
  \A id \in DOMAIN nodes :
    LET i == nodes[id]  j == source.node[id]
    IN /\ i.op = "JMP" => /\ j.op \in {"JMP", "JIF"}
                          /\ Labels(j) \subseteq ComesTo(Gone(nodes), i.label)
       /\ i.op = "JIF" => /\ j.op = "JIF"
                          /\ j.label1 \in ComesTo(Gone(nodes), i.label1)
                          /\ j.label2 \in ComesTo(Gone(nodes), i.label2)

(* What a rewriting may make of instruction i: nothing, a JMP of a JIF, or *)
(* a jump that leads on.                                                   *)
MadeOf(gone, i, e) ==
  \/ e = i
  \/ e.op \notin {"JMP", "JIF"}
  \/ i.op = "JIF" /\ i.label1 = i.label2 /\ e.op = "JMP" /\ e.label = i.label1
  \/ i.op = "JMP" /\ e.op = "JMP" /\ i.label \in ComesTo(gone, e.label)
  \/ /\ i.op = "JIF" /\ e.op = "JIF"
     /\ i.label1 \in ComesTo(gone, e.label1) /\ i.label2 \in ComesTo(gone, e.label2)

(* Such a rewriting keeps the jumps straight. *)
LEMMA StaysStraight ==
  ASSUME Numbered(source), NEW nodes, Straight(nodes), NEW new, DOMAIN new = DOMAIN nodes,
         Gone(nodes) \subseteq Gone(new),
         \A id \in DOMAIN nodes : MadeOf(Gone(new), nodes[id], new[id])
  PROVE  Straight(new)
<1> DEFINE g == Gone(nodes)
           h == Gone(new)
<1>1. g \subseteq h
  OBVIOUS
<1>2. \A l : ComesTo(g, l) \subseteq ComesTo(h, l)
  BY <1>1, ComesMore
<1> HIDE DEF g, h
<1> SUFFICES ASSUME NEW id \in DOMAIN new, NEW i, i = nodes[id], NEW e, e = new[id],
                    NEW j, j = source.node[id]
             PROVE  /\ e.op = "JMP" => /\ j.op \in {"JMP", "JIF"}
                                       /\ Labels(j) \subseteq ComesTo(h, e.label)
                    /\ e.op = "JIF" => /\ j.op = "JIF"
                                       /\ j.label1 \in ComesTo(h, e.label1)
                                       /\ j.label2 \in ComesTo(h, e.label2)
  BY DEF Straight, h
<1>3. /\ i.op = "JMP" => /\ j.op \in {"JMP", "JIF"}
                         /\ Labels(j) \subseteq ComesTo(h, i.label)
      /\ i.op = "JIF" => /\ j.op = "JIF"
                         /\ j.label1 \in ComesTo(h, i.label1)
                         /\ j.label2 \in ComesTo(h, i.label2)
  BY <1>2 DEF Straight, g
<1>4. MadeOf(h, i, e)
  BY DEF h
<1>5. CASE e = i
  BY <1>3, <1>5
<1>6. CASE e.op \notin {"JMP", "JIF"}
  BY <1>6
<1>7. CASE i.op = "JIF" /\ i.label1 = i.label2 /\ e.op = "JMP" /\ e.label = i.label1
  BY <1>3, <1>7 DEF Labels
<1>8. CASE i.op = "JMP" /\ e.op = "JMP" /\ i.label \in ComesTo(h, e.label)
  <2>1. \A l \in ComesTo(h, i.label) : l \in ComesTo(h, e.label)
    BY <1>8, ComesOn
  <2> QED BY <2>1, <1>3, <1>8
<1>9. CASE /\ i.op = "JIF" /\ e.op = "JIF"
           /\ i.label1 \in ComesTo(h, e.label1) /\ i.label2 \in ComesTo(h, e.label2)
  <2>1. /\ \A l \in ComesTo(h, i.label1) : l \in ComesTo(h, e.label1)
        /\ \A l \in ComesTo(h, i.label2) : l \in ComesTo(h, e.label2)
    BY <1>9, ComesOn
  <2> QED BY <2>1, <1>3, <1>9
<1> QED BY <1>4, <1>5, <1>6, <1>7, <1>8, <1>9 DEF MadeOf

(* Erasing an instruction does, ... *)
LEMMA ErasedStraight ==
  ASSUME Numbered(source), NEW nodes, Straight(nodes), NEW new, OneErased(nodes, new)
  PROVE  Straight(new)
<1>1. SUFFICES ASSUME NEW id \in DOMAIN nodes, new = [nodes EXCEPT ![id] = Null]
               PROVE  Straight(new)
  BY DEF OneErased
<1>2. Gone(nodes) \subseteq Gone(new)
  BY <1>1, GoneOne
<1>3. \A j \in DOMAIN nodes : MadeOf(Gone(new), nodes[j], new[j])
  <2>1. Null.op \notin {"JMP", "JIF"}
    BY DEF Null
  <2> QED BY <1>1, <2>1 DEF MadeOf
<1>4. DOMAIN new = DOMAIN nodes
  BY <1>1
<1> QED BY <1>2, <1>3, <1>4, StaysStraight

(* ... and so does a JIF with one target becoming a JMP. *)
LEMMA MergedStraight ==
  ASSUME Numbered(source), NEW nodes, Straight(nodes), NEW new, JifsMerged(nodes, new)
  PROVE  Straight(new)
<1>1. PICK F \in SUBSET DOMAIN nodes :
             /\ \A id \in F : IsSameJif(nodes[id])
             /\ new = [id \in DOMAIN nodes |-> IF id \in F
                                               THEN [op |-> "JMP", label |-> nodes[id].label1]
                                               ELSE nodes[id]]
  BY DEF JifsMerged
<1>2. /\ DOMAIN new = DOMAIN nodes
      /\ \A id \in DOMAIN new :
           new[id] = IF id \in F THEN [op |-> "JMP", label |-> nodes[id].label1] ELSE nodes[id]
  BY <1>1
<1>3. ASSUME NEW id \in DOMAIN new
      PROVE  /\ nodes[id] = Null => new[id] = Null
             /\ \A g : MadeOf(g, nodes[id], new[id])
  <2>1. CASE id \in F
    <3>1. nodes[id].op = "JIF" /\ nodes[id].label1 = nodes[id].label2 /\ Null.op # "JIF"
      BY <2>1, <1>1 DEF IsSameJif, Null
    <3>2. new[id] = [op |-> "JMP", label |-> nodes[id].label1]
      BY <2>1, <1>2
    <3>3. new[id].op = "JMP" /\ new[id].label = nodes[id].label1
      BY <3>2
    <3> QED BY <3>1, <3>3 DEF MadeOf
  <2>2. CASE id \notin F
    BY <2>2, <1>2 DEF MadeOf
  <2> QED BY <2>1, <2>2
<1>4. Gone(nodes) \subseteq Gone(new)
  BY <1>2, <1>3 DEF Gone
<1> QED BY <1>2, <1>3, <1>4, StaysStraight

(* No jump stands in front of the functions, where a label that no block   *)
(* has leads to.                                                           *)
JumpFree(g) == \A id \in ToSet(g.blocks[1].insts) : g.node[id].op \notin {"JMP", "JIF"}

(* checkTarget leads on by the jump that heads the block now; what stood   *)
(* in front of it has been erased.                                         *)
LEMMA LedFurther ==
  ASSUME Numbered(source), JumpFree(source), NEW s, Kept(s), Straight(s.node), NEW l,
         Headed(s, l) # << >>
  PROVE  l \in ComesTo(Gone(s.node), checkTarget(s, l))
<1>1. PICK k \in DOMAIN s.blocks :
             Headed(s, l) = s.blocks[k].insts /\ (k = 1 \/ s.blocks[k].name = l)
  BY HeadedBlock
<1> DEFINE h == s.blocks[k].insts
           o == source.blocks[k].insts
           id == h[1]
           g == Gone(s.node)
           j == source.node[id]
           m == s.node[id].label
<1>2. /\ IsVector(h) /\ Ordered(h) /\ ToSet(h) = ToSet(o) \ g
      /\ s.blocks[k].name = source.blocks[k].name /\ k \in DOMAIN source.blocks
  <2>1. Left(s.blocks[k], source.blocks[k], g) /\ k \in DOMAIN source.blocks
    BY DEF Kept
  <2> QED BY <2>1 DEF Left
<1>3. IsVector(o) /\ Ordered(o) /\ ToSet(o) \subseteq DOMAIN source.node \cap Nat
  BY <1>2 DEF Numbered
<1>4. 1 \in DOMAIN h /\ id \in ToSet(h)
  <2>1. h # << >>
    BY <1>1
  <2> HIDE DEF h
  <2>2. 1 \in DOMAIN h
    BY <2>1, <1>2, NotEmpty
  <2> QED BY <2>2 DEF ToSet, h
<1>5. checkTarget(s, l) = IF s.node[id].op = "JMP" THEN m ELSE l
  BY <1>1 DEF checkTarget
<1>6. CASE s.node[id].op # "JMP"
  BY <1>5, <1>6, ComesToClosed
<1>7. CASE s.node[id].op = "JMP"
  <2>1. j.op \in {"JMP", "JIF"} /\ Labels(j) \subseteq ComesTo(g, m)
    <3>1. id \in DOMAIN s.node
      BY <1>2, <1>3, <1>4 DEF Kept
    <3> QED BY <3>1, <1>7 DEF Straight
  <2>2. id \in ToSet(o) /\ id \in Nat
    BY <1>2, <1>3, <1>4
  <2>3. k # 1
    BY <2>1, <2>2 DEF JumpFree
  <2>4. source.blocks[k].name = l
    BY <2>3, <1>1, <1>2
  <2> HIDE DEF h, o, id, g, j, m
  <2>5. PICK p \in DOMAIN o : o[p] = id
    BY <2>2 DEF ToSet
  <2>6. ASSUME NEW q \in 1 .. p - 1
        PROVE  o[q] \in g
    <3>1. Len(o) \in Nat /\ DOMAIN o = 1 .. Len(o) /\ Len(h) \in Nat /\ DOMAIN h = 1 .. Len(h)
      BY <1>2, <1>3, VectorShape
    <3>2. q \in DOMAIN o /\ q < p
      BY <3>1, <2>5
    <3>3. o[q] < id /\ o[q] \in Nat /\ o[q] \in ToSet(o)
      BY <3>2, <2>5, <1>3 DEF Ordered, ToSet
    <3> SUFFICES ASSUME o[q] \notin g PROVE FALSE
      OBVIOUS
    <3>4. PICK r \in DOMAIN h : h[r] = o[q]
      BY <3>3, <1>2 DEF ToSet
    <3>5. r = 1 \/ 1 < r
      BY <3>1
    <3>6. id = o[q] \/ id < o[q]
      BY <3>4, <3>5, <1>2, <1>4 DEF Ordered, id
    <3> QED BY <3>3, <3>6, <2>2
  <2>7. Labels(j) \in Ways(g, k)
    BY <2>1, <2>5, <2>6 DEF Ways, o, j
  <2>8. source.blocks[k].name \in LeftFor(g, ComesTo(g, m))
    BY <2>1, <2>7, <1>2 DEF LeftFor
  <2>9. l \in ComesTo(g, m)
    BY <2>4, <2>8, ComesToClosed
  <2> QED BY <2>9, <1>5, <1>7 DEF g
<1> QED BY <1>6, <1>7

(* Redirecting a jump keeps the jumps straight, ... *)
LEMMA RedirectStraight ==
  ASSUME Numbered(source), JumpFree(source), NEW s, Kept(s), Straight(s.node),
         NEW id \in DOMAIN s.node, s.node[id].op \in {"JMP", "JIF"}
  PROVE  Straight(Redirect(s, id).node)
<1> DEFINE t == Redirect(s, id)
           g == Gone(s.node)
<1>1. PICK i : i = s.node[id]
  OBVIOUS
<1>2. /\ Shaped(i) /\ s.crashed \in BOOLEAN
      /\ s = [blocks |-> s.blocks, node |-> s.node, window |-> s.window, at |-> s.at,
              removed |-> s.removed, crashed |-> s.crashed]
  BY <1>1 DEF Kept
<1>3. \A f, c : WithNodes(s, f, c).node = f
  BY DEF WithNodes
<1>4. \A l : Headed(s, l) # << >> => l \in ComesTo(g, checkTarget(s, l))
  BY LedFurther
<1> HIDE DEF g
<1>5. ASSUME NEW e, t.node = [s.node EXCEPT ![id] = e], MadeOf(g, i, e)
      PROVE  Straight(t.node)
  <2> DEFINE new == [s.node EXCEPT ![id] = e]
  <2>1. g \subseteq Gone(new)
    <3>1. i # Null
      BY <1>1 DEF Null
    <3> QED BY <3>1, <1>1 DEF Gone, g
  <2>2. \A j \in DOMAIN s.node : MadeOf(Gone(new), s.node[j], new[j])
    <3>1. \A l : ComesTo(g, l) \subseteq ComesTo(Gone(new), l)
      <4> HIDE DEF new
      <4> QED BY <2>1, ComesMore
    <3>2. MadeOf(Gone(new), i, e)
      <4> HIDE DEF new
      <4> QED BY <3>1, <1>5 DEF MadeOf
    <3>3. TAKE j \in DOMAIN s.node
    <3>4. CASE j = id
      BY <3>2, <3>4, <1>1
    <3>5. CASE j # id
      BY <3>5 DEF MadeOf
    <3> QED BY <3>4, <3>5
  <2>3. DOMAIN new = DOMAIN s.node
    OBVIOUS
  <2> HIDE DEF new
  <2>4. Straight(new)
    BY <2>1, <2>2, <2>3, StaysStraight DEF g
  <2> QED BY <2>4, <1>5 DEF new
<1> DEFINE e1 == [op |-> "JMP", label |-> checkTarget(s, i.label)]
           e2 == [op |-> "JIF", label1 |-> checkTarget(s, i.label1),
                  label2 |-> checkTarget(s, i.label2)]
<1>6. \/ t = WithNodes(s, s.node, TRUE)
      \/ /\ i.op = "JMP" /\ Headed(s, i.label) # << >>
         /\ t = WithNodes(s, [s.node EXCEPT ![id] = e1], s.crashed)
      \/ /\ i.op = "JIF" /\ Headed(s, i.label1) # << >> /\ Headed(s, i.label2) # << >>
         /\ t = WithNodes(s, [s.node EXCEPT ![id] = e2], s.crashed)
  BY <1>1, <1>2, RedirectShape
<1>7. CASE t = WithNodes(s, s.node, TRUE)
  BY <1>3, <1>7
<1>8. CASE /\ i.op = "JMP" /\ Headed(s, i.label) # << >>
           /\ t = WithNodes(s, [s.node EXCEPT ![id] = e1], s.crashed)
  <2>1. e1.op = "JMP" /\ i.label \in ComesTo(g, e1.label)
    BY <1>4, <1>8
  <2> HIDE DEF t, e1
  <2>2. t.node = [s.node EXCEPT ![id] = e1]
    BY <1>3, <1>8
  <2>3. MadeOf(g, i, e1)
    BY <2>1, <1>8 DEF MadeOf
  <2> QED BY <2>2, <2>3, <1>5 DEF t
<1>9. CASE /\ i.op = "JIF" /\ Headed(s, i.label1) # << >> /\ Headed(s, i.label2) # << >>
           /\ t = WithNodes(s, [s.node EXCEPT ![id] = e2], s.crashed)
  <2>1. e2.op = "JIF" /\ i.label1 \in ComesTo(g, e2.label1) /\ i.label2 \in ComesTo(g, e2.label2)
    BY <1>4, <1>9
  <2> HIDE DEF t, e2
  <2>2. t.node = [s.node EXCEPT ![id] = e2]
    BY <1>3, <1>9
  <2>3. MadeOf(g, i, e2)
    BY <2>1, <1>9 DEF MadeOf
  <2> QED BY <2>2, <2>3, <1>5 DEF t
<1> QED BY <1>6, <1>7, <1>8, <1>9

(* ... so does the loop over the window, ... *)
LEMMA RedirectAllStraight ==
  ASSUME Numbered(source), JumpFree(source), NEW s, Kept(s), Straight(s.node),
         NEW op \in {"JMP", "JIF"}
  PROVE  Straight(RedirectAll(s, op).node)
<1> DEFINE X == {x \in Versions(s) : Straight(x.node)}
<1>1. IsVector(s.window) /\ ToSet(s.window) \subseteq DOMAIN s.node
  BY DEF Kept
<1>2. ASSUME NEW n \in 1 .. Len(s.window), NEW x \in X, s.node[s.window[n]].op = op
      PROVE  Redirect(x, s.window[n]) \in X
  <2> DEFINE id == s.window[n]
  <2>1. id \in DOMAIN s.node
    BY <1>1, VectorShape DEF ToSet
  <2>2. DOMAIN x.node = DOMAIN s.node /\ x.node[id].op \in {"JMP", "JIF"}
    <3>1. x.node[id] \in Variants(s.node[id], AllLabels(s.node)) /\ DOMAIN x.node = DOMAIN s.node
      BY <2>1, VersionShape
    <3>2. x.node[id].op = s.node[id].op
      BY <3>1, VariantShape
    <3> QED BY <3>1, <3>2, <1>2
  <2>3. Kept(x)
    BY VersionKept
  <2>4. Redirect(x, id) \in Versions(s)
    BY <2>1, <1>2, RedirectStays
  <2> HIDE DEF id
  <2>5. Straight(Redirect(x, id).node)
    BY <2>1, <2>2, <2>3, RedirectStraight
  <2> QED BY <2>4, <2>5 DEF id
<1>3. s \in X
  BY OwnVersion
<1> HIDE DEF X
<1>4. RedirectAll(s, op) \in X
  BY <1>1, <1>2, <1>3, RedirectAllIn
<1> QED BY <1>4 DEF X

(* ... and a visit as a whole. *)
LEMMA PassStraight ==
  ASSUME Numbered(source), JumpFree(source), NEW s, Kept(s), Current(s), s.removed = FALSE,
         Straight(s.node)
  PROVE  Straight(pass(s).node)
<1> DEFINE z == jmpJmpPass(loadStorePass(s))
           a == jifSamePass(z)
           b == storeJifPass(a, Len(s.window))
           c == RedirectAll(b, "JMP")
<1>1. Kept(z) /\ Straight(z.node)
  BY StoresAndJumpsKeep, ErasedStraight
<1> HIDE DEF z
<1>2. Kept(a) /\ Straight(a.node)
  BY <1>1, JifSameKeeps, MergedStraight
<1> HIDE DEF a
<1>3. Kept(b) /\ Straight(b.node)
  <2>1. Len(s.window) \in Nat
    BY VectorShape DEF Kept
  <2>2. Kept(b) /\ OneErased(a.node, b.node)
    BY <2>1, <1>2, StoreJifKeeps
  <2> QED BY <2>2, <1>2, ErasedStraight
<1> HIDE DEF b
<1>4. Kept(c) /\ Straight(c.node)
  <2>1. c \in Versions(b)
    BY <1>3, RedirectAllStays
  <2>2. Kept(c)
    BY <2>1, <1>3, VersionKept
  <2> QED BY <2>2, <1>3, RedirectAllStraight
<1> HIDE DEF c
<1>5. Straight(RedirectAll(c, "JIF").node)
  BY <1>4, RedirectAllStraight
<1> QED BY <1>5 DEF pass, jmpToJmpPass, jifPass, z, a, b, c

(* The generator makes no jumps for the globals, ... *)
LEMMA GlobalJumps ==
  ASSUME NEW ir, WellFormedIR(ir), NEW j \in 1 .. Len(genInsts(ir.globals))
  PROVE  genInsts(ir.globals)[j].op \notin {"JMP", "JIF"}
<1>1. InstsOK(ir.globals) /\ \A n \in DOMAIN ir.globals : GlobalOK(ir.globals[n])
  BY Globals DEF WellFormedIR
<1>2. PICK n, l : /\ From(ir.globals, j, n, l)
                  /\ GoodCode(ir.globals[n], genInst(ir.globals[n]))
                  /\ genInsts(ir.globals)[j] = genInst(ir.globals[n])[l]
  BY <1>1, GenOps
<1>3. l \in 1 .. Len(genInst(ir.globals[n])) /\ n \in DOMAIN ir.globals
  BY <1>1, <1>2, GensNested DEF From
<1>4. ir.globals[n].tag = "ASSIGN"
  BY <1>1, <1>3 DEF GlobalOK
<1> QED BY <1>2, <1>3, <1>4 DEF GoodCode

(* ... whose code is the first block. *)
LEMMA GeneratedJumpFree ==
  ASSUME NEW ir, WellFormedIR(ir), NEW g, g = Generated(ir)
  PROVE  JumpFree(g)
<1> DEFINE B == ir2VmInst(ir)
           S == Starts(ir)
           N == Len(B)
           new(k) == [j \in DOMAIN B[k].insts |-> S[k - 1] + j]
           flat == FlattenSeq(Code(B))
           f == genInsts(ir.globals)
<1>1. g.blocks = [k \in DOMAIN B |-> [name |-> B[k].name, insts |-> new(k)]] /\ g.node = flat
  BY DEF Generated, Offset, Starts, Code
<1>2. /\ 1 \in 1 .. N /\ DOMAIN B = 1 .. N /\ S[0] = 0
      /\ Nested(Code(B)) /\ Len(Code(B)) = N /\ Code(B)[1] = B[1].insts
      /\ S = Offsets(Code(B))
  <2>1. /\ N \in Nat \ {0, 1} /\ DOMAIN B = 1 .. N /\ S[0] = 0
        /\ Nested(Code(B)) /\ Len(Code(B)) = N /\ \A k \in 1 .. N : Code(B)[k] = B[k].insts
        /\ S = Offsets(Code(B))
    BY StartsShape DEF Started, Starts
  <2>2. 1 \in 1 .. N
    BY <2>1
  <2> QED BY <2>1, <2>2
<1>3. B[1].insts = f
  BY BlockCoding DEF Coding
<1>4. IsVector(f) /\ DOMAIN f = 1 .. Len(f) /\ Len(f) \in Nat
  <2>1. IsVector(f)
    BY <1>2, <1>3, BlockVectors
  <2> QED BY <2>1, VectorShape
<1> HIDE DEF B, N, S, flat, f
<1>5. \A j \in 1 .. Len(f) : flat[0 + j] = f[j]
  <2>1. 1 \in 1 .. Len(Code(B)) /\ Code(B)[1] = f /\ Offsets(Code(B))[1 - 1] = 0
    BY <1>2, <1>3
  <2>2. \A j \in 1 .. Len(Code(B)[1]) : flat[Offsets(Code(B))[1 - 1] + j] = Code(B)[1][j]
    BY <1>2, <2>1, FlattenPlaces DEF flat
  <2> QED BY <2>1, <2>2
<1>6. new(1) = [j \in 1 .. Len(f) |-> S[1 - 1] + j]
  BY <1>3, <1>4
<1>7. g.blocks[1].insts = new(1)
  BY <1>1, <1>2
<1> HIDE DEF new
<1>8. ASSUME NEW id \in ToSet(g.blocks[1].insts)
      PROVE  g.node[id].op \notin {"JMP", "JIF"}
  <2>1. PICK j \in 1 .. Len(f) : id = S[1 - 1] + j
    BY <1>6, <1>7 DEF ToSet
  <2>2. id = 0 + j
    BY <2>1, <1>2
  <2>3. g.node[id] = f[j]
    BY <2>2, <1>1, <1>5
  <2> QED BY <2>3, GlobalJumps DEF f
<1> QED BY <1>8 DEF JumpFree

-----------------------------------------------------------------------------
(* Jumps *)

(* Between two visits the jumps are straight. *)
JInv == IInv /\ JumpFree(source) /\ Straight(node)

(* So they are at first: each leads to its own label. *)
LEMMA InitStraight == Init => JInv
<1> SUFFICES ASSUME Init PROVE JInv
  OBVIOUS
<1>1. PICK ir \in IRs : source = Generated(ir)
  BY DEF Init
<1>2. JumpFree(source)
  BY <1>1, ProgramsWellFormed, GeneratedJumpFree
<1>3. IInv
  BY InitHolds
<1>4. node = source.node
  BY DEF Init
<1>5. Straight(node)
  <2>1. \A l : l \in ComesTo(Gone(node), l)
    BY <1>3, ComesToClosed DEF IInv
  <2> QED BY <1>4, <2>1 DEF Straight, Labels
<1> QED BY <1>2, <1>3, <1>5 DEF JInv

(* A visit leaves them so, ... *)
LEMMA VisitStraight ==
  ASSUME JInv, Visit
  PROVE  Straight(node')
<1> DEFINE id == blocks[block].insts[at]
           w == Append(window, id)
           s == [blocks |-> blocks, node |-> node, window |-> w, at |-> at, removed |-> FALSE,
                 crashed |-> FALSE]
<1>1. IInv /\ Numbered(source) /\ JumpFree(source) /\ Straight(node)
  BY DEF JInv, IInv
<1>2. Kept(s) /\ Current(s)
  BY <1>1, VisitedKept
<1>3. s.removed = FALSE /\ s.node = node
  OBVIOUS
<1>4. node' = pass(s).node
  BY DEF Visit, Here
<1> HIDE DEF s
<1> QED BY <1>1, <1>2, <1>3, <1>4, PassStraight

(* ... and nothing else touches the instructions. *)
LEMMA StepStraight ==
  ASSUME JInv, [Next]_vars
  PROVE  JInv'
<1>1. IInv'
  BY StepKeeps DEF JInv
<1>2. source' = source
  BY DEF Next, vars, Skip, Visit, NextBlock, NextRound, Finish, Terminated
<1>3. Straight(node')
  <2>1. CASE Visit
    BY <2>1, VisitStraight
  <2>2. CASE ~Visit
    <3>1. node' = node
      BY <2>2 DEF Next, vars, Skip, NextBlock, NextRound, Finish, Terminated
    <3> QED BY <3>1 DEF JInv
  <2> QED BY <2>1, <2>2
<1>4. JumpFree(source)'
  BY <1>2 DEF JInv, JumpFree
<1>5. Straight(node)'
  <2>1. ASSUME NEW gone, NEW k
        PROVE  Ways(gone, k)' = Ways(gone, k)
    BY <1>2 DEF Ways
  <2>2. ASSUME NEW gone, NEW labels
        PROVE  LeftFor(gone, labels)' = LeftFor(gone, labels)
    BY <1>2, <2>1 DEF LeftFor
  <2>3. ASSUME NEW gone, NEW l
        PROVE  ComesWithin(gone, l)' = ComesWithin(gone, l)
    BY <1>2, <2>2 DEF ComesWithin
  <2>4. ASSUME NEW gone, NEW l
        PROVE  ComesTo(gone, l)' = ComesTo(gone, l)
    BY <1>2, <2>3 DEF ComesTo
  <2> QED BY <1>2, <1>3, <2>4 DEF Straight
<1> QED BY <1>1, <1>4, <1>5 DEF JInv

(* However often the jumps are redirected, in whatever order and while     *)
(* the blocks they are led through change, a jump goes where the original  *)
(* one goes in the end: checkTarget, jmpToJmpPass, jifPass and jifSamePass *)
(* of peephole_optimization.cpp.                                           *)
THEOREM JumpsStayStraight == Spec => []JumpsLead
<1>1. JInv /\ [Next]_vars => JInv'
  BY StepStraight
<1>2. JInv => JumpsLead
  BY DEF JInv, Straight, JumpsLead, Erased, Gone
<1> QED BY <1>1, <1>2, InitStraight, PTL DEF Spec
=============================================================================
