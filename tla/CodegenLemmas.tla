--------------------------- MODULE CodegenLemmas ----------------------------
(***************************************************************************)
(* What the bytecode generator emits: for each IR instruction a vector of  *)
(* VM instructions with the few properties that relocation and execution   *)
(* rely on, and for the program one block per function header and basic    *)
(* block, in an order that gives every block its place.  Then relocation:  *)
(* where the blocks of a program start, what the linked code holds at each *)
(* address, and that a well-formed IR program gives a linked program as    *)
(* the virtual machine relies on it (LinkWell).                            *)
(*                                                                         *)
(* The argument for LinkWell has two halves.  Whatever the generator, a    *)
(* program whose functions lie one behind the other (Arranged), whose      *)
(* control stays in their bodies (Flowing) and whose entry points are two  *)
(* of their addresses (Entered) is well linked.  And relocation gives such *)
(* a program: every address is a place in one block (Whereabouts), so what *)
(* was proved of the block's instructions holds at the address.            *)
(***************************************************************************)
EXTENDS Layout, LinkedProgram, VectorLemmas

-----------------------------------------------------------------------------
(* Numbers *)

(* A set of numbers has a least one. *)
LEMMA Least ==
  ASSUME NEW S, S \subseteq Nat, S # {}
  PROVE  Min(S) \in S /\ \A y \in S : Min(S) <= y
<1>1. PICK x \in S : \A y \in S : ~ (<<y, x>> \in Before)
  BY BeforeWellFounded, WFMin
<1>2. ASSUME NEW y \in S PROVE x <= y
  <2>1. x \in Nat /\ y \in Nat /\ <<y, x>> \notin Before
    BY <1>1
  <2>2. y < x => <<y, x>> \in Before
    BY <2>1 DEF Before
  <2> QED BY <2>1, <2>2
<1> QED BY <1>2 DEF Min

-----------------------------------------------------------------------------
(* Short vectors *)

(* The empty vector. *)
LEMMA Empty == IsVector(<< >>) /\ Len(<< >>) = 0
BY DEF IsVector

(* A vector of one element. *)
LEMMA Single ==
  ASSUME NEW x
  PROVE  IsVector(<<x>>) /\ Len(<<x>>) = 1 /\ <<x>>[1] = x
BY DEF IsVector

(* A vector of two elements. *)
LEMMA Pair ==
  ASSUME NEW x, NEW y
  PROVE  IsVector(<<x, y>>) /\ Len(<<x, y>>) = 2 /\ <<x, y>>[1] = x /\ <<x, y>>[2] = y
BY DEF IsVector

(* A vector with one element put behind it keeps its elements. *)
LEMMA OneMore ==
  ASSUME NEW s, NEW t, IsVector(s), IsVector(t)
  PROVE  Len(t) = 1 =>
           /\ IsVector(s \o t) /\ Len(s) \in Nat /\ Len(s \o t) = Len(s) + 1
           /\ \A k \in 1 .. Len(s) : (s \o t)[k] = s[k]
           /\ (s \o t)[Len(s) + 1] = t[1]
<1>1. Len(s) \in Nat
  BY VectorShape
<1>2. /\ IsVector(s \o t) /\ Len(s \o t) = Len(s) + Len(t)
      /\ \A k \in 1 .. Len(s) : (s \o t)[k] = s[k]
      /\ \A k \in 1 .. Len(t) : (s \o t)[Len(s) + k] = t[k]
  BY VectorConcat
<1> HAVE Len(t) = 1
<1> DEFINE u == s \o t
<1>3. /\ IsVector(u) /\ Len(u) = Len(s) + Len(t)
      /\ \A k \in 1 .. Len(s) : u[k] = s[k]
      /\ \A k \in 1 .. Len(t) : u[Len(s) + k] = t[k]
  BY <1>2
<1> HIDE DEF u
<1>4. /\ IsVector(u) /\ Len(u) = Len(s) + 1
      /\ \A k \in 1 .. Len(s) : u[k] = s[k]
      /\ u[Len(s) + 1] = t[1]
  BY <1>1, <1>3
<1> QED BY <1>1, <1>4 DEF u

-----------------------------------------------------------------------------
(* What an IR instruction generates *)

(* Opcodes that neither transfer control nor belong to a call. *)
PlainOps == Selected \cup {"LOADX", "STOREX", "LOADI", "LOADS", "LOADA", "LOADXA", "BNOT",
                           "STOREA", "STOREI", "STORES"}
IsPlain(s) == IsVector(s) /\ \A l \in 1 .. Len(s) : s[l].op \in PlainOps

(* Code without transfers and calls stays so when it is concatenated, ... *)
LEMMA PlainConcat ==
  ASSUME NEW s, NEW t, IsPlain(s), IsPlain(t)
  PROVE  IsPlain(s \o t) /\ Len(s \o t) = Len(s) + Len(t)
<1>1. /\ IsVector(s \o t) /\ Len(s \o t) = Len(s) + Len(t)
      /\ \A k \in 1 .. Len(s) : (s \o t)[k] = s[k]
      /\ \A k \in 1 .. Len(t) : (s \o t)[Len(s) + k] = t[k]
  BY VectorConcat DEF IsPlain
<1>2. Len(s) \in Nat /\ Len(t) \in Nat
  BY VectorShape DEF IsPlain
<1>3. ASSUME NEW l \in 1 .. Len(s \o t)
      PROVE  (s \o t)[l].op \in PlainOps
  <2>1. CASE l <= Len(s)
    BY <2>1, <1>1, <1>2 DEF IsPlain
  <2>2. CASE ~ (l <= Len(s))
    <3>1. l - Len(s) \in 1 .. Len(t) /\ l = Len(s) + (l - Len(s))
      BY <2>2, <1>1, <1>2
    <3>2. (s \o t)[l] = t[l - Len(s)]
      BY <3>1, <1>1
    <3> QED BY <3>1, <3>2 DEF IsPlain
  <2> QED BY <2>1, <2>2
<1> QED BY <1>1, <1>3 DEF IsPlain

(* ... so does an instruction on its own, ... *)
LEMMA PlainSingle ==
  ASSUME NEW x, x.op \in PlainOps
  PROVE  IsPlain(<<x>>) /\ Len(<<x>>) = 1
BY Single DEF IsPlain

(* ... no code at all, ... *)
LEMMA PlainEmpty == IsPlain(<< >>)
BY Empty DEF IsPlain

(* ... and code put together from any number of pieces. *)
LEMMA PlainFlatten ==
  ASSUME NEW ss, Nested(ss), \A k \in 1 .. Len(ss) : IsPlain(ss[k])
  PROVE  IsPlain(FlattenSeq(ss))
<1>1. IsVector(FlattenSeq(ss))
  BY FlattenPlaces
<1>2. ASSUME NEW i \in 1 .. Len(FlattenSeq(ss))
      PROVE  FlattenSeq(ss)[i].op \in PlainOps
  <2>1. PICK k \in 1 .. Len(ss) : \E j \in 1 .. Len(ss[k]) :
          i = Offsets(ss)[k - 1] + j /\ FlattenSeq(ss)[i] = ss[k][j]
    BY FlattenFrom
  <2> QED BY <2>1 DEF IsPlain
<1> QED BY <1>1, <1>2 DEF IsPlain

(* Loading an operand neither transfers control nor calls. *)
LEMMA PlainOperand ==
  ASSUME NEW r, NEW x
  PROVE  IsPlain(genOperand(r, x))
<1>1. genLoadX(r, x).op \in PlainOps
  BY DEF genLoadX, PlainOps
<1>2. IsPlain(genLoadConst(r, x.const))
  <2> DEFINE c == x.const
  <2>1. [op |-> "LOADI", reg |-> r, val |-> c].op \in PlainOps
        /\ [op |-> "LOADS", reg |-> r, val |-> c].op \in PlainOps
    BY DEF PlainOps
  <2>2. IsPlain(<<[op |-> "LOADI", reg |-> r, val |-> c]>>)
        /\ IsPlain(<<[op |-> "LOADS", reg |-> r, val |-> c]>>)
    BY <2>1, PlainSingle
  <2> HIDE DEF c
  <2> QED BY <2>2, PlainEmpty DEF genLoadConst, c
<1> QED BY <1>1, <1>2, PlainSingle, PlainEmpty DEF genOperand

(* Nor does an operation, whatever its operands are. *)
LEMMA PlainBinary ==
  ASSUME NEW b
  PROVE  IsPlain(genBinary(b))
<1> DEFINE operation == IF b.binary \in Selected
                          THEN <<[op |-> b.binary, r1 |-> 1, r2 |-> 2]>> ELSE << >>
           negation == <<genLoadX(1, b.rhs),
                         [op |-> "BNOT", reg |-> 1, type |-> "MAP", name |-> b.rhs.var]>>
<1>1. IsPlain(operation)
  <2>1. b.binary \in Selected => [op |-> b.binary, r1 |-> 1, r2 |-> 2].op \in PlainOps
    BY DEF PlainOps
  <2> QED BY <2>1, PlainSingle, PlainEmpty
<1>2. IsPlain(negation)
  <2>1. genLoadX(1, b.rhs).op \in PlainOps
    BY DEF genLoadX, PlainOps
  <2>2. [op |-> "BNOT", reg |-> 1, type |-> "MAP", name |-> b.rhs.var].op \in PlainOps
    BY DEF PlainOps
  <2> QED BY <2>1, <2>2, Pair DEF IsPlain
<1>3. IsPlain(genOperand(1, b.lhs) \o genOperand(2, b.rhs) \o operation)
  <2> HIDE DEF operation
  <2> QED BY <1>1, PlainOperand, PlainConcat
<1>4. genBinary(b) \in {negation, operation, genOperand(1, b.lhs) \o genOperand(2, b.rhs) \o operation}
  BY DEF genBinary
<1> HIDE DEF operation, negation
<1> QED BY <1>1, <1>2, <1>3, <1>4

(* Nor does an array literal. *)
LEMMA PlainArray ==
  ASSUME NEW elems, IsVector(elems)
  PROVE  IsPlain(genArray(elems))
<1> DEFINE fill == [k \in DOMAIN elems |->
                      IF IsVar(elems[k])
                        THEN <<[op |-> "LOADXA", reg |-> 2, name |-> elems[k].var,
                                index |-> k - 1]>>
                        ELSE << >>]
           literal == [k \in DOMAIN elems |->
                         IF IsVar(elems[k]) THEN None ELSE elems[k].const]
<1>1. ASSUME NEW k \in DOMAIN elems
      PROVE  IsPlain(fill[k])
  <2>1. [op |-> "LOADXA", reg |-> 2, name |-> elems[k].var, index |-> k - 1].op \in PlainOps
    BY DEF PlainOps
  <2>2. IsPlain(<<[op |-> "LOADXA", reg |-> 2, name |-> elems[k].var, index |-> k - 1]>>)
    BY <2>1, PlainSingle
  <2> QED BY <2>2, PlainEmpty
<1>2. IsVector(fill) /\ Len(fill) = Len(elems)
  <2>1. Len(elems) \in Nat /\ DOMAIN elems = 1 .. Len(elems)
    BY VectorShape
  <2>2. fill = [k \in 1 .. Len(elems) |-> fill[k]]
    BY <2>1
  <2> HIDE DEF fill
  <2> QED BY <2>1, <2>2, Vector
<1>3. Nested(fill)
  <2>1. DOMAIN elems = 1 .. Len(fill)
    BY <1>2, VectorShape
  <2> HIDE DEF fill
  <2> QED BY <1>1, <1>2, <2>1 DEF Nested, IsPlain
<1>4. IsPlain(FlattenSeq(fill))
  <2>1. \A k \in 1 .. Len(fill) : IsPlain(fill[k])
    BY <1>1, <1>2, VectorShape
  <2> HIDE DEF fill
  <2> QED BY <2>1, <1>3, PlainFlatten
<1>5. [op |-> "LOADA", reg |-> 2, val |-> Arr(literal)].op \in PlainOps
  BY DEF PlainOps
<1>6. genArray(elems) = <<[op |-> "LOADA", reg |-> 2, val |-> Arr(literal)]>> \o FlattenSeq(fill)
  BY DEF genArray
<1> HIDE DEF fill, literal
<1> QED BY <1>4, <1>5, <1>6, PlainSingle, PlainConcat

(* A call is its CALL and one ARG per argument. *)
LEMMA GenCall ==
  ASSUME NEW c, IsVector(c.args)
  PROVE  /\ IsVector(genCall(c)) /\ Len(genCall(c)) = Len(c.args) + 1
         /\ genCall(c)[1] = [op |-> "CALL", name |-> c.call, target |-> -1]
         /\ \A l \in 2 .. Len(c.args) + 1 : genCall(c)[l].op = "ARG"
<1> DEFINE call == [op |-> "CALL", name |-> c.call, target |-> -1]
           args == [k \in DOMAIN c.args |-> genArg(c.args[k])]
<1>1. Len(c.args) \in Nat /\ DOMAIN c.args = 1 .. Len(c.args)
  BY VectorShape
<1>2. IsVector(args) /\ Len(args) = Len(c.args)
  <2>1. args = [k \in 1 .. Len(c.args) |-> args[k]]
    BY <1>1
  <2> HIDE DEF args
  <2> QED BY <2>1, <1>1, Vector
<1>3. \A k \in 1 .. Len(c.args) : args[k].op = "ARG"
  BY <1>1 DEF genArg
<1>4. genCall(c) = <<call>> \o args
  BY DEF genCall
<1> HIDE DEF call, args
<1>5. IsVector(<<call>>) /\ Len(<<call>>) = 1 /\ <<call>>[1] = call
  BY Single
<1>6. /\ IsVector(<<call>> \o args) /\ Len(<<call>> \o args) = Len(<<call>>) + Len(args)
      /\ \A k \in 1 .. Len(<<call>>) : (<<call>> \o args)[k] = <<call>>[k]
      /\ \A k \in 1 .. Len(args) : (<<call>> \o args)[Len(<<call>>) + k] = args[k]
  BY <1>2, <1>5, VectorConcat
<1>7. ASSUME NEW l \in 2 .. Len(c.args) + 1
      PROVE  genCall(c)[l].op = "ARG"
  <2>1. l - 1 \in 1 .. Len(args) /\ l = 1 + (l - 1)
    BY <1>1, <1>2
  <2> QED BY <2>1, <1>2, <1>3, <1>4, <1>5, <1>6
<1>8. genCall(c)[1] = call /\ Len(genCall(c)) = Len(c.args) + 1 /\ IsVector(genCall(c))
  BY <1>1, <1>2, <1>4, <1>5, <1>6
<1> QED BY <1>7, <1>8 DEF call

(* The instructions that leave their block. *)
Leaving == {"RETURN", "JMP", "BRANCH"}

(* What relocation and execution rely on in the code of IR instruction i. *)
GoodCode(i, s) ==
  /\ IsVector(s) /\ Len(s) \in Nat \ {0}
  /\ \A l \in 1 .. Len(s) :
       /\ s[l].op \notin {"FUNC", "PARAM", "NULL"}
       /\ s[l].op \in Transfers => i.tag \in Leaving
       /\ s[l].op = "JMP" => i.tag = "JMP" /\ s[l] = [op |-> "JMP", label |-> i.to]
       /\ s[l].op = "JIF" => /\ i.tag = "BRANCH"
                             /\ s[l] = [op |-> "JIF", label1 |-> i.yes, label2 |-> i.no]
       /\ s[l].op = "CALL" =>
            /\ l = 1 /\ HasCall(i) /\ Len(Called(i).args) \in Nat /\ Len(Called(i).args) < Len(s)
            /\ s[1] = [op |-> "CALL", name |-> Called(i).call, target |-> -1]
            /\ \A m \in 2 .. Len(Called(i).args) + 1 : s[m].op = "ARG"
  /\ i.tag \in Leaving => s[Len(s)].op \in Transfers

(* What a plain opcode is not. *)
LEMMA PlainIsNeither ==
  ASSUME NEW op \in PlainOps
  PROVE  op \notin {"FUNC", "PARAM", "NULL", "CALL", "ARG"} \cup Transfers
BY DEF PlainOps, Selected, Transfers

(* Plain code is good code for an instruction that stays in its block. *)
LEMMA PlainGenerated ==
  ASSUME NEW i, NEW s, IsPlain(s), Len(s) \in Nat \ {0}, i.tag \notin Leaving
  PROVE  GoodCode(i, s)
<1>1. \A l \in 1 .. Len(s) : s[l].op \notin {"FUNC", "PARAM", "NULL", "CALL", "ARG"} \cup Transfers
  BY PlainIsNeither DEF IsPlain
<1>2. {"JMP", "JIF"} \subseteq Transfers
  BY DEF Transfers
<1> QED BY <1>1, <1>2 DEF GoodCode, IsPlain

(* A store is plain. *)
LEMMA StorePlain ==
  ASSUME NEW v, NEW r
  PROVE  IsPlain(<<genStoreX(v, r)>>) /\ Len(<<genStoreX(v, r)>>) = 1
<1>1. genStoreX(v, r).op \in PlainOps
  BY DEF genStoreX, PlainOps
<1> QED BY <1>1, PlainSingle

(* Plain code has a length. *)
LEMMA PlainLength ==
  ASSUME NEW s, IsPlain(s)
  PROVE  Len(s) \in Nat
BY VectorShape DEF IsPlain

(* The code of an assignment, by the kind of its source. *)
LEMMA GeneratedAssign ==
  ASSUME NEW i, i.tag = "ASSIGN", SourceOK(i.src)
  PROVE  GoodCode(i, genAssign(i))
<1> DEFINE src == i.src
           kind == DOMAIN src
<1>0. i.tag \notin Leaving
  BY DEF Leaving
<1>1. CASE "binary" \in kind
  <2> DEFINE store == <<genStoreX(i.dest, IF src.binary \in ToState THEN 0 ELSE 1)>>
  <2>1. genAssign(i) = genBinary(src) \o store
    BY <1>1 DEF genAssign
  <2>2. IsPlain(store) /\ Len(store) = 1 /\ IsPlain(genBinary(src))
    BY StorePlain, PlainBinary
  <2> HIDE DEF store
  <2>3. IsPlain(genAssign(i)) /\ Len(genAssign(i)) = Len(genBinary(src)) + 1
    BY <2>1, <2>2, PlainConcat
  <2>4. Len(genBinary(src)) \in Nat
    BY <2>2, PlainLength
  <2> QED BY <2>3, <2>4, <1>0, PlainGenerated
<1>2. CASE "binary" \notin kind /\ IsConst(src)
  <2> DEFINE x == genStoreConst(i.dest, src.const)
  <2>1. genAssign(i) = <<x>>
    BY <1>2 DEF genAssign
  <2>2. x.op \in PlainOps
    BY DEF genStoreConst, PlainOps
  <2> HIDE DEF x
  <2> QED BY <2>1, <2>2, <1>0, PlainSingle, PlainGenerated
<1>3. CASE "binary" \notin kind /\ ~IsConst(src) /\ IsVar(src)
  <2>1. genAssign(i) = <<genLoadX(1, src), genStoreX(i.dest, 1)>>
    BY <1>3 DEF genAssign
  <2>2. genLoadX(1, src).op \in PlainOps /\ genStoreX(i.dest, 1).op \in PlainOps
    BY DEF genLoadX, genStoreX, PlainOps
  <2>3. IsPlain(genAssign(i)) /\ Len(genAssign(i)) = 2
    BY <2>1, <2>2, Pair DEF IsPlain
  <2> QED BY <2>3, <1>0, PlainGenerated
<1>4. CASE "binary" \notin kind /\ ~IsConst(src) /\ ~IsVar(src) /\ "array" \in kind
  <2>1. genAssign(i) = genArray(src.array) \o <<genStoreX(i.dest, 2)>>
    BY <1>4 DEF genAssign
  <2>2. IsPlain(genArray(src.array))
    BY <1>4, PlainArray DEF SourceOK
  <2>3. IsPlain(genAssign(i)) /\ Len(genAssign(i)) = Len(genArray(src.array)) + 1
    BY <2>1, <2>2, StorePlain, PlainConcat
  <2>4. Len(genArray(src.array)) \in Nat
    BY <2>2, PlainLength
  <2> QED BY <2>3, <2>4, <1>0, PlainGenerated
<1>5. CASE "binary" \notin kind /\ ~IsConst(src) /\ ~IsVar(src) /\ "array" \notin kind
  <2> DEFINE s == genCall(src)
             t == <<genStoreX(i.dest, 1)>>
  <2>1. genAssign(i) = s \o t
    BY <1>5 DEF genAssign
  <2>2. IsCall(src) /\ IsVector(src.args)
    BY <1>5 DEF SourceOK, Kinds, IsConst, IsVar, IsCall
  <2>3. Called(i) = src /\ HasCall(i)
    BY <2>2 DEF Called, HasCall
  <2>4. /\ IsVector(s) /\ Len(s) = Len(src.args) + 1
        /\ s[1] = [op |-> "CALL", name |-> src.call, target |-> -1]
        /\ \A l \in 2 .. Len(src.args) + 1 : s[l].op = "ARG"
    BY <2>2, GenCall
  <2>5. IsPlain(t) /\ Len(t) = 1
    BY StorePlain
  <2>6. Len(src.args) \in Nat
    BY <2>2, VectorShape
  <2>7. t[1].op \in PlainOps /\ IsVector(t)
    BY <2>5 DEF IsPlain
  <2> HIDE DEF s, t
  <2>8. /\ IsVector(s \o t) /\ Len(s \o t) = Len(src.args) + 2
        /\ \A k \in 1 .. Len(src.args) + 1 : (s \o t)[k] = s[k]
        /\ (s \o t)[Len(src.args) + 2] = t[1]
    <3>1. /\ IsVector(s \o t) /\ Len(s) \in Nat /\ Len(s \o t) = Len(s) + 1
          /\ \A k \in 1 .. Len(s) : (s \o t)[k] = s[k]
          /\ (s \o t)[Len(s) + 1] = t[1]
      BY <2>4, <2>5, <2>7, OneMore
    <3> DEFINE u == s \o t
    <3> HIDE DEF u
    <3>2. (Len(src.args) + 1) + 1 = Len(src.args) + 2
      BY <2>6
    <3> QED BY <3>1, <3>2, <2>4
  <2> DEFINE g == genAssign(i)
             n == Len(src.args)
  <2>9. /\ IsVector(g) /\ Len(g) = n + 2 /\ n \in Nat
        /\ g[1] = [op |-> "CALL", name |-> src.call, target |-> -1]
        /\ \A l \in 2 .. n + 1 : g[l].op = "ARG"
        /\ g[n + 2].op \in PlainOps
    BY <2>1, <2>4, <2>6, <2>7, <2>8
  <2>10. g[n + 2].op \notin {"FUNC", "PARAM", "NULL", "CALL", "ARG"} \cup Transfers
    BY <2>9, PlainIsNeither
  <2>11. \A l \in 1 .. n + 2 : l = 1 \/ l \in 2 .. n + 1 \/ l = n + 2
    BY <2>9
  <2>12. g[1].op = "CALL"
    BY <2>9
  <2> HIDE DEF g, n
  <2>13. \A l \in 1 .. n + 2 : /\ g[l].op \notin {"FUNC", "PARAM", "NULL"} \cup Transfers
                               /\ g[l].op = "CALL" => l = 1
    BY <2>9, <2>10, <2>11, <2>12 DEF Transfers
  <2>14. {"JMP", "JIF"} \subseteq Transfers
    BY DEF Transfers
  <2>15. ASSUME NEW l \in 1 .. Len(g), g[l].op = "CALL"
         PROVE  /\ l = 1 /\ HasCall(i) /\ Len(Called(i).args) \in Nat /\ Len(Called(i).args) < Len(g)
                /\ g[1] = [op |-> "CALL", name |-> Called(i).call, target |-> -1]
                /\ \A m \in 2 .. Len(Called(i).args) + 1 : g[m].op = "ARG"
    BY <2>15, <2>3, <2>9, <2>13 DEF n
  <2>16. GoodCode(i, g)
    BY <1>0, <2>9, <2>13, <2>14, <2>15 DEF GoodCode
  <2> QED BY <2>16 DEF g
<1> QED BY <1>1, <1>2, <1>3, <1>4, <1>5

(* The code of a call without a result. *)
LEMMA GeneratedCall ==
  ASSUME NEW i, i.tag = "CALL", IsVector(i.args)
  PROVE  GoodCode(i, genCall(i))
<1> DEFINE g == genCall(i)
           n == Len(i.args)
<1>1. /\ IsVector(g) /\ Len(g) = n + 1
      /\ g[1] = [op |-> "CALL", name |-> i.call, target |-> -1]
      /\ \A l \in 2 .. n + 1 : g[l].op = "ARG"
  BY GenCall
<1>2. n \in Nat
  BY VectorShape
<1>3. i.tag \notin Leaving /\ Called(i) = i /\ HasCall(i)
  BY DEF Leaving, Called, HasCall
<1>4. g[1].op = "CALL"
  BY <1>1
<1> HIDE DEF g, n
<1>5. \A l \in 1 .. n + 1 : /\ g[l].op \notin {"FUNC", "PARAM", "NULL"} \cup Transfers
                            /\ g[l].op = "CALL" => l = 1
  <2> TAKE l \in 1 .. n + 1
  <2>1. l = 1 \/ l \in 2 .. n + 1
    BY <1>2
  <2> QED BY <2>1, <1>1, <1>4 DEF Transfers
<1>6. {"JMP", "JIF"} \subseteq Transfers
  BY DEF Transfers
<1>7. ASSUME NEW l \in 1 .. Len(g), g[l].op = "CALL"
      PROVE  /\ l = 1 /\ HasCall(i) /\ Len(Called(i).args) \in Nat /\ Len(Called(i).args) < Len(g)
             /\ g[1] = [op |-> "CALL", name |-> Called(i).call, target |-> -1]
             /\ \A m \in 2 .. Len(Called(i).args) + 1 : g[m].op = "ARG"
  BY <1>1, <1>2, <1>3, <1>5, <1>7 DEF n
<1>8. GoodCode(i, g)
  BY <1>1, <1>2, <1>3, <1>5, <1>6, <1>7 DEF GoodCode
<1> QED BY <1>8 DEF g

(* A return ends in RET, with or without a value to load before it. *)
LEMMA GeneratedReturn ==
  ASSUME NEW i, i.tag = "RETURN"
  PROVE  GoodCode(i, genReturn(i))
<1> DEFINE s == genOperand(1, i.ret)
           t == <<[op |-> "RET"]>>
           n == Len(s)
<1>1. IsPlain(s)
  BY PlainOperand
<1>2. n \in Nat
  BY <1>1, PlainLength
<1>3. IsVector(t) /\ Len(t) = 1 /\ t[1].op = "RET"
  BY Single
<1>4. genReturn(i) = s \o t
  BY DEF genReturn
<1> HIDE DEF s, t
<1>5. /\ IsVector(s \o t) /\ Len(s \o t) = n + 1
      /\ \A k \in 1 .. n : (s \o t)[k] = s[k]
      /\ (s \o t)[n + 1] = t[1]
  BY <1>1, <1>2, <1>3, OneMore DEF IsPlain
<1> DEFINE g == genReturn(i)
<1>6. ASSUME NEW l \in 1 .. n + 1
      PROVE  /\ g[l].op \notin {"FUNC", "PARAM", "NULL", "CALL", "JMP", "JIF"}
             /\ l = n + 1 => g[l].op = "RET"
  <2>1. CASE l \in 1 .. n
    <3>1. s[l].op \notin {"FUNC", "PARAM", "NULL", "CALL", "ARG"} \cup Transfers
      BY <2>1, <1>1, PlainIsNeither DEF IsPlain
    <3> QED BY <2>1, <3>1, <1>2, <1>4, <1>5 DEF Transfers
  <2>2. CASE l = n + 1
    BY <2>2, <1>3, <1>4, <1>5
  <2> QED BY <2>1, <2>2, <1>2
<1>7. IsVector(g) /\ Len(g) = n + 1
  BY <1>4, <1>5
<1> HIDE DEF g, n
<1>8. i.tag \in Leaving /\ "RET" \in Transfers
  BY DEF Leaving, Transfers
<1>9. GoodCode(i, g)
  BY <1>2, <1>6, <1>7, <1>8 DEF GoodCode
<1> QED BY <1>9 DEF g

(* A jump is a JMP with the label still in it. *)
LEMMA GeneratedJump ==
  ASSUME NEW i, i.tag = "JMP"
  PROVE  GoodCode(i, genJump(i))
<1> DEFINE x == [op |-> "JMP", label |-> i.to]
<1>1. genJump(i) = <<x>> /\ x.op = "JMP"
  BY DEF genJump
<1>2. i.tag \in Leaving /\ "JMP" \in Transfers
  BY DEF Leaving, Transfers
<1>3. IsVector(<<x>>) /\ Len(<<x>>) = 1 /\ <<x>>[1] = x
  BY Single
<1> QED BY <1>1, <1>2, <1>3 DEF GoodCode

(* A branch ends in a JIF with both labels. *)
LEMMA GeneratedBranch ==
  ASSUME NEW i, i.tag = "BRANCH"
  PROVE  GoodCode(i, genBranch(i))
<1> DEFINE x == [op |-> "LOADX", reg |-> 0, name |-> i.cond.var, idx |-> << >>]
           y == [op |-> "JIF", label1 |-> i.yes, label2 |-> i.no]
<1>1. genBranch(i) = <<x, y>> /\ x.op = "LOADX" /\ y.op = "JIF"
  BY DEF genBranch
<1>2. i.tag \in Leaving /\ "JIF" \in Transfers /\ "LOADX" \notin Transfers
  BY DEF Leaving, Transfers
<1>3. IsVector(<<x, y>>) /\ Len(<<x, y>>) = 2 /\ <<x, y>>[1] = x /\ <<x, y>>[2] = y
  BY Pair
<1> HIDE DEF x
<1> QED BY <1>1, <1>2, <1>3 DEF GoodCode

(* Every IR instruction generates code as relocation relies on it. *)
LEMMA GenInst ==
  ASSUME NEW i, InstOK(i)
  PROVE  GoodCode(i, genInst(i))
<1>1. CASE i.tag = "ASSIGN" /\ SourceOK(i.src)
  BY <1>1, GeneratedAssign DEF genInst
<1>2. CASE i.tag = "CALL" /\ IsVector(i.args)
  BY <1>2, GeneratedCall DEF genInst
<1>3. CASE i.tag = "RETURN"
  BY <1>3, GeneratedReturn DEF genInst
<1>4. CASE i.tag = "JMP"
  BY <1>4, GeneratedJump DEF genInst
<1>5. CASE i.tag = "BRANCH"
  BY <1>5, GeneratedBranch DEF genInst
<1> QED BY <1>1, <1>2, <1>3, <1>4, <1>5 DEF InstOK

-----------------------------------------------------------------------------
(* Where the blocks are *)

(* A vector with one element put in front of it. *)
LEMMA Behind ==
  ASSUME NEW x, NEW s, NEW n \in Nat, s = [k \in 1 .. n |-> s[k]]
  PROVE  /\ IsVector(<<x>> \o s) /\ Len(<<x>> \o s) = n + 1
         /\ (<<x>> \o s)[1] = x
         /\ \A k \in 1 .. n : (<<x>> \o s)[k + 1] = s[k]
<1>1. IsVector(<<x>>) /\ Len(<<x>>) = 1 /\ <<x>>[1] = x
  BY Single
<1>2. IsVector(s) /\ Len(s) = n
  BY Vector
<1> DEFINE h == <<x>>
           t == h \o s
<1>3. IsVector(h) /\ Len(h) = 1 /\ h[1] = x
  BY <1>1
<1> HIDE DEF h
<1>4. /\ IsVector(h \o s) /\ Len(h \o s) = Len(h) + Len(s)
      /\ \A k \in 1 .. Len(h) : (h \o s)[k] = h[k]
      /\ \A k \in 1 .. Len(s) : (h \o s)[Len(h) + k] = s[k]
  <2>1. IsVector(h) /\ IsVector(s)
    BY <1>2, <1>3
  <2> QED BY <2>1, VectorConcat
<1>5. /\ IsVector(t) /\ Len(t) = n + 1 /\ t[1] = x
      /\ \A k \in 1 .. n : t[1 + k] = s[k]
  BY <1>2, <1>3, <1>4
<1> HIDE DEF t
<1>6. \A k \in 1 .. n : t[k + 1] = s[k]
  BY <1>5
<1> QED BY <1>5, <1>6 DEF t, h

(* The elements of ss one behind the other, behind x. *)
Listed(x, ss) == <<x>> \o FlattenSeq(ss)

(* Where the elements of each vector of ss are in the list. *)
LEMMA ListedPlaces ==
  ASSUME NEW x, NEW ss, Nested(ss), NEW c, c = Listed(x, ss)
  PROVE  /\ IsVector(c) /\ Len(c) = 1 + Offsets(ss)[Len(ss)] /\ c[1] = x
         /\ \A f \in 1 .. Len(ss) : \A j \in 1 .. Len(ss[f]) :
              /\ 1 + Offsets(ss)[f - 1] + j \in 2 .. Len(c)
              /\ c[1 + Offsets(ss)[f - 1] + j] = ss[f][j]
         /\ \A k \in 2 .. Len(c) : \E f \in 1 .. Len(ss) : \E j \in 1 .. Len(ss[f]) :
              k = 1 + Offsets(ss)[f - 1] + j
<1> DEFINE o == Offsets(ss)
           n == Len(ss)
           t == FlattenSeq(ss)
<1>1. n \in Nat /\ \A f \in 1 .. n : Len(ss[f]) \in Nat
  BY VectorShape DEF Nested
<1>2. o \in [0 .. n -> Nat] /\ \A f \in 1 .. n : o[f] = o[f - 1] + Len(ss[f])
  BY OffsetsShape
<1>3. /\ IsVector(t) /\ Len(t) = o[n]
      /\ \A f \in 1 .. n : \A j \in 1 .. Len(ss[f]) : t[o[f - 1] + j] = ss[f][j]
  BY FlattenPlaces
<1>4. \A i \in 1 .. o[n] : \E f \in 1 .. n : \E j \in 1 .. Len(ss[f]) : i = o[f - 1] + j
  BY PlaceExists
<1>5. \A f \in 1 .. n : o[f] <= o[n]
  <2> TAKE f \in 1 .. n
  <2>1. n \in 0 .. Len(ss) /\ f \in 0 .. n
    BY <1>1
  <2> QED BY <2>1, OffsetsGrow
<1> HIDE DEF o, n, t
<1>6. o[n] \in Nat /\ t = [k \in 1 .. o[n] |-> t[k]]
  BY <1>1, <1>2, <1>3, VectorShape
<1>7. /\ IsVector(c) /\ Len(c) = o[n] + 1 /\ c[1] = x
      /\ \A k \in 1 .. o[n] : c[k + 1] = t[k]
  <2> DEFINE m == o[n]
             d == <<x>> \o t
  <2>1. m \in Nat /\ t = [k \in 1 .. m |-> t[k]]
    BY <1>6
  <2>2. IsVector(d) /\ Len(d) = m + 1 /\ d[1] = x /\ \A k \in 1 .. m : d[k + 1] = t[k]
    <3> HIDE DEF m
    <3> QED BY <2>1, Behind
  <2>3. c = d
    BY DEF t, Listed
  <2> QED BY <2>2, <2>3
<1>8. ASSUME NEW f \in 1 .. n, NEW j \in 1 .. Len(ss[f])
      PROVE  1 + o[f - 1] + j \in 2 .. Len(c) /\ c[1 + o[f - 1] + j] = ss[f][j]
  <2>1. f \in 0 .. n /\ f - 1 \in 0 .. n /\ o[f] \in Nat /\ o[f - 1] \in Nat /\ Len(ss[f]) \in Nat
    BY <1>1, <1>2
  <2>2. o[f - 1] + j \in 1 .. o[n] /\ (o[f - 1] + j) + 1 = 1 + o[f - 1] + j
    BY <2>1, <1>2, <1>5, <1>6
  <2>3. c[(o[f - 1] + j) + 1] = t[o[f - 1] + j]
    BY <2>2, <1>7
  <2>4. c[1 + o[f - 1] + j] = ss[f][j]
    BY <2>2, <2>3, <1>3
  <2>5. (o[f - 1] + j) + 1 \in 2 .. o[n] + 1
    BY <2>1, <2>2, <1>6
  <2>6. Len(c) = o[n] + 1
    BY <1>7
  <2> QED BY <2>2, <2>4, <2>5, <2>6
<1>9. ASSUME NEW k \in 2 .. Len(c)
      PROVE  \E f \in 1 .. n : \E j \in 1 .. Len(ss[f]) : k = 1 + o[f - 1] + j
  <2>1. k - 1 \in 1 .. o[n]
    BY <1>6, <1>7
  <2>2. PICK f \in 1 .. n : \E j \in 1 .. Len(ss[f]) : k - 1 = o[f - 1] + j
    BY <2>1, <1>4
  <2>3. f - 1 \in 0 .. n /\ o[f - 1] \in Nat /\ Len(ss[f]) \in Nat
    BY <1>1, <1>2
  <2>4. PICK j \in 1 .. Len(ss[f]) : k - 1 = o[f - 1] + j
    BY <2>2
  <2>5. k = 1 + o[f - 1] + j
    <3> DEFINE m == o[f - 1]
    <3>1. m \in Nat /\ j \in Int /\ k \in Int /\ k - 1 = m + j
      BY <2>3, <2>4
    <3> HIDE DEF m
    <3>2. k = 1 + m + j
      BY <3>1
    <3> QED BY <3>2 DEF m
  <2> QED BY <2>5
<1> QED BY <1>6, <1>7, <1>8, <1>9 DEF o, n

(* Functions one behind the other, of nb[f] blocks behind a first one.     *)
Grouped(ss, F, nb) ==
  /\ F \in Nat \ {0} /\ nb \in [1 .. F -> Nat \ {0}]
  /\ IsVector(ss) /\ Len(ss) = F
  /\ \A f \in 1 .. F : IsVector(ss[f]) /\ Len(ss[f]) = nb[f] + 1

(* Block b of function f. *)
Place(ss, f, b) == 2 + Offsets(ss)[f - 1] + b

(* Every block behind the first is block b of one function f, and the      *)
(* functions follow one another.                                           *)
LEMMA GroupedPlaces ==
  ASSUME NEW x, NEW ss, NEW F, NEW nb, Grouped(ss, F, nb), NEW c, c = Listed(x, ss)
  PROVE  /\ IsVector(c) /\ c[1] = x /\ Place(ss, 1, 0) = 2 /\ Place(ss, F + 1, 0) = Len(c) + 1
         /\ \A f \in 1 .. F :
              /\ Place(ss, f + 1, 0) = Place(ss, f, nb[f]) + 1
              /\ \A b \in 0 .. nb[f] : /\ Place(ss, f, b) \in 2 .. Len(c)
                                       /\ Place(ss, f, b) = Place(ss, f, 0) + b
                                       /\ c[Place(ss, f, b)] = ss[f][b + 1]
         /\ \A k \in 2 .. Len(c) : \E f \in 1 .. F : \E b \in 0 .. nb[f] : k = Place(ss, f, b)
<1> DEFINE o == Offsets(ss)
<1>1. /\ F \in Nat \ {0} /\ Len(ss) = F /\ Nested(ss)
      /\ \A f \in 1 .. F : nb[f] \in Nat \ {0} /\ Len(ss[f]) = nb[f] + 1
  BY DEF Grouped, Nested
<1>2. /\ o \in [0 .. F -> Nat] /\ o[0] = 0
      /\ \A f \in 1 .. F : o[f] = o[f - 1] + Len(ss[f])
  BY <1>1, OffsetsShape
<1>3. /\ IsVector(c) /\ Len(c) = 1 + o[F] /\ c[1] = x
      /\ \A f \in 1 .. F : \A j \in 1 .. Len(ss[f]) :
           1 + o[f - 1] + j \in 2 .. Len(c) /\ c[1 + o[f - 1] + j] = ss[f][j]
      /\ \A k \in 2 .. Len(c) : \E f \in 1 .. F : \E j \in 1 .. Len(ss[f]) : k = 1 + o[f - 1] + j
  <2>1. /\ IsVector(c) /\ Len(c) = 1 + Offsets(ss)[Len(ss)] /\ c[1] = x
        /\ \A f \in 1 .. Len(ss) : \A j \in 1 .. Len(ss[f]) :
             1 + Offsets(ss)[f - 1] + j \in 2 .. Len(c) /\ c[1 + Offsets(ss)[f - 1] + j] = ss[f][j]
        /\ \A k \in 2 .. Len(c) : \E f \in 1 .. Len(ss) : \E j \in 1 .. Len(ss[f]) :
             k = 1 + Offsets(ss)[f - 1] + j
    <3>1. Nested(ss)
      BY <1>1
    <3> QED BY <3>1, ListedPlaces
  <2> QED BY <2>1, <1>1
<1>4. \A f, b : Place(ss, f, b) = 2 + o[f - 1] + b
  BY DEF Place
<1> HIDE DEF o
<1>5. Place(ss, 1, 0) = 2 /\ Place(ss, F + 1, 0) = Len(c) + 1
  <2>1. o[1 - 1] = 0 /\ o[(F + 1) - 1] = o[F] /\ o[F] \in Nat
    BY <1>1, <1>2
  <2> QED BY <2>1, <1>3, <1>4
<1>6. ASSUME NEW f \in 1 .. F
      PROVE  Place(ss, f + 1, 0) = Place(ss, f, nb[f]) + 1
  <2>1. f - 1 \in 0 .. F /\ f \in 0 .. F /\ (f + 1) - 1 = f
    BY <1>1
  <2>2. o[f - 1] \in Nat /\ o[f] = o[f - 1] + (nb[f] + 1) /\ nb[f] \in Nat
    BY <2>1, <1>1, <1>2
  <2>3. Place(ss, f + 1, 0) = 2 + o[f] + 0
    BY <2>1, <1>4
  <2>4. Place(ss, f, nb[f]) = 2 + o[f - 1] + nb[f]
    BY <1>4
  <2> DEFINE m == o[f - 1]
             l == o[f]
             q == nb[f]
  <2>5. m \in Nat /\ l = m + (q + 1) /\ q \in Nat
    BY <2>2
  <2> HIDE DEF m, l, q
  <2>6. 2 + l + 0 = (2 + m + q) + 1
    BY <2>5
  <2> QED BY <2>3, <2>4, <2>6 DEF m, l, q
<1>7. ASSUME NEW f \in 1 .. F, NEW b \in 0 .. nb[f]
      PROVE  /\ Place(ss, f, b) \in 2 .. Len(c) /\ Place(ss, f, b) = Place(ss, f, 0) + b
             /\ c[Place(ss, f, b)] = ss[f][b + 1]
  <2>1. f - 1 \in 0 .. F /\ o[f - 1] \in Nat /\ nb[f] \in Nat /\ b \in Nat
    BY <1>1, <1>2
  <2>2. b + 1 \in 1 .. Len(ss[f])
    BY <1>1, <2>1
  <2>3. 1 + o[f - 1] + (b + 1) = 2 + o[f - 1] + b
    <3> DEFINE m == o[f - 1]
    <3>1. m \in Nat /\ b \in Nat
      BY <2>1
    <3> HIDE DEF m
    <3>2. 1 + m + (b + 1) = 2 + m + b
      BY <3>1
    <3> QED BY <3>2 DEF m
  <2>4. 1 + o[f - 1] + (b + 1) \in 2 .. Len(c) /\ c[1 + o[f - 1] + (b + 1)] = ss[f][b + 1]
    BY <2>2, <1>3
  <2>5. Place(ss, f, b) = Place(ss, f, 0) + b
    BY <2>1, <1>4
  <2> QED BY <2>3, <2>4, <2>5, <1>4
<1>8. ASSUME NEW k \in 2 .. Len(c)
      PROVE  \E f \in 1 .. F : \E b \in 0 .. nb[f] : k = Place(ss, f, b)
  <2>1. PICK f \in 1 .. F : \E j \in 1 .. Len(ss[f]) : k = 1 + o[f - 1] + j
    BY <1>3
  <2>2. PICK j \in 1 .. Len(ss[f]) : k = 1 + o[f - 1] + j
    BY <2>1
  <2>3. j - 1 \in 0 .. nb[f] /\ o[f - 1] \in Nat
    <3>1. nb[f] \in Nat /\ j \in 1 .. nb[f] + 1 /\ f - 1 \in 0 .. F
      BY <1>1
    <3> QED BY <3>1, <1>2
  <2>4. k = Place(ss, f, j - 1)
    BY <2>2, <2>3, <1>4
  <2> QED BY <2>3, <2>4
<1> QED BY <1>3, <1>5, <1>6, <1>7, <1>8

-----------------------------------------------------------------------------
(* The generated blocks and their origins *)

(* A header is a FUNC and one PARAM per parameter. *)
LEMMA GenFunc ==
  ASSUME NEW f, IsVector(f.params)
  PROVE  /\ IsVector(genFunc(f)) /\ Len(f.params) \in Nat /\ Len(genFunc(f)) = Len(f.params) + 1
         /\ genFunc(f)[1].op = "FUNC"
         /\ \A k \in 2 .. Len(f.params) + 1 : genFunc(f)[k].op = "PARAM"
<1> DEFINE head == [op |-> "FUNC", params |-> Len(f.params)]
           s == [k \in DOMAIN f.params |-> [op |-> "PARAM", name |-> f.params[k]]]
           n == Len(f.params)
<1>1. n \in Nat /\ DOMAIN f.params = 1 .. n
  BY VectorShape
<1>2. s = [k \in 1 .. n |-> s[k]] /\ \A k \in 1 .. n : s[k].op = "PARAM"
  BY <1>1
<1>3. genFunc(f) = <<head>> \o s /\ head.op = "FUNC"
  BY DEF genFunc
<1> HIDE DEF head, s, n
<1>4. /\ IsVector(<<head>> \o s) /\ Len(<<head>> \o s) = n + 1 /\ (<<head>> \o s)[1] = head
      /\ \A k \in 1 .. n : (<<head>> \o s)[k + 1] = s[k]
  BY <1>1, <1>2, Behind
<1>5. ASSUME NEW k \in 2 .. n + 1
      PROVE  (<<head>> \o s)[k].op = "PARAM"
  <2>1. k - 1 \in 1 .. n /\ (k - 1) + 1 = k
    BY <1>1
  <2> QED BY <2>1, <1>2, <1>4
<1> DEFINE t == <<head>> \o s
<1>6. /\ IsVector(t) /\ Len(t) = n + 1 /\ t[1] = head
      /\ \A k \in 2 .. n + 1 : t[k].op = "PARAM"
  BY <1>4, <1>5
<1> HIDE DEF t
<1>7. genFunc(f) = t
  BY <1>3 DEF t
<1> QED BY <1>1, <1>3, <1>6, <1>7 DEF n

(* The code of each IR instruction. *)
Gens(insts) == [k \in DOMAIN insts |-> genInst(insts[k])]
InstsOK(insts) == IsVector(insts) /\ \A k \in DOMAIN insts : InstOK(insts[k])

(* The code of a block, instruction by instruction. *)
LEMMA GensNested ==
  ASSUME NEW insts, InstsOK(insts)
  PROVE  /\ Nested(Gens(insts)) /\ Len(insts) \in Nat /\ DOMAIN insts = 1 .. Len(insts)
         /\ Len(Gens(insts)) = Len(insts)
         /\ \A n \in 1 .. Len(insts) : /\ Gens(insts)[n] = genInst(insts[n])
                                       /\ GoodCode(insts[n], genInst(insts[n]))
<1> DEFINE g == Gens(insts)
           n == Len(insts)
<1>1. n \in Nat /\ DOMAIN insts = 1 .. n
  BY VectorShape DEF InstsOK
<1>2. g = [k \in 1 .. n |-> g[k]] /\ \A k \in 1 .. n : g[k] = genInst(insts[k])
  BY <1>1 DEF Gens
<1>3. \A k \in 1 .. n : GoodCode(insts[k], genInst(insts[k]))
  BY <1>1, GenInst DEF InstsOK
<1> HIDE DEF g, n
<1>4. IsVector(g) /\ Len(g) = n
  BY <1>1, <1>2, Vector
<1>5. Nested(g)
  BY <1>2, <1>3, <1>4 DEF Nested, GoodCode
<1> QED BY <1>1, <1>2, <1>3, <1>4, <1>5 DEF g, n

(* Instruction j of the block is instruction l of the code of insts[n].    *)
From(insts, j, n, l) ==
  /\ n \in 1 .. Len(insts) /\ l \in 1 .. Len(genInst(insts[n]))
  /\ j = Offsets(Gens(insts))[n - 1] + l
  /\ \A m \in 1 .. Len(genInst(insts[n])) :
       /\ j - l + m \in 1 .. Len(genInsts(insts))
       /\ genInsts(insts)[j - l + m] = genInst(insts[n])[m]

(* Every VM instruction of a block comes from an IR instruction, and a     *)
(* block whose last IR instruction leaves it ends in a transfer.           *)
LEMMA GenInsts ==
  ASSUME NEW insts, InstsOK(insts)
  PROVE  /\ IsVector(genInsts(insts)) /\ Len(genInsts(insts)) \in Nat
         /\ \A j \in 1 .. Len(genInsts(insts)) : \E n, l : From(insts, j, n, l)
         /\ insts # << >> =>
              /\ Len(genInsts(insts)) > 0
              /\ insts[Len(insts)].tag \in Leaving =>
                   genInsts(insts)[Len(genInsts(insts))].op \in Transfers
<1> DEFINE g == Gens(insts)
           o == Offsets(g)
           c == genInsts(insts)
           N == Len(insts)
<1>1. /\ Nested(g) /\ Len(g) = N /\ N \in Nat /\ DOMAIN insts = 1 .. N
      /\ \A n \in 1 .. N : g[n] = genInst(insts[n]) /\ GoodCode(insts[n], genInst(insts[n]))
  BY GensNested
<1>2. c = FlattenSeq(g)
  BY DEF genInsts, Gens
<1> HIDE DEF g
<1>3. /\ o \in [0 .. N -> Nat] /\ o[0] = 0
      /\ \A n \in 1 .. N : o[n] = o[n - 1] + Len(g[n])
  BY <1>1, OffsetsShape
<1>4. /\ IsVector(c) /\ Len(c) = o[N]
      /\ \A n \in 1 .. N : \A l \in 1 .. Len(g[n]) : c[o[n - 1] + l] = g[n][l]
  <2>1. \A n \in 1 .. Len(g) : \A l \in 1 .. Len(g[n]) : FlattenSeq(g)[Offsets(g)[n - 1] + l] = g[n][l]
    BY <1>1, FlattenPlaces
  <2>2. IsVector(FlattenSeq(g)) /\ Len(FlattenSeq(g)) = Offsets(g)[Len(g)]
    BY <1>1, FlattenPlaces
  <2> QED BY <2>1, <2>2, <1>1, <1>2
<1>5. \A n \in 1 .. N : o[n] <= o[N]
  <2> TAKE n \in 1 .. N
  <2>1. N \in 0 .. Len(g) /\ n \in 0 .. N
    BY <1>1
  <2> QED BY <2>1, <1>1, OffsetsGrow
<1>6. \A n \in 1 .. N : Len(g[n]) \in Nat \ {0}
  BY <1>1 DEF GoodCode
<1>7. \A j \in 1 .. o[N] : \E n \in 1 .. N : \E l \in 1 .. Len(g[n]) : j = o[n - 1] + l
  BY <1>1, PlaceExists
<1> HIDE DEF o, c, N
<1>8. ASSUME NEW j \in 1 .. Len(c)
      PROVE  \E n, l : From(insts, j, n, l)
  <2>1. PICK n \in 1 .. N : \E l \in 1 .. Len(g[n]) : j = o[n - 1] + l
    BY <1>4, <1>7
  <2>2. PICK l \in 1 .. Len(g[n]) : j = o[n - 1] + l
    BY <2>1
  <2>3. n \in 0 .. N /\ n - 1 \in 0 .. N /\ N \in 0 .. N
    BY <1>1
  <2>4. o[n - 1] \in Nat /\ o[n] \in Nat /\ o[N] \in Nat /\ o[n] = o[n - 1] + Len(g[n])
    BY <2>3, <1>3
  <2>5. ASSUME NEW m \in 1 .. Len(g[n])
        PROVE  j - l + m \in 1 .. Len(c) /\ c[j - l + m] = g[n][m]
    <3> DEFINE q == o[n - 1]
               r == Len(g[n])
    <3>1. q \in Nat /\ j = q + l /\ l \in 1 .. r /\ m \in 1 .. r /\ r \in Nat
      BY <2>2, <2>4, <1>6
    <3>2. q + r <= o[N] /\ o[N] \in Nat
      BY <2>4, <1>5
    <3> HIDE DEF q, r
    <3>3. j - l + m = q + m /\ q + m \in 1 .. o[N]
      BY <3>1, <3>2
    <3> QED BY <3>3, <1>4 DEF q
  <2>6. From(insts, j, n, l)
    <3>1. g[n] = genInst(insts[n]) /\ n \in 1 .. Len(insts) /\ j = Offsets(Gens(insts))[n - 1] + l
      BY <1>1, <2>2 DEF N, o, g
    <3> QED BY <3>1, <2>5 DEF From, c
  <2> QED BY <2>6
<1>9. N \in 0 .. N /\ Len(c) \in Nat
  BY <1>1, <1>3, <1>4
<1>10. ASSUME insts # << >>
       PROVE  Len(c) > 0 /\ (insts[N].tag \in Leaving => c[Len(c)].op \in Transfers)
  <2>1. N # 0
    <3>1. insts = [k \in 1 .. N |-> insts[k]]
      BY VectorShape DEF InstsOK, N
    <3>2. N = 0 => insts = << >>
      BY <3>1
    <3> QED BY <3>2, <1>10
  <2>2. N \in 1 .. N /\ N - 1 \in 0 .. N
    BY <2>1, <1>1
  <2> DEFINE r == Len(g[N])
             q == o[N - 1]
  <2>3. q \in Nat /\ r \in Nat \ {0} /\ o[N] = q + r
    BY <2>2, <1>3, <1>6
  <2>4. c[q + r] = g[N][r]
    <3>1. r \in 1 .. Len(g[N])
      BY <2>3
    <3> QED BY <2>2, <3>1, <1>4
  <2>5. insts[N].tag \in Leaving => g[N][r].op \in Transfers
    BY <2>2, <1>1 DEF GoodCode
  <2> HIDE DEF q, r
  <2> QED BY <2>3, <2>4, <2>5, <1>4
<1> QED BY <1>4, <1>8, <1>9, <1>10 DEF c, N

(* The origins of a block run in step with its code. *)
LEMMA OriginShape ==
  ASSUME NEW insts, InstsOK(insts), NEW fn, NEW b
  PROVE  /\ IsVector(Origin(fn, b, insts)) /\ Len(Origin(fn, b, insts)) = Len(genInsts(insts))
         /\ \A j, n, l : From(insts, j, n, l) =>
              Origin(fn, b, insts)[j] = [fn |-> fn, block |-> b, next |-> n,
                                         last |-> l = Len(genInst(insts[n]))]
<1> DEFINE g == Gens(insts)
           N == Len(insts)
           at(k, j) == [fn |-> fn, block |-> b, next |-> k, last |-> j = Len(genInst(insts[k]))]
           h == [k \in DOMAIN insts |-> [j \in 1 .. Len(genInst(insts[k])) |-> at(k, j)]]
<1>1. /\ Nested(g) /\ Len(g) = N /\ N \in Nat /\ DOMAIN insts = 1 .. N
      /\ \A n \in 1 .. N : g[n] = genInst(insts[n]) /\ GoodCode(insts[n], genInst(insts[n]))
  BY GensNested
<1>2. \A n \in 1 .. N : Len(g[n]) \in Nat
  BY <1>1 DEF GoodCode
<1>3. h = [n \in 1 .. N |-> h[n]] /\ \A n \in 1 .. N : h[n] = [j \in 1 .. Len(g[n]) |-> at(n, j)]
  BY <1>1
<1>4. Origin(fn, b, insts) = FlattenSeq(h)
  BY DEF Origin
<1> HIDE DEF h, at, g
<1>5. IsVector(h) /\ Len(h) = N
  BY <1>1, <1>3, Vector
<1>6. ASSUME NEW n \in 1 .. N
      PROVE  /\ IsVector(h[n]) /\ Len(h[n]) = Len(g[n])
             /\ \A l \in 1 .. Len(g[n]) : h[n][l] = at(n, l)
  <2> DEFINE u == h[n]
             r == Len(g[n])
  <2>1. r \in Nat /\ u = [j \in 1 .. r |-> u[j]] /\ \A l \in 1 .. r : u[l] = at(n, l)
    BY <1>2, <1>3
  <2> HIDE DEF u, r
  <2>2. IsVector(u) /\ Len(u) = r
    BY <2>1, Vector
  <2> QED BY <2>1, <2>2 DEF u, r
<1>7. Nested(h) /\ \A n \in 1 .. N : Len(g[n]) = Len(h[n])
  BY <1>5, <1>6 DEF Nested
<1>8. Offsets(g) = Offsets(h)
  BY <1>1, <1>5, <1>7, OffsetsSame
<1>9. genInsts(insts) = FlattenSeq(g)
  BY DEF genInsts, Gens, g
<1>10. /\ IsVector(FlattenSeq(h)) /\ Len(FlattenSeq(h)) = Offsets(h)[N]
       /\ \A n \in 1 .. N : \A l \in 1 .. Len(h[n]) : FlattenSeq(h)[Offsets(h)[n - 1] + l] = h[n][l]
  BY <1>5, <1>7, FlattenPlaces
<1>11. Len(FlattenSeq(g)) = Offsets(g)[N]
  BY <1>1, FlattenPlaces
<1>12. ASSUME NEW j, NEW n, NEW l, From(insts, j, n, l)
       PROVE  FlattenSeq(h)[j] = at(n, l)
  <2>1. n \in 1 .. N /\ l \in 1 .. Len(g[n]) /\ j = Offsets(g)[n - 1] + l
    BY <1>12, <1>1 DEF From, g
  <2> QED BY <2>1, <1>6, <1>8, <1>10
<1> QED BY <1>4, <1>8, <1>9, <1>10, <1>11, <1>12 DEF at

-----------------------------------------------------------------------------
(* The blocks of a program *)

BlockCount(ir) == [f \in 1 .. Len(ir.funcs) |-> Len(ir.funcs[f].blocks)]
Groups(ir) == [f \in DOMAIN ir.funcs |-> FuncBlocks(ir.funcs[f])]
OriginGroups(ir) ==
  [f \in DOMAIN ir.funcs |->
     <<HeaderOrigin(f, ir.funcs[f])>>
       \o [b \in DOMAIN ir.funcs[f].blocks |-> Origin(f, b, ir.funcs[f].blocks[b].insts)]]

(* What a well-formed program says of all its functions. *)
LEMMA Functions ==
  ASSUME NEW ir, WellFormedIR(ir)
  PROVE  /\ Len(ir.funcs) \in Nat \ {0} /\ DOMAIN ir.funcs = 1 .. Len(ir.funcs)
         /\ BlockCount(ir) \in [1 .. Len(ir.funcs) -> Nat \ {0}]
         /\ \A f \in 1 .. Len(ir.funcs) :
              /\ FunctionOK(ir, ir.funcs[f]) /\ IsVector(ir.funcs[f].params)
              /\ BlockCount(ir)[f] = Len(ir.funcs[f].blocks)
              /\ DOMAIN ir.funcs[f].blocks = 1 .. BlockCount(ir)[f]
              /\ \A b \in 1 .. BlockCount(ir)[f] : InstsOK(ir.funcs[f].blocks[b].insts)
<1>1. /\ Len(ir.funcs) \in Nat /\ DOMAIN ir.funcs = 1 .. Len(ir.funcs)
      /\ \A f \in 1 .. Len(ir.funcs) : FunctionOK(ir, ir.funcs[f])
  <2>1. IsVector(ir.funcs) /\ \A f \in DOMAIN ir.funcs : FunctionOK(ir, ir.funcs[f])
    BY DEF WellFormedIR
  <2> QED BY <2>1, VectorShape
<1>2. Len(ir.funcs) # 0
  <2>1. PICK f \in DOMAIN ir.funcs : ir.funcs[f].name = ENTRY_FUNC
    BY DEF WellFormedIR
  <2> QED BY <2>1, <1>1
<1>3. ASSUME NEW f \in 1 .. Len(ir.funcs)
      PROVE  /\ IsVector(ir.funcs[f].params)
             /\ Len(ir.funcs[f].blocks) \in Nat \ {0}
             /\ DOMAIN ir.funcs[f].blocks = 1 .. Len(ir.funcs[f].blocks)
             /\ \A b \in 1 .. Len(ir.funcs[f].blocks) : InstsOK(ir.funcs[f].blocks[b].insts)
  <2> DEFINE bs == ir.funcs[f].blocks
  <2>1. /\ IsVector(ir.funcs[f].params) /\ IsVector(bs) /\ bs # << >>
        /\ \A b \in DOMAIN bs :
             /\ IsVector(bs[b].insts)
             /\ \A k \in DOMAIN bs[b].insts : InstOK(bs[b].insts[k])
    BY <1>1 DEF FunctionOK
  <2> HIDE DEF bs
  <2>2. Len(bs) \in Nat /\ DOMAIN bs = 1 .. Len(bs) /\ bs = [b \in 1 .. Len(bs) |-> bs[b]]
    BY <2>1, VectorShape
  <2>3. Len(bs) # 0
    BY <2>1, <2>2
  <2>4. \A b \in DOMAIN bs : InstsOK(bs[b].insts)
    BY <2>1 DEF InstsOK
  <2>5. IsVector(ir.funcs[f].params) /\ Len(bs) \in Nat \ {0} /\ DOMAIN bs = 1 .. Len(bs)
        /\ \A b \in 1 .. Len(bs) : InstsOK(bs[b].insts)
    BY <2>1, <2>2, <2>3, <2>4
  <2> QED BY <2>5 DEF bs
<1>4. BlockCount(ir) \in [1 .. Len(ir.funcs) -> Nat \ {0}]
      /\ \A f \in 1 .. Len(ir.funcs) : BlockCount(ir)[f] = Len(ir.funcs[f].blocks)
  BY <1>3 DEF BlockCount
<1> QED BY <1>1, <1>2, <1>3, <1>4

(* Each function has one block for its header and one per basic block. *)
LEMMA GroupsShape ==
  ASSUME NEW ir, WellFormedIR(ir)
  PROVE  /\ Grouped(Groups(ir), Len(ir.funcs), BlockCount(ir))
         /\ \A f \in 1 .. Len(ir.funcs) :
              /\ Groups(ir)[f][1] = Block(ir.funcs[f].name, genFunc(ir.funcs[f]))
              /\ \A b \in 1 .. BlockCount(ir)[f] :
                   Groups(ir)[f][b + 1] = Block(ir.funcs[f].blocks[b].name,
                                                genInsts(ir.funcs[f].blocks[b].insts))
<1> DEFINE F == Len(ir.funcs)
           nb == BlockCount(ir)
           g == Groups(ir)
<1>1. /\ F \in Nat \ {0} /\ DOMAIN ir.funcs = 1 .. F /\ nb \in [1 .. F -> Nat \ {0}]
      /\ \A f \in 1 .. F : DOMAIN ir.funcs[f].blocks = 1 .. nb[f]
  BY Functions
<1>2. g = [f \in 1 .. F |-> g[f]] /\ \A f \in 1 .. F : g[f] = FuncBlocks(ir.funcs[f])
  BY <1>1 DEF Groups
<1> HIDE DEF F, nb, g
<1>3. ASSUME NEW f \in 1 .. F
      PROVE  /\ IsVector(g[f]) /\ Len(g[f]) = nb[f] + 1
             /\ g[f][1] = Block(ir.funcs[f].name, genFunc(ir.funcs[f]))
             /\ \A b \in 1 .. nb[f] : g[f][b + 1] = Block(ir.funcs[f].blocks[b].name,
                                                          genInsts(ir.funcs[f].blocks[b].insts))
  <2> DEFINE x == Block(ir.funcs[f].name, genFunc(ir.funcs[f]))
             body(b) == Block(ir.funcs[f].blocks[b].name, genInsts(ir.funcs[f].blocks[b].insts))
             s == [b \in DOMAIN ir.funcs[f].blocks |-> body(b)]
             n == nb[f]
  <2>1. n \in Nat /\ s = [b \in 1 .. n |-> s[b]] /\ \A b \in 1 .. n : s[b] = body(b)
    BY <1>1
  <2>2. g[f] = <<x>> \o s
    BY <1>2 DEF FuncBlocks
  <2> HIDE DEF x, s, n, body
  <2>3. /\ IsVector(<<x>> \o s) /\ Len(<<x>> \o s) = n + 1 /\ (<<x>> \o s)[1] = x
        /\ \A b \in 1 .. n : (<<x>> \o s)[b + 1] = s[b]
    BY <2>1, Behind
  <2> DEFINE t == <<x>> \o s
  <2>4. IsVector(t) /\ Len(t) = n + 1 /\ t[1] = x /\ \A b \in 1 .. n : t[b + 1] = body(b)
    BY <2>1, <2>3
  <2>5. g[f] = t
    BY <2>2
  <2> HIDE DEF t
  <2> QED BY <2>4, <2>5 DEF x, n, body
<1>4. IsVector(g) /\ Len(g) = F
  BY <1>1, <1>2, Vector
<1>5. Grouped(g, F, nb)
  BY <1>1, <1>3, <1>4 DEF Grouped
<1> QED BY <1>3, <1>5 DEF F, nb, g

(* The origins of a header run in step with it. *)
LEMMA HeaderOriginShape ==
  ASSUME NEW fn, NEW f, IsVector(f.params)
  PROVE  /\ IsVector(HeaderOrigin(fn, f)) /\ Len(HeaderOrigin(fn, f)) = Len(f.params) + 1
         /\ \A k \in 1 .. Len(f.params) + 1 :
              HeaderOrigin(fn, f)[k].fn = fn /\ HeaderOrigin(fn, f)[k].block = 0
<1> DEFINE h == HeaderOrigin(fn, f)
           n == Len(f.params) + 1
<1>1. n \in Nat
  BY VectorShape
<1>2. h = [k \in 1 .. n |-> h[k]] /\ \A k \in 1 .. n : h[k].fn = fn /\ h[k].block = 0
  BY DEF HeaderOrigin
<1> HIDE DEF h, n
<1>3. IsVector(h) /\ Len(h) = n
  BY <1>1, <1>2, Vector
<1> QED BY <1>2, <1>3 DEF h, n

(* The origins are grouped as the blocks are. *)
LEMMA OriginGroupsShape ==
  ASSUME NEW ir, WellFormedIR(ir)
  PROVE  /\ Grouped(OriginGroups(ir), Len(ir.funcs), BlockCount(ir))
         /\ \A f \in 1 .. Len(ir.funcs) :
              /\ OriginGroups(ir)[f][1] = HeaderOrigin(f, ir.funcs[f])
              /\ \A b \in 1 .. BlockCount(ir)[f] :
                   OriginGroups(ir)[f][b + 1] = Origin(f, b, ir.funcs[f].blocks[b].insts)
<1> DEFINE F == Len(ir.funcs)
           nb == BlockCount(ir)
           g == OriginGroups(ir)
           body(f, b) == Origin(f, b, ir.funcs[f].blocks[b].insts)
           s(f) == [b \in DOMAIN ir.funcs[f].blocks |-> body(f, b)]
<1>1. /\ F \in Nat \ {0} /\ DOMAIN ir.funcs = 1 .. F /\ nb \in [1 .. F -> Nat \ {0}]
      /\ \A f \in 1 .. F : DOMAIN ir.funcs[f].blocks = 1 .. nb[f]
  BY Functions
<1>2. /\ g = [f \in 1 .. F |-> g[f]]
      /\ \A f \in 1 .. F : g[f] = <<HeaderOrigin(f, ir.funcs[f])>> \o s(f)
  BY <1>1 DEF OriginGroups
<1> HIDE DEF F, nb, g
<1>3. ASSUME NEW f \in 1 .. F
      PROVE  /\ IsVector(g[f]) /\ Len(g[f]) = nb[f] + 1
             /\ g[f][1] = HeaderOrigin(f, ir.funcs[f])
             /\ \A b \in 1 .. nb[f] : g[f][b + 1] = body(f, b)
  <2> DEFINE x == HeaderOrigin(f, ir.funcs[f])
             u == s(f)
             n == nb[f]
  <2>1. n \in Nat /\ u = [b \in 1 .. n |-> u[b]] /\ \A b \in 1 .. n : u[b] = body(f, b)
    BY <1>1
  <2>2. g[f] = <<x>> \o u
    BY <1>2
  <2> HIDE DEF x, u, n, s, body
  <2>3. /\ IsVector(<<x>> \o u) /\ Len(<<x>> \o u) = n + 1 /\ (<<x>> \o u)[1] = x
        /\ \A b \in 1 .. n : (<<x>> \o u)[b + 1] = u[b]
    BY <2>1, Behind
  <2> DEFINE t == <<x>> \o u
  <2>4. IsVector(t) /\ Len(t) = n + 1 /\ t[1] = x /\ \A b \in 1 .. n : t[b + 1] = body(f, b)
    BY <2>1, <2>3
  <2>5. g[f] = t
    BY <2>2
  <2> HIDE DEF t
  <2> QED BY <2>4, <2>5 DEF x, n
<1> HIDE DEF s, body
<1>4. IsVector(g) /\ Len(g) = F
  BY <1>1, <1>2, Vector
<1>5. Grouped(g, F, nb)
  BY <1>1, <1>3, <1>4 DEF Grouped
<1> QED BY <1>3, <1>5 DEF F, nb, g, body

-----------------------------------------------------------------------------
(* Places in the blocks of a program *)

(* The initialisers are instructions the generator knows. *)
LEMMA Globals ==
  ASSUME NEW ir, WellFormedIR(ir)
  PROVE  InstsOK(ir.globals)
<1>1. IsVector(ir.globals) /\ \A k \in DOMAIN ir.globals : InstOK(ir.globals[k])
  BY DEF WellFormedIR, GlobalOK, InstOK
<1> QED BY <1>1 DEF InstsOK

Pos(ir, f, b) == Place(Groups(ir), f, b)

(* Every block is the globals, the header of a function or one of its      *)
(* basic blocks.                                                           *)
BlocksPlaced(ir, B, F, nb) ==
  /\ IsVector(B) /\ Len(B) \in Nat /\ B[1] = Block("global_var_decl", genInsts(ir.globals))
  /\ F \in Nat \ {0} /\ nb \in [1 .. F -> Nat \ {0}]
  /\ Pos(ir, 1, 0) = 2 /\ Pos(ir, F + 1, 0) = Len(B) + 1
  /\ \A f \in 1 .. F :
       /\ Pos(ir, f + 1, 0) = Pos(ir, f, nb[f]) + 1
       /\ \A b \in 0 .. nb[f] : /\ Pos(ir, f, b) \in 2 .. Len(B)
                                /\ Pos(ir, f, b) = Pos(ir, f, 0) + b
       /\ B[Pos(ir, f, 0)] = Block(ir.funcs[f].name, genFunc(ir.funcs[f]))
       /\ \A b \in 1 .. nb[f] : B[Pos(ir, f, b)] = Block(ir.funcs[f].blocks[b].name,
                                                       genInsts(ir.funcs[f].blocks[b].insts))
  /\ \A k \in 2 .. Len(B) : \E f \in 1 .. F : \E b \in 0 .. nb[f] : k = Pos(ir, f, b)

(* ir2VmInst puts every block in its place, ... *)
LEMMA Blocks ==
  ASSUME NEW ir, WellFormedIR(ir), NEW B, B = ir2VmInst(ir), NEW F, F = Len(ir.funcs),
         NEW nb, nb = BlockCount(ir)
  PROVE  BlocksPlaced(ir, B, F, nb)
<1> DEFINE ss == Groups(ir)
           x == Block("global_var_decl", genInsts(ir.globals))
<1>1. Grouped(ss, F, nb) /\ F \in Nat \ {0} /\ nb \in [1 .. F -> Nat \ {0}]
  BY GroupsShape, Functions
<1>2. B = Listed(x, ss)
  BY DEF ir2VmInst, Listed, Groups
<1>3. \A f \in 1 .. F :
        /\ ss[f][1] = Block(ir.funcs[f].name, genFunc(ir.funcs[f]))
        /\ \A b \in 1 .. nb[f] : ss[f][b + 1] = Block(ir.funcs[f].blocks[b].name,
                                                      genInsts(ir.funcs[f].blocks[b].insts))
  BY GroupsShape
<1>4. \A f, b : Pos(ir, f, b) = Place(ss, f, b)
  BY DEF Pos
<1> HIDE DEF ss, x
<1>5. /\ IsVector(B) /\ B[1] = x /\ Place(ss, 1, 0) = 2 /\ Place(ss, F + 1, 0) = Len(B) + 1
      /\ \A f \in 1 .. F :
           /\ Place(ss, f + 1, 0) = Place(ss, f, nb[f]) + 1
           /\ \A b \in 0 .. nb[f] : /\ Place(ss, f, b) \in 2 .. Len(B)
                                    /\ Place(ss, f, b) = Place(ss, f, 0) + b
                                    /\ B[Place(ss, f, b)] = ss[f][b + 1]
      /\ \A k \in 2 .. Len(B) : \E f \in 1 .. F : \E b \in 0 .. nb[f] : k = Place(ss, f, b)
  <2>1. \A c : c = Listed(x, ss) =>
          /\ IsVector(c) /\ c[1] = x /\ Place(ss, 1, 0) = 2 /\ Place(ss, F + 1, 0) = Len(c) + 1
          /\ \A f \in 1 .. F :
               /\ Place(ss, f + 1, 0) = Place(ss, f, nb[f]) + 1
               /\ \A b \in 0 .. nb[f] : /\ Place(ss, f, b) \in 2 .. Len(c)
                                        /\ Place(ss, f, b) = Place(ss, f, 0) + b
                                        /\ c[Place(ss, f, b)] = ss[f][b + 1]
          /\ \A k \in 2 .. Len(c) : \E f \in 1 .. F : \E b \in 0 .. nb[f] : k = Place(ss, f, b)
    BY <1>1, GroupedPlaces
  <2> QED BY <2>1, <1>2
<1>6. ASSUME NEW f \in 1 .. F
      PROVE  /\ B[Pos(ir, f, 0)] = Block(ir.funcs[f].name, genFunc(ir.funcs[f]))
             /\ \A b \in 1 .. nb[f] : B[Pos(ir, f, b)] = Block(ir.funcs[f].blocks[b].name,
                                                      genInsts(ir.funcs[f].blocks[b].insts))
  <2>1. nb[f] \in Nat
    BY <1>1
  <2>2. \A b \in 0 .. nb[f] : B[Pos(ir, f, b)] = ss[f][b + 1]
    BY <1>4, <1>5
  <2>3. 0 \in 0 .. nb[f] /\ 0 + 1 = 1 /\ \A b \in 1 .. nb[f] : b \in 0 .. nb[f]
    BY <2>1
  <2> QED BY <2>2, <2>3, <1>3
<1>7. Len(B) \in Nat
  BY <1>5, VectorShape
<1> QED BY <1>1, <1>4, <1>5, <1>6, <1>7 DEF x, BlocksPlaced

(* Their origins are at the same places. *)
OriginsPlaced(ir, W, F, nb) ==
  /\ IsVector(W) /\ Len(W) = Len(ir2VmInst(ir)) /\ W[1] = Origin(0, 1, ir.globals)
  /\ \A f \in 1 .. F :
       /\ W[Pos(ir, f, 0)] = HeaderOrigin(f, ir.funcs[f])
       /\ \A b \in 1 .. nb[f] : W[Pos(ir, f, b)] = Origin(f, b, ir.funcs[f].blocks[b].insts)

(* ... and OriginBlocks its origins in the same one. *)
LEMMA Origins ==
  ASSUME NEW ir, WellFormedIR(ir), NEW W, W = OriginBlocks(ir), NEW F, F = Len(ir.funcs),
         NEW nb, nb = BlockCount(ir)
  PROVE  OriginsPlaced(ir, W, F, nb)
<1> DEFINE ss == OriginGroups(ir)
           x == Origin(0, 1, ir.globals)
           B == ir2VmInst(ir)
<1>1. Grouped(ss, F, nb) /\ F \in Nat \ {0} /\ nb \in [1 .. F -> Nat \ {0}]
  BY OriginGroupsShape, Functions
<1>2. W = Listed(x, ss)
  BY DEF OriginBlocks, Listed, OriginGroups
<1>3. \A f \in 1 .. F :
        /\ ss[f][1] = HeaderOrigin(f, ir.funcs[f])
        /\ \A b \in 1 .. nb[f] : ss[f][b + 1] = Origin(f, b, ir.funcs[f].blocks[b].insts)
  BY OriginGroupsShape
<1>4. \A f, b : Pos(ir, f, b) = Place(ss, f, b)
  <2> DEFINE gs == Groups(ir)
  <2>1. Grouped(gs, F, nb)
    BY GroupsShape
  <2> HIDE DEF gs, ss
  <2>2. Offsets(gs) = Offsets(ss)
    BY <2>1, <1>1, OffsetsSame DEF Grouped, Nested
  <2> QED BY <2>2 DEF Pos, Place, gs
<1> HIDE DEF ss, x
<1>5. /\ IsVector(W) /\ W[1] = x /\ Place(ss, F + 1, 0) = Len(W) + 1
      /\ \A f \in 1 .. F : \A b \in 0 .. nb[f] : W[Place(ss, f, b)] = ss[f][b + 1]
  <2>1. \A c : c = Listed(x, ss) =>
          /\ IsVector(c) /\ c[1] = x /\ Place(ss, F + 1, 0) = Len(c) + 1
          /\ \A f \in 1 .. F : \A b \in 0 .. nb[f] : c[Place(ss, f, b)] = ss[f][b + 1]
    BY <1>1, GroupedPlaces
  <2> QED BY <2>1, <1>2
<1>6. Len(W) = Len(B)
  <2>1. Pos(ir, F + 1, 0) = Len(B) + 1 /\ Len(B) \in Nat
    BY Blocks DEF BlocksPlaced
  <2>2. Len(W) \in Nat
    BY <1>5, VectorShape
  <2>3. Len(W) + 1 = Len(B) + 1
    BY <2>1, <1>4, <1>5
  <2> HIDE DEF B
  <2> QED BY <2>1, <2>2, <2>3
<1>7. ASSUME NEW f \in 1 .. F
      PROVE  /\ W[Pos(ir, f, 0)] = HeaderOrigin(f, ir.funcs[f])
             /\ \A b \in 1 .. nb[f] : W[Pos(ir, f, b)] = Origin(f, b, ir.funcs[f].blocks[b].insts)
  <2>1. nb[f] \in Nat
    BY <1>1
  <2>2. \A b \in 0 .. nb[f] : W[Pos(ir, f, b)] = ss[f][b + 1]
    BY <1>4, <1>5
  <2>3. 0 \in 0 .. nb[f] /\ 0 + 1 = 1 /\ \A b \in 1 .. nb[f] : b \in 0 .. nb[f]
    BY <2>1
  <2> QED BY <2>2, <2>3, <1>3
<1> QED BY <1>5, <1>6, <1>7 DEF x, OriginsPlaced


-----------------------------------------------------------------------------
(* Functions one behind the other *)

(* Behind the globals, F functions: function f from its FUNC at head[f],   *)
(* np[f] PARAMs and then its body, up to head[f + 1].                      *)
Arranged(p, F, head, np) ==
  /\ F \in Nat \ {0} /\ head \in [1 .. F + 1 -> Nat] /\ np \in [1 .. F -> Nat]
  /\ p.global_len = head[1] /\ p.size = head[F + 1] /\ DOMAIN p.code = 0 .. p.size - 1
  /\ \A f \in 1 .. F : head[1] <= head[f] /\ head[f] + np[f] + 1 < head[f + 1]
                       /\ head[f + 1] <= p.size
  /\ \A i \in 0 .. p.global_len - 1 : OpAt(p, i) \notin {"FUNC", "PARAM"}
  /\ \A f \in 1 .. F :
       /\ OpAt(p, head[f]) = "FUNC"
       /\ \A i \in head[f] + 1 .. head[f] + np[f] : OpAt(p, i) = "PARAM"
       /\ \A i \in head[f] + np[f] + 1 .. head[f + 1] - 1 : OpAt(p, i) \notin {"FUNC", "PARAM"}
  /\ \A i \in p.global_len .. p.size - 1 : \E f \in 1 .. F : i \in head[f] .. head[f + 1] - 1

(* Functions are within the program, each longer than its header. *)
LEMMA ArrangedNumbers ==
  ASSUME NEW p, NEW F, NEW head, NEW np, Arranged(p, F, head, np), NEW f \in 1 .. F
  PROVE  /\ head[f] \in Nat /\ head[f + 1] \in Nat /\ np[f] \in Nat
         /\ head[f] + np[f] + 1 < head[f + 1] /\ p.global_len <= head[f] /\ head[f + 1] <= p.size
         /\ p.global_len \in Nat /\ p.size \in Nat /\ DOMAIN p.code = 0 .. p.size - 1
<1>1. F \in Nat \ {0} /\ head \in [1 .. F + 1 -> Nat] /\ np \in [1 .. F -> Nat]
  BY DEF Arranged
<1>2. f \in 1 .. F + 1 /\ f + 1 \in 1 .. F + 1 /\ 1 \in 1 .. F + 1 /\ F + 1 \in 1 .. F + 1
  BY <1>1
<1>3. head[f] \in Nat /\ head[f + 1] \in Nat /\ np[f] \in Nat /\ head[1] \in Nat
      /\ head[F + 1] \in Nat
  BY <1>1, <1>2
<1> QED BY <1>3 DEF Arranged

(* The FUNC in front of a function heads all of it and nothing else. *)
LEMMA ArrangedHeads ==
  ASSUME NEW p, NEW F, NEW head, NEW np, Arranged(p, F, head, np),
         NEW f \in 1 .. F, NEW i \in head[f] .. head[f + 1] - 1
  PROVE  /\ i \in DOMAIN p.code /\ i >= p.global_len /\ Heads(p, head[f], i)
         /\ head[f] \in DOMAIN p.code /\ head[f] >= p.global_len
         /\ FuncOf(p, i) = head[f]
<1>1. /\ head[f] \in Nat /\ head[f + 1] \in Nat /\ np[f] \in Nat /\ p.global_len <= head[f]
      /\ head[f + 1] <= p.size /\ DOMAIN p.code = 0 .. p.size - 1 /\ p.size \in Nat
      /\ p.global_len \in Nat
  BY ArrangedNumbers
<1>2. i \in DOMAIN p.code /\ i \in Nat /\ i >= p.global_len /\ head[f] \in DOMAIN p.code
  BY <1>1
<1>3. \A j \in head[f] + 1 .. i : OpAt(p, j) # "FUNC"
  <2> TAKE j \in head[f] + 1 .. i
  <2>1. CASE j <= head[f] + np[f]
    BY <2>1, <1>1 DEF Arranged
  <2>2. CASE ~ (j <= head[f] + np[f])
    <3>1. j \in head[f] + np[f] + 1 .. head[f + 1] - 1
      BY <2>2, <1>1
    <3> QED BY <3>1 DEF Arranged
  <2> QED BY <2>1, <2>2
<1>4. Heads(p, head[f], i)
  BY <1>1, <1>2, <1>3 DEF Heads, Arranged
<1>5. ASSUME NEW g, Heads(p, g, i)
      PROVE  g = head[f]
  <2>1. g \in 0 .. p.size - 1 /\ g <= i /\ OpAt(p, g) = "FUNC" /\ g \in Nat
    BY <1>5, <1>1 DEF Heads
  <2>2. ~ (g < head[f])
    <3>1. SUFFICES ASSUME g < head[f] PROVE FALSE
      OBVIOUS
    <3>2. head[f] \in g + 1 .. i
      BY <3>1, <2>1, <1>1
    <3> QED BY <3>2, <1>5 DEF Heads, Arranged
  <2>3. ~ (head[f] < g)
    <3>1. SUFFICES ASSUME head[f] < g PROVE FALSE
      OBVIOUS
    <3>2. g \in head[f] + 1 .. i
      BY <3>1, <2>1, <1>1
    <3> QED BY <3>2, <2>1, <1>3
  <2> QED BY <2>1, <2>2, <2>3, <1>1
<1>6. FuncOf(p, i) = head[f]
  <2>1. \E g \in DOMAIN p.code : Heads(p, g, i)
    BY <1>2, <1>4
  <2>2. Heads(p, FuncOf(p, i), i)
    BY <2>1 DEF FuncOf
  <2> QED BY <2>2, <1>5
<1> QED BY <1>1, <1>2, <1>4, <1>6

(* A function takes as many parameters as it has PARAMs. *)
LEMMA ArrangedArity ==
  ASSUME NEW p, NEW F, NEW head, NEW np, Arranged(p, F, head, np), NEW f \in 1 .. F
  PROVE  np[f] \in 0 .. p.size /\ Takes(p, head[f], np[f]) /\ Arity(p, head[f]) = np[f]
<1> DEFINE h == head[f]
           n == np[f]
<1>1. /\ h \in Nat /\ head[f + 1] \in Nat /\ n \in Nat /\ h + n + 1 < head[f + 1]
      /\ head[f + 1] <= p.size /\ DOMAIN p.code = 0 .. p.size - 1 /\ p.size \in Nat
  BY ArrangedNumbers
<1>2. /\ \A i \in h + 1 .. h + n : OpAt(p, i) = "PARAM"
      /\ \A i \in h + n + 1 .. head[f + 1] - 1 : OpAt(p, i) # "PARAM"
  BY DEF Arranged
<1> HIDE DEF h, n
<1>3. n \in 0 .. p.size /\ h + n + 1 \in DOMAIN p.code
  BY <1>1
<1>4. OpAt(p, h + n + 1) # "PARAM"
  <2>1. h + n + 1 \in h + n + 1 .. head[f + 1] - 1
    BY <1>1
  <2> QED BY <2>1, <1>2
<1>5. Takes(p, h, n)
  BY <1>2, <1>3, <1>4 DEF Takes
<1>6. ASSUME NEW k \in 0 .. p.size, Takes(p, h, k)
      PROVE  k = n
  <2>1. ~ (k < n)
    <3>1. SUFFICES ASSUME k < n PROVE FALSE
      OBVIOUS
    <3>2. h + k + 1 \in h + 1 .. h + n
      BY <3>1, <1>1
    <3> QED BY <3>2, <1>2, <1>6 DEF Takes
  <2>2. ~ (n < k)
    <3>1. SUFFICES ASSUME n < k PROVE FALSE
      OBVIOUS
    <3>2. h + n + 1 \in h + 1 .. h + k
      BY <3>1, <1>1
    <3> QED BY <3>2, <1>4, <1>6 DEF Takes
  <2> QED BY <2>1, <2>2, <1>1
<1>7. Arity(p, h) = n
  <2>1. Arity(p, h) \in 0 .. p.size /\ Takes(p, h, Arity(p, h))
    BY <1>3, <1>5 DEF Arity
  <2> QED BY <2>1, <1>6
<1> QED BY <1>3, <1>5, <1>7 DEF h, n

(* Control stays in the bodies: a body ends in a transfer, jumps lead into *)
(* the body they stand in, and a call to a function has its ARGs behind it. *)
Flowing(p, F, head, np) ==
  /\ \A i \in 0 .. p.global_len - 1 : OpAt(p, i) \notin Transfers \cup {"CALL"}
  /\ \A f \in 1 .. F :
       LET body == head[f] + np[f] + 1 .. head[f + 1] - 1
       IN /\ OpAt(p, head[f + 1] - 1) \in Transfers
          /\ \A i \in body :
               /\ OpAt(p, i) = "JMP" => p.code[i].target \in body
               /\ OpAt(p, i) = "JIF" => p.code[i].target1 \in body /\ p.code[i].target2 \in body
               /\ OpAt(p, i) = "CALL" /\ p.code[i].target >= 0 =>
                    \E g \in 1 .. F :
                      /\ p.code[i].target = head[g] /\ i + np[g] < head[f + 1]
                      /\ \A j \in i + 1 .. i + np[g] : OpAt(p, j) = "ARG"

(* main is a function without parameters, and entry_end is in a function. *)
Entered(p, F, head, np) ==
  /\ \E f \in 1 .. F : p.entry = head[f] /\ np[f] = 0
  /\ p.entry_end \in p.global_len .. p.size - 1

(* What lies behind the PARAMs is the body. *)
LEMMA ArrangedBody ==
  ASSUME NEW p, NEW F, NEW head, NEW np, Arranged(p, F, head, np),
         NEW f \in 1 .. F, NEW i \in head[f] + np[f] + 1 .. head[f + 1] - 1
  PROVE  Body(p, head[f], i)
<1>1. i \in head[f] .. head[f + 1] - 1 /\ head[f] + np[f] < i
  BY ArrangedNumbers
<1> QED BY <1>1, ArrangedHeads, ArrangedArity DEF Body

(* Execution that does not transfer stays in its function. *)
LEMMA ArrangedNext ==
  ASSUME NEW p, NEW F, NEW head, NEW np, Arranged(p, F, head, np), Flowing(p, F, head, np),
         NEW f \in 1 .. F, NEW i \in head[f] .. head[f + 1] - 1, OpAt(p, i) \notin Transfers
  PROVE  i + 1 \in DOMAIN p.code /\ OpAt(p, i + 1) # "FUNC" /\ i + 1 < head[f + 1]
<1>1. i # head[f + 1] - 1
  BY DEF Flowing
<1>2. /\ head[f] \in Nat /\ head[f + 1] \in Nat /\ np[f] \in Nat /\ head[f + 1] <= p.size
      /\ DOMAIN p.code = 0 .. p.size - 1 /\ p.size \in Nat
  BY ArrangedNumbers
<1>3. i + 1 \in head[f] + 1 .. head[f + 1] - 1 /\ i + 1 \in DOMAIN p.code
  BY <1>1, <1>2
<1>4. OpAt(p, i + 1) # "FUNC"
  <2>1. CASE i + 1 <= head[f] + np[f]
    <3>1. i + 1 \in head[f] + 1 .. head[f] + np[f]
      BY <2>1, <1>3, <1>2
    <3> QED BY <3>1 DEF Arranged
  <2>2. CASE ~ (i + 1 <= head[f] + np[f])
    <3>1. i + 1 \in head[f] + np[f] + 1 .. head[f + 1] - 1
      BY <2>2, <1>2, <1>3
    <3> QED BY <3>1 DEF Arranged
  <2> QED BY <2>1, <2>2
<1> QED BY <1>2, <1>3, <1>4

(* So every FUNC and PARAM belongs to a function, ... *)
LEMMA ArrangedFunctions ==
  ASSUME NEW p, NEW F, NEW head, NEW np, Arranged(p, F, head, np)
  PROVE  FunctionsOK(p)
<1> SUFFICES ASSUME NEW i \in DOMAIN p.code, i >= p.global_len
             PROVE  /\ \E f \in DOMAIN p.code : Heads(p, f, i) /\ f >= p.global_len
                    /\ OpAt(p, i) = "FUNC" => \E k \in 0 .. p.size : Takes(p, i, k)
                    /\ OpAt(p, i) = "PARAM" => i <= FuncOf(p, i) + Arity(p, FuncOf(p, i))
  BY DEF FunctionsOK
<1>1. i \in p.global_len .. p.size - 1
  BY DEF Arranged
<1>2. PICK f \in 1 .. F : i \in head[f] .. head[f + 1] - 1
  BY <1>1 DEF Arranged
<1>3. /\ Heads(p, head[f], i) /\ head[f] \in DOMAIN p.code /\ head[f] >= p.global_len
      /\ FuncOf(p, i) = head[f]
  BY <1>2, ArrangedHeads
<1>4. np[f] \in 0 .. p.size /\ Takes(p, head[f], np[f]) /\ Arity(p, head[f]) = np[f]
  BY ArrangedArity
<1>5. head[f] \in Nat /\ head[f + 1] \in Nat /\ np[f] \in Nat
  BY ArrangedNumbers
<1>6. i = head[f] \/ i \in head[f] + 1 .. head[f] + np[f] \/ i \in head[f] + np[f] + 1 .. head[f + 1] - 1
  BY <1>2, <1>5
<1>7. OpAt(p, i) = "FUNC" => i = head[f]
  BY <1>6 DEF Arranged
<1>8. OpAt(p, i) = "PARAM" => i <= head[f] + np[f]
  BY <1>2, <1>5, <1>6 DEF Arranged
<1> QED BY <1>3, <1>4, <1>7, <1>8

(* ... control stays in the body it is in, ... *)
LEMMA ArrangedFlow ==
  ASSUME NEW p, NEW F, NEW head, NEW np, Arranged(p, F, head, np), Flowing(p, F, head, np)
  PROVE  FlowOK(p)
<1> SUFFICES ASSUME NEW i \in DOMAIN p.code, i >= p.global_len
             PROVE  /\ OpAt(p, i) \notin Transfers =>
                         i + 1 \in DOMAIN p.code /\ OpAt(p, i + 1) # "FUNC"
                    /\ OpAt(p, i) = "JMP" => Body(p, FuncOf(p, i), p.code[i].target)
                    /\ OpAt(p, i) = "JIF" => /\ Body(p, FuncOf(p, i), p.code[i].target1)
                                             /\ Body(p, FuncOf(p, i), p.code[i].target2)
  BY DEF FlowOK
<1>1. i \in p.global_len .. p.size - 1
  BY DEF Arranged
<1>2. PICK f \in 1 .. F : i \in head[f] .. head[f + 1] - 1
  BY <1>1 DEF Arranged
<1>3. FuncOf(p, i) = head[f]
  BY <1>2, ArrangedHeads
<1>4. OpAt(p, i) \notin Transfers => i + 1 \in DOMAIN p.code /\ OpAt(p, i + 1) # "FUNC"
  BY <1>2, ArrangedNext
<1> DEFINE body == head[f] + np[f] + 1 .. head[f + 1] - 1
<1>5. head[f] \in Nat /\ head[f + 1] \in Nat /\ np[f] \in Nat
  BY ArrangedNumbers
<1>6. i = head[f] \/ i \in head[f] + 1 .. head[f] + np[f] \/ i \in body
  BY <1>2, <1>5
<1>7. OpAt(p, i) \in {"JMP", "JIF"} => i \in body
  BY <1>6 DEF Arranged
<1>8. /\ OpAt(p, i) = "JMP" => p.code[i].target \in body
      /\ OpAt(p, i) = "JIF" => p.code[i].target1 \in body /\ p.code[i].target2 \in body
  BY <1>7 DEF Flowing
<1>9. \A t \in body : Body(p, head[f], t)
  BY ArrangedBody
<1> HIDE DEF body
<1> QED BY <1>3, <1>4, <1>8, <1>9

(* ... every call finds its ARGs behind it, ... *)
LEMMA ArrangedCalls ==
  ASSUME NEW p, NEW F, NEW head, NEW np, Arranged(p, F, head, np), Flowing(p, F, head, np)
  PROVE  CallsOK(p)
<1> SUFFICES ASSUME NEW i \in DOMAIN p.code, OpAt(p, i) = "CALL", p.code[i].target >= 0
             PROVE  LET f == p.code[i].target
                    IN /\ f \in DOMAIN p.code /\ f >= p.global_len /\ OpAt(p, f) = "FUNC"
                       /\ i + Arity(p, f) + 1 \in DOMAIN p.code
                       /\ \A j \in i + 1 .. i + Arity(p, f) : OpAt(p, j) = "ARG"
                       /\ OpAt(p, i + Arity(p, f) + 1) # "FUNC"
  BY DEF CallsOK
<1>1. i \in p.global_len .. p.size - 1
  BY DEF Arranged, Flowing
<1>2. PICK f \in 1 .. F : i \in head[f] .. head[f + 1] - 1
  BY <1>1 DEF Arranged
<1>3. head[f] \in Nat /\ head[f + 1] \in Nat /\ np[f] \in Nat
  BY ArrangedNumbers
<1>4. i \in head[f] + np[f] + 1 .. head[f + 1] - 1
  <2>1. i = head[f] \/ i \in head[f] + 1 .. head[f] + np[f] \/ i \in head[f] + np[f] + 1 .. head[f + 1] - 1
    BY <1>2, <1>3
  <2> QED BY <2>1 DEF Arranged
<1>5. PICK g \in 1 .. F : /\ p.code[i].target = head[g] /\ i + np[g] < head[f + 1]
                          /\ \A j \in i + 1 .. i + np[g] : OpAt(p, j) = "ARG"
  BY <1>4 DEF Flowing
<1>6. np[g] \in Nat /\ Arity(p, head[g]) = np[g]
  BY ArrangedArity, ArrangedNumbers
<1>7. head[g] \in DOMAIN p.code /\ head[g] >= p.global_len /\ OpAt(p, head[g]) = "FUNC"
  <2>1. head[g] \in head[g] .. head[g + 1] - 1
    BY ArrangedNumbers
  <2> QED BY <2>1, ArrangedHeads DEF Arranged
<1>8. i + np[g] \in head[f] .. head[f + 1] - 1 /\ i \in Nat
  BY <1>2, <1>3, <1>5, <1>6
<1>9. OpAt(p, i + np[g]) \notin Transfers
  <2>1. OpAt(p, i + np[g]) \in {"CALL", "ARG"}
    <3>1. CASE np[g] = 0
      BY <3>1, <1>8
    <3>2. CASE np[g] # 0
      <4>1. i + np[g] \in i + 1 .. i + np[g]
        BY <3>2, <1>6, <1>8
      <4> QED BY <4>1, <1>5
    <3> QED BY <3>1, <3>2
  <2> QED BY <2>1 DEF Transfers
<1>10. i + np[g] + 1 \in DOMAIN p.code /\ OpAt(p, i + np[g] + 1) # "FUNC"
  BY <1>8, <1>9, ArrangedNext
<1> QED BY <1>5, <1>6, <1>7, <1>10

(* ... and the program is well linked. *)
LEMMA ArrangedWell ==
  ASSUME NEW p, NEW F, NEW head, NEW np,
         Arranged(p, F, head, np), Flowing(p, F, head, np), Entered(p, F, head, np)
  PROVE  WellLinked(p)
<1>1. \A f \in 1 .. F : /\ head[f] \in p.global_len .. p.size - 1
                        /\ OpAt(p, head[f]) = "FUNC" /\ Arity(p, head[f]) = np[f]
  <2> TAKE f \in 1 .. F
  <2>1. /\ head[f] \in Nat /\ p.global_len \in Nat /\ p.size \in Nat /\ head[f + 1] \in Nat
        /\ np[f] \in Nat /\ p.global_len <= head[f] /\ head[f] + np[f] + 1 < head[f + 1]
        /\ head[f + 1] <= p.size /\ OpAt(p, head[f]) = "FUNC"
    BY ArrangedNumbers DEF Arranged
  <2> QED BY <2>1, ArrangedArity
<1>2. 1 \in 1 .. F /\ p.global_len = head[1] /\ p.global_len \in Nat /\ p.size \in Nat
      /\ DOMAIN p.code = 0 .. p.size - 1
  BY DEF Arranged
<1>3. WellFormed(p)
  <2>1. PICK f \in 1 .. F : p.entry = head[f] /\ np[f] = 0
    BY DEF Entered
  <2>2. p.entry \in p.global_len .. p.size - 1 /\ OpAt(p, p.entry) = "FUNC" /\ Arity(p, p.entry) = 0
    BY <2>1, <1>1
  <2>3. p.global_len \in DOMAIN p.code /\ OpAt(p, p.global_len) = "FUNC"
    BY <1>1, <1>2
  <2> QED BY <2>2, <2>3, <1>2 DEF WellFormed, Entered
<1>4. GlobalsOK(p)
  BY DEF GlobalsOK, Arranged, Flowing
<1> QED BY <1>3, <1>4, ArrangedFunctions, ArrangedFlow, ArrangedCalls DEF WellLinked

-----------------------------------------------------------------------------
(* What relocation does to the blocks *)

Fix(blocks, x) == fixCall(blocks, fixJmp(blocks, x))

(* Relocation leaves any other instruction alone. *)
LEMMA FixOther ==
  ASSUME NEW blocks, NEW x, x.op \notin {"JMP", "JIF", "CALL"}
  PROVE  Fix(blocks, x) = x
<1>1. fixJmp(blocks, x) = x
  BY Zenon DEF fixJmp
<1> QED BY <1>1, Zenon DEF Fix, fixCall

(* A JMP gets the address of its label. *)
LEMMA FixJump ==
  ASSUME NEW blocks, NEW to
  PROVE  Fix(blocks, [op |-> "JMP", label |-> to]) =
           [op |-> "JMP", target |-> Target(blocks, to, FALSE)]
<1> DEFINE x == [op |-> "JMP", label |-> to]
           z == [op |-> "JMP", target |-> Target(blocks, to, FALSE)]
<1>1. x.op = "JMP" /\ x.label = to /\ z.op # "CALL"
  OBVIOUS
<1>2. fixJmp(blocks, x) = z
  <2> HIDE DEF x
  <2> QED BY <1>1, Zenon DEF fixJmp
<1>3. fixCall(blocks, z) = z
  BY <1>1, Zenon DEF fixCall
<1> QED BY <1>2, <1>3 DEF Fix

(* A JIF gets the addresses of both labels. *)
LEMMA FixBranch ==
  ASSUME NEW blocks, NEW yes, NEW no
  PROVE  Fix(blocks, [op |-> "JIF", label1 |-> yes, label2 |-> no]) =
           [op |-> "JIF", target1 |-> Target(blocks, yes, FALSE),
            target2 |-> Target(blocks, no, FALSE)]
<1> DEFINE x == [op |-> "JIF", label1 |-> yes, label2 |-> no]
           z == [op |-> "JIF", target1 |-> Target(blocks, yes, FALSE),
                 target2 |-> Target(blocks, no, FALSE)]
<1>1. x.op = "JIF" /\ x.op # "JMP" /\ x.label1 = yes /\ x.label2 = no /\ z.op # "CALL"
  OBVIOUS
<1>2. fixJmp(blocks, x) = z
  <2> HIDE DEF x
  <2> QED BY <1>1, Zenon DEF fixJmp
<1>3. fixCall(blocks, z) = z
  BY <1>1, Zenon DEF fixCall
<1> QED BY <1>2, <1>3 DEF Fix

CallTarget(blocks, name) == IF name \in DOMAIN BuiltinIndex THEN BuiltinIndex[name]
                            ELSE Target(blocks, name, TRUE)

(* A CALL gets the address of its function, or the index of its builtin. *)
LEMMA FixCalling ==
  ASSUME NEW blocks, NEW name
  PROVE  Fix(blocks, [op |-> "CALL", name |-> name, target |-> -1]) =
           [op |-> "CALL", name |-> name, target |-> CallTarget(blocks, name)]
<1> DEFINE x == [op |-> "CALL", name |-> name, target |-> -1]
           t == CallTarget(blocks, name)
<1>1. x.op = "CALL" /\ x.op \notin {"JMP", "JIF"} /\ x.name = name
  OBVIOUS
<1>2. fixJmp(blocks, x) = x
  <2> HIDE DEF x
  <2> QED BY <1>1, Zenon DEF fixJmp
<1>3. fixCall(blocks, x) = [x EXCEPT !.target = t]
  BY <1>1 DEF fixCall, CallTarget
<1>4. [x EXCEPT !.target = t] = [op |-> "CALL", name |-> name, target |-> t]
  <2> HIDE DEF t
  <2> QED OBVIOUS
<1> QED BY <1>2, <1>3, <1>4 DEF Fix

(* A relocated block has its length, and every instruction its place. *)
LEMMA FixBlock ==
  ASSUME NEW blocks, IsVector(blocks), NEW k \in 1 .. Len(blocks), IsVector(blocks[k].insts)
  PROVE  /\ IsVector(fixBlock(blocks, k)) /\ Size(blocks, k) \in Nat
         /\ Len(fixBlock(blocks, k)) = Size(blocks, k)
         /\ k = 1 => fixBlock(blocks, k) = blocks[1].insts
         /\ k # 1 => \A j \in 1 .. Size(blocks, k) :
              fixBlock(blocks, k)[j] = Fix(blocks, blocks[k].insts[j])
<1> DEFINE s == blocks[k].insts
           n == Size(blocks, k)
<1>1. n \in Nat /\ DOMAIN s = 1 .. n
  BY VectorShape DEF Size
<1>2. CASE k = 1
  <2>1. fixBlock(blocks, k) = s
    BY <1>2 DEF fixBlock
  <2> QED BY <2>1, <1>1, <1>2 DEF Size
<1>3. CASE k # 1
  <2> DEFINE t == fixBlock(blocks, k)
  <2>1. t = [j \in DOMAIN s |-> Fix(blocks, s[j])]
    BY <1>3 DEF fixBlock, Fix
  <2> HIDE DEF t, s, n
  <2>2. t = [j \in 1 .. n |-> t[j]] /\ \A j \in 1 .. n : t[j] = Fix(blocks, s[j])
    BY <2>1, <1>1
  <2>3. IsVector(t) /\ Len(t) = n
    BY <1>1, <2>2, Vector
  <2> QED BY <1>1, <1>3, <2>2, <2>3 DEF t, s, n
<1> QED BY <1>2, <1>3

(* The instructions of every block are the globals', those of a header or  *)
(* those of a basic block.                                                 *)
Coding(ir, B, F, nb) ==
  /\ B[1].insts = genInsts(ir.globals) /\ Len(B) \in Nat
  /\ nb \in [1 .. F -> Nat \ {0}]
  /\ \A f \in 1 .. F :
       /\ B[Pos(ir, f, 0)].insts = genFunc(ir.funcs[f])
       /\ \A b \in 1 .. nb[f] : B[Pos(ir, f, b)].insts = genInsts(ir.funcs[f].blocks[b].insts)
  /\ \A k \in 2 .. Len(B) : \E f \in 1 .. F : \E b \in 0 .. nb[f] : k = Pos(ir, f, b)

(* ir2VmInst puts them there. *)
LEMMA BlockCoding ==
  ASSUME NEW ir, WellFormedIR(ir), NEW B, B = ir2VmInst(ir)
  PROVE  Coding(ir, B, Len(ir.funcs), BlockCount(ir))
<1> DEFINE F == Len(ir.funcs)
           nb == BlockCount(ir)
<1>1. /\ B[1] = Block("global_var_decl", genInsts(ir.globals)) /\ Len(B) \in Nat
      /\ nb \in [1 .. F -> Nat \ {0}]
      /\ \A f \in 1 .. F :
           /\ B[Pos(ir, f, 0)] = Block(ir.funcs[f].name, genFunc(ir.funcs[f]))
           /\ \A b \in 1 .. nb[f] :
                B[Pos(ir, f, b)] = Block(ir.funcs[f].blocks[b].name,
                                         genInsts(ir.funcs[f].blocks[b].insts))
      /\ \A k \in 2 .. Len(B) : \E f \in 1 .. F : \E b \in 0 .. nb[f] : k = Pos(ir, f, b)
  <2>1. BlocksPlaced(ir, B, F, nb)
    BY Blocks
  <2> QED BY <2>1 DEF BlocksPlaced
<1>2. \A name, insts : Block(name, insts).insts = insts
  BY DEF Block
<1> HIDE DEF F, nb
<1>3. Coding(ir, B, F, nb)
  BY <1>1, <1>2 DEF Coding
<1> QED BY <1>3 DEF F, nb

(* The blocks hold vectors of instructions. *)
LEMMA BlockVectors ==
  ASSUME NEW ir, WellFormedIR(ir), NEW B, B = ir2VmInst(ir)
  PROVE  \A k \in 1 .. Len(B) : IsVector(B[k].insts)
<1> DEFINE F == Len(ir.funcs)
           nb == BlockCount(ir)
<1>1. Coding(ir, B, F, nb)
  BY BlockCoding
<1>2. IsVector(genInsts(ir.globals))
  BY Globals, GenInsts
<1>3. \A f \in 1 .. F : /\ IsVector(genFunc(ir.funcs[f]))
                        /\ \A b \in 1 .. nb[f] : IsVector(genInsts(ir.funcs[f].blocks[b].insts))
  BY Functions, GenFunc, GenInsts
<1> HIDE DEF F, nb
<1>4. ASSUME NEW k \in 1 .. Len(B)
      PROVE  IsVector(B[k].insts)
  <2>1. CASE k = 1
    BY <2>1, <1>1, <1>2 DEF Coding
  <2>2. CASE k # 1
    <3>1. k \in 2 .. Len(B)
      BY <2>2, <1>1 DEF Coding
    <3>2. PICK f \in 1 .. F : \E b \in 0 .. nb[f] : k = Pos(ir, f, b)
      BY <3>1, <1>1 DEF Coding
    <3>3. PICK b \in 0 .. nb[f] : k = Pos(ir, f, b)
      BY <3>2
    <3>4. b = 0 \/ b \in 1 .. nb[f]
      BY <1>1 DEF Coding
    <3> QED BY <3>3, <3>4, <1>1, <1>3 DEF Coding
  <2> QED BY <2>1, <2>2
<1> QED BY <1>4

(* Where block k begins in the linked code, and where block N ends. *)
Starts(ir) == Offsets(Code(ir2VmInst(ir)))

Started(B, S) ==
  /\ Len(B) \in Nat \ {0, 1} /\ DOMAIN B = 1 .. Len(B)
  /\ S \in [0 .. Len(B) -> Nat] /\ S[0] = 0
  /\ \A k \in 1 .. Len(B) : Size(B, k) \in Nat /\ S[k] = S[k - 1] + Size(B, k)
  /\ \A m \in 0 .. Len(B) : \A k \in 0 .. m : S[k] <= S[m]
  /\ \A i \in 1 .. S[Len(B)] : \E k \in 1 .. Len(B) : \E j \in 1 .. Size(B, k) : i = S[k - 1] + j
  /\ Nested(Code(B)) /\ Len(Code(B)) = Len(B)
  /\ \A k \in 1 .. Len(B) : Code(B)[k] = B[k].insts

(* The starts of the blocks are the sums of the sizes before them. *)
LEMMA StartsShape ==
  ASSUME NEW ir, WellFormedIR(ir), NEW B, B = ir2VmInst(ir), NEW S, S = Starts(ir)
  PROVE  Started(B, S)
<1> DEFINE N == Len(B)
           c == Code(B)
<1>1. IsVector(B) /\ N \in Nat /\ DOMAIN B = 1 .. N /\ 2 \in 2 .. N
  <2> DEFINE F == Len(ir.funcs)
             nb == BlockCount(ir)
  <2>1. BlocksPlaced(ir, B, F, nb)
    BY Blocks
  <2>2. Len(ir.funcs) \in Nat \ {0} /\ BlockCount(ir) \in [1 .. Len(ir.funcs) -> Nat \ {0}]
    BY Functions
  <2> HIDE DEF F, nb
  <2>3. 1 \in 1 .. F /\ 0 \in 0 .. nb[1]
    BY <2>2 DEF F, nb
  <2>4. Pos(ir, 1, 0) \in 2 .. N /\ Pos(ir, 1, 0) = 2 /\ IsVector(B)
    BY <2>1, <2>3 DEF BlocksPlaced
  <2> QED BY <2>4, VectorShape
<1>2. c = [k \in 1 .. N |-> c[k]] /\ \A k \in 1 .. N : c[k] = B[k].insts
  BY <1>1 DEF Code
<1>3. \A k \in 1 .. N : IsVector(c[k]) /\ Len(c[k]) = Size(B, k)
  BY <1>2, BlockVectors DEF Size
<1>4. S = Offsets(c)
  BY DEF Starts
<1> HIDE DEF c, N
<1>5. Nested(c) /\ Len(c) = N
  BY <1>1, <1>2, <1>3, Vector DEF Nested
<1>6. /\ S \in [0 .. N -> Nat] /\ S[0] = 0
      /\ \A k \in 1 .. N : S[k] = S[k - 1] + Size(B, k)
  BY <1>3, <1>4, <1>5, OffsetsShape
<1>7. \A m \in 0 .. N : \A k \in 0 .. m : S[k] <= S[m]
  BY <1>4, <1>5, OffsetsGrow
<1>8. \A i \in 1 .. S[N] : \E k \in 1 .. N : \E j \in 1 .. Size(B, k) : i = S[k - 1] + j
  BY <1>3, <1>4, <1>5, PlaceExists
<1>9. \A k \in 1 .. N : Size(B, k) \in Nat
  BY <1>3, VectorShape
<1> QED BY <1>1, <1>2, <1>5, <1>6, <1>7, <1>8, <1>9 DEF c, N, Started

(* Blocks of the sizes of the program's, one behind the other from address *)
(* 0 on.                                                                   *)
FlatAt(V, B, S) ==
  /\ Len(FlattenSeq(V)) = S[Len(B)]
  /\ \A k \in 1 .. Len(B) : \A j \in 1 .. Size(B, k) :
       /\ S[k - 1] + j - 1 \in 0 .. Len(FlattenSeq(V)) - 1
       /\ [i \in 0 .. Len(FlattenSeq(V)) - 1 |-> FlattenSeq(V)[i + 1]][S[k - 1] + j - 1] = V[k][j]

(* Blocks of the sizes of B, flattened: place j of block k is at its start *)
(* plus j.                                                                 *)
LEMMA FlatBlocks ==
  ASSUME NEW ir, WellFormedIR(ir), NEW B, B = ir2VmInst(ir), NEW S, S = Starts(ir),
         NEW V, IsVector(V), Len(V) = Len(B),
         \A k \in 1 .. Len(B) : IsVector(V[k]) /\ Len(V[k]) = Size(B, k)
  PROVE  FlatAt(V, B, S)
<1> DEFINE N == Len(B)
           flat == FlattenSeq(V)
<1>1. /\ N \in Nat /\ S \in [0 .. N -> Nat]
      /\ \A k \in 1 .. N : Size(B, k) \in Nat /\ S[k] = S[k - 1] + Size(B, k)
      /\ \A m \in 0 .. N : \A k \in 0 .. m : S[k] <= S[m]
  BY StartsShape DEF Started
<1>2. /\ Nested(Code(B)) /\ Len(Code(B)) = N /\ \A k \in 1 .. N : Code(B)[k] = B[k].insts
  BY StartsShape DEF Started
<1>3. Nested(V)
  BY DEF Nested
<1>4. Offsets(V) = S
  BY <1>2, <1>3, OffsetsSame DEF Starts, Size
<1> HIDE DEF N
<1>5. /\ Len(flat) = S[N]
      /\ \A k \in 1 .. N : \A j \in 1 .. Size(B, k) : flat[S[k - 1] + j] = V[k][j]
  BY <1>3, <1>4, FlattenPlaces DEF N
<1> HIDE DEF flat
<1>6. ASSUME NEW k \in 1 .. N, NEW j \in 1 .. Size(B, k)
      PROVE  /\ S[k - 1] + j - 1 \in 0 .. Len(flat) - 1
             /\ [i \in 0 .. Len(flat) - 1 |-> flat[i + 1]][S[k - 1] + j - 1] = V[k][j]
  <2> DEFINE a == S[k - 1]
             z == S[k]
             n == Size(B, k)
  <2>1. k - 1 \in 0 .. N /\ k \in 0 .. N /\ N \in 0 .. N
    BY <1>1
  <2>2. a \in Nat /\ n \in Nat /\ z = a + n /\ z <= S[N] /\ S[N] \in Nat /\ j \in 1 .. n
    BY <2>1, <1>1
  <2>3. flat[a + j] = V[k][j]
    BY <1>5
  <2> HIDE DEF a, z, n
  <2>4. a + j - 1 \in 0 .. Len(flat) - 1 /\ (a + j - 1) + 1 = a + j
    BY <2>2, <1>5
  <2>5. [i \in 0 .. Len(flat) - 1 |-> flat[i + 1]][a + j - 1] = V[k][j]
    BY <2>3, <2>4
  <2> QED BY <2>4, <2>5 DEF a
<1> QED BY <1>5, <1>6 DEF N, flat, FlatAt

(* Every block has as many origins as instructions. *)
LEMMA OriginSizes ==
  ASSUME NEW ir, WellFormedIR(ir), NEW B, B = ir2VmInst(ir), NEW W, W = OriginBlocks(ir)
  PROVE  /\ IsVector(W) /\ Len(W) = Len(B)
         /\ \A k \in 1 .. Len(B) : IsVector(W[k]) /\ Len(W[k]) = Size(B, k)
<1> DEFINE F == Len(ir.funcs)
           nb == BlockCount(ir)
<1>1. /\ B[1] = Block("global_var_decl", genInsts(ir.globals)) /\ Len(B) \in Nat
      /\ nb \in [1 .. F -> Nat \ {0}]
      /\ \A f \in 1 .. F :
           /\ B[Pos(ir, f, 0)] = Block(ir.funcs[f].name, genFunc(ir.funcs[f]))
           /\ \A b \in 1 .. nb[f] :
                B[Pos(ir, f, b)] = Block(ir.funcs[f].blocks[b].name,
                                         genInsts(ir.funcs[f].blocks[b].insts))
      /\ \A k \in 2 .. Len(B) : \E f \in 1 .. F : \E b \in 0 .. nb[f] : k = Pos(ir, f, b)
  <2>1. BlocksPlaced(ir, B, F, nb)
    BY Blocks
  <2> QED BY <2>1 DEF BlocksPlaced
<1>2. \A k : \A name, insts : B[k] = Block(name, insts) => Size(B, k) = Len(insts)
  BY DEF Block, Size
<1>3. /\ IsVector(W) /\ Len(W) = Len(B) /\ W[1] = Origin(0, 1, ir.globals)
      /\ \A f \in 1 .. F :
           /\ W[Pos(ir, f, 0)] = HeaderOrigin(f, ir.funcs[f])
           /\ \A b \in 1 .. nb[f] : W[Pos(ir, f, b)] = Origin(f, b, ir.funcs[f].blocks[b].insts)
  <2>1. OriginsPlaced(ir, W, F, nb)
    BY Origins
  <2> QED BY <2>1 DEF OriginsPlaced
<1>4. IsVector(W[1]) /\ Len(W[1]) = Size(B, 1)
  <2>1. IsVector(Origin(0, 1, ir.globals))
        /\ Len(Origin(0, 1, ir.globals)) = Len(genInsts(ir.globals))
    BY Globals, OriginShape
  <2>2. Size(B, 1) = Len(genInsts(ir.globals))
    BY <1>1, <1>2
  <2> QED BY <2>1, <2>2, <1>3
<1>5. ASSUME NEW f \in 1 .. F
      PROVE  /\ IsVector(W[Pos(ir, f, 0)]) /\ Len(W[Pos(ir, f, 0)]) = Size(B, Pos(ir, f, 0))
             /\ \A b \in 1 .. nb[f] : /\ IsVector(W[Pos(ir, f, b)])
                                      /\ Len(W[Pos(ir, f, b)]) = Size(B, Pos(ir, f, b))
  <2>1. /\ IsVector(ir.funcs[f].params)
        /\ \A b \in 1 .. nb[f] : InstsOK(ir.funcs[f].blocks[b].insts)
    BY Functions
  <2>2. /\ IsVector(HeaderOrigin(f, ir.funcs[f]))
        /\ Len(HeaderOrigin(f, ir.funcs[f])) = Len(ir.funcs[f].params) + 1
        /\ Len(genFunc(ir.funcs[f])) = Len(ir.funcs[f].params) + 1
    BY <2>1, HeaderOriginShape, GenFunc
  <2>3. \A b \in 1 .. nb[f] :
          /\ IsVector(Origin(f, b, ir.funcs[f].blocks[b].insts))
          /\ Len(Origin(f, b, ir.funcs[f].blocks[b].insts)) = Len(genInsts(ir.funcs[f].blocks[b].insts))
    BY <2>1, OriginShape
  <2> HIDE DEF F, nb
  <2>4. Size(B, Pos(ir, f, 0)) = Len(genFunc(ir.funcs[f]))
        /\ \A b \in 1 .. nb[f] : Size(B, Pos(ir, f, b)) = Len(genInsts(ir.funcs[f].blocks[b].insts))
    <3>1. B[Pos(ir, f, 0)] = Block(ir.funcs[f].name, genFunc(ir.funcs[f]))
      BY <1>1
    <3>2. \A b \in 1 .. nb[f] :
            B[Pos(ir, f, b)] = Block(ir.funcs[f].blocks[b].name,
                                     genInsts(ir.funcs[f].blocks[b].insts))
      BY <1>1
    <3> QED BY <3>1, <3>2, <1>2
  <2> QED BY <2>2, <2>3, <2>4, <1>3
<1> HIDE DEF F, nb
<1>6. ASSUME NEW k \in 1 .. Len(B)
      PROVE  IsVector(W[k]) /\ Len(W[k]) = Size(B, k)
  <2>1. CASE k = 1
    BY <2>1, <1>4
  <2>2. CASE k # 1
    <3>1. k \in 2 .. Len(B)
      BY <2>2, <1>1
    <3>2. PICK f \in 1 .. F : \E b \in 0 .. nb[f] : k = Pos(ir, f, b)
      BY <3>1, <1>1
    <3>3. PICK b \in 0 .. nb[f] : k = Pos(ir, f, b)
      BY <3>2
    <3>4. b = 0 \/ b \in 1 .. nb[f]
      BY <1>1
    <3> QED BY <3>3, <3>4, <1>5
  <2> QED BY <2>1, <2>2
<1> QED BY <1>3, <1>6

(* The linked code, and its layout, at the place of instruction j of block *)
(* k.                                                                      *)
LinkedAt(ir, B, S, p, W, y) ==
  /\ p.size = S[Len(B)] /\ DOMAIN p.code = 0 .. p.size - 1 /\ p.global_len = S[1]
  /\ DOMAIN y = 0 .. p.size - 1 /\ p.size \in Nat
  /\ p.entry = S[LastNamed(B, ENTRY_FUNC) - 1]
  /\ p.entry_end = End(B, LastNamed(B, EntryEndBlock(ir)))
  /\ \A k \in 1 .. Len(B) : \A j \in 1 .. Size(B, k) :
       /\ S[k - 1] + j - 1 \in 0 .. p.size - 1
       /\ p.code[S[k - 1] + j - 1] = fixBlock(B, k)[j]
       /\ y[S[k - 1] + j - 1] = W[k][j]
  /\ \A i \in 0 .. p.size - 1 : \E k \in 1 .. Len(B) : \E j \in 1 .. Size(B, k) :
       i = S[k - 1] + j - 1

(* The linked code and the layout run in step, block by block. *)
LEMMA LinkedCode ==
  ASSUME NEW ir, WellFormedIR(ir), NEW B, B = ir2VmInst(ir), NEW S, S = Starts(ir),
         NEW p, p = Link(ir), NEW W, W = OriginBlocks(ir), NEW y, y = LayoutOf(ir)
  PROVE  LinkedAt(ir, B, S, p, W, y)
<1> DEFINE fixed == [k \in DOMAIN B |-> fixBlock(B, k)]
           N == Len(B)
           flat == FlattenSeq(fixed)
           lay == FlattenSeq(W)
<1>1. /\ N \in Nat \ {0, 1} /\ DOMAIN B = 1 .. N /\ IsVector(B)
      /\ S \in [0 .. N -> Nat] /\ S[0] = 0 /\ S[1] = S[1 - 1] + Size(B, 1) /\ Size(B, 1) \in Nat
      /\ \A k \in 1 .. N : Size(B, k) \in Nat
      /\ \A i \in 1 .. S[N] : \E k \in 1 .. N : \E j \in 1 .. Size(B, k) : i = S[k - 1] + j
  <2>1. N \in Nat \ {0, 1}
    <3>1. Started(B, S)
      BY StartsShape
    <3> QED BY <3>1 DEF Started
  <2>2. 1 \in 1 .. N
    BY <2>1
  <2>3. IsVector(B)
    <3>1. BlocksPlaced(ir, B, Len(ir.funcs), BlockCount(ir))
      BY Blocks
    <3> QED BY <3>1 DEF BlocksPlaced
  <2>4. Started(B, S)
    BY StartsShape
  <2> QED BY <2>1, <2>2, <2>3, <2>4 DEF Started
<1>2. \A k \in 1 .. N : IsVector(fixBlock(B, k)) /\ Len(fixBlock(B, k)) = Size(B, k)
  BY <1>1, BlockVectors, FixBlock
<1>3. fixed = [k \in 1 .. N |-> fixed[k]] /\ \A k \in 1 .. N : fixed[k] = fixBlock(B, k)
  BY <1>1
<1>4. /\ p.size = Len(flat) /\ p.code = [i \in 0 .. Len(flat) - 1 |-> flat[i + 1]]
      /\ p.entry = S[LastNamed(B, ENTRY_FUNC) - 1]
      /\ p.entry_end = End(B, LastNamed(B, EntryEndBlock(ir)))
      /\ p.global_len = Size(B, 1)
  BY DEF Link, relocation, Offset, Starts
<1>5. y = [i \in 0 .. Len(lay) - 1 |-> lay[i + 1]]
  BY DEF LayoutOf
<1> HIDE DEF fixed, N
<1>6. IsVector(fixed) /\ Len(fixed) = N
  BY <1>1, <1>3, Vector
<1>7. \A k \in 1 .. N : IsVector(fixed[k]) /\ Len(fixed[k]) = Size(B, k)
  BY <1>2, <1>3
<1>8. /\ Len(flat) = S[N]
      /\ \A k \in 1 .. N : \A j \in 1 .. Size(B, k) :
           /\ S[k - 1] + j - 1 \in 0 .. Len(flat) - 1
           /\ [i \in 0 .. Len(flat) - 1 |-> flat[i + 1]][S[k - 1] + j - 1] = fixed[k][j]
  <2>1. FlatAt(fixed, B, S)
    BY <1>6, <1>7, FlatBlocks DEF N
  <2> QED BY <2>1 DEF FlatAt, flat, N
<1>9. /\ Len(lay) = S[N]
      /\ \A k \in 1 .. N : \A j \in 1 .. Size(B, k) :
           [i \in 0 .. Len(lay) - 1 |-> lay[i + 1]][S[k - 1] + j - 1] = W[k][j]
  <2>1. FlatAt(W, B, S)
    BY OriginSizes, FlatBlocks
  <2> QED BY <2>1 DEF FlatAt, lay, N
<1> HIDE DEF flat, lay
<1>10. /\ p.size = S[N] /\ DOMAIN p.code = 0 .. p.size - 1 /\ DOMAIN y = 0 .. p.size - 1
       /\ p.size \in Nat
  <2>1. N \in 0 .. N
    BY <1>1
  <2> QED BY <2>1, <1>1, <1>4, <1>5, <1>8, <1>9
<1>11. p.global_len = S[1]
  BY <1>1, <1>4
<1>12. ASSUME NEW k \in 1 .. N, NEW j \in 1 .. Size(B, k)
       PROVE  /\ S[k - 1] + j - 1 \in 0 .. p.size - 1
              /\ p.code[S[k - 1] + j - 1] = fixBlock(B, k)[j]
              /\ y[S[k - 1] + j - 1] = W[k][j]
  BY <1>3, <1>4, <1>5, <1>8, <1>9
<1>13. ASSUME NEW i \in 0 .. p.size - 1
       PROVE  \E k \in 1 .. N : \E j \in 1 .. Size(B, k) : i = S[k - 1] + j - 1
  <2>1. i + 1 \in 1 .. S[N]
    BY <1>10
  <2>2. PICK k \in 1 .. N : \E j \in 1 .. Size(B, k) : i + 1 = S[k - 1] + j
    BY <2>1, <1>1
  <2>3. PICK j \in 1 .. Size(B, k) : i + 1 = S[k - 1] + j
    BY <2>2
  <2>4. i = S[k - 1] + j - 1
    <3> DEFINE a == S[k - 1]
    <3>1. k - 1 \in 0 .. N /\ Size(B, k) \in Nat
      BY <1>1
    <3>2. a \in Nat /\ j \in Int /\ i \in Int /\ i + 1 = a + j
      BY <3>1, <2>3, <1>1, <1>10
    <3> HIDE DEF a
    <3>3. i = a + j - 1
      BY <3>2
    <3> QED BY <3>3 DEF a
  <2> QED BY <2>4
<1> QED BY <1>4, <1>10, <1>11, <1>12, <1>13 DEF N, LinkedAt

-----------------------------------------------------------------------------
(* What names stand for *)

(* A name stands for one block of the generated program. *)
LEMMA Named ==
  ASSUME NEW ir, WellFormedIR(ir), NEW B, B = ir2VmInst(ir),
         NEW f \in 1 .. Len(ir.funcs), NEW b \in 0 .. BlockCount(ir)[f]
  PROVE  /\ Pos(ir, f, b) \in 2 .. Len(B) /\ B[Pos(ir, f, b)].name = NameOf(ir, f, b)
         /\ \A k \in 2 .. Len(B) : B[k].name = NameOf(ir, f, b) => k = Pos(ir, f, b)
<1> DEFINE F == Len(ir.funcs)
           nb == BlockCount(ir)
<1>1. /\ Len(B) \in Nat /\ nb \in [1 .. F -> Nat \ {0}]
      /\ \A g \in 1 .. F :
           /\ \A c \in 0 .. nb[g] : Pos(ir, g, c) \in 2 .. Len(B)
           /\ B[Pos(ir, g, 0)] = Block(ir.funcs[g].name, genFunc(ir.funcs[g]))
           /\ \A c \in 1 .. nb[g] :
                B[Pos(ir, g, c)] = Block(ir.funcs[g].blocks[c].name,
                                         genInsts(ir.funcs[g].blocks[c].insts))
      /\ \A k \in 2 .. Len(B) : \E g \in 1 .. F : \E c \in 0 .. nb[g] : k = Pos(ir, g, c)
  <2>1. BlocksPlaced(ir, B, F, nb)
    BY Blocks
  <2> QED BY <2>1 DEF BlocksPlaced
<1>2. \A name, insts : Block(name, insts).name = name
  BY DEF Block
<1>3. ASSUME NEW g \in 1 .. F, NEW c \in 0 .. nb[g]
      PROVE  B[Pos(ir, g, c)].name = NameOf(ir, g, c)
  <2>1. CASE c = 0
    BY <2>1, <1>1, <1>2 DEF NameOf
  <2>2. CASE c # 0
    <3>1. c \in 1 .. nb[g]
      BY <2>2, <1>1
    <3> QED BY <3>1, <2>2, <1>1, <1>2 DEF NameOf
  <2> QED BY <2>1, <2>2
<1>4. /\ DOMAIN ir.funcs = 1 .. F
      /\ \A g \in 1 .. F : nb[g] = Len(ir.funcs[g].blocks)
  BY Functions
<1>5. ASSUME NEW g \in 1 .. F, NEW c \in 0 .. nb[g], NameOf(ir, g, c) = NameOf(ir, f, b)
      PROVE  g = f /\ c = b
  <2>1. NamesApart(ir)
    BY DEF WellFormedIR
  <2> QED BY <2>1, <1>4, <1>5 DEF NamesApart
<1> HIDE DEF F, nb
<1>6. f \in 1 .. F /\ b \in 0 .. nb[f]
  BY DEF F, nb
<1> QED BY <1>1, <1>3, <1>5, <1>6

(* An instruction of a block is one of the code of some IR instruction,    *)
(* and no FUNC or PARAM.                                                   *)
LEMMA GenOps ==
  ASSUME NEW insts, InstsOK(insts), NEW j \in 1 .. Len(genInsts(insts))
  PROVE  \E n, l : /\ From(insts, j, n, l) /\ GoodCode(insts[n], genInst(insts[n]))
                   /\ genInsts(insts)[j] = genInst(insts[n])[l]
                   /\ genInsts(insts)[j].op \notin {"FUNC", "PARAM"}
<1>1. PICK n, l : From(insts, j, n, l)
  BY GenInsts
<1>2. GoodCode(insts[n], genInst(insts[n]))
  BY <1>1, GensNested DEF From
<1>3. l \in 1 .. Len(genInst(insts[n])) /\ l \in Int /\ j \in Int
  <2>1. Len(genInsts(insts)) \in Nat
    BY GenInsts
  <2>2. l \in 1 .. Len(genInst(insts[n])) /\ Len(genInst(insts[n])) \in Nat
    BY <1>1, <1>2 DEF From, GoodCode
  <2> QED BY <2>1, <2>2
<1>4. genInsts(insts)[j - l + l] = genInst(insts[n])[l]
  BY <1>1, <1>3 DEF From
<1>5. j - l + l = j
  BY <1>3
<1>6. genInst(insts[n])[l].op \notin {"FUNC", "PARAM"}
  BY <1>2, <1>3 DEF GoodCode
<1> QED BY <1>1, <1>2, <1>4, <1>5, <1>6

(* A header, and a basic block, of the program. *)
LEMMA HeaderBlock ==
  ASSUME NEW ir, WellFormedIR(ir), NEW B, B = ir2VmInst(ir), NEW f \in 1 .. Len(ir.funcs)
  PROVE  LET k == Pos(ir, f, 0)
             n == Len(ir.funcs[f].params)
         IN /\ k \in 2 .. Len(B) /\ n \in Nat /\ Size(B, k) = n + 1
            /\ B[k].insts[1].op = "FUNC" /\ \A j \in 2 .. n + 1 : B[k].insts[j].op = "PARAM"
<1> DEFINE F == Len(ir.funcs)
           nb == BlockCount(ir)
           k == Pos(ir, f, 0)
           g == genFunc(ir.funcs[f])
           n == Len(ir.funcs[f].params)
<1>1. BlocksPlaced(ir, B, F, nb)
  BY Blocks
<1>2. IsVector(ir.funcs[f].params)
  BY Functions
<1>3. n \in Nat /\ Len(g) = n + 1 /\ g[1].op = "FUNC" /\ \A j \in 2 .. n + 1 : g[j].op = "PARAM"
  BY <1>2, GenFunc
<1> HIDE DEF F, nb, g, n
<1>4. f \in 1 .. F
  BY DEF F
<1>5. 0 \in 0 .. nb[f]
  BY <1>1, <1>4 DEF BlocksPlaced
<1>6. k \in 2 .. Len(B) /\ B[k] = Block(ir.funcs[f].name, g)
  BY <1>1, <1>4, <1>5 DEF BlocksPlaced, g
<1>7. B[k].insts = g
  BY <1>6 DEF Block
<1>8. Size(B, k) = Len(g)
  BY <1>7 DEF Size
<1> HIDE DEF k
<1>9. /\ k \in 2 .. Len(B) /\ n \in Nat /\ Size(B, k) = n + 1
      /\ B[k].insts[1].op = "FUNC" /\ \A j \in 2 .. n + 1 : B[k].insts[j].op = "PARAM"
  BY <1>3, <1>6, <1>7, <1>8
<1> QED BY <1>9 DEF k, n

(* The block of basic block b of function f. *)
LEMMA BodyBlock ==
  ASSUME NEW ir, WellFormedIR(ir), NEW B, B = ir2VmInst(ir), NEW f \in 1 .. Len(ir.funcs),
         NEW b \in 1 .. BlockCount(ir)[f]
  PROVE  LET k == Pos(ir, f, b)
             insts == ir.funcs[f].blocks[b].insts
         IN /\ k \in 2 .. Len(B) /\ InstsOK(insts)
            /\ B[k].insts = genInsts(insts) /\ Size(B, k) = Len(genInsts(insts))
<1> DEFINE F == Len(ir.funcs)
           nb == BlockCount(ir)
           k == Pos(ir, f, b)
           insts == ir.funcs[f].blocks[b].insts
           g == genInsts(insts)
<1>1. BlocksPlaced(ir, B, F, nb)
  BY Blocks
<1>2. InstsOK(insts)
  BY Functions
<1> HIDE DEF F, nb, insts
<1>3. f \in 1 .. F /\ b \in 1 .. nb[f]
  BY DEF F, nb
<1>4. b \in 0 .. nb[f]
  BY <1>1, <1>3 DEF BlocksPlaced
<1>5. k \in 2 .. Len(B) /\ B[k] = Block(ir.funcs[f].blocks[b].name, g)
  BY <1>1, <1>3, <1>4 DEF BlocksPlaced, insts
<1>6. B[k].insts = g
  BY <1>5 DEF Block
<1>7. Size(B, k) = Len(g)
  BY <1>6 DEF Size
<1> QED BY <1>2, <1>5, <1>6, <1>7 DEF insts

(* The name of a block that is not empty gives its start, ... *)
LEMMA BlockTarget ==
  ASSUME NEW ir, WellFormedIR(ir), NEW B, B = ir2VmInst(ir), NEW S, S = Starts(ir),
         NEW f \in 1 .. Len(ir.funcs), NEW b \in 1 .. BlockCount(ir)[f],
         ir.funcs[f].blocks[b].insts # << >>
  PROVE  /\ Target(B, ir.funcs[f].blocks[b].name, FALSE) = S[Pos(ir, f, b) - 1]
         /\ Size(B, Pos(ir, f, b)) > 0
<1> DEFINE k == Pos(ir, f, b)
           insts == ir.funcs[f].blocks[b].insts
           name == ir.funcs[f].blocks[b].name
           named == {m \in Mapped(B) : B[m].name = name /\ IsFuncBlock(B[m]) = FALSE}
<1>1. /\ k \in 2 .. Len(B) /\ InstsOK(insts)
      /\ B[k].insts = genInsts(insts) /\ Size(B, k) = Len(genInsts(insts))
  BY BodyBlock
<1>2. Size(B, k) \in Nat /\ Size(B, k) > 0
  BY <1>1, GenInsts
<1>3. 1 \in 1 .. Len(genInsts(insts))
  BY <1>1, <1>2
<1>4. genInsts(insts)[1].op # "FUNC"
  BY <1>1, <1>3, GenOps
<1>5. IsFuncBlock(B[k]) = FALSE
  BY <1>1, <1>4 DEF IsFuncBlock
<1>6. /\ B[k].name = name
      /\ \A m \in 2 .. Len(B) : B[m].name = name => m = k
  <2>1. BlockCount(ir)[f] \in Nat /\ b \in 0 .. BlockCount(ir)[f] /\ b # 0
    BY Functions
  <2>2. NameOf(ir, f, b) = name
    BY <2>1 DEF NameOf
  <2>3. /\ B[k].name = NameOf(ir, f, b)
        /\ \A m \in 2 .. Len(B) : B[m].name = NameOf(ir, f, b) => m = k
    BY <2>1, Named
  <2> QED BY <2>2, <2>3
<1>7. Mapped(B) \subseteq 2 .. Len(B) /\ k \in Mapped(B)
  BY <1>1, <1>2 DEF Mapped
<1> HIDE DEF k, insts, name
<1>8. named = {k}
  BY <1>5, <1>6, <1>7
<1>9. k \in Int
  BY <1>1
<1>10. (CHOOSE m \in named : \A j \in named : j <= m) = k
  BY <1>8, <1>9
<1>11. Target(B, name, FALSE) = Offset(B, k)
  BY <1>8, <1>10 DEF Target
<1>12. Target(B, name, FALSE) = S[k - 1]
  BY <1>11 DEF Offset, Starts
<1> QED BY <1>2, <1>12 DEF k, name

(* ... that of a function the start of its header, ... *)
LEMMA FuncTarget ==
  ASSUME NEW ir, WellFormedIR(ir), NEW B, B = ir2VmInst(ir), NEW S, S = Starts(ir),
         NEW f \in 1 .. Len(ir.funcs)
  PROVE  Target(B, ir.funcs[f].name, TRUE) = S[Pos(ir, f, 0) - 1]
<1> DEFINE k == Pos(ir, f, 0)
           name == ir.funcs[f].name
           named == {m \in Mapped(B) : B[m].name = name /\ IsFuncBlock(B[m]) = TRUE}
<1>1. k \in 2 .. Len(B) /\ Size(B, k) > 0 /\ B[k].insts[1].op = "FUNC"
  BY HeaderBlock
<1>2. IsFuncBlock(B[k]) = TRUE
  <2>1. B[k].insts # << >>
    BY <1>1 DEF Size
  <2> QED BY <2>1, <1>1 DEF IsFuncBlock
<1>3. /\ B[k].name = name
      /\ \A m \in 2 .. Len(B) : B[m].name = name => m = k
  <2>1. BlockCount(ir)[f] \in Nat /\ 0 \in 0 .. BlockCount(ir)[f]
    BY Functions
  <2>2. NameOf(ir, f, 0) = name
    BY DEF NameOf
  <2>3. /\ B[k].name = NameOf(ir, f, 0)
        /\ \A m \in 2 .. Len(B) : B[m].name = NameOf(ir, f, 0) => m = k
    BY <2>1, Named
  <2> QED BY <2>2, <2>3
<1>4. Mapped(B) \subseteq 2 .. Len(B) /\ k \in Mapped(B)
  BY <1>1 DEF Mapped
<1> HIDE DEF k, name
<1>5. named = {k}
  BY <1>2, <1>3, <1>4
<1>6. k \in Int
  BY <1>1
<1>7. (CHOOSE m \in named : \A j \in named : j <= m) = k
  BY <1>5, <1>6
<1>8. Target(B, name, TRUE) = Offset(B, k)
  BY <1>5, <1>7 DEF Target
<1>9. Target(B, name, TRUE) = S[k - 1]
  BY <1>8 DEF Offset, Starts
<1> QED BY <1>9 DEF k, name

(* ... and the last block of a name is the only one. *)
LEMMA LastOfName ==
  ASSUME NEW ir, WellFormedIR(ir), NEW B, B = ir2VmInst(ir),
         NEW f \in 1 .. Len(ir.funcs), NEW b \in 0 .. BlockCount(ir)[f]
  PROVE  LastNamed(B, NameOf(ir, f, b)) = Pos(ir, f, b)
<1> DEFINE k == Pos(ir, f, b)
           name == NameOf(ir, f, b)
           named == {m \in DOMAIN B : B[m].name = name}
<1>1. /\ k \in 2 .. Len(B) /\ B[k].name = name
      /\ \A m \in 2 .. Len(B) : B[m].name = name => m = k
  BY Named
<1>2. Len(B) \in Nat \ {0, 1} /\ DOMAIN B = 1 .. Len(B)
  <2>1. Started(B, Starts(ir))
    BY StartsShape
  <2> QED BY <2>1 DEF Started
<1> HIDE DEF k, name
<1>3. k \in named /\ \A m \in named : m <= k
  <2>1. k \in DOMAIN B
    BY <1>1, <1>2
  <2>2. ASSUME NEW m \in named
        PROVE  m <= k
    <3>1. m = 1 \/ m \in 2 .. Len(B)
      BY <1>2
    <3> QED BY <3>1, <1>1, <1>2
  <2> QED BY <2>1, <2>2, <1>1
<1>4. \A m \in named : m \in Int
  BY <1>2
<1>5. \A m \in named : (\A j \in named : j <= m) => m = k
  BY <1>3, <1>4
<1>6. (CHOOSE m \in named : \A j \in named : j <= m) = k
  <2> HIDE DEF named
  <2> QED BY <1>3, <1>5
<1> QED BY <1>6 DEF LastNamed, k, name

-----------------------------------------------------------------------------
(* Where the functions are *)

HeadAt(ir) == [f \in 1 .. Len(ir.funcs) + 1 |-> Starts(ir)[Pos(ir, f, 0) - 1]]
ParamCount(ir) == [f \in 1 .. Len(ir.funcs) |-> Len(ir.funcs[f].params)]

(* Function f is from head[f] to head[f + 1]: its header, then its blocks. *)
Bounds(ir, B, S, F, nb, head, np) ==
  /\ F \in Nat \ {0} /\ head \in [1 .. F + 1 -> Nat] /\ np \in [1 .. F -> Nat]
  /\ head[1] = S[1] /\ head[F + 1] = S[Len(B)]
  /\ \A f \in 1 .. F :
       /\ head[f] = S[Pos(ir, f, 0) - 1]
       /\ S[Pos(ir, f, 0)] = head[f] + np[f] + 1
       /\ head[f + 1] = S[Pos(ir, f, nb[f])]
       /\ head[1] <= head[f] /\ head[f] + np[f] + 1 < head[f + 1] /\ head[f + 1] <= S[Len(B)]
       /\ \A b \in 1 .. nb[f] :
            LET k == Pos(ir, f, b)
            IN /\ S[k - 1] \in Nat /\ S[k] \in Nat /\ Size(B, k) \in Nat
               /\ S[k] = S[k - 1] + Size(B, k)
               /\ head[f] + np[f] + 1 <= S[k - 1] /\ S[k] <= head[f + 1]

(* The last block of a function ends in an instruction that leaves it. *)
LEMMA LastBlock ==
  ASSUME NEW ir, WellFormedIR(ir), NEW f \in 1 .. Len(ir.funcs)
  PROVE  LET last == ir.funcs[f].blocks[BlockCount(ir)[f]].insts
         IN last # << >> /\ last[Len(last)].tag \in Leaving
<1>1. FunctionOK(ir, ir.funcs[f]) /\ BlockCount(ir)[f] = Len(ir.funcs[f].blocks)
  BY Functions
<1>2. LET last == ir.funcs[f].blocks[Len(ir.funcs[f].blocks)].insts
      IN last # << >> /\ last[Len(last)].tag \in {"RETURN", "JMP", "BRANCH"}
  BY <1>1 DEF FunctionOK
<1> QED BY <1>1, <1>2 DEF Leaving

(* The blocks of a function are where its bounds say. *)
LEMMA BoundsHold ==
  ASSUME NEW ir, WellFormedIR(ir), NEW B, B = ir2VmInst(ir), NEW S, S = Starts(ir),
         NEW F, F = Len(ir.funcs), NEW nb, nb = BlockCount(ir),
         NEW head, head = HeadAt(ir), NEW np, np = ParamCount(ir)
  PROVE  Bounds(ir, B, S, F, nb, head, np)
<1> DEFINE N == Len(B)
           P(f, b) == Pos(ir, f, b)
<1>1. BlocksPlaced(ir, B, F, nb)
  BY Blocks
<1>2. Started(B, S)
  BY StartsShape
<1>3. /\ F \in Nat \ {0} /\ nb \in [1 .. F -> Nat \ {0}]
      /\ P(1, 0) = 2 /\ P(F + 1, 0) = N + 1
      /\ \A f \in 1 .. F :
           /\ P(f + 1, 0) = P(f, nb[f]) + 1
           /\ \A b \in 0 .. nb[f] : P(f, b) \in 2 .. N /\ P(f, b) = P(f, 0) + b
  BY <1>1 DEF BlocksPlaced
<1>4. /\ N \in Nat \ {0, 1} /\ S \in [0 .. N -> Nat]
      /\ \A k \in 1 .. N : Size(B, k) \in Nat /\ S[k] = S[k - 1] + Size(B, k)
      /\ \A m \in 0 .. N : \A k \in 0 .. m : S[k] <= S[m]
  BY <1>2 DEF Started
<1>5. \A f \in 1 .. F : nb[f] \in Nat \ {0}
  BY <1>3
<1>6. N \in Nat \ {0, 1} /\ F \in Nat \ {0}
  BY <1>3, <1>4
<1>7. \A f \in 1 .. F : \A b \in 0 .. nb[f] : P(f, b) \in 2 .. N
  BY <1>3
<1>8. \A f \in 1 .. F : np[f] \in Nat /\ Size(B, P(f, 0)) = np[f] + 1
  BY HeaderBlock DEF ParamCount
<1>9. \A f \in 1 .. F : Size(B, P(f, nb[f])) > 0
  <2> TAKE f \in 1 .. F
  <2> DEFINE k == P(f, nb[f])
             insts == ir.funcs[f].blocks[nb[f]].insts
  <2>1. nb[f] \in 1 .. nb[f]
    BY <1>5
  <2>2. InstsOK(insts) /\ Size(B, k) = Len(genInsts(insts))
    BY <2>1, BodyBlock
  <2>3. insts # << >>
    BY LastBlock
  <2> QED BY <2>2, <2>3, GenInsts
<1>10. np \in [1 .. F -> Nat] /\ head = [f \in 1 .. F + 1 |-> S[P(f, 0) - 1]]
  <2>1. np = [f \in 1 .. F |-> np[f]]
    BY DEF ParamCount
  <2> QED BY <2>1, <1>8 DEF HeadAt
<1> HIDE DEF P, N
<1>11. \A f \in 1 .. F + 1 : P(f, 0) - 1 \in 1 .. N
  <2> TAKE f \in 1 .. F + 1
  <2>1. CASE f = F + 1
    <3>1. P(f, 0) = N + 1
      BY <2>1, <1>3
    <3> QED BY <3>1, <1>6
  <2>2. CASE f # F + 1
    <3>1. f \in 1 .. F
      BY <2>2, <1>3
    <3>2. 0 \in 0 .. nb[f]
      BY <3>1, <1>5
    <3>3. P(f, 0) \in 2 .. N
      BY <3>1, <3>2, <1>7
    <3> QED BY <3>3, <1>6
  <2> QED BY <2>1, <2>2
<1>12. head \in [1 .. F + 1 -> Nat] /\ \A f \in 1 .. F + 1 : head[f] = S[P(f, 0) - 1]
  <2>1. \A f \in 1 .. F + 1 : S[P(f, 0) - 1] \in Nat
    BY <1>4, <1>11
  <2> QED BY <2>1, <1>10
<1>13. head[1] = S[1] /\ head[F + 1] = S[N]
  <2>1. 1 \in 1 .. F + 1 /\ F + 1 \in 1 .. F + 1
    BY <1>3
  <2>2. P(1, 0) - 1 = 1 /\ P(F + 1, 0) - 1 = N
    BY <1>3, <1>4
  <2> QED BY <2>1, <2>2, <1>12
<1>14. ASSUME NEW f \in 1 .. F
       PROVE  /\ head[f] = S[P(f, 0) - 1]
              /\ S[P(f, 0)] = head[f] + np[f] + 1
              /\ head[f + 1] = S[P(f, nb[f])]
              /\ head[1] <= head[f] /\ head[f] + np[f] + 1 < head[f + 1] /\ head[f + 1] <= S[N]
              /\ \A b \in 1 .. nb[f] :
                   LET k == P(f, b)
                   IN /\ S[k - 1] \in Nat /\ S[k] \in Nat /\ Size(B, k) \in Nat
                      /\ S[k] = S[k - 1] + Size(B, k)
                      /\ head[f] + np[f] + 1 <= S[k - 1] /\ S[k] <= head[f + 1]
  <2>1. f \in 1 .. F + 1 /\ f + 1 \in 1 .. F + 1 /\ 1 \in 1 .. F + 1
    BY <1>3
  <2>2. nb[f] \in Nat \ {0} /\ 0 \in 0 .. nb[f] /\ nb[f] \in 0 .. nb[f]
    BY <1>5
  <2> DEFINE h == P(f, 0)
             z == P(f, nb[f])
  <2>3. h \in 2 .. N /\ z \in 2 .. N /\ z = h + nb[f] /\ P(f + 1, 0) = z + 1
    BY <2>2, <1>3
  <2>4. head[f] = S[h - 1] /\ head[f + 1] = S[(z + 1) - 1]
    BY <2>1, <2>3, <1>12
  <2> HIDE DEF h, z
  <2>5. (z + 1) - 1 = z /\ h - 1 \in 0 .. N /\ h \in 1 .. N /\ z - 1 \in 0 .. N /\ z \in 1 .. N
        /\ h \in 0 .. N /\ z \in 0 .. N /\ N \in 0 .. N
    BY <2>3, <1>6
  <2>6. head[f + 1] = S[z]
    BY <2>4, <2>5
  <2>7. S[h] = head[f] + np[f] + 1
    <3>1. S[h] = S[h - 1] + Size(B, h) /\ Size(B, h) = np[f] + 1 /\ np[f] \in Nat
      BY <2>5, <1>4, <1>8 DEF h
    <3>2. S[h - 1] \in Nat
      BY <2>5, <1>4
    <3> QED BY <3>1, <3>2, <2>4
  <2>8. head[1] <= head[f] /\ head[f + 1] <= S[N]
    <3>1. 1 \in 0 .. h - 1 /\ z \in 0 .. N
      BY <2>3, <1>6
    <3> QED BY <3>1, <2>4, <2>5, <2>6, <1>4, <1>13
  <2>9. head[f] + np[f] + 1 < head[f + 1]
    <3>1. h \in 0 .. z - 1
      BY <2>2, <2>3, <1>6
    <3>2. S[h] <= S[z - 1]
      BY <3>1, <2>5, <1>4
    <3>3. S[z] = S[z - 1] + Size(B, z) /\ Size(B, z) > 0 /\ Size(B, z) \in Nat
      BY <2>5, <1>4, <1>9 DEF z
    <3>4. S[h] \in Nat /\ S[z - 1] \in Nat /\ S[z] \in Nat
      BY <2>5, <1>4
    <3> QED BY <3>2, <3>3, <3>4, <2>6, <2>7
  <2>10. ASSUME NEW b \in 1 .. nb[f], NEW k, k = P(f, b)
         PROVE  /\ S[k - 1] \in Nat /\ S[k] \in Nat /\ Size(B, k) \in Nat
                /\ S[k] = S[k - 1] + Size(B, k)
                /\ head[f] + np[f] + 1 <= S[k - 1] /\ S[k] <= head[f + 1]
    <3>1. b \in 0 .. nb[f]
      BY <2>2
    <3>2. k \in 2 .. N /\ k = h + b
      BY <3>1, <2>10, <1>3 DEF h
    <3>3. k - 1 \in 0 .. N /\ k \in 1 .. N /\ k \in 0 .. N
      BY <3>2, <1>6
    <3>4. h \in 0 .. k - 1 /\ k \in 0 .. z
      BY <3>2, <2>2, <2>3
    <3>5. S[h] <= S[k - 1] /\ S[k] <= S[z]
      BY <3>3, <3>4, <2>5, <1>4
    <3> QED BY <3>3, <3>5, <2>6, <2>7, <1>4
  <2> QED BY <2>4, <2>6, <2>7, <2>8, <2>9, <2>10 DEF h, z
<1> QED BY <1>3, <1>10, <1>12, <1>13, <1>14 DEF Bounds, P, N

(* Every address is in the globals or in one block of a function.          *)
LEMMA Whereabouts ==
  ASSUME NEW ir, WellFormedIR(ir), NEW B, B = ir2VmInst(ir), NEW S, S = Starts(ir),
         NEW F, F = Len(ir.funcs), NEW nb, nb = BlockCount(ir), NEW p, p = Link(ir),
         NEW i \in 0 .. p.size - 1
  PROVE  \/ i \in 0 .. p.global_len - 1 /\ i + 1 \in 1 .. Size(B, 1) /\ i = S[1 - 1] + (i + 1) - 1
         \/ \E f \in 1 .. F : \E b \in 0 .. nb[f] : \E j \in 1 .. Size(B, Pos(ir, f, b)) :
              i = S[Pos(ir, f, b) - 1] + j - 1
<1>1. BlocksPlaced(ir, B, F, nb)
  BY Blocks
<1>2. Started(B, S)
  BY StartsShape
<1>3. LinkedAt(ir, B, S, p, OriginBlocks(ir), LayoutOf(ir))
  BY LinkedCode
<1>4. PICK k \in 1 .. Len(B) : \E j \in 1 .. Size(B, k) : i = S[k - 1] + j - 1
  BY <1>3 DEF LinkedAt
<1>5. CASE k = 1
  <2>1. /\ S[0] = 0 /\ Size(B, 1) \in Nat /\ S[1] = S[1 - 1] + Size(B, 1)
        /\ p.global_len = S[1]
    BY <1>2, <1>3, <1>5 DEF Started, LinkedAt
  <2>2. PICK j \in 1 .. Size(B, 1) : i = S[1 - 1] + j - 1
    BY <1>4, <1>5
  <2> QED BY <2>1, <2>2
<1>6. CASE k # 1
  <2>1. k \in 2 .. Len(B)
    BY <1>2, <1>6 DEF Started
  <2>2. PICK f \in 1 .. F : \E b \in 0 .. nb[f] : k = Pos(ir, f, b)
    BY <2>1, <1>1 DEF BlocksPlaced
  <2> QED BY <2>2, <1>4
<1> QED BY <1>5, <1>6

-----------------------------------------------------------------------------
(* The linked instructions *)

(* Relocation keeps the opcode, and gives jumps and calls their targets.   *)
Relocated(blocks, i, s, l, y) ==
  /\ y.op = s[l].op
  /\ y.op = "JMP" => i.tag = "JMP" /\ y.target = Target(blocks, i.to, FALSE)
  /\ y.op = "JIF" => /\ i.tag = "BRANCH"
                     /\ y.target1 = Target(blocks, i.yes, FALSE)
                     /\ y.target2 = Target(blocks, i.no, FALSE)
  /\ y.op = "CALL" =>
       /\ l = 1 /\ HasCall(i) /\ Len(Called(i).args) \in Nat /\ Len(Called(i).args) < Len(s)
       /\ y.target = CallTarget(blocks, Called(i).call)
       /\ \A m \in 2 .. Len(Called(i).args) + 1 : s[m].op = "ARG"

(* Relocation of an instruction that code selection generated. *)
LEMMA FixedGenerated ==
  ASSUME NEW blocks, NEW i, NEW s, GoodCode(i, s), NEW l \in 1 .. Len(s)
  PROVE  Relocated(blocks, i, s, l, Fix(blocks, s[l]))
<1> DEFINE x == s[l]
           y == Fix(blocks, x)
<1>1. /\ x.op = "JMP" => i.tag = "JMP" /\ x = [op |-> "JMP", label |-> i.to]
      /\ x.op = "JIF" => /\ i.tag = "BRANCH"
                         /\ x = [op |-> "JIF", label1 |-> i.yes, label2 |-> i.no]
      /\ x.op = "CALL" =>
           /\ l = 1 /\ HasCall(i) /\ Len(Called(i).args) \in Nat /\ Len(Called(i).args) < Len(s)
           /\ s[1] = [op |-> "CALL", name |-> Called(i).call, target |-> -1]
           /\ \A m \in 2 .. Len(Called(i).args) + 1 : s[m].op = "ARG"
  BY DEF GoodCode
<1> HIDE DEF x
<1>2. CASE x.op \notin {"JMP", "JIF", "CALL"}
  <2>1. y = x
    BY <1>2, FixOther
  <2> HIDE DEF y
  <2> QED BY <1>2, <2>1 DEF x, y, Relocated
<1>3. CASE x.op = "JMP"
  <2>1. x = [op |-> "JMP", label |-> i.to] /\ i.tag = "JMP"
    BY <1>1, <1>3
  <2>2. y = [op |-> "JMP", target |-> Target(blocks, i.to, FALSE)]
    BY <2>1, FixJump
  <2> HIDE DEF y
  <2>3. y.op = "JMP" /\ y.target = Target(blocks, i.to, FALSE)
    BY <2>2
  <2> QED BY <1>3, <2>1, <2>3 DEF x, y, Relocated
<1>4. CASE x.op = "JIF"
  <2>1. x = [op |-> "JIF", label1 |-> i.yes, label2 |-> i.no] /\ i.tag = "BRANCH"
    BY <1>1, <1>4
  <2>2. y = [op |-> "JIF", target1 |-> Target(blocks, i.yes, FALSE),
             target2 |-> Target(blocks, i.no, FALSE)]
    BY <2>1, FixBranch
  <2> HIDE DEF y
  <2>3. /\ y.op = "JIF" /\ y.target1 = Target(blocks, i.yes, FALSE)
        /\ y.target2 = Target(blocks, i.no, FALSE)
    BY <2>2
  <2> QED BY <1>4, <2>1, <2>3 DEF x, y, Relocated
<1>5. CASE x.op = "CALL"
  <2> DEFINE name == Called(i).call
  <2>1. x = [op |-> "CALL", name |-> name, target |-> -1]
    BY <1>1, <1>5 DEF x
  <2>2. y = [op |-> "CALL", name |-> name, target |-> CallTarget(blocks, name)]
    BY <2>1, FixCalling
  <2> HIDE DEF y
  <2>3. y.op = "CALL" /\ y.target = CallTarget(blocks, name)
    BY <2>2
  <2> QED BY <1>1, <1>5, <2>3 DEF x, y, Relocated
<1> QED BY <1>2, <1>3, <1>4, <1>5

(* No initialiser of a global transfers control or calls.                  *)
LEMMA GlobalCode ==
  ASSUME NEW ir, WellFormedIR(ir), NEW p, p = Link(ir), NEW i \in 0 .. p.global_len - 1
  PROVE  OpAt(p, i) \notin {"FUNC", "PARAM", "CALL"} \cup Transfers
<1> DEFINE B == ir2VmInst(ir)
           S == Starts(ir)
           g == genInsts(ir.globals)
<1>1. LinkedAt(ir, B, S, p, OriginBlocks(ir), LayoutOf(ir))
  BY LinkedCode
<1>2. Started(B, S)
  BY StartsShape
<1>3. BlocksPlaced(ir, B, Len(ir.funcs), BlockCount(ir))
  BY Blocks
<1>4. InstsOK(ir.globals) /\ \A n \in DOMAIN ir.globals : GlobalOK(ir.globals[n])
  BY Globals DEF WellFormedIR
<1> HIDE DEF B, S
<1>5. IsVector(B) /\ B[1].insts = g /\ Size(B, 1) = Len(g)
  <2>1. IsVector(B) /\ B[1] = Block("global_var_decl", g)
    BY <1>3 DEF BlocksPlaced
  <2>2. B[1].insts = g
    BY <2>1 DEF Block
  <2> QED BY <2>1, <2>2 DEF Size
<1>6. 1 \in 1 .. Len(B) /\ S[1 - 1] = 0 /\ p.global_len = Size(B, 1) /\ Size(B, 1) \in Nat
  <2>1. Len(B) \in Nat \ {0, 1} /\ p.global_len = S[1]
    BY <1>1, <1>2 DEF Started, LinkedAt
  <2>2. 1 \in 1 .. Len(B)
    BY <2>1
  <2>3. S[0] = 0 /\ Size(B, 1) \in Nat /\ S[1] = S[1 - 1] + Size(B, 1)
    BY <1>2, <2>2 DEF Started
  <2> QED BY <2>1, <2>2, <2>3
<1>7. i + 1 \in 1 .. Size(B, 1) /\ S[1 - 1] + (i + 1) - 1 = i
  BY <1>6
<1>8. p.code[i] = fixBlock(B, 1)[i + 1]
  BY <1>1, <1>6, <1>7 DEF LinkedAt
<1>9. fixBlock(B, 1) = g
  BY <1>5 DEF fixBlock
<1> HIDE DEF g
<1>10. PICK n, l : /\ From(ir.globals, i + 1, n, l)
                   /\ GoodCode(ir.globals[n], genInst(ir.globals[n]))
                   /\ g[i + 1] = genInst(ir.globals[n])[l]
  BY <1>4, <1>5, <1>7, GenOps DEF g
<1>11. l \in 1 .. Len(genInst(ir.globals[n])) /\ n \in DOMAIN ir.globals
  BY <1>10, <1>4, GensNested DEF From
<1>12. GlobalOK(ir.globals[n])
  BY <1>4, <1>11
<1>13. ir.globals[n].tag \notin Leaving /\ ~HasCall(ir.globals[n])
  BY <1>12 DEF GlobalOK, Leaving, HasCall
<1>14. g[i + 1].op \notin {"FUNC", "PARAM", "CALL"} \cup Transfers
  BY <1>10, <1>11, <1>13 DEF GoodCode
<1> QED BY <1>8, <1>9, <1>14 DEF OpAt

(* The places of the PARAMs in a header. *)
LEMMA HeaderIndex ==
  ASSUME NEW h \in Nat, NEW n \in Nat, NEW i \in h + 1 .. h + n
  PROVE  \E j \in 2 .. n + 1 : j \in 1 .. n + 1 /\ h + j - 1 = i
<1>1. i - h + 1 \in 2 .. n + 1 /\ i - h + 1 \in 1 .. n + 1 /\ h + (i - h + 1) - 1 = i
  OBVIOUS
<1> QED BY <1>1

(* The places of the ARGs behind a CALL. *)
LEMMA ArgIndex ==
  ASSUME NEW z \in Nat, NEW j \in Nat, NEW i, i = z + j - 1, NEW a \in Nat, NEW w \in Nat, a < w,
         NEW m \in i + 1 .. i + a
  PROVE  \E r \in 2 .. a + 1 : r \in 1 .. w /\ z + (j - 1 + r) - 1 = m
<1>1. m - i + 1 \in 2 .. a + 1 /\ m - i + 1 \in 1 .. w /\ z + (j - 1 + (m - i + 1)) - 1 = m
  OBVIOUS
<1> QED BY <1>1

(* A function begins with its FUNC and PARAMs.                             *)
LEMMA HeaderCode ==
  ASSUME NEW ir, WellFormedIR(ir), NEW p, p = Link(ir), NEW f \in 1 .. Len(ir.funcs),
         NEW h, h = HeadAt(ir)[f], NEW n, n = ParamCount(ir)[f]
  PROVE  OpAt(p, h) = "FUNC" /\ \A i \in h + 1 .. h + n : OpAt(p, i) = "PARAM"
<1> DEFINE B == ir2VmInst(ir)
           S == Starts(ir)
           k == Pos(ir, f, 0)
           F == Len(ir.funcs)
<1>1. LinkedAt(ir, B, S, p, OriginBlocks(ir), LayoutOf(ir))
  BY LinkedCode
<1>2. Bounds(ir, B, S, F, BlockCount(ir), HeadAt(ir), ParamCount(ir))
  BY BoundsHold
<1>3. /\ k \in 2 .. Len(B) /\ n \in Nat /\ Size(B, k) = n + 1
      /\ B[k].insts[1].op = "FUNC" /\ \A j \in 2 .. n + 1 : B[k].insts[j].op = "PARAM"
  BY HeaderBlock DEF ParamCount
<1>4. IsVector(B) /\ IsVector(B[k].insts) /\ Len(B) \in Nat
  <2>1. BlocksPlaced(ir, B, F, BlockCount(ir))
    BY Blocks
  <2>2. k \in 1 .. Len(B)
    BY <1>3
  <2> QED BY <2>1, <2>2, BlockVectors DEF BlocksPlaced
<1> HIDE DEF B, S, k, F
<1>5. f \in 1 .. F
  BY DEF F
<1>6. h = S[k - 1] /\ h \in Nat
  <2>1. h = S[k - 1]
    BY <1>2, <1>5 DEF Bounds, k
  <2>2. F \in Nat /\ HeadAt(ir) \in [1 .. F + 1 -> Nat]
    BY <1>2 DEF Bounds
  <2>3. f \in 1 .. F + 1
    BY <2>2, <1>5
  <2> QED BY <2>1, <2>2, <2>3
<1>7. k \in 1 .. Len(B) /\ k # 1
  BY <1>3, <1>4
<1>8. ASSUME NEW j \in 1 .. n + 1
      PROVE  OpAt(p, h + j - 1) = B[k].insts[j].op
  <2>1. p.code[h + j - 1] = fixBlock(B, k)[j]
    <3>1. j \in 1 .. Size(B, k)
      BY <1>3
    <3>2. p.code[S[k - 1] + j - 1] = fixBlock(B, k)[j]
      BY <1>1, <1>7, <3>1 DEF LinkedAt
    <3> QED BY <3>2, <1>6
  <2>2. fixBlock(B, k)[j] = Fix(B, B[k].insts[j])
    BY <1>3, <1>4, <1>7, FixBlock
  <2>3. B[k].insts[j].op \in {"FUNC", "PARAM"}
    <3>1. j = 1 \/ j \in 2 .. n + 1
      BY <1>3
    <3> QED BY <3>1, <1>3
  <2>4. Fix(B, B[k].insts[j]) = B[k].insts[j]
    BY <2>3, FixOther
  <2> QED BY <2>1, <2>2, <2>4 DEF OpAt
<1>9. OpAt(p, h) = "FUNC"
  <2>1. 1 \in 1 .. n + 1 /\ h + 1 - 1 = h
    BY <1>3, <1>6
  <2> QED BY <2>1, <1>3, <1>8
<1>10. ASSUME NEW i \in h + 1 .. h + n
       PROVE  OpAt(p, i) = "PARAM"
  <2>1. n \in Nat /\ h \in Nat
    BY <1>3, <1>6
  <2>2. PICK j \in 2 .. n + 1 : j \in 1 .. n + 1 /\ h + j - 1 = i
    BY <2>1, <1>10, HeaderIndex
  <2>3. OpAt(p, i) = B[k].insts[j].op
    BY <2>2, <1>8
  <2>4. B[k].insts[j].op = "PARAM"
    BY <2>2, <1>3
  <2> QED BY <2>3, <2>4
<1> QED BY <1>9, <1>10

(* What address i of block b holds, which instruction n of the block gave. *)
Coded(ir, B, S, p, f, b, i, n) ==
  LET x == ir.funcs[f].blocks[b].insts[n]
      c == p.code[i]
  IN /\ c.op \notin {"FUNC", "PARAM"}
     /\ c.op = "JMP" => x.tag = "JMP" /\ c.target = Target(B, x.to, FALSE)
     /\ c.op = "JIF" => /\ x.tag = "BRANCH"
                        /\ c.target1 = Target(B, x.yes, FALSE)
                        /\ c.target2 = Target(B, x.no, FALSE)
     /\ c.op = "CALL" =>
          /\ HasCall(x) /\ Len(Called(x).args) \in Nat
          /\ c.target = CallTarget(B, Called(x).call)
          /\ i + Len(Called(x).args) < S[Pos(ir, f, b)]
          /\ \A m \in i + 1 .. i + Len(Called(x).args) : OpAt(p, m) = "ARG"

(* Every address of a body holds the relocated code of an IR instruction   *)
(* of that block.                                                          *)
LEMMA BodyCode ==
  ASSUME NEW ir, WellFormedIR(ir), NEW B, B = ir2VmInst(ir), NEW S, S = Starts(ir),
         NEW p, p = Link(ir), NEW f \in 1 .. Len(ir.funcs), NEW b \in 1 .. BlockCount(ir)[f],
         NEW j \in 1 .. Size(B, Pos(ir, f, b)), NEW i, i = S[Pos(ir, f, b) - 1] + j - 1
  PROVE  \E n, l : From(ir.funcs[f].blocks[b].insts, j, n, l) /\ Coded(ir, B, S, p, f, b, i, n)
<1> DEFINE k == Pos(ir, f, b)
           insts == ir.funcs[f].blocks[b].insts
           g == genInsts(insts)
           F == Len(ir.funcs)
           nb == BlockCount(ir)
<1>1. LinkedAt(ir, B, S, p, OriginBlocks(ir), LayoutOf(ir))
  BY LinkedCode
<1>2. /\ k \in 2 .. Len(B) /\ InstsOK(insts)
      /\ B[k].insts = genInsts(insts) /\ Size(B, k) = Len(genInsts(insts))
  BY BodyBlock
<1>3. IsVector(B) /\ IsVector(B[k].insts) /\ Len(B) \in Nat
  <2>1. BlocksPlaced(ir, B, F, nb)
    BY Blocks
  <2>2. k \in 1 .. Len(B)
    BY <1>2
  <2> QED BY <2>1, <2>2, BlockVectors DEF BlocksPlaced
<1>4. S[k - 1] \in Nat /\ S[k] = S[k - 1] + Len(g) /\ Len(g) \in Nat
  <2>1. Bounds(ir, B, S, F, nb, HeadAt(ir), ParamCount(ir))
    BY BoundsHold
  <2>2. S[k - 1] \in Nat /\ Size(B, k) \in Nat /\ S[k] = S[k - 1] + Size(B, k)
    BY <2>1 DEF Bounds
  <2> QED BY <2>2, <1>2
<1>5. k \in 1 .. Len(B) /\ k # 1
  BY <1>2, <1>3
<1> HIDE DEF k, insts, F, nb
<1>6. ASSUME NEW m \in 1 .. Len(g)
      PROVE  p.code[S[k - 1] + m - 1] = Fix(B, g[m])
  <2>1. m \in 1 .. Size(B, k)
    BY <1>2
  <2>2. p.code[S[k - 1] + m - 1] = fixBlock(B, k)[m]
    BY <2>1, <1>1, <1>5 DEF LinkedAt
  <2>3. fixBlock(B, k)[m] = Fix(B, B[k].insts[m])
    BY <2>1, <1>3, <1>5, FixBlock
  <2> QED BY <2>2, <2>3, <1>2
<1> HIDE DEF g
<1>7. j \in 1 .. Len(g) /\ i = S[k - 1] + j - 1
  BY <1>2 DEF g, k
<1>8. PICK n, l : /\ From(insts, j, n, l) /\ GoodCode(insts[n], genInst(insts[n]))
                  /\ g[j] = genInst(insts[n])[l] /\ g[j].op \notin {"FUNC", "PARAM"}
  BY <1>2, <1>7, GenOps DEF g
<1> DEFINE s == genInst(insts[n])
           x == insts[n]
           c == p.code[i]
<1>9. /\ l \in 1 .. Len(s) /\ Len(s) \in Nat
      /\ \A m \in 1 .. Len(s) : j - l + m \in 1 .. Len(g) /\ g[j - l + m] = s[m]
  BY <1>8 DEF From, GoodCode, g
<1>10. GoodCode(x, s) /\ g[j] = s[l]
  BY <1>8
<1>11. c = Fix(B, s[l])
  BY <1>6, <1>7, <1>8
<1> HIDE DEF s, x, c
<1>12. Relocated(B, x, s, l, c)
  BY <1>9, <1>10, <1>11, FixedGenerated
<1>13. ASSUME c.op = "CALL"
       PROVE  /\ i + Len(Called(x).args) < S[k]
              /\ \A m \in i + 1 .. i + Len(Called(x).args) : OpAt(p, m) = "ARG"
  <2> DEFINE a == Len(Called(x).args)
             z == S[k - 1]
             w == Len(s)
             q == Len(g)
  <2>1. l = 1 /\ a \in Nat /\ a < w /\ \A m \in 2 .. a + 1 : s[m].op = "ARG"
    BY <1>12, <1>13 DEF Relocated
  <2>2. z \in Nat /\ S[k] = z + q /\ q \in Nat /\ j \in 1 .. q /\ i = z + j - 1 /\ w \in Nat
    BY <1>4, <1>7, <1>9
  <2>3. \A m \in 1 .. w : j - l + m \in 1 .. q /\ g[j - l + m] = s[m]
    BY <1>9
  <2>4. \A m \in 1 .. q : p.code[z + m - 1] = Fix(B, g[m])
    BY <1>6
  <2> HIDE DEF a, z, w, q
  <2>5. a + 1 \in 1 .. w /\ j - l + (a + 1) = j + a
    BY <2>1, <2>2
  <2>6. j + a \in 1 .. q
    BY <2>3, <2>5
  <2>7. i + a < S[k]
    BY <2>1, <2>2, <2>6
  <2>8. ASSUME NEW m \in i + 1 .. i + a
        PROVE  OpAt(p, m) = "ARG"
    <3>1. a \in Nat /\ w \in Nat /\ a < w /\ z \in Nat /\ j \in Nat /\ i = z + j - 1
      BY <2>1, <2>2
    <3>2. PICK r \in 2 .. a + 1 : r \in 1 .. w /\ z + (j - 1 + r) - 1 = m
      BY <3>1, <2>8, ArgIndex
    <3> DEFINE t == j - 1 + r
    <3>3. t \in 1 .. q /\ g[t] = s[r]
      BY <2>1, <2>3, <3>2
    <3>4. z + t - 1 = m
      BY <3>2
    <3> HIDE DEF t
    <3>5. p.code[m] = Fix(B, s[r])
      BY <2>4, <3>4, <3>3
    <3>6. s[r].op = "ARG"
      BY <2>1, <3>2
    <3>7. Fix(B, s[r]) = s[r]
      BY <3>6, FixOther
    <3> QED BY <3>5, <3>6, <3>7 DEF OpAt
  <2> QED BY <2>7, <2>8 DEF a
<1>14. c.op \notin {"FUNC", "PARAM"}
  BY <1>8, <1>10, <1>12 DEF Relocated
<1>15. Coded(ir, B, S, p, f, b, i, n)
  BY <1>12, <1>13, <1>14 DEF Relocated, Coded, c, x, k, insts
<1> QED BY <1>8, <1>15 DEF insts

-----------------------------------------------------------------------------
(* The linked program is arranged *)

(* Place j of a block of function f is an address of that function.        *)
LEMMA Within ==
  ASSUME NEW ir, WellFormedIR(ir), NEW B, B = ir2VmInst(ir), NEW S, S = Starts(ir),
         NEW f \in 1 .. Len(ir.funcs), NEW b \in 0 .. BlockCount(ir)[f],
         NEW j \in 1 .. Size(B, Pos(ir, f, b)), NEW i, i = S[Pos(ir, f, b) - 1] + j - 1
  PROVE  /\ i \in HeadAt(ir)[f] .. HeadAt(ir)[f + 1] - 1
         /\ b = 0 => i <= HeadAt(ir)[f] + ParamCount(ir)[f]
         /\ b # 0 => i \in HeadAt(ir)[f] + ParamCount(ir)[f] + 1 .. HeadAt(ir)[f + 1] - 1
<1> DEFINE F == Len(ir.funcs)
           nb == BlockCount(ir)
           h == HeadAt(ir)[f]
           n == ParamCount(ir)[f]
           e == HeadAt(ir)[f + 1]
           k == Pos(ir, f, b)
           z == S[k - 1]
           q == Size(B, k)
<1>1. Bounds(ir, B, S, F, nb, HeadAt(ir), ParamCount(ir))
  BY BoundsHold
<1>2. h \in Nat /\ n \in Nat /\ e \in Nat /\ h + n + 1 < e
  <2>1. /\ F \in Nat \ {0} /\ HeadAt(ir) \in [1 .. F + 1 -> Nat] /\ ParamCount(ir) \in [1 .. F -> Nat]
        /\ h + n + 1 < e
    BY <1>1 DEF Bounds
  <2>2. f \in 1 .. F + 1 /\ f + 1 \in 1 .. F + 1
    BY <2>1
  <2> QED BY <2>1, <2>2
<1>3. CASE b = 0
  <2>1. z = h
    BY <1>1, <1>3 DEF Bounds
  <2>2. q = n + 1
    BY <1>3, HeaderBlock DEF ParamCount
  <2> HIDE DEF h, n, e, k, z, q
  <2>3. j \in 1 .. q /\ i = z + j - 1
    BY DEF z, k, q
  <2>4. i \in h .. e - 1 /\ i <= h + n
    BY <1>2, <2>1, <2>2, <2>3
  <2> QED BY <1>3, <2>4 DEF h, n, e
<1>4. CASE b # 0
  <2>1. b \in 1 .. nb[f]
    BY <1>4, Functions
  <2>2. z \in Nat /\ q \in Nat /\ h + n + 1 <= z /\ z + q <= e
    BY <2>1, <1>1 DEF Bounds
  <2> HIDE DEF h, n, e, k, z, q
  <2>3. j \in 1 .. q /\ i = z + j - 1
    BY DEF z, k, q
  <2>4. i \in h .. e - 1 /\ i \in h + n + 1 .. e - 1
    BY <1>2, <2>2, <2>3
  <2> QED BY <1>4, <2>4 DEF h, n, e
<1> QED BY <1>3, <1>4

(* An address of a function's body is a place of one of its basic blocks.  *)
LEMMA BodyIndex ==
  ASSUME NEW ir, WellFormedIR(ir), NEW B, B = ir2VmInst(ir), NEW S, S = Starts(ir),
         NEW f \in 1 .. Len(ir.funcs),
         NEW i \in HeadAt(ir)[f] + ParamCount(ir)[f] + 1 .. HeadAt(ir)[f + 1] - 1
  PROVE  \E b \in 1 .. BlockCount(ir)[f] : \E j \in 1 .. Size(B, Pos(ir, f, b)) :
           i = S[Pos(ir, f, b) - 1] + j - 1
<1> DEFINE F == Len(ir.funcs)
           nb == BlockCount(ir)
           N == Len(B)
           h == Pos(ir, f, 0)
           z == Pos(ir, f, nb[f])
<1>1. Bounds(ir, B, S, F, nb, HeadAt(ir), ParamCount(ir))
  BY BoundsHold
<1>2. Started(B, S)
  BY StartsShape
<1>3. BlocksPlaced(ir, B, F, nb)
  BY Blocks
<1>4. /\ nb[f] \in Nat \ {0} /\ h \in 2 .. N /\ z \in 2 .. N /\ z = h + nb[f]
      /\ \A b \in 0 .. nb[f] : Pos(ir, f, b) = h + b
  <2>1. nb[f] \in Nat \ {0}
    BY Functions
  <2>2. 0 \in 0 .. nb[f] /\ nb[f] \in 0 .. nb[f]
    BY <2>1
  <2> QED BY <2>1, <2>2, <1>3 DEF BlocksPlaced
<1>5. S[h] = HeadAt(ir)[f] + ParamCount(ir)[f] + 1 /\ S[z] = HeadAt(ir)[f + 1]
      /\ HeadAt(ir)[f + 1] <= S[N]
  BY <1>1 DEF Bounds
<1>6. /\ N \in Nat \ {0, 1} /\ S \in [0 .. N -> Nat]
      /\ \A k \in 1 .. N : Size(B, k) \in Nat /\ S[k] = S[k - 1] + Size(B, k)
      /\ \A m \in 0 .. N : \A k \in 0 .. m : S[k] <= S[m]
      /\ \A a \in 1 .. S[N] : \E k \in 1 .. N : \E j \in 1 .. Size(B, k) : a = S[k - 1] + j
  BY <1>2 DEF Started
<1> HIDE DEF F, N, h, z
<1>7. i \in S[h] .. S[z] - 1 /\ S[h] \in Nat /\ S[z] \in Nat /\ S[N] \in Nat /\ S[z] <= S[N]
  <2>1. N \in Nat /\ h \in 2 .. N /\ z \in 2 .. N
    BY <1>4, <1>6
  <2>2. h \in 0 .. N /\ z \in 0 .. N /\ N \in 0 .. N
    BY <2>1
  <2> QED BY <2>2, <1>5, <1>6
<1>8. i + 1 \in 1 .. S[N] /\ i \in Nat
  BY <1>7
<1>9. PICK k \in 1 .. N : \E j \in 1 .. Size(B, k) : i + 1 = S[k - 1] + j
  BY <1>6, <1>8
<1>10. PICK j \in 1 .. Size(B, k) : i + 1 = S[k - 1] + j
  BY <1>9
<1>11. S[k - 1] \in Nat /\ S[k] \in Nat /\ Size(B, k) \in Nat /\ S[k] = S[k - 1] + Size(B, k)
  <2>1. k - 1 \in 0 .. N /\ k \in 0 .. N
    BY <1>6
  <2> QED BY <2>1, <1>6
<1>12. i = S[k - 1] + j - 1 /\ S[k - 1] <= i /\ i < S[k]
  BY <1>8, <1>10, <1>11
<1>13. h < k
  <2>1. SUFFICES ASSUME ~ (h < k) PROVE FALSE
    OBVIOUS
  <2>2. k \in 0 .. h /\ h \in 0 .. N
    BY <2>1, <1>4, <1>6
  <2>3. S[k] <= S[h]
    BY <2>2, <1>6
  <2> QED BY <2>3, <1>7, <1>8, <1>11, <1>12
<1>14. k <= z
  <2>1. SUFFICES ASSUME ~ (k <= z) PROVE FALSE
    OBVIOUS
  <2>2. N \in Nat /\ z \in 2 .. N
    BY <1>4, <1>6
  <2>3. z \in 0 .. k - 1 /\ k - 1 \in 0 .. N
    BY <2>1, <2>2
  <2>4. S[z] <= S[k - 1]
    BY <2>3, <1>6
  <2> QED BY <2>4, <1>7, <1>8, <1>11, <1>12
<1> DEFINE b == k - h
           m == nb[f]
<1>15. b \in 1 .. nb[f] /\ b \in 0 .. nb[f] /\ h + b = k
  <2>1. m \in Nat \ {0} /\ h \in Nat /\ z = h + m /\ k \in Nat
    <3>1. N \in Nat
      BY <1>6
    <3>2. m \in Nat \ {0} /\ h \in 2 .. N /\ z = h + m
      BY <1>4
    <3> QED BY <3>1, <3>2
  <2> HIDE DEF m
  <2>2. b \in 1 .. m /\ b \in 0 .. m /\ h + b = k
    BY <2>1, <1>13, <1>14
  <2> QED BY <2>2 DEF m
<1>16. Pos(ir, f, b) = k
  BY <1>4, <1>15
<1> HIDE DEF b
<1> QED BY <1>12, <1>15, <1>16

(* The linked functions lie one behind the other, ... *)
LEMMA LinkArranged ==
  ASSUME NEW ir, WellFormedIR(ir), NEW p, p = Link(ir)
  PROVE  Arranged(p, Len(ir.funcs), HeadAt(ir), ParamCount(ir))
<1> DEFINE F == Len(ir.funcs)
           nb == BlockCount(ir)
           B == ir2VmInst(ir)
           S == Starts(ir)
           head == HeadAt(ir)
           np == ParamCount(ir)
<1>1. Bounds(ir, B, S, F, nb, head, np)
  BY BoundsHold
<1>2. LinkedAt(ir, B, S, p, OriginBlocks(ir), LayoutOf(ir))
  BY LinkedCode
<1>3. ASSUME NEW f \in 1 .. F, NEW i \in head[f] + np[f] + 1 .. head[f + 1] - 1
      PROVE  OpAt(p, i) \notin {"FUNC", "PARAM"}
  <2>1. PICK b \in 1 .. nb[f] : \E j \in 1 .. Size(B, Pos(ir, f, b)) : i = S[Pos(ir, f, b) - 1] + j - 1
    BY BodyIndex
  <2>2. PICK j \in 1 .. Size(B, Pos(ir, f, b)) : i = S[Pos(ir, f, b) - 1] + j - 1
    BY <2>1
  <2>3. PICK n, l : From(ir.funcs[f].blocks[b].insts, j, n, l) /\ Coded(ir, B, S, p, f, b, i, n)
    BY <2>2, BodyCode
  <2> QED BY <2>3 DEF Coded, OpAt
<1>4. ASSUME NEW f \in 1 .. F
      PROVE  /\ OpAt(p, head[f]) = "FUNC"
             /\ \A i \in head[f] + 1 .. head[f] + np[f] : OpAt(p, i) = "PARAM"
             /\ \A i \in head[f] + np[f] + 1 .. head[f + 1] - 1 : OpAt(p, i) \notin {"FUNC", "PARAM"}
  BY <1>3, HeaderCode
<1>5. ASSUME NEW i \in 0 .. p.global_len - 1
      PROVE  OpAt(p, i) \notin {"FUNC", "PARAM"}
  BY GlobalCode
<1>6. ASSUME NEW i \in p.global_len .. p.size - 1
      PROVE  \E f \in 1 .. F : i \in head[f] .. head[f + 1] - 1
  <2>1. p.global_len = head[1] /\ head[1] \in Nat /\ p.size \in Nat
    <3>1. p.global_len = S[1] /\ p.size \in Nat
      BY <1>2 DEF LinkedAt
    <3>2. head[1] = S[1] /\ head \in [1 .. F + 1 -> Nat] /\ F \in Nat \ {0}
      BY <1>1 DEF Bounds
    <3>3. 1 \in 1 .. F + 1
      BY <3>2
    <3> QED BY <3>1, <3>2, <3>3
  <2>2. i \in 0 .. p.size - 1 /\ i \notin 0 .. p.global_len - 1
    BY <2>1
  <2>3. PICK f \in 1 .. F : \E b \in 0 .. nb[f] : \E j \in 1 .. Size(B, Pos(ir, f, b)) :
          i = S[Pos(ir, f, b) - 1] + j - 1
    BY <2>2, Whereabouts
  <2> QED BY <2>3, Within
<1>7. /\ F \in Nat \ {0} /\ head \in [1 .. F + 1 -> Nat] /\ np \in [1 .. F -> Nat]
      /\ p.global_len = head[1] /\ p.size = head[F + 1] /\ DOMAIN p.code = 0 .. p.size - 1
      /\ \A f \in 1 .. F : head[1] <= head[f] /\ head[f] + np[f] + 1 < head[f + 1]
                           /\ head[f + 1] <= p.size
  BY <1>1, <1>2 DEF Bounds, LinkedAt
<1> HIDE DEF F, head, np
<1>8. Arranged(p, F, head, np)
  BY <1>4, <1>5, <1>6, <1>7 DEF Arranged
<1> QED BY <1>8 DEF F, head, np

-----------------------------------------------------------------------------
(* Control in the linked program *)

(* What a well-formed program says of an instruction of a function.        *)
LEMMA InstHere ==
  ASSUME NEW ir, WellFormedIR(ir), NEW f \in 1 .. Len(ir.funcs), NEW b \in 1 .. BlockCount(ir)[f],
         NEW n \in 1 .. Len(ir.funcs[f].blocks[b].insts)
  PROVE  LET i == ir.funcs[f].blocks[b].insts[n]
         IN InstOK(i) /\ TargetsOK(ir.funcs[f], i) /\ CallOK(ir, i)
<1>1. FunctionOK(ir, ir.funcs[f]) /\ b \in DOMAIN ir.funcs[f].blocks
  BY Functions
<1>2. IsVector(ir.funcs[f].blocks[b].insts)
  BY <1>1 DEF FunctionOK
<1>3. n \in DOMAIN ir.funcs[f].blocks[b].insts
  BY <1>2, VectorShape
<1> QED BY <1>1, <1>3 DEF FunctionOK

(* A jump to a block that is not empty leads into the function's body.     *)
LEMMA TargetInBody ==
  ASSUME NEW ir, WellFormedIR(ir), NEW f \in 1 .. Len(ir.funcs), NEW name,
         \E c \in DOMAIN ir.funcs[f].blocks : /\ ir.funcs[f].blocks[c].name = name
                                              /\ ir.funcs[f].blocks[c].insts # << >>
  PROVE  Target(ir2VmInst(ir), name, FALSE)
           \in HeadAt(ir)[f] + ParamCount(ir)[f] + 1 .. HeadAt(ir)[f + 1] - 1
<1> DEFINE B == ir2VmInst(ir)
           S == Starts(ir)
           F == Len(ir.funcs)
           nb == BlockCount(ir)
<1>1. PICK c \in 1 .. nb[f] : /\ ir.funcs[f].blocks[c].name = name
                              /\ ir.funcs[f].blocks[c].insts # << >>
  BY Functions
<1> DEFINE k == Pos(ir, f, c)
           z == S[k - 1]
           q == Size(B, k)
           a == HeadAt(ir)[f] + ParamCount(ir)[f] + 1
           e == HeadAt(ir)[f + 1]
           t == Target(B, name, FALSE)
<1>2. t = z /\ q > 0
  BY <1>1, BlockTarget
<1>3. Bounds(ir, B, S, F, nb, HeadAt(ir), ParamCount(ir))
  BY BoundsHold
<1>4. z \in Nat /\ q \in Nat /\ a <= z /\ z + q <= e
  BY <1>3 DEF Bounds
<1>5. a \in Nat /\ e \in Nat
  <2>1. /\ F \in Nat \ {0} /\ HeadAt(ir) \in [1 .. F + 1 -> Nat] /\ ParamCount(ir) \in [1 .. F -> Nat]
    BY <1>3 DEF Bounds
  <2>2. f \in 1 .. F /\ f \in 1 .. F + 1 /\ f + 1 \in 1 .. F + 1
    BY <2>1
  <2> QED BY <2>1, <2>2
<1> HIDE DEF z, q, a, e, t
<1>6. t \in a .. e - 1
  BY <1>2, <1>4, <1>5
<1> QED BY <1>6 DEF t, a, e

(* The last instruction of a function leaves it.                           *)
LEMMA EndLeaves ==
  ASSUME NEW ir, WellFormedIR(ir), NEW p, p = Link(ir), NEW f \in 1 .. Len(ir.funcs)
  PROVE  OpAt(p, HeadAt(ir)[f + 1] - 1) \in Transfers
<1> DEFINE B == ir2VmInst(ir)
           S == Starts(ir)
           F == Len(ir.funcs)
           nb == BlockCount(ir)
           b == nb[f]
           insts == ir.funcs[f].blocks[b].insts
           k == Pos(ir, f, b)
           g == genInsts(insts)
           e == HeadAt(ir)[f + 1]
<1>1. b \in Nat /\ b \in 1 .. b
  BY Functions
<1>2. k \in 2 .. Len(B) /\ InstsOK(insts) /\ B[k].insts = g /\ Size(B, k) = Len(g)
  BY <1>1, BodyBlock
<1>3. insts # << >> /\ insts[Len(insts)].tag \in Leaving
  BY LastBlock
<1>4. Len(g) \in Nat /\ Len(g) > 0 /\ g[Len(g)].op \in Transfers
  BY <1>2, <1>3, GenInsts
<1>5. Len(g) \in 1 .. Len(g)
  BY <1>4
<1>6. PICK n, l : /\ From(insts, Len(g), n, l) /\ GoodCode(insts[n], genInst(insts[n]))
                  /\ g[Len(g)] = genInst(insts[n])[l]
  <2> HIDE DEF insts
  <2>1. ASSUME NEW j \in 1 .. Len(g)
        PROVE  \E n, l : /\ From(insts, j, n, l) /\ GoodCode(insts[n], genInst(insts[n]))
                         /\ g[j] = genInst(insts[n])[l]
    <3>1. \E n, l : /\ From(insts, j, n, l) /\ GoodCode(insts[n], genInst(insts[n]))
                    /\ genInsts(insts)[j] = genInst(insts[n])[l]
                    /\ genInsts(insts)[j].op \notin {"FUNC", "PARAM"}
      BY <1>2, GenOps
    <3> QED BY <3>1
  <2> HIDE DEF g
  <2> QED BY <2>1, <1>5
<1>7. l \in 1 .. Len(genInst(insts[n]))
  BY <1>6 DEF From
<1>8. Relocated(B, insts[n], genInst(insts[n]), l, Fix(B, genInst(insts[n])[l]))
  BY <1>6, <1>7, FixedGenerated
<1>9. Fix(B, g[Len(g)]).op = g[Len(g)].op
  BY <1>6, <1>8 DEF Relocated
<1>10. p.code[S[k - 1] + Len(g) - 1] = Fix(B, g[Len(g)])
  <2>1. LinkedAt(ir, B, S, p, OriginBlocks(ir), LayoutOf(ir)) /\ Started(B, S)
    BY LinkedCode, StartsShape
  <2>2. k \in 1 .. Len(B) /\ k # 1
    BY <1>2, <2>1 DEF Started
  <2>3. Len(g) \in 1 .. Size(B, k)
    BY <1>2, <1>5
  <2>4. p.code[S[k - 1] + Len(g) - 1] = fixBlock(B, k)[Len(g)]
    BY <2>1, <2>2, <2>3 DEF LinkedAt
  <2>5. IsVector(B) /\ IsVector(B[k].insts)
    <3>1. BlocksPlaced(ir, B, F, nb)
      BY Blocks
    <3> QED BY <3>1, <2>2, BlockVectors DEF BlocksPlaced
  <2>6. fixBlock(B, k)[Len(g)] = Fix(B, B[k].insts[Len(g)])
    BY <2>2, <2>3, <2>5, FixBlock
  <2> QED BY <2>4, <2>6, <1>2
<1>11. S[k - 1] + Len(g) - 1 = e - 1
  <2>1. Bounds(ir, B, S, F, nb, HeadAt(ir), ParamCount(ir))
    BY BoundsHold
  <2>2. e = S[k] /\ S[k - 1] \in Nat /\ S[k] = S[k - 1] + Len(g)
    BY <1>1, <1>2, <2>1 DEF Bounds
  <2> DEFINE z == S[k - 1]
             q == Len(g)
  <2>3. z \in Nat /\ q \in Nat /\ e = z + q
    BY <2>2, <1>4
  <2> HIDE DEF z, q, e
  <2>4. z + q - 1 = e - 1
    BY <2>3
  <2> QED BY <2>4 DEF z, q
<1> QED BY <1>4, <1>9, <1>10, <1>11 DEF OpAt

(* ... control stays in the bodies, ... *)
LEMMA LinkFlowing ==
  ASSUME NEW ir, WellFormedIR(ir), NEW p, p = Link(ir)
  PROVE  Flowing(p, Len(ir.funcs), HeadAt(ir), ParamCount(ir))
<1> DEFINE F == Len(ir.funcs)
           nb == BlockCount(ir)
           B == ir2VmInst(ir)
           S == Starts(ir)
           head == HeadAt(ir)
           np == ParamCount(ir)
           body(f) == head[f] + np[f] + 1 .. head[f + 1] - 1
<1>1. Bounds(ir, B, S, F, nb, head, np)
  BY BoundsHold
<1>2. \A i \in 0 .. p.global_len - 1 : OpAt(p, i) \notin Transfers \cup {"CALL"}
  BY GlobalCode
<1>3. ASSUME NEW f \in 1 .. F, NEW i \in body(f)
      PROVE  /\ OpAt(p, i) = "JMP" => p.code[i].target \in body(f)
             /\ OpAt(p, i) = "JIF" => p.code[i].target1 \in body(f) /\ p.code[i].target2 \in body(f)
             /\ OpAt(p, i) = "CALL" /\ p.code[i].target >= 0 =>
                  \E g \in 1 .. F :
                    /\ p.code[i].target = head[g] /\ i + np[g] < head[f + 1]
                    /\ \A j \in i + 1 .. i + np[g] : OpAt(p, j) = "ARG"
  <2>1. PICK b \in 1 .. nb[f] : \E j \in 1 .. Size(B, Pos(ir, f, b)) : i = S[Pos(ir, f, b) - 1] + j - 1
    BY BodyIndex
  <2>2. PICK j \in 1 .. Size(B, Pos(ir, f, b)) : i = S[Pos(ir, f, b) - 1] + j - 1
    BY <2>1
  <2> DEFINE insts == ir.funcs[f].blocks[b].insts
  <2>3. PICK n, l : From(insts, j, n, l) /\ Coded(ir, B, S, p, f, b, i, n)
    BY <2>2, BodyCode
  <2> DEFINE x == insts[n]
             c == p.code[i]
             name == Called(x).call
             a == Len(Called(x).args)
  <2>4. TargetsOK(ir.funcs[f], x) /\ CallOK(ir, x)
    BY <2>3, InstHere DEF From
  <2>5. /\ c.op = "JMP" => x.tag = "JMP" /\ c.target = Target(B, x.to, FALSE)
        /\ c.op = "JIF" => /\ x.tag = "BRANCH"
                           /\ c.target1 = Target(B, x.yes, FALSE)
                           /\ c.target2 = Target(B, x.no, FALSE)
        /\ c.op = "CALL" => /\ HasCall(x) /\ a \in Nat /\ c.target = CallTarget(B, name)
                            /\ i + a < S[Pos(ir, f, b)]
                            /\ \A m \in i + 1 .. i + a : OpAt(p, m) = "ARG"
    BY <2>3 DEF Coded
  <2> HIDE DEF insts, x, c
  <2>6. c.op = "JMP" => c.target \in body(f)
    BY <2>4, <2>5, TargetInBody DEF TargetsOK
  <2>7. c.op = "JIF" => c.target1 \in body(f) /\ c.target2 \in body(f)
    BY <2>4, <2>5, TargetInBody DEF TargetsOK
  <2>8. ASSUME c.op = "CALL", c.target >= 0
        PROVE  \E g \in 1 .. F :
                 /\ c.target = head[g] /\ i + np[g] < head[f + 1]
                 /\ \A m \in i + 1 .. i + np[g] : OpAt(p, m) = "ARG"
    <3>1. name \notin DOMAIN BuiltinIndex
      <4>1. \A m \in DOMAIN BuiltinIndex : BuiltinIndex[m] \in Int /\ BuiltinIndex[m] < 0
        BY DEF BuiltinIndex
      <4>2. c.target = CallTarget(B, name)
        BY <2>5, <2>8
      <4>3. name \in DOMAIN BuiltinIndex => c.target = BuiltinIndex[name]
        BY <4>2 DEF CallTarget
      <4>4. name \in DOMAIN BuiltinIndex => BuiltinIndex[name] \in Int /\ BuiltinIndex[name] < 0
        BY <4>1
      <4> QED BY <4>3, <4>4, <2>8
    <3>2. PICK g \in 1 .. F : ir.funcs[g].name = name /\ Len(ir.funcs[g].params) = a
      BY <2>4, <2>5, <2>8, <3>1, Functions DEF CallOK
    <3>3. c.target = head[g]
      <4>1. c.target = Target(B, ir.funcs[g].name, TRUE)
        BY <2>5, <2>8, <3>1, <3>2 DEF CallTarget
      <4>2. c.target = S[Pos(ir, g, 0) - 1]
        BY <4>1, FuncTarget
      <4>3. head[g] = S[Pos(ir, g, 0) - 1]
        BY <1>1 DEF Bounds
      <4> QED BY <4>2, <4>3
    <3>4. np[g] = a
      BY <3>2 DEF ParamCount
    <3>5. i + a < head[f + 1]
      <4>1. S[Pos(ir, f, b)] \in Nat /\ S[Pos(ir, f, b)] <= head[f + 1]
        BY <1>1 DEF Bounds
      <4>2. i + a < S[Pos(ir, f, b)] /\ a \in Nat
        BY <2>5, <2>8
      <4>3. head[f + 1] \in Nat /\ i \in Int
        <5>1. F \in Nat \ {0} /\ head \in [1 .. F + 1 -> Nat] /\ np \in [1 .. F -> Nat]
          BY <1>1 DEF Bounds
        <5>2. f \in 1 .. F + 1 /\ f + 1 \in 1 .. F + 1
          BY <5>1
        <5>3. head[f] \in Nat /\ head[f + 1] \in Nat /\ np[f] \in Nat
          BY <5>1, <5>2
        <5> QED BY <5>3
      <4> DEFINE e == head[f + 1]
                 z == S[Pos(ir, f, b)]
      <4>4. z \in Nat /\ z <= e /\ i + a < z /\ a \in Nat /\ e \in Nat /\ i \in Int
        BY <4>1, <4>2, <4>3
      <4> HIDE DEF e, z, a
      <4>5. i + a < e
        BY <4>4
      <4> QED BY <4>5 DEF e
    <3> QED BY <2>5, <2>8, <3>3, <3>4, <3>5
  <2> QED BY <2>6, <2>7, <2>8 DEF c, OpAt
<1>4. ASSUME NEW f \in 1 .. F
      PROVE  OpAt(p, head[f + 1] - 1) \in Transfers
  BY EndLeaves
<1> HIDE DEF F, head, np
<1>5. Flowing(p, F, head, np)
  BY <1>2, <1>3, <1>4 DEF Flowing
<1> QED BY <1>5 DEF F, head, np

-----------------------------------------------------------------------------
(* The entry points *)

(* entry is the FUNC of main and entry_end its last address. *)
LEMMA EntryAt ==
  ASSUME NEW ir, WellFormedIR(ir), NEW p, p = Link(ir), NEW f \in 1 .. Len(ir.funcs),
         ir.funcs[f].name = ENTRY_FUNC
  PROVE  /\ p.entry = HeadAt(ir)[f] /\ p.entry_end = HeadAt(ir)[f + 1] - 1
         /\ (CHOOSE g \in DOMAIN ir.funcs : ir.funcs[g].name = ENTRY_FUNC) = f
<1> DEFINE B == ir2VmInst(ir)
           S == Starts(ir)
           F == Len(ir.funcs)
           nb == BlockCount(ir)
           b == nb[f]
           z == Pos(ir, f, b)
<1>1. LinkedAt(ir, B, S, p, OriginBlocks(ir), LayoutOf(ir))
  BY LinkedCode
<1>2. Bounds(ir, B, S, F, nb, HeadAt(ir), ParamCount(ir))
  BY BoundsHold
<1>3. /\ b \in Nat \ {0} /\ DOMAIN ir.funcs = 1 .. F /\ b = Len(ir.funcs[f].blocks)
      /\ \A g \in 1 .. F : 0 \in 0 .. Len(ir.funcs[g].blocks)
  <2>1. /\ F \in Nat \ {0} /\ nb \in [1 .. F -> Nat \ {0}] /\ DOMAIN ir.funcs = 1 .. F
        /\ \A g \in 1 .. F : nb[g] = Len(ir.funcs[g].blocks)
    BY Functions
  <2> HIDE DEF nb, F
  <2>2. f \in 1 .. F
    BY DEF F
  <2>3. \A g \in 1 .. F : nb[g] \in Nat
    BY <2>1
  <2>4. \A g \in 1 .. F : Len(ir.funcs[g].blocks) \in Nat
    BY <2>1, <2>3
  <2> QED BY <2>1, <2>2, <2>4
<1>4. \A g : NameOf(ir, g, 0) = ir.funcs[g].name
  BY DEF NameOf
<1>5. (CHOOSE g \in DOMAIN ir.funcs : ir.funcs[g].name = ENTRY_FUNC) = f
  <2>1. \A g \in DOMAIN ir.funcs : ir.funcs[g].name = ENTRY_FUNC => g = f
    <3>1. NamesApart(ir)
      BY DEF WellFormedIR
    <3> QED BY <1>3, <1>4, <3>1 DEF NamesApart
  <2>2. f \in DOMAIN ir.funcs
    BY <1>3
  <2> QED BY <2>1, <2>2
<1>6. p.entry = HeadAt(ir)[f]
  <2>1. 0 \in 0 .. nb[f]
    BY <1>3
  <2>2. LastNamed(B, ENTRY_FUNC) = Pos(ir, f, 0)
    BY <2>1, <1>4, LastOfName
  <2>3. p.entry = S[Pos(ir, f, 0) - 1]
    BY <1>1, <2>2 DEF LinkedAt
  <2> QED BY <2>3, <1>2 DEF Bounds
<1>7. p.entry_end = HeadAt(ir)[f + 1] - 1
  <2>1. b \in 0 .. nb[f] /\ b \in 1 .. nb[f] /\ b # 0
    BY <1>3
  <2>2. EntryEndBlock(ir) = NameOf(ir, f, b)
    <3>1. EntryEndBlock(ir) = ir.funcs[f].blocks[Len(ir.funcs[f].blocks)].name
      BY <1>5 DEF EntryEndBlock, Last
    <3>2. NameOf(ir, f, b) = ir.funcs[f].blocks[b].name
      BY <2>1 DEF NameOf
    <3> QED BY <3>1, <3>2, <1>3
  <2>3. LastNamed(B, EntryEndBlock(ir)) = z
    BY <2>1, <2>2, LastOfName
  <2>4. p.entry_end = End(B, z)
    BY <1>1, <2>3 DEF LinkedAt
  <2>5. End(B, z) = S[z - 1] + Size(B, z) - 1
    BY DEF End, Offset, Starts
  <2>6. HeadAt(ir)[f + 1] = S[z] /\ S[z] = S[z - 1] + Size(B, z)
        /\ S[z - 1] \in Nat /\ Size(B, z) \in Nat
    BY <2>1, <1>2 DEF Bounds
  <2> DEFINE y == S[z - 1]
             q == Size(B, z)
  <2>7. p.entry_end = y + q - 1 /\ HeadAt(ir)[f + 1] = y + q /\ y \in Nat /\ q \in Nat
    BY <2>4, <2>5, <2>6
  <2> HIDE DEF y, q
  <2> QED BY <2>7
<1> QED BY <1>5, <1>6, <1>7

(* ... the entry points are in place, ... *)
LEMMA LinkEntered ==
  ASSUME NEW ir, WellFormedIR(ir), NEW p, p = Link(ir)
  PROVE  Entered(p, Len(ir.funcs), HeadAt(ir), ParamCount(ir))
<1>1. PICK f \in 1 .. Len(ir.funcs) : ir.funcs[f].name = ENTRY_FUNC /\ ir.funcs[f].params = << >>
  BY Functions DEF WellFormedIR
<1> DEFINE F == Len(ir.funcs)
           head == HeadAt(ir)
           np == ParamCount(ir)
<1>2. p.entry = head[f] /\ p.entry_end = head[f + 1] - 1
  BY <1>1, EntryAt
<1>3. np[f] = 0
  BY <1>1 DEF ParamCount
<1> HIDE DEF F, head, np
<1>4. Arranged(p, F, head, np)
  BY LinkArranged DEF F, head, np
<1>5. f \in 1 .. F
  BY DEF F
<1>6. /\ head[f] \in Nat /\ head[f + 1] \in Nat /\ np[f] \in Nat
      /\ head[f] + np[f] + 1 < head[f + 1] /\ p.global_len <= head[f] /\ head[f + 1] <= p.size
      /\ p.global_len \in Nat /\ p.size \in Nat
  BY <1>4, <1>5, ArrangedNumbers
<1>7. p.entry_end \in p.global_len .. p.size - 1
  BY <1>2, <1>6
<1>8. Entered(p, F, head, np)
  BY <1>2, <1>3, <1>5, <1>7 DEF Entered
<1> QED BY <1>8 DEF F, head, np

(* ... and so the program is well linked. *)
LEMMA LinkWell ==
  ASSUME NEW ir, WellFormedIR(ir)
  PROVE  WellLinked(Link(ir))
<1> DEFINE p == Link(ir)
<1>1. Arranged(p, Len(ir.funcs), HeadAt(ir), ParamCount(ir))
  BY LinkArranged
<1>2. Flowing(p, Len(ir.funcs), HeadAt(ir), ParamCount(ir))
  BY LinkFlowing
<1>3. Entered(p, Len(ir.funcs), HeadAt(ir), ParamCount(ir))
  BY LinkEntered
<1> QED BY <1>1, <1>2, <1>3, ArrangedWell

-----------------------------------------------------------------------------
-----------------------------------------------------------------------------
(* Places in the linked code *)

(* Function 0 are the initialisers: they are its only block.               *)
IRInsts(ir, f, b) == IF f = 0 THEN ir.globals ELSE ir.funcs[f].blocks[b].insts
BlockTotal(ir, f) == IF f = 0 THEN 1 ELSE Len(ir.funcs[f].blocks)
IsBlock(ir, f, b) == f \in 0 .. Len(ir.funcs) /\ b \in 1 .. BlockTotal(ir, f)
IsSpot(ir, f, b, n) == IsBlock(ir, f, b) /\ n \in 1 .. Len(IRInsts(ir, f, b))

BlockAt(ir, f, b) == IF f = 0 THEN 1 ELSE Pos(ir, f, b)

(* Where the code of an IR instruction begins, and how long it is.         *)
Begin(ir, f, b, n) ==
  Starts(ir)[BlockAt(ir, f, b) - 1] + Offsets(Gens(IRInsts(ir, f, b)))[n - 1]
Extent(ir, f, b, n) == Len(genInst(IRInsts(ir, f, b)[n]))

(* A block of a program is one of ir2VmInst's.                             *)
LEMMA BlockHere ==
  ASSUME NEW ir, WellFormedIR(ir), NEW B, B = ir2VmInst(ir), NEW f, NEW b, IsBlock(ir, f, b)
  PROVE  LET k == BlockAt(ir, f, b)
             insts == IRInsts(ir, f, b)
         IN /\ k \in 1 .. Len(B) /\ (k = 1 <=> f = 0) /\ Len(B) \in Nat
            /\ InstsOK(insts) /\ IsVector(insts)
            /\ B[k].insts = genInsts(insts) /\ Size(B, k) = Len(genInsts(insts))
            /\ OriginBlocks(ir)[k] = Origin(f, IF f = 0 THEN 1 ELSE b, insts)
            /\ f # 0 => f \in 1 .. Len(ir.funcs) /\ b \in 1 .. BlockCount(ir)[f]
<1> DEFINE F == Len(ir.funcs)
           nb == BlockCount(ir)
<1>1. BlocksPlaced(ir, B, F, nb) /\ OriginsPlaced(ir, OriginBlocks(ir), F, nb)
  BY Blocks, Origins
<1>2. Len(B) \in Nat /\ Pos(ir, 1, 0) = 2 /\ Pos(ir, 1, 0) \in 2 .. Len(B)
  <2>1. 1 \in 1 .. F /\ \A f1 \in 1 .. F : nb[f1] \in Nat
    BY <1>1 DEF BlocksPlaced
  <2>2. 0 \in 0 .. nb[1]
    BY <2>1
  <2> QED BY <2>1, <2>2, <1>1 DEF BlocksPlaced
<1>3. CASE f = 0
  <2>1. InstsOK(ir.globals)
    BY Globals
  <2>2. B[1].insts = genInsts(ir.globals) /\ OriginBlocks(ir)[1] = Origin(0, 1, ir.globals)
    BY <1>1 DEF BlocksPlaced, OriginsPlaced, Block
  <2> QED BY <2>1, <2>2, <1>2, <1>3 DEF BlockAt, IRInsts, InstsOK, Size
<1>4. CASE f # 0
  <2>1. f \in 1 .. F
    BY <1>4, Functions DEF IsBlock
  <2>2. b \in 1 .. nb[f]
    BY <2>1, <1>4, Functions DEF IsBlock, BlockTotal
  <2>3. b \in 0 .. nb[f]
    BY <2>2
  <2>4. /\ Pos(ir, f, b) \in 2 .. Len(B) /\ InstsOK(ir.funcs[f].blocks[b].insts)
        /\ B[Pos(ir, f, b)].insts = genInsts(ir.funcs[f].blocks[b].insts)
        /\ Size(B, Pos(ir, f, b)) = Len(genInsts(ir.funcs[f].blocks[b].insts))
    BY <2>1, <2>2, BodyBlock
  <2>5. OriginBlocks(ir)[Pos(ir, f, b)] = Origin(f, b, ir.funcs[f].blocks[b].insts)
    BY <2>1, <2>2, <1>1 DEF OriginsPlaced
  <2> QED BY <2>1, <2>2, <2>4, <2>5, <1>2, <1>4 DEF BlockAt, IRInsts, InstsOK
<1> QED BY <1>3, <1>4

(* The code of an IR instruction within its block.                         *)
LEMMA GenWithin ==
  ASSUME NEW insts, InstsOK(insts), NEW n \in 1 .. Len(insts)
  PROVE  LET o == Offsets(Gens(insts))
             w == Len(genInst(insts[n]))
         IN /\ o[n - 1] \in Nat /\ w \in Nat \ {0} /\ o[n] = o[n - 1] + w
            /\ o[n] <= Len(genInsts(insts)) /\ Len(genInsts(insts)) \in Nat
            /\ n = Len(insts) => o[n] = Len(genInsts(insts))
            /\ o[0] = 0 /\ GoodCode(insts[n], genInst(insts[n]))
            /\ \A l \in 1 .. w : From(insts, o[n - 1] + l, n, l)
<1> DEFINE g == Gens(insts)
           o == Offsets(g)
           c == genInsts(insts)
           N == Len(insts)
           w == Len(genInst(insts[n]))
<1>1. /\ Nested(g) /\ Len(g) = N /\ N \in Nat
      /\ \A m \in 1 .. N : g[m] = genInst(insts[m]) /\ GoodCode(insts[m], genInst(insts[m]))
  BY GensNested
<1>2. c = FlattenSeq(g)
  BY DEF genInsts, Gens
<1> HIDE DEF g
<1>3. /\ o \in [0 .. N -> Nat] /\ o[0] = 0
      /\ \A m \in 1 .. N : o[m] = o[m - 1] + Len(g[m])
  BY <1>1, OffsetsShape
<1>4. Len(c) = o[N] /\ \A m \in 1 .. N : \A l \in 1 .. Len(g[m]) : c[o[m - 1] + l] = g[m][l]
  BY <1>1, <1>2, FlattenPlaces
<1>5. n - 1 \in 0 .. N /\ n \in 0 .. N /\ N \in 0 .. N
  BY <1>1
<1>6. o[n] <= o[N]
  BY <1>1, <1>5, OffsetsGrow
<1> HIDE DEF o
<1>7. g[n] = genInst(insts[n]) /\ GoodCode(insts[n], genInst(insts[n]))
  BY <1>1
<1>8. w \in Nat \ {0} /\ o[n] = o[n - 1] + w /\ o[n - 1] \in Nat /\ o[n] \in Nat /\ o[N] \in Nat
  BY <1>3, <1>5, <1>7 DEF GoodCode
<1> DEFINE q == o[n - 1]
<1>9. ASSUME NEW l \in 1 .. w
      PROVE  From(insts, q + l, n, l)
  <2>1. q \in Nat /\ w \in Nat /\ Len(c) \in Nat /\ q + w <= Len(c)
    BY <1>4, <1>6, <1>8
  <2>2. \A m \in 1 .. w : c[q + m] = genInst(insts[n])[m]
    BY <1>4, <1>7
  <2> HIDE DEF q
  <2>3. \A m \in 1 .. w : (q + l) - l + m = q + m /\ q + m \in 1 .. Len(c)
    BY <2>1
  <2>4. q = Offsets(Gens(insts))[n - 1]
    BY DEF q, o, g
  <2> QED BY <2>2, <2>3, <2>4 DEF From
<1> QED BY <1>3, <1>4, <1>6, <1>7, <1>8, <1>9 DEF o, g

(* What stands at a place: its instruction, relocated, and where it comes  *)
(* from.                                                                   *)
LEMMA SpotCode ==
  ASSUME NEW ir, WellFormedIR(ir), NEW f, NEW b, NEW n, IsSpot(ir, f, b, n),
         NEW l \in 1 .. Extent(ir, f, b, n), NEW i, i = Begin(ir, f, b, n) + l - 1
  PROVE  LET p == Link(ir)
             s == genInst(IRInsts(ir, f, b)[n])
         IN /\ i \in 0 .. p.size - 1 /\ Begin(ir, f, b, n) \in Nat /\ p.size \in Nat
            /\ Extent(ir, f, b, n) \in Nat \ {0}
            /\ p.code[i] = Fix(ir2VmInst(ir), s[l])
            /\ LayoutOf(ir)[i] = [fn |-> f, block |-> b, next |-> n,
                                  last |-> l = Extent(ir, f, b, n)]
            /\ GoodCode(IRInsts(ir, f, b)[n], s)
            /\ p.global_len \in Nat
            /\ f = 0 <=> i < p.global_len
<1> DEFINE B == ir2VmInst(ir)
           S == Starts(ir)
           p == Link(ir)
           y == LayoutOf(ir)
           W == OriginBlocks(ir)
           k == BlockAt(ir, f, b)
           insts == IRInsts(ir, f, b)
           o == Offsets(Gens(insts))
           s == genInst(insts[n])
           w == Len(s)
           j == o[n - 1] + l
<1>1. IsBlock(ir, f, b) /\ n \in 1 .. Len(insts)
  BY DEF IsSpot
<1>2. /\ k \in 1 .. Len(B) /\ (k = 1 <=> f = 0) /\ InstsOK(insts) /\ B[k].insts = genInsts(insts)
      /\ Size(B, k) = Len(genInsts(insts)) /\ W[k] = Origin(f, IF f = 0 THEN 1 ELSE b, insts)
      /\ Len(B) \in Nat
  BY <1>1, BlockHere
<1>3. f = 0 => b = 1
  BY <1>1 DEF IsBlock, BlockTotal
<1>4. W[k] = Origin(f, b, insts)
  BY <1>2, <1>3
<1>5. LinkedAt(ir, B, S, p, W, y)
  BY LinkedCode
<1>6. Started(B, S)
  BY StartsShape
<1> HIDE DEF B, S, p, y, W, k
<1>7. /\ o[n - 1] \in Nat /\ w \in Nat \ {0} /\ o[n] = o[n - 1] + w /\ o[n] <= Len(genInsts(insts))
      /\ GoodCode(insts[n], s) /\ Len(genInsts(insts)) \in Nat /\ l \in 1 .. w
      /\ \A m \in 1 .. w : From(insts, o[n - 1] + m, n, m)
  BY <1>1, <1>2, GenWithin DEF Extent
<1>8. From(insts, j, n, l)
  BY <1>7
<1>9. /\ j \in 1 .. Size(B, k) /\ genInsts(insts)[j] = s[l]
      /\ W[k][j] = [fn |-> f, block |-> b, next |-> n, last |-> l = w]
  <2>1. W[k][j] = [fn |-> f, block |-> b, next |-> n, last |-> l = w]
    BY <1>2, <1>4, <1>8, OriginShape
  <2>2. j - l + l \in 1 .. Len(genInsts(insts)) /\ genInsts(insts)[j - l + l] = s[l]
    BY <1>7, <1>8 DEF From
  <2>3. j - l + l = j
    BY <1>7
  <2> QED BY <2>1, <2>2, <2>3, <1>2
<1> HIDE DEF o
<1>10. S[k - 1] \in Nat /\ S[k] = S[k - 1] + Size(B, k) /\ S[1] \in Nat /\ S[0] = 0 /\ Size(B, k) \in Nat
       /\ S[1] <= S[k]
  <2>1. k - 1 \in 0 .. Len(B) /\ 1 \in 0 .. Len(B) /\ k \in 0 .. Len(B) /\ 1 \in 0 .. k
    BY <1>2, <1>6 DEF Started
  <2> QED BY <2>1, <1>2, <1>6 DEF Started
<1>11. i = S[k - 1] + j - 1 /\ Begin(ir, f, b, n) \in Nat
  <2>1. Begin(ir, f, b, n) = S[k - 1] + o[n - 1]
    BY DEF Begin, S, k, o
  <2> QED BY <2>1, <1>7, <1>10
<1> HIDE DEF j
<1>12. /\ i \in 0 .. p.size - 1 /\ p.code[i] = fixBlock(B, k)[j] /\ y[i] = W[k][j]
       /\ p.global_len = S[1] /\ p.size \in Nat
  BY <1>2, <1>5, <1>9, <1>11 DEF LinkedAt
<1>13. p.code[i] = Fix(B, s[l])
  <2>1. IsVector(B) /\ IsVector(B[k].insts)
    <3>1. IsVector(B)
      BY Blocks DEF BlocksPlaced, B
    <3> QED BY <3>1, <1>2, BlockVectors DEF B
  <2>2. CASE k = 1
    <3>1. p.code[i] = s[l]
      BY <2>1, <2>2, <1>2, <1>9, <1>12, FixBlock
    <3>2. s[l].op \notin {"JMP", "JIF", "CALL"}
      <4>1. insts[n].tag = "ASSIGN" /\ ~HasCall(insts[n])
        <5>1. insts = ir.globals
          BY <2>2, <1>2 DEF IRInsts
        <5>2. n \in DOMAIN ir.globals
          BY <5>1, <1>1, <1>2, VectorShape DEF InstsOK
        <5> QED BY <5>1, <5>2 DEF WellFormedIR, GlobalOK, HasCall
      <4> QED BY <4>1, <1>7 DEF GoodCode, Leaving, Transfers
    <3> QED BY <3>1, <3>2, FixOther
  <2>3. CASE k # 1
    BY <2>1, <2>3, <1>2, <1>9, <1>12, FixBlock
  <2> QED BY <2>2, <2>3
<1>14. f = 0 <=> i < p.global_len
  <2>1. CASE f = 0
    BY <2>1, <1>2, <1>9, <1>10, <1>11, <1>12
  <2>2. CASE f # 0
    <3>1. 1 \in 0 .. k - 1 /\ k - 1 \in 0 .. Len(B)
      BY <2>2, <1>2
    <3>2. S[1] <= S[k - 1]
      BY <3>1, <1>6 DEF Started
    <3> QED BY <2>2, <3>2, <1>9, <1>10, <1>11, <1>12
  <2> QED BY <2>1, <2>2
<1>15. y[i] = [fn |-> f, block |-> b, next |-> n, last |-> l = w]
  BY <1>9, <1>12
<1>16. p.global_len \in Nat
  BY <1>10, <1>12
<1>17. w = Extent(ir, f, b, n)
  BY DEF Extent
<1> HIDE DEF w, s
<1>18. LayoutOf(ir)[i] = [fn |-> f, block |-> b, next |-> n, last |-> l = Extent(ir, f, b, n)]
  BY <1>15, <1>17 DEF y
<1> QED BY <1>7, <1>11, <1>12, <1>13, <1>14, <1>16, <1>17, <1>18 DEF B, p, s, insts

(* The header of a function: its FUNC and then a PARAM for each parameter. *)
LEMMA HeaderSpot ==
  ASSUME NEW ir, WellFormedIR(ir), NEW f \in 1 .. Len(ir.funcs),
         NEW k \in 0 .. ParamCount(ir)[f], NEW i, i = HeadAt(ir)[f] + k
  PROVE  LET p == Link(ir)
         IN /\ i \in 0 .. p.size - 1 /\ i >= p.global_len /\ ParamCount(ir)[f] \in Nat
            /\ HeadAt(ir)[f] \in Nat
            /\ k = 0 => p.code[i].op = "FUNC"
            /\ k # 0 => p.code[i] = [op |-> "PARAM", name |-> ir.funcs[f].params[k]]
            /\ LayoutOf(ir)[i].fn = f /\ LayoutOf(ir)[i].block = 0
<1> DEFINE B == ir2VmInst(ir)
           S == Starts(ir)
           p == Link(ir)
           y == LayoutOf(ir)
           W == OriginBlocks(ir)
           z == Pos(ir, f, 0)
           F == Len(ir.funcs)
           nb == BlockCount(ir)
           np == ParamCount(ir)
           head == HeadAt(ir)
           fn == ir.funcs[f]
<1>1. LinkedAt(ir, B, S, p, W, y) /\ Started(B, S)
  BY LinkedCode, StartsShape
<1>2. BlocksPlaced(ir, B, F, nb) /\ OriginsPlaced(ir, W, F, nb) /\ Bounds(ir, B, S, F, nb, head, np)
  BY Blocks, Origins, BoundsHold
<1>3. z \in 2 .. Len(B) /\ Size(B, z) = Len(fn.params) + 1 /\ Len(fn.params) \in Nat
  BY HeaderBlock
<1>4. np[f] = Len(fn.params)
  BY DEF ParamCount
<1>5. head[f] = S[z - 1] /\ head[f] \in Nat /\ head[1] <= head[f] /\ p.global_len = head[1] /\ head[1] \in Nat
  <2>1. 1 \in 1 .. F + 1 /\ f \in 1 .. F + 1
    BY <1>2 DEF Bounds
  <2> QED BY <2>1, <1>1, <1>2 DEF Bounds, LinkedAt
<1>6. B[z] = Block(fn.name, genFunc(fn)) /\ W[z] = HeaderOrigin(f, fn)
  BY <1>2 DEF BlocksPlaced, OriginsPlaced
<1>7. IsVector(fn.params)
  BY Functions
<1>8. /\ IsVector(genFunc(fn)) /\ Len(genFunc(fn)) = Len(fn.params) + 1
      /\ genFunc(fn)[1].op = "FUNC"
  BY <1>7, GenFunc
<1>9. \A m \in 1 .. Len(fn.params) : genFunc(fn)[m + 1] = [op |-> "PARAM", name |-> fn.params[m]]
  <2> DEFINE t == [m \in DOMAIN fn.params |-> [op |-> "PARAM", name |-> fn.params[m]]]
             r == Len(fn.params)
  <2>1. t = [m \in 1 .. r |-> t[m]] /\ \A m \in 1 .. r : t[m] = [op |-> "PARAM", name |-> fn.params[m]]
    BY <1>7, VectorShape
  <2>2. genFunc(fn) = <<[op |-> "FUNC", params |-> r]>> \o t
    BY DEF genFunc
  <2>3. r \in Nat
    BY <1>3
  <2> HIDE DEF t, r
  <2>4. \A m \in 1 .. r : (<<[op |-> "FUNC", params |-> r]>> \o t)[m + 1] = t[m]
    BY <2>1, <2>3, Behind
  <2> QED BY <2>1, <2>2, <2>4 DEF r
<1>10. B[z].insts = genFunc(fn)
  BY <1>6 DEF Block
<1> HIDE DEF B, S, p, y, W, z, np, head, F, nb, fn
<1>11. /\ k \in Nat /\ k + 1 \in 1 .. Size(B, z) /\ i = S[z - 1] + (k + 1) - 1 /\ z \in 1 .. Len(B)
       /\ k + 1 \in 1 .. Len(fn.params) + 1 /\ z # 1
  <2>1. k \in 0 .. np[f] /\ i = head[f] + k
    BY DEF np, head
  <2>2. Len(B) \in Nat
    BY <1>1 DEF Started
  <2> QED BY <2>1, <2>2, <1>3, <1>4, <1>5
<1>12. i \in 0 .. p.size - 1 /\ p.code[i] = fixBlock(B, z)[k + 1] /\ y[i] = W[z][k + 1]
  BY <1>11, <1>1 DEF LinkedAt
<1>13. p.code[i] = Fix(B, genFunc(fn)[k + 1])
  <2>1. IsVector(B) /\ IsVector(B[z].insts)
    BY <1>2, <1>8, <1>10 DEF BlocksPlaced
  <2>2. fixBlock(B, z)[k + 1] = Fix(B, B[z].insts[k + 1])
    BY <2>1, <1>11, FixBlock
  <2> QED BY <2>2, <1>10, <1>12
<1>14. /\ k = 0 => p.code[i].op = "FUNC"
       /\ k # 0 => p.code[i] = [op |-> "PARAM", name |-> fn.params[k]]
  <2>1. CASE k = 0
    <3>1. genFunc(fn)[k + 1].op = "FUNC"
      BY <2>1, <1>8
    <3>2. Fix(B, genFunc(fn)[k + 1]) = genFunc(fn)[k + 1]
      BY <3>1, FixOther
    <3> QED BY <2>1, <3>1, <3>2, <1>13
  <2>2. CASE k # 0
    <3>1. genFunc(fn)[k + 1] = [op |-> "PARAM", name |-> fn.params[k]]
      BY <2>2, <1>9, <1>11, <1>3
    <3>2. Fix(B, genFunc(fn)[k + 1]) = genFunc(fn)[k + 1]
      BY <3>1, FixOther
    <3> QED BY <2>2, <3>1, <3>2, <1>13
  <2> QED BY <2>1, <2>2
<1>15. y[i].fn = f /\ y[i].block = 0
  <2>1. \A m \in 1 .. Len(fn.params) + 1 : HeaderOrigin(f, fn)[m].fn = f /\ HeaderOrigin(f, fn)[m].block = 0
    BY <1>7, HeaderOriginShape
  <2> QED BY <2>1, <1>6, <1>11, <1>12
<1>16. i >= p.global_len
  BY <1>5, <1>11
<1> QED BY <1>4, <1>3, <1>5, <1>12, <1>14, <1>15, <1>16 DEF p, y, fn, np, head

(* Every address is a place of an IR instruction or in a header.           *)
LEMMA Everywhere ==
  ASSUME NEW ir, WellFormedIR(ir), NEW i \in 0 .. Link(ir).size - 1
  PROVE  \/ \E f, b, n : \E l \in 1 .. Extent(ir, f, b, n) :
              IsSpot(ir, f, b, n) /\ i = Begin(ir, f, b, n) + l - 1
         \/ \E f \in 1 .. Len(ir.funcs) : \E k \in 0 .. ParamCount(ir)[f] : i = HeadAt(ir)[f] + k
<1> DEFINE B == ir2VmInst(ir)
           S == Starts(ir)
           F == Len(ir.funcs)
           nb == BlockCount(ir)
           p == Link(ir)
<1>1. Started(B, S)
  BY StartsShape
<1>2. ASSUME NEW f, NEW b, IsBlock(ir, f, b), NEW j \in 1 .. Size(B, BlockAt(ir, f, b)),
             i = S[BlockAt(ir, f, b) - 1] + j - 1
      PROVE  \E n : \E l \in 1 .. Extent(ir, f, b, n) :
               IsSpot(ir, f, b, n) /\ i = Begin(ir, f, b, n) + l - 1
  <2> DEFINE insts == IRInsts(ir, f, b)
             k == BlockAt(ir, f, b)
  <2>1. k \in 1 .. Len(B) /\ InstsOK(insts) /\ Size(B, k) = Len(genInsts(insts))
    BY <1>2, BlockHere
  <2>2. PICK n, l : From(insts, j, n, l)
    BY <2>1, <1>2, GenInsts
  <2>3. n \in 1 .. Len(insts) /\ l \in 1 .. Len(genInst(insts[n])) /\ j = Offsets(Gens(insts))[n - 1] + l
    BY <2>2 DEF From
  <2>4. Offsets(Gens(insts))[n - 1] \in Nat /\ Len(genInst(insts[n])) \in Nat
    BY <2>1, <2>3, GenWithin
  <2>5. S[k - 1] \in Nat
    BY <2>1, <1>1 DEF Started
  <2>6. i = (S[k - 1] + Offsets(Gens(insts))[n - 1]) + l - 1
    BY <2>3, <2>4, <2>5, <1>2
  <2> QED BY <1>2, <2>3, <2>6 DEF IsSpot, Extent, Begin
<1>3. \/ i \in 0 .. p.global_len - 1 /\ i + 1 \in 1 .. Size(B, 1) /\ i = S[1 - 1] + (i + 1) - 1
      \/ \E f \in 1 .. F : \E b \in 0 .. nb[f] : \E j \in 1 .. Size(B, Pos(ir, f, b)) :
           i = S[Pos(ir, f, b) - 1] + j - 1
  BY Whereabouts
<1> HIDE DEF S, p
<1>4. CASE i + 1 \in 1 .. Size(B, 1) /\ i = S[1 - 1] + (i + 1) - 1
  <2>1. IsBlock(ir, 0, 1) /\ BlockAt(ir, 0, 1) = 1
    BY Functions DEF IsBlock, BlockTotal, BlockAt
  <2> QED BY <2>1, <1>2, <1>4
<1>5. ASSUME NEW f \in 1 .. F, NEW b \in 0 .. nb[f], NEW j \in 1 .. Size(B, Pos(ir, f, b)),
             i = S[Pos(ir, f, b) - 1] + j - 1
      PROVE  \/ \E n : \E l \in 1 .. Extent(ir, f, b, n) :
                   IsSpot(ir, f, b, n) /\ i = Begin(ir, f, b, n) + l - 1
             \/ \E k \in 0 .. ParamCount(ir)[f] : i = HeadAt(ir)[f] + k
  <2>1. CASE b = 0
    <3>1. Pos(ir, f, 0) \in 2 .. Len(B) /\ Len(ir.funcs[f].params) \in Nat
          /\ Size(B, Pos(ir, f, 0)) = Len(ir.funcs[f].params) + 1
      BY HeaderBlock
    <3>2. HeadAt(ir)[f] = S[Pos(ir, f, 0) - 1] /\ ParamCount(ir)[f] = Len(ir.funcs[f].params)
      BY Functions DEF HeadAt, ParamCount, S
    <3>3. S[Pos(ir, f, 0) - 1] \in Nat
      <4>1. S \in [0 .. Len(B) -> Nat] /\ Len(B) \in Nat
        BY <1>1 DEF Started
      <4>2. Pos(ir, f, 0) - 1 \in 0 .. Len(B)
        BY <3>1, <4>1
      <4> QED BY <4>1, <4>2
    <3>4. j - 1 \in 0 .. ParamCount(ir)[f] /\ i = HeadAt(ir)[f] + (j - 1)
      BY <2>1, <3>1, <3>2, <3>3, <1>5
    <3> QED BY <3>4
  <2>2. CASE b # 0
    <3>1. nb[f] \in Nat /\ nb[f] = Len(ir.funcs[f].blocks) /\ F \in Nat
      BY Functions
    <3>2. IsBlock(ir, f, b) /\ BlockAt(ir, f, b) = Pos(ir, f, b)
      BY <2>2, <3>1 DEF IsBlock, BlockTotal, BlockAt
    <3> QED BY <3>2, <1>2, <1>5
  <2> QED BY <2>1, <2>2
<1> QED BY <1>3, <1>4, <1>5

-----------------------------------------------------------------------------
(* From one place to the next *)

(* IRMachine's Position.                                                   *)
PosAfter(ir, f, b, n) ==
  LET full == {c \in b + 1 .. BlockTotal(ir, f) : IRInsts(ir, f, c) # << >>}
  IN IF b <= BlockTotal(ir, f) /\ n <= Len(IRInsts(ir, f, b))
       THEN [fn |-> f, block |-> b, next |-> n]
     ELSE [fn |-> f, next |-> 1,
           block |-> IF full = {} THEN BlockTotal(ir, f) + 1 ELSE Min(full)]

(* Blocks without instructions take no room.                               *)
LEMMA SkipEmpty ==
  ASSUME NEW ir, WellFormedIR(ir), NEW f \in 1 .. Len(ir.funcs),
         NEW b \in 0 .. BlockCount(ir)[f], NEW c \in b + 1 .. BlockCount(ir)[f],
         \A m \in b + 1 .. c - 1 : ir.funcs[f].blocks[m].insts = << >>
  PROVE  Starts(ir)[Pos(ir, f, b)] = Starts(ir)[Pos(ir, f, c) - 1]
<1> DEFINE B == ir2VmInst(ir)
           S == Starts(ir)
           F == Len(ir.funcs)
           nb == BlockCount(ir)
           P(m) == Pos(ir, f, m)
           T == {d \in Nat : b + 1 + d <= c => S[P(b + 1 + d) - 1] = S[P(b)]}
<1>1. Started(B, S) /\ BlocksPlaced(ir, B, F, nb)
  BY StartsShape, Blocks
<1>2. nb[f] \in Nat /\ \A m \in 0 .. nb[f] : P(m) \in 2 .. Len(B) /\ P(m) = P(0) + m
  BY <1>1 DEF BlocksPlaced
<1>3. P(0) \in Nat /\ Len(B) \in Nat
  <2>1. 0 \in 0 .. nb[f]
    BY <1>2
  <2> QED BY <2>1, <1>1, <1>2 DEF Started
<1>4. \A m \in 0 .. nb[f] : P(m) = P(0) + m
  BY <1>2
<1>5. \A m \in 1 .. nb[f] : ir.funcs[f].blocks[m].insts = << >> => S[P(m)] = S[P(m) - 1]
  <2> TAKE m \in 1 .. nb[f]
  <2> HAVE ir.funcs[f].blocks[m].insts = << >>
  <2>1. P(m) \in 2 .. Len(B) /\ Size(B, P(m)) = Len(genInsts(ir.funcs[f].blocks[m].insts))
    BY BodyBlock
  <2>2. genInsts(<< >>) = << >>
    <3> DEFINE g == Gens(<< >>)
    <3>1. genInsts(<< >>) = FlattenSeq(g) /\ g = [k \in 1 .. 0 |-> g[k]]
      BY DEF genInsts, Gens
    <3> HIDE DEF g
    <3>2. IsVector(g) /\ Len(g) = 0
      BY <3>1, Vector
    <3>3. Nested(g)
      BY <3>2 DEF Nested
    <3>4. IsVector(FlattenSeq(g)) /\ Len(FlattenSeq(g)) = 0
      BY <3>2, <3>3, FlattenPlaces, OffsetsShape
    <3>5. FlattenSeq(g) = [k \in 1 .. 0 |-> FlattenSeq(g)[k]]
      BY <3>4, VectorShape
    <3> QED BY <3>1, <3>5
  <2>3. Size(B, P(m)) = 0
    BY <2>1, <2>2
  <2>4. P(m) \in 1 .. Len(B) /\ P(m) - 1 \in 0 .. Len(B)
    BY <2>1, <1>3
  <2>5. S[P(m)] = S[P(m) - 1] + Size(B, P(m)) /\ S[P(m) - 1] \in Nat
    BY <2>4, <1>1 DEF Started
  <2> QED BY <2>3, <2>5
<1> HIDE DEF P, S, B, nb
<1>6. b \in Nat /\ c \in Nat /\ c <= nb[f] /\ b + 1 <= c /\ nb[f] \in Nat
  BY <1>2 DEF nb
<1>7. 0 \in T
  <2>1. b \in 0 .. nb[f] /\ b + 1 + 0 \in 0 .. nb[f] /\ b + 1 + 0 = b + 1
    BY <1>6
  <2> DEFINE m == b + 1 + 0
  <2>2. P(m) = P(0) + m /\ P(b) = P(0) + b
    BY <2>1, <1>4
  <2>3. P(m) - 1 = P(b)
    BY <2>2, <1>3, <1>6
  <2> QED BY <2>3
<1>8. ASSUME NEW d \in Nat, d \in T
      PROVE  d + 1 \in T
  <2>1. SUFFICES ASSUME b + 1 + (d + 1) <= c
                 PROVE  S[P(b + 1 + (d + 1)) - 1] = S[P(b)]
    BY <1>8
  <2> DEFINE m == b + 1 + d
  <2>2. m \in 1 .. nb[f] /\ m \in b + 1 .. c - 1 /\ m + 1 \in 0 .. nb[f] /\ m \in 0 .. nb[f] /\ m \in Nat
        /\ b + 1 + (d + 1) = m + 1 /\ m <= c
    BY <2>1, <1>6
  <2>3. S[P(m) - 1] = S[P(b)]
    BY <1>8, <2>2
  <2> HIDE DEF m
  <2>4. S[P(m)] = S[P(m) - 1]
    BY <2>2, <1>5
  <2>5. P(m + 1) - 1 = P(m)
    BY <2>2, <1>3, <1>4
  <2> QED BY <2>2, <2>3, <2>4, <2>5
<1>9. c - (b + 1) \in T
  <2> HIDE DEF T
  <2>1. Nat \subseteq T
    BY <1>7, <1>8, Induction
  <2>2. c - (b + 1) \in Nat
    BY <1>6
  <2> QED BY <2>1, <2>2
<1>10. b + 1 + (c - (b + 1)) = c
  BY <1>6
<1> QED BY <1>6, <1>9, <1>10 DEF P, S

(* Behind a block there is code of the same function, as long as a block   *)
(* of it is left; it has one left behind its header.                       *)
LEMMA CodeBehind ==
  ASSUME NEW ir, WellFormedIR(ir), NEW f \in 1 .. Len(ir.funcs),
         NEW b \in 0 .. BlockCount(ir)[f] - 1
  PROVE  LET full == {c \in b + 1 .. BlockTotal(ir, f) : IRInsts(ir, f, c) # << >>}
         IN /\ full # {} /\ IsSpot(ir, f, Min(full), 1)
            /\ Begin(ir, f, Min(full), 1) = Starts(ir)[Pos(ir, f, b)]
<1> DEFINE nb == BlockCount(ir)[f]
           full == {c \in b + 1 .. BlockTotal(ir, f) : IRInsts(ir, f, c) # << >>}
           c == Min(full)
<1>1. nb \in Nat \ {0} /\ nb = BlockTotal(ir, f) /\ f # 0 /\ f \in 0 .. Len(ir.funcs)
  BY Functions DEF BlockTotal
<1>2. \A m : IRInsts(ir, f, m) = ir.funcs[f].blocks[m].insts /\ BlockAt(ir, f, m) = Pos(ir, f, m)
  BY <1>1 DEF IRInsts, BlockAt
<1>3. ir.funcs[f].blocks[nb].insts # << >>
  BY LastBlock
<1>16. b \in 0 .. nb - 1
  OBVIOUS
<1> HIDE DEF nb
<1>4. full \subseteq Nat /\ nb \in full
  <2>1. b \in Nat /\ nb \in b + 1 .. BlockTotal(ir, f)
    BY <1>1, <1>16
  <2> QED BY <2>1, <1>1, <1>2, <1>3
<1> HIDE DEF full
<1>5. c \in full /\ \A y \in full : c <= y
  BY <1>4, Least
<1> HIDE DEF c
<1>6. c \in b + 1 .. nb /\ IRInsts(ir, f, c) # << >> /\ c \in Nat
  BY <1>1, <1>5 DEF full
<1>7. b \in 0 .. nb
  BY <1>1 DEF nb
<1>8. \A m \in b + 1 .. c - 1 : ir.funcs[f].blocks[m].insts = << >>
  <2> TAKE m \in b + 1 .. c - 1
  <2>1. m \in b + 1 .. nb /\ ~ (c <= m)
    BY <1>1, <1>6
  <2>2. m \notin full
    BY <2>1, <1>5
  <2> QED BY <2>1, <2>2, <1>1, <1>2 DEF full
<1>9. Starts(ir)[Pos(ir, f, b)] = Starts(ir)[Pos(ir, f, c) - 1]
  BY <1>6, <1>7, <1>8, SkipEmpty DEF nb
<1>10. IsBlock(ir, f, c)
  BY <1>1, <1>6, <1>7 DEF IsBlock
<1> DEFINE B == ir2VmInst(ir)
           insts == IRInsts(ir, f, c)
<1>11. /\ BlockAt(ir, f, c) \in 1 .. Len(B) /\ InstsOK(insts) /\ Len(B) \in Nat
  BY <1>10, BlockHere
<1>12. Len(insts) \in Nat \ {0} /\ Offsets(Gens(insts))[0] = 0
  <2>1. Len(insts) \in Nat /\ Nested(Gens(insts))
    BY <1>11, GensNested
  <2>2. insts = [k \in 1 .. Len(insts) |-> insts[k]]
    BY <1>11, VectorShape DEF InstsOK
  <2>3. Len(insts) # 0
    BY <2>2, <1>6
  <2> QED BY <2>1, <2>3, OffsetsShape
<1>13. IsSpot(ir, f, c, 1)
  BY <1>10, <1>12 DEF IsSpot
<1>14. Starts(ir)[Pos(ir, f, c) - 1] \in Nat
  <2>1. Starts(ir) \in [0 .. Len(B) -> Nat]
    BY StartsShape DEF Started
  <2> QED BY <2>1, <1>2, <1>11
<1>15. Begin(ir, f, c, 1) = Starts(ir)[Pos(ir, f, c) - 1]
  BY <1>2, <1>12, <1>14 DEF Begin
<1> QED BY <1>4, <1>9, <1>13, <1>15 DEF c, full

(* Behind the header begins the first instruction of the function.         *)
LEMMA FirstSpot ==
  ASSUME NEW ir, WellFormedIR(ir), NEW f \in 1 .. Len(ir.funcs)
  PROVE  LET q == PosAfter(ir, f, 1, 1)
         IN /\ q = [fn |-> f, block |-> q.block, next |-> 1] /\ IsSpot(ir, f, q.block, 1)
            /\ Begin(ir, f, q.block, 1) = HeadAt(ir)[f] + ParamCount(ir)[f] + 1
<1> DEFINE q == PosAfter(ir, f, 1, 1)
           B == ir2VmInst(ir)
           S == Starts(ir)
           nb == BlockCount(ir)
           full(b) == {c \in b + 1 .. BlockTotal(ir, f) : IRInsts(ir, f, c) # << >>}
<1>1. Bounds(ir, B, S, Len(ir.funcs), nb, HeadAt(ir), ParamCount(ir))
  BY BoundsHold
<1>2. S[Pos(ir, f, 0)] = HeadAt(ir)[f] + ParamCount(ir)[f] + 1
  BY <1>1 DEF Bounds
<1>3. nb[f] \in Nat \ {0} /\ nb[f] = BlockTotal(ir, f) /\ f # 0 /\ f \in 0 .. Len(ir.funcs)
  BY Functions DEF BlockTotal
<1>4. /\ full(0) # {} /\ IsSpot(ir, f, Min(full(0)), 1)
      /\ Begin(ir, f, Min(full(0)), 1) = S[Pos(ir, f, 0)]
  <2>1. 0 \in 0 .. nb[f] - 1
    BY <1>3
  <2> QED BY <2>1, CodeBehind
<1>5. IsBlock(ir, f, 1) /\ 1 <= BlockTotal(ir, f)
  BY <1>3 DEF IsBlock
<1>6. /\ Len(IRInsts(ir, f, 1)) \in Nat
      /\ Len(IRInsts(ir, f, 1)) = 0 <=> IRInsts(ir, f, 1) = << >>
  <2>1. IsVector(IRInsts(ir, f, 1))
    BY <1>5, BlockHere
  <2> DEFINE s == IRInsts(ir, f, 1)
  <2>2. s = [k \in 1 .. Len(s) |-> s[k]] /\ Len(s) \in Nat
    BY <2>1, VectorShape
  <2> HIDE DEF s
  <2>3. Len(s) = 0 => s = << >>
    BY <2>2
  <2>4. s = << >> => Len(s) = 0
    OBVIOUS
  <2> QED BY <2>2, <2>3, <2>4 DEF s
<1>7. CASE IRInsts(ir, f, 1) # << >>
  <2>1. q = [fn |-> f, block |-> 1, next |-> 1]
    BY <1>5, <1>6, <1>7 DEF PosAfter
  <2>2. Min(full(0)) = 1
    <3>1. full(0) \subseteq Nat /\ 1 \in full(0)
      BY <1>3, <1>7
    <3>2. \A x \in full(0) : x >= 1
      BY <1>3
    <3> DEFINE F == full(0)
    <3> HIDE DEF F
    <3>3. Min(F) \in F /\ Min(F) <= 1
      BY <3>1, Least DEF F
    <3> QED BY <3>1, <3>2, <3>3 DEF F
  <2> QED BY <2>1, <2>2, <1>2, <1>4
<1>8. CASE IRInsts(ir, f, 1) = << >>
  <2>1. ~ (1 <= Len(IRInsts(ir, f, 1)))
    BY <1>6, <1>8
  <2>2. full(0) = full(1)
    <3>1. \A c \in 0 + 1 .. BlockTotal(ir, f) : IRInsts(ir, f, c) # << >> => c \in 1 + 1 .. BlockTotal(ir, f)
      BY <1>3, <1>8
    <3>2. 1 + 1 .. BlockTotal(ir, f) \subseteq 0 + 1 .. BlockTotal(ir, f)
      BY <1>3
    <3> QED BY <3>1, <3>2
  <2>3. q = [fn |-> f, next |-> 1, block |-> IF full(1) = {} THEN BlockTotal(ir, f) + 1 ELSE Min(full(1))]
    BY <2>1 DEF PosAfter
  <2> HIDE DEF q, full
  <2>4. q = [fn |-> f, block |-> Min(full(0)), next |-> 1]
    BY <2>2, <2>3, <1>4
  <2> QED BY <2>4, <1>2, <1>4 DEF q
<1> QED BY <1>7, <1>8

(* Behind an instruction that does not leave its block begins the next     *)
(* one, if need be in a later block; behind the last initialiser begin the *)
(* functions.                                                              *)
LEMMA NextSpot ==
  ASSUME NEW ir, WellFormedIR(ir), NEW f, NEW b, NEW n, IsSpot(ir, f, b, n),
         f # 0 => IRInsts(ir, f, b)[n].tag \notin Leaving
  PROVE  LET q == PosAfter(ir, f, b, n + 1)
             e == Begin(ir, f, b, n) + Extent(ir, f, b, n)
         IN \/ /\ q = [fn |-> f, block |-> q.block, next |-> q.next]
               /\ IsSpot(ir, f, q.block, q.next)
               /\ Begin(ir, f, q.block, q.next) = e
            \/ f = 0 /\ q = [fn |-> 0, block |-> 2, next |-> 1] /\ e = Link(ir).global_len
<1> DEFINE q == PosAfter(ir, f, b, n + 1)
           e == Begin(ir, f, b, n) + Extent(ir, f, b, n)
           B == ir2VmInst(ir)
           S == Starts(ir)
           insts == IRInsts(ir, f, b)
           k == BlockAt(ir, f, b)
           o == Offsets(Gens(insts))
           full == {c \in b + 1 .. BlockTotal(ir, f) : IRInsts(ir, f, c) # << >>}
<1>1. IsBlock(ir, f, b) /\ n \in 1 .. Len(insts)
  BY DEF IsSpot
<1>2. /\ k \in 1 .. Len(B) /\ (k = 1 <=> f = 0) /\ InstsOK(insts)
      /\ Size(B, k) = Len(genInsts(insts)) /\ Len(B) \in Nat
      /\ f # 0 => f \in 1 .. Len(ir.funcs) /\ b \in 1 .. BlockCount(ir)[f]
  BY <1>1, BlockHere
<1>3. Len(insts) \in Nat /\ n \in Nat /\ b \in Nat /\ BlockTotal(ir, f) \in Nat /\ b <= BlockTotal(ir, f)
  <2>1. Len(insts) \in Nat
    BY <1>2, GensNested
  <2>2. BlockTotal(ir, f) \in Nat
    BY <1>2, Functions DEF BlockTotal
  <2> QED BY <2>1, <2>2, <1>1 DEF IsBlock
<1>4. /\ o[n - 1] \in Nat /\ Extent(ir, f, b, n) \in Nat /\ o[n] = o[n - 1] + Extent(ir, f, b, n)
      /\ n = Len(insts) => o[n] = Len(genInsts(insts))
  BY <1>1, <1>2, GenWithin DEF Extent
<1>5. /\ S[k - 1] \in Nat /\ S[k] = S[k - 1] + Size(B, k) /\ S[1] = S[0] + Size(B, 1) /\ S[0] = 0
  <2>1. k - 1 \in 0 .. Len(B) /\ 1 \in 1 .. Len(B)
    BY <1>2
  <2> QED BY <2>1, <1>2, StartsShape DEF Started
<1>6. Begin(ir, f, b, n) = S[k - 1] + o[n - 1]
  BY DEF Begin
<1> HIDE DEF o, k, S, B
<1>7. e = S[k - 1] + o[n]
  BY <1>4, <1>5, <1>6
<1>8. CASE n # Len(insts)
  <2>1. n + 1 \in 1 .. Len(insts)
    BY <1>1, <1>3, <1>8
  <2>2. q = [fn |-> f, block |-> b, next |-> n + 1]
    BY <2>1, <1>3 DEF PosAfter
  <2>3. (n + 1) - 1 = n
    BY <1>3
  <2>4. Begin(ir, f, b, n + 1) = S[k - 1] + o[(n + 1) - 1]
    BY DEF Begin, S, k, o
  <2>5. IsSpot(ir, f, b, n + 1)
    BY <2>1, <1>1 DEF IsSpot
  <2> HIDE DEF q
  <2> QED BY <2>2, <2>3, <2>4, <2>5, <1>7 DEF q
<1>9. CASE n = Len(insts)
  <2>1. ~ (n + 1 <= Len(insts))
    BY <1>3, <1>9
  <2>2. q = [fn |-> f, next |-> 1, block |-> IF full = {} THEN BlockTotal(ir, f) + 1 ELSE Min(full)]
    BY <2>1 DEF PosAfter
  <2>3. e = S[k]
    BY <1>2, <1>4, <1>5, <1>7, <1>9
  <2>4. CASE f = 0
    <3>1. BlockTotal(ir, f) = 1 /\ b = 1
      BY <2>4, <1>1 DEF BlockTotal, IsBlock
    <3>2. full = {}
      BY <3>1
    <3>3. e = Link(ir).global_len
      <4>1. LinkedAt(ir, B, S, Link(ir), OriginBlocks(ir), LayoutOf(ir))
        BY LinkedCode DEF B, S
      <4> QED BY <4>1, <2>3, <2>4, <1>2 DEF LinkedAt
    <3> HIDE DEF full
    <3> QED BY <2>2, <2>4, <3>1, <3>2, <3>3
  <2>5. CASE f # 0
    <3>1. f \in 1 .. Len(ir.funcs) /\ b \in 1 .. BlockCount(ir)[f] /\ k = Pos(ir, f, b)
      BY <2>5, <1>2 DEF k, BlockAt
    <3>2. b # BlockCount(ir)[f]
      <4>1. SUFFICES ASSUME b = BlockCount(ir)[f] PROVE FALSE
        OBVIOUS
      <4>2. insts = ir.funcs[f].blocks[b].insts
        BY <2>5 DEF IRInsts
      <4>3. insts[Len(insts)].tag \in Leaving
        BY <3>1, <4>1, <4>2, LastBlock
      <4> QED BY <4>3, <2>5, <1>9
    <3>3. b \in 0 .. BlockCount(ir)[f] - 1
      <4>1. BlockCount(ir)[f] \in Nat
        BY <3>1, Functions
      <4> QED BY <4>1, <3>1, <3>2
    <3>4. full # {} /\ IsSpot(ir, f, Min(full), 1) /\ Begin(ir, f, Min(full), 1) = S[Pos(ir, f, b)]
      BY <3>1, <3>3, CodeBehind DEF S
    <3> HIDE DEF full, q
    <3> QED BY <2>2, <2>3, <3>1, <3>4 DEF q
  <2> QED BY <2>4, <2>5
<1> QED BY <1>8, <1>9

-----------------------------------------------------------------------------
(* Where control is transferred to *)

(* The blocks a jump can name. *)
LeadsIn(ir, f, name) ==
  \E c \in DOMAIN ir.funcs[f].blocks : /\ ir.funcs[f].blocks[c].name = name
                                       /\ ir.funcs[f].blocks[c].insts # << >>
BlockOf(ir, f, name) == CHOOSE c \in DOMAIN ir.funcs[f].blocks : ir.funcs[f].blocks[c].name = name

(* A jump leads to the first instruction of the block it names.            *)
LEMMA JumpSpot ==
  ASSUME NEW ir, WellFormedIR(ir), NEW f \in 1 .. Len(ir.funcs), NEW name, LeadsIn(ir, f, name),
         NEW b, b = BlockOf(ir, f, name)
  PROVE  /\ IsSpot(ir, f, b, 1) /\ Target(ir2VmInst(ir), name, FALSE) = Begin(ir, f, b, 1)
         /\ PosAfter(ir, f, b, 1) = [fn |-> f, block |-> b, next |-> 1]
<1> DEFINE nb == BlockCount(ir)
           B == ir2VmInst(ir)
           S == Starts(ir)
           blks == ir.funcs[f].blocks
<1>1. nb[f] \in Nat \ {0} /\ DOMAIN blks = 1 .. nb[f] /\ nb[f] = BlockTotal(ir, f) /\ f # 0
      /\ f \in 0 .. Len(ir.funcs) /\ f \in DOMAIN ir.funcs
  BY Functions DEF BlockTotal
<1>2. PICK c \in 1 .. nb[f] : blks[c].name = name /\ blks[c].insts # << >>
  BY <1>1 DEF LeadsIn
<1>3. \A d \in 1 .. nb[f] : blks[d].name = name => d = c
  <2> TAKE d \in 1 .. nb[f]
  <2> HAVE blks[d].name = name
  <2>1. NamesApart(ir)
    BY DEF WellFormedIR
  <2>2. c \in 0 .. Len(blks) /\ d \in 0 .. Len(blks) /\ c # 0 /\ d # 0
    BY <1>1 DEF BlockTotal
  <2>3. NameOf(ir, f, c) = name /\ NameOf(ir, f, d) = name
    BY <2>2, <1>2 DEF NameOf
  <2> QED BY <2>1, <2>2, <2>3, <1>1 DEF NamesApart
<1>4. b = c
  <2>1. (CHOOSE d \in DOMAIN blks : blks[d].name = name) = c
    BY <1>1, <1>2, <1>3
  <2> QED BY <2>1 DEF BlockOf
<1> DEFINE insts == IRInsts(ir, f, c)
           k == Pos(ir, f, c)
<1>5. insts = blks[c].insts /\ BlockAt(ir, f, c) = k
  BY <1>1 DEF IRInsts, BlockAt
<1>6. IsBlock(ir, f, c) /\ c <= BlockTotal(ir, f)
  BY <1>1 DEF IsBlock
<1>7. k \in 1 .. Len(B) /\ Len(B) \in Nat /\ InstsOK(insts)
  BY <1>5, <1>6, BlockHere
<1>8. Len(insts) \in Nat \ {0} /\ Offsets(Gens(insts))[0] = 0
  <2>1. Len(insts) \in Nat /\ Nested(Gens(insts))
    BY <1>7, GensNested
  <2> DEFINE s == insts
  <2>2. s = [m \in 1 .. Len(s) |-> s[m]]
    BY <1>7, VectorShape DEF InstsOK
  <2>3. Len(s) # 0
    <3>1. s # << >>
      BY <1>2, <1>5
    <3> HIDE DEF s
    <3> QED BY <2>2, <3>1
  <2> QED BY <2>1, <2>3, OffsetsShape
<1>9. S[k - 1] \in Nat
  <2>1. S \in [0 .. Len(B) -> Nat]
    BY StartsShape DEF Started
  <2> QED BY <2>1, <1>7
<1>10. Begin(ir, f, c, 1) = S[k - 1]
  BY <1>5, <1>8, <1>9 DEF Begin
<1>11. Target(B, name, FALSE) = S[k - 1]
  BY <1>2, BlockTarget
<1>12. IsSpot(ir, f, c, 1)
  BY <1>6, <1>8 DEF IsSpot
<1>13. PosAfter(ir, f, c, 1) = [fn |-> f, block |-> c, next |-> 1]
  BY <1>6, <1>8 DEF PosAfter
<1> HIDE DEF k
<1> QED BY <1>4, <1>10, <1>11, <1>12, <1>13

(* The function of a name.                                                 *)
LEMMA FuncOfName ==
  ASSUME NEW ir, WellFormedIR(ir), NEW f \in 1 .. Len(ir.funcs)
  PROVE  /\ (CHOOSE g \in DOMAIN ir.funcs : ir.funcs[g].name = ir.funcs[f].name) = f
         /\ f \in DOMAIN ir.funcs
<1>1. DOMAIN ir.funcs = 1 .. Len(ir.funcs)
  BY Functions
<1>2. \A g \in 1 .. Len(ir.funcs) : ir.funcs[g].name = ir.funcs[f].name => g = f
  <2> TAKE g \in 1 .. Len(ir.funcs)
  <2> HAVE ir.funcs[g].name = ir.funcs[f].name
  <2>1. \A h \in 1 .. Len(ir.funcs) : 0 \in 0 .. Len(ir.funcs[h].blocks)
    BY Functions
  <2>2. NameOf(ir, f, 0) = NameOf(ir, g, 0)
    BY DEF NameOf
  <2>3. NamesApart(ir)
    BY DEF WellFormedIR
  <2> QED BY <2>1, <2>2, <2>3, <1>1 DEF NamesApart
<1> QED BY <1>1, <1>2

(* The function an address belongs to.                                     *)
LEMMA SpotFunction ==
  ASSUME NEW ir, WellFormedIR(ir), NEW f \in 1 .. Len(ir.funcs), NEW b, NEW n, IsSpot(ir, f, b, n),
         NEW l \in 1 .. Extent(ir, f, b, n), NEW i, i = Begin(ir, f, b, n) + l - 1
  PROVE  /\ FuncOf(Link(ir), i) = HeadAt(ir)[f] /\ HeadAt(ir)[f] \in Nat /\ ParamCount(ir)[f] \in Nat
         /\ i > HeadAt(ir)[f] + ParamCount(ir)[f] /\ i \in Nat
         /\ Arity(Link(ir), HeadAt(ir)[f]) = ParamCount(ir)[f]
<1> DEFINE B == ir2VmInst(ir)
           S == Starts(ir)
           p == Link(ir)
           F == Len(ir.funcs)
           head == HeadAt(ir)
           np == ParamCount(ir)
           insts == IRInsts(ir, f, b)
           k == Pos(ir, f, b)
           o == Offsets(Gens(insts))
           j == o[n - 1] + l
<1>1. IsBlock(ir, f, b) /\ n \in 1 .. Len(insts) /\ f # 0
  BY Functions DEF IsSpot
<1>2. /\ BlockAt(ir, f, b) = k /\ k \in 1 .. Len(B) /\ InstsOK(insts) /\ Len(B) \in Nat
      /\ Size(B, k) = Len(genInsts(insts)) /\ b \in 1 .. BlockCount(ir)[f]
  BY <1>1, BlockHere DEF BlockAt
<1>3. /\ o[n - 1] \in Nat /\ Extent(ir, f, b, n) \in Nat
      /\ o[n - 1] + Extent(ir, f, b, n) <= Len(genInsts(insts)) /\ Len(genInsts(insts)) \in Nat
  BY <1>1, <1>2, GenWithin DEF Extent
<1>4. j \in 1 .. Size(B, k)
  BY <1>2, <1>3
<1>5. S[k - 1] \in Nat
  <2>1. S \in [0 .. Len(B) -> Nat]
    BY StartsShape DEF Started
  <2> QED BY <2>1, <1>2
<1>6. i = S[k - 1] + j - 1
  <2>1. Begin(ir, f, b, n) = S[k - 1] + o[n - 1]
    BY <1>2 DEF Begin
  <2> HIDE DEF o
  <2> QED BY <2>1, <1>3, <1>5
<1>7. b \in 0 .. BlockCount(ir)[f] /\ b # 0
  <2>1. BlockCount(ir)[f] \in Nat
    BY Functions
  <2> QED BY <2>1, <1>2
<1> HIDE DEF j
<1>8. i \in head[f] + np[f] + 1 .. head[f + 1] - 1 /\ i \in head[f] .. head[f + 1] - 1
  BY <1>4, <1>6, <1>7, Within
<1>9. Arranged(p, F, head, np)
  BY LinkArranged
<1>10. FuncOf(p, i) = head[f]
  BY <1>8, <1>9, ArrangedHeads
<1>11. Arity(p, head[f]) = np[f]
  BY <1>9, ArrangedArity
<1>12. head[f] \in Nat /\ np[f] \in Nat
  BY <1>9, ArrangedNumbers
<1> QED BY <1>8, <1>10, <1>11, <1>12

LEMMA HeaderFunction ==
  ASSUME NEW ir, WellFormedIR(ir), NEW f \in 1 .. Len(ir.funcs),
         NEW k \in 0 .. ParamCount(ir)[f], NEW i, i = HeadAt(ir)[f] + k
  PROVE  /\ FuncOf(Link(ir), i) = HeadAt(ir)[f] /\ i \in Nat
         /\ Arity(Link(ir), HeadAt(ir)[f]) = ParamCount(ir)[f]
<1> DEFINE p == Link(ir)
           F == Len(ir.funcs)
           head == HeadAt(ir)
           np == ParamCount(ir)
<1>1. Arranged(p, F, head, np)
  BY LinkArranged
<1>2. head[f] \in Nat /\ np[f] \in Nat /\ head[f] + np[f] + 1 < head[f + 1] /\ head[f + 1] \in Nat
  BY <1>1, ArrangedNumbers
<1>3. i \in head[f] .. head[f + 1] - 1 /\ i \in Nat
  <2>1. k \in 0 .. np[f] /\ i = head[f] + k
    OBVIOUS
  <2> HIDE DEF np, head
  <2> QED BY <2>1, <1>2
<1>4. FuncOf(p, i) = head[f]
  BY <1>1, <1>3, ArrangedHeads
<1>5. Arity(p, head[f]) = np[f]
  BY <1>1, ArrangedArity
<1> QED BY <1>3, <1>4, <1>5

(* The last address of a function belongs to the last instruction of its   *)
(* last block.                                                             *)
LEMMA EndSpot ==
  ASSUME NEW ir, WellFormedIR(ir), NEW f \in 1 .. Len(ir.funcs),
         NEW b, b = Len(ir.funcs[f].blocks), NEW n, n = Len(ir.funcs[f].blocks[b].insts)
  PROVE  /\ IsSpot(ir, f, b, n)
         /\ Begin(ir, f, b, n) + Extent(ir, f, b, n) - 1 = HeadAt(ir)[f + 1] - 1
<1> DEFINE B == ir2VmInst(ir)
           S == Starts(ir)
           nb == BlockCount(ir)
           insts == IRInsts(ir, f, b)
           k == Pos(ir, f, b)
           o == Offsets(Gens(insts))
<1>1. nb[f] \in Nat \ {0} /\ nb[f] = b /\ BlockTotal(ir, f) = b /\ f # 0 /\ f \in 0 .. Len(ir.funcs)
  <2>1. nb \in [1 .. Len(ir.funcs) -> Nat \ {0}] /\ nb[f] = Len(ir.funcs[f].blocks)
        /\ Len(ir.funcs) \in Nat
    BY Functions
  <2>2. nb[f] = b
    BY <2>1
  <2> HIDE DEF nb
  <2>3. nb[f] \in Nat \ {0} /\ f # 0 /\ f \in 0 .. Len(ir.funcs)
    BY <2>1
  <2>4. BlockTotal(ir, f) = b
    BY <2>3 DEF BlockTotal
  <2> QED BY <2>2, <2>3, <2>4
<1>2. IsBlock(ir, f, b)
  BY <1>1 DEF IsBlock
<1>3. insts = ir.funcs[f].blocks[b].insts /\ BlockAt(ir, f, b) = k
  BY <1>1 DEF IRInsts, BlockAt
<1>4. InstsOK(insts) /\ Size(B, k) = Len(genInsts(insts)) /\ k \in 1 .. Len(B)
  BY <1>2, <1>3, BlockHere
<1>5. insts # << >>
  BY <1>1, <1>3, LastBlock
<1>6. n \in 1 .. Len(insts)
  <2> DEFINE s == insts
  <2>1. s = [m \in 1 .. Len(s) |-> s[m]] /\ Len(s) \in Nat
    BY <1>4, VectorShape DEF InstsOK
  <2>2. n = Len(s) /\ s # << >>
    BY <1>3, <1>5
  <2> HIDE DEF s
  <2>3. Len(s) # 0
    BY <2>1, <2>2
  <2> QED BY <2>1, <2>2, <2>3 DEF s
<1>7. /\ o[n - 1] \in Nat /\ Extent(ir, f, b, n) \in Nat
      /\ o[n - 1] + Extent(ir, f, b, n) = Len(genInsts(insts))
  BY <1>3, <1>4, <1>6, GenWithin DEF Extent
<1>8. Bounds(ir, B, S, Len(ir.funcs), nb, HeadAt(ir), ParamCount(ir))
  BY BoundsHold
<1>9. HeadAt(ir)[f + 1] = S[k] /\ S[k] = S[k - 1] + Size(B, k) /\ S[k - 1] \in Nat
  BY <1>1, <1>8 DEF Bounds
<1>10. Begin(ir, f, b, n) = S[k - 1] + o[n - 1]
  BY <1>3 DEF Begin
<1>11. IsSpot(ir, f, b, n)
  BY <1>2, <1>6 DEF IsSpot
<1> DEFINE w == Extent(ir, f, b, n)
           z == Begin(ir, f, b, n)
           e == HeadAt(ir)[f + 1]
           g == Len(genInsts(insts))
           x == o[n - 1]
           y == S[k - 1]
<1>12. x \in Nat /\ w \in Nat /\ y \in Nat /\ x + w = g /\ z = y + x /\ e = y + g
  BY <1>4, <1>7, <1>9, <1>10
<1>13. z + w - 1 = e - 1
  <2> HIDE DEF w, z, e, g, x, y
  <2> QED BY <1>12
<1> QED BY <1>11, <1>13
=============================================================================
