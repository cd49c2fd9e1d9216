--------------------------- MODULE CompiledProofs ---------------------------
(***************************************************************************)
(* The virtual machine on the code of the bytecode generator implements    *)
(* IRMachine: the proof of the refinement that module CompiledProgram      *)
(* states, for every set of IR programs that satisfies ProgramsCompiled.   *)
(*                                                                         *)
(* One IR instruction is several instructions of the machine, and all of   *)
(* them but the last are no step of IRMachine.  The invariant (Sound) says *)
(* what the machine has done so far of the IR instruction it is in: what   *)
(* its registers hold (Ready), which initialisers have run (Earlier),      *)
(* which parameters are bound and to what (Passing), and that names are    *)
(* only in the scopes where IRMachine has them (ScopesOK).  What it needs  *)
(* besides, that calls and returns match and the globals' table is         *)
(* complete, VMProofs proves of every well linked program.                 *)
(*                                                                         *)
(* The proof goes turn by turn through the machine's loop.  A turn is in   *)
(* an initialiser or a body (BodyTurn: there the kind of the IR            *)
(* instruction and the place in its code say which handler runs), in the   *)
(* header of a function (HeaderTurn), or passes from the initialisers to   *)
(* main (StartTurn) or to the end (HaltTurn).  A turn that the machine     *)
(* cannot make (Abort) is one that IRMachine fails at as well.             *)
(***************************************************************************)
EXTENDS CompiledProgram, VMProofs, CodegenLemmas

-----------------------------------------------------------------------------
(* Places in the compiled program *)

AtSpot(ir, i, f, b, n, l) ==
  IsSpot(ir, f, b, n) /\ l \in 1 .. Extent(ir, f, b, n) /\ i = Begin(ir, f, b, n) + l - 1
AtHeader(ir, i, f, k) ==
  f \in 1 .. Len(ir.funcs) /\ k \in 0 .. ParamCount(ir)[f] /\ i = HeadAt(ir)[f] + k

Compiles(ir, p) == WellFormedIR(ir) /\ Meant(ir) /\ p = Compiled(ir) /\ WellLinked(p)

(* A compiled program is the linked one, with what the mapping needs.      *)
LEMMA CompiledFields ==
  ASSUME NEW ir, NEW p, Compiles(ir, p)
  PROVE  /\ WellFormedIR(ir) /\ Meant(ir)
         /\ p.code = Link(ir).code /\ p.size = Link(ir).size /\ p.entry = Link(ir).entry
         /\ p.entry_end = Link(ir).entry_end /\ p.global_len = Link(ir).global_len
         /\ p.source = ir /\ p.layout = LayoutOf(ir)
  BY DEF Compiles, Compiled

LEMMA CompiledPlaces ==
  ASSUME NEW ir, NEW p, Compiles(ir, p)
  PROVE  /\ \A i : FuncOf(p, i) = FuncOf(Link(ir), i)
         /\ \A f : Arity(p, f) = Arity(Link(ir), f)
<1>1. p.code = Link(ir).code /\ p.size = Link(ir).size
  BY CompiledFields
<1> QED BY <1>1 DEF FuncOf, Heads, OpAt, Arity, Takes

Place4(f, b, n, last) == [fn |-> f, block |-> b, next |-> n, last |-> last]

(* What is known at an instruction of a body, ...                          *)
LEMMA SpotFacts ==
  ASSUME NEW ir, NEW p, Compiles(ir, p),
         NEW f, NEW b, NEW n, NEW l, NEW i, AtSpot(ir, i, f, b, n, l)
  PROVE  LET s == genInst(IRInsts(ir, f, b)[n])
         IN /\ i \in 0 .. p.size - 1 /\ i \in Nat /\ p.size \in Nat /\ p.global_len \in Nat
            /\ Begin(ir, f, b, n) \in Nat /\ Extent(ir, f, b, n) \in Nat \ {0}
            /\ Extent(ir, f, b, n) = Len(s) /\ l \in 1 .. Len(s) /\ l \in Nat
            /\ p.code[i] = Fix(ir2VmInst(ir), s[l])
            /\ p.layout[i].fn = f /\ p.layout[i].block = b /\ p.layout[i].next = n
            /\ p.layout[i].last <=> l = Extent(ir, f, b, n)
            /\ GoodCode(IRInsts(ir, f, b)[n], s)
            /\ f \in 0 .. Len(ir.funcs) /\ b # 0
            /\ f = 0 <=> i < p.global_len
<1>1. IsSpot(ir, f, b, n) /\ l \in 1 .. Extent(ir, f, b, n) /\ i = Begin(ir, f, b, n) + l - 1
  BY DEF AtSpot
<1>2. /\ p.code = Link(ir).code /\ p.size = Link(ir).size /\ p.global_len = Link(ir).global_len
      /\ p.layout = LayoutOf(ir)
  BY CompiledFields
<1>3. f \in 0 .. Len(ir.funcs) /\ b # 0
  BY <1>1 DEF IsSpot, IsBlock
<1>4. /\ i \in 0 .. Link(ir).size - 1 /\ Begin(ir, f, b, n) \in Nat /\ Link(ir).size \in Nat
      /\ Extent(ir, f, b, n) \in Nat \ {0}
      /\ Link(ir).code[i] = Fix(ir2VmInst(ir), genInst(IRInsts(ir, f, b)[n])[l])
      /\ LayoutOf(ir)[i] = Place4(f, b, n, l = Extent(ir, f, b, n))
      /\ GoodCode(IRInsts(ir, f, b)[n], genInst(IRInsts(ir, f, b)[n]))
      /\ Link(ir).global_len \in Nat
      /\ f = 0 <=> i < Link(ir).global_len
  BY <1>1, SpotCode, CompiledFields DEF Place4
<1>8. /\ LayoutOf(ir)[i].fn = f /\ LayoutOf(ir)[i].block = b /\ LayoutOf(ir)[i].next = n
      /\ LayoutOf(ir)[i].last <=> l = Extent(ir, f, b, n)
  <2>1. PICK u : u = (l = Extent(ir, f, b, n))
    OBVIOUS
  <2>2. PICK w : w = LayoutOf(ir)[i]
    OBVIOUS
  <2>3. w = Place4(f, b, n, u)
    BY <1>4, <2>1, <2>2, Zenon
  <2>4. w.fn = f /\ w.block = b /\ w.next = n /\ w.last = u
    BY <2>3 DEF Place4
  <2> QED BY <2>1, <2>2, <2>4, Zenon
<1>5. Extent(ir, f, b, n) = Len(genInst(IRInsts(ir, f, b)[n]))
  BY DEF Extent
<1>6. l \in 1 .. Len(genInst(IRInsts(ir, f, b)[n]))
  BY <1>1, <1>5
<1>7. l \in Nat /\ i \in Nat
  BY <1>1, <1>4
<1> QED BY <1>2, <1>3, <1>4, <1>5, <1>6, <1>7, <1>8

ParamInst(name) == [op |-> "PARAM", name |-> name]

(* ... and in the header of a function.                                    *)
LEMMA HeaderFacts ==
  ASSUME NEW ir, NEW p, Compiles(ir, p),
         NEW f, NEW k, NEW i, AtHeader(ir, i, f, k)
  PROVE  /\ i \in 0 .. p.size - 1 /\ i \in Nat /\ p.size \in Nat /\ k \in Nat
         /\ p.global_len \in Nat /\ i >= p.global_len
         /\ ParamCount(ir)[f] \in Nat /\ HeadAt(ir)[f] \in Nat /\ f \in 1 .. Len(ir.funcs)
         /\ k = 0 => p.code[i].op = "FUNC"
         /\ k # 0 => p.code[i].op = "PARAM" /\ p.code[i].name = ir.funcs[f].params[k]
         /\ p.layout[i].fn = f /\ p.layout[i].block = 0
<1>1. f \in 1 .. Len(ir.funcs) /\ k \in 0 .. ParamCount(ir)[f] /\ i = HeadAt(ir)[f] + k
  BY DEF AtHeader
<1>2. /\ p.code = Link(ir).code /\ p.size = Link(ir).size /\ p.global_len = Link(ir).global_len
      /\ p.layout = LayoutOf(ir)
  BY CompiledFields
<1>3. /\ i \in 0 .. Link(ir).size - 1 /\ i >= Link(ir).global_len /\ ParamCount(ir)[f] \in Nat
      /\ HeadAt(ir)[f] \in Nat
      /\ k = 0 => Link(ir).code[i].op = "FUNC"
      /\ k # 0 => Link(ir).code[i] = ParamInst(ir.funcs[f].params[k])
      /\ LayoutOf(ir)[i].fn = f /\ LayoutOf(ir)[i].block = 0
  <2>1. WellFormedIR(ir)
    BY CompiledFields
  <2>2. /\ i \in 0 .. Link(ir).size - 1 /\ i >= Link(ir).global_len /\ ParamCount(ir)[f] \in Nat
        /\ HeadAt(ir)[f] \in Nat
        /\ k = 0 => Link(ir).code[i].op = "FUNC"
        /\ k # 0 => Link(ir).code[i] = [op |-> "PARAM", name |-> ir.funcs[f].params[k]]
        /\ LayoutOf(ir)[i].fn = f /\ LayoutOf(ir)[i].block = 0
    BY <1>1, <2>1, HeaderSpot
  <2> QED BY <2>2 DEF ParamInst
<1>4. 1 \in 1 .. Len(ir.funcs) /\ Arranged(Link(ir), Len(ir.funcs), HeadAt(ir), ParamCount(ir))
  BY LinkArranged, Functions, CompiledFields
<1>5. Link(ir).global_len \in Nat /\ Link(ir).size \in Nat
  BY <1>4, ArrangedNumbers
<1>6. i \in Nat /\ k \in Nat
  BY <1>1, <1>3
<1> DEFINE code == Link(ir).code
<1>7. k # 0 => code[i].op = "PARAM" /\ code[i].name = ir.funcs[f].params[k]
  BY <1>3 DEF ParamInst
<1> QED BY <1>1, <1>2, <1>3, <1>5, <1>6, <1>7

(* Every instruction is one or the other.                                  *)
LEMMA SpotOrHeader ==
  ASSUME NEW ir, NEW p, Compiles(ir, p), NEW i \in 0 .. p.size - 1
  PROVE  \/ \E f, b, n, l : AtSpot(ir, i, f, b, n, l)
         \/ \E f, k : AtHeader(ir, i, f, k)
<1>1. i \in 0 .. Link(ir).size - 1
  BY CompiledFields
<1> QED BY <1>1, CompiledFields, Everywhere DEF AtSpot, AtHeader

(* The function an instruction belongs to has its FUNC at the head.        *)
LEMMA FunctionAt ==
  ASSUME NEW ir, NEW p, Compiles(ir, p),
         NEW i \in 0 .. p.size - 1, i >= p.global_len, NEW g, g = p.layout[i].fn
  PROVE  g \in 1 .. Len(ir.funcs) /\ FuncOf(p, i) = HeadAt(ir)[g]
<1>1. CASE \E f, b, n, l : AtSpot(ir, i, f, b, n, l)
  <2>1. PICK f, b, n, l : AtSpot(ir, i, f, b, n, l)
    BY <1>1
  <2>2. /\ p.layout[i].fn = f
        /\ f \in 0 .. Len(ir.funcs) /\ (f = 0 <=> i < p.global_len)
        /\ i \in Nat /\ p.global_len \in Nat
    BY <2>1, SpotFacts
  <2>3. f # 0 /\ g = f
    BY <2>2
  <2>4. f \in 1 .. Len(ir.funcs)
    BY <2>2, <2>3
  <2>5. FuncOf(Link(ir), i) = HeadAt(ir)[f]
    BY <2>1, <2>4, SpotFunction, CompiledFields DEF AtSpot
  <2> QED BY <2>3, <2>4, <2>5, CompiledPlaces
<1>2. CASE \E f, k : AtHeader(ir, i, f, k)
  <2>1. PICK f, k : AtHeader(ir, i, f, k)
    BY <1>2
  <2>2. f \in 1 .. Len(ir.funcs) /\ g = f
    BY <2>1, HeaderFacts
  <2>3. FuncOf(Link(ir), i) = HeadAt(ir)[f]
    BY <2>1, HeaderFunction, CompiledFields DEF AtHeader
  <2> QED BY <2>2, <2>3, CompiledPlaces
<1> QED BY <1>1, <1>2, SpotOrHeader

(* Functions begin at different places.                                    *)
LEMMA HeadsApart ==
  ASSUME NEW ir, NEW p, Compiles(ir, p), NEW f \in 1 .. Len(ir.funcs), NEW g \in 1 .. Len(ir.funcs),
         HeadAt(ir)[f] = HeadAt(ir)[g]
  PROVE  f = g
<1> DEFINE i == HeadAt(ir)[f]
<1>1. ParamCount(ir)[f] \in Nat /\ ParamCount(ir)[g] \in Nat /\ i \in Nat
  <2>1. Arranged(Link(ir), Len(ir.funcs), HeadAt(ir), ParamCount(ir))
    BY LinkArranged, CompiledFields
  <2> QED BY <2>1, ArrangedNumbers
<1>2. AtHeader(ir, i, f, 0) /\ AtHeader(ir, i, g, 0)
  <2>1. i = HeadAt(ir)[f] + 0 /\ i = HeadAt(ir)[g] + 0
    BY <1>1
  <2> HIDE DEF i
  <2> QED BY <1>1, <2>1 DEF AtHeader
<1>3. p.layout[i].fn = f
  BY <1>2, HeaderFacts
<1>4. p.layout[i].fn = g
  BY <1>2, HeaderFacts
<1> QED BY <1>3, <1>4

-----------------------------------------------------------------------------
(* The code of each kind of instruction *)

LoadOf(r, x) == IF IsVar(x) THEN genLoadX(r, x)
                ELSE [op |-> IF IsInt(x.const) THEN "LOADI" ELSE "LOADS",
                      reg |-> r, val |-> x.const]

LEMMA OperandCode ==
  ASSUME NEW r, NEW x, Simple(x)
  PROVE  genOperand(r, x) = <<LoadOf(r, x)>>
<1>1. CASE IsVar(x)
  BY <1>1 DEF genOperand, LoadOf
<1>2. CASE ~IsVar(x)
  <2>1. IsConst(x) /\ (IsInt(x.const) \/ IsStr(x.const))
    BY <1>2 DEF Simple
  <2>2. CASE IsInt(x.const)
    BY <1>2, <2>1, <2>2 DEF genOperand, LoadOf, genLoadConst
  <2>3. CASE ~IsInt(x.const)
    BY <1>2, <2>1, <2>3 DEF genOperand, LoadOf, genLoadConst
  <2> QED BY <2>2, <2>3
<1> QED BY <1>1, <1>2

(* The instruction sets these kinds apart.                                 *)
Kind(i, kind) == i.tag = "ASSIGN" /\ DOMAIN i.src \cap Kinds = {kind}
Operates(i) == Kind(i, "binary") /\ i.src.binary \in Selected /\ Simple(i.src.lhs) /\ Simple(i.src.rhs)
Inverts(i) == Kind(i, "binary") /\ i.src.binary = "BNOT" /\ i.src.lhs = NoOperand /\ IsVar(i.src.rhs)
Sets(i) == Kind(i, "const") /\ (IsInt(i.src.const) \/ IsStr(i.src.const))
Moves(i) == Kind(i, "var")
Builds(i) == Kind(i, "array") /\ IsVector(i.src.array)
             /\ \A k \in DOMAIN i.src.array : Unindexed(i.src.array[k])
Calling(i) == Kind(i, "call") /\ IsVector(i.src.args)
Returns(i) == i.tag = "RETURN" /\ (i.ret = NoOperand \/ Simple(i.ret))
Branches(i) == i.tag = "BRANCH" /\ IsVar(i.cond) /\ i.cond.idx = << >>

LEMMA KindSrc ==
  ASSUME NEW i, NEW kind, Kind(i, kind), kind \in Kinds
  PROVE  /\ kind \in DOMAIN i.src
         /\ \A other \in Kinds : other # kind => other \notin DOMAIN i.src
<1>1. DOMAIN i.src \cap Kinds = {kind}
  BY DEF Kind
<1> QED BY <1>1

StoreReg(b) == IF b.binary \in ToState THEN 0 ELSE 1
Operation(b) == [op |-> b.binary, r1 |-> 1, r2 |-> 2]
Inversion(b) == [op |-> "BNOT", reg |-> 1, type |-> "MAP", name |-> b.rhs.var]

LEMMA FourLong ==
  ASSUME NEW a, NEW b, NEW c, NEW d
  PROVE  LET s == <<a>> \o <<b>> \o <<c>> \o <<d>>
         IN Len(s) = 4 /\ s[1] = a /\ s[2] = b /\ s[3] = c /\ s[4] = d
<1> DEFINE s == <<a>> \o <<b>> \o <<c>> \o <<d>>
<1> HIDE DEF s
<1>1. PICK A, B, C, D : A = <<a>> /\ B = <<b>> /\ C = <<c>> /\ D = <<d>>
  OBVIOUS
<1>2. /\ IsVector(A) /\ Len(A) = 1 /\ A[1] = a
      /\ IsVector(B) /\ Len(B) = 1 /\ B[1] = b
      /\ IsVector(C) /\ Len(C) = 1 /\ C[1] = c
      /\ IsVector(D) /\ Len(D) = 1 /\ D[1] = d
  BY <1>1, Single
<1>3. PICK x : x = A \o B
  OBVIOUS
<1>4. IsVector(x) /\ Len(x) = Len(A) + 1 /\ x[Len(A) + 1] = B[1] /\ \A k \in 1 .. Len(A) : x[k] = A[k]
  BY <1>2, <1>3, OneMore
<1>5. IsVector(x) /\ Len(x) = 2 /\ x[1] = a /\ x[2] = b
  BY <1>2, <1>4
<1>6. PICK y : y = x \o C
  OBVIOUS
<1>7. IsVector(y) /\ Len(y) = Len(x) + 1 /\ y[Len(x) + 1] = C[1] /\ \A k \in 1 .. Len(x) : y[k] = x[k]
  BY <1>2, <1>5, <1>6, OneMore
<1>8. IsVector(y) /\ Len(y) = 3 /\ y[1] = a /\ y[2] = b /\ y[3] = c
  BY <1>2, <1>5, <1>7
<1>9. s = y \o D
  BY <1>1, <1>3, <1>6 DEF s
<1>10. Len(s) = Len(y) + 1 /\ s[Len(y) + 1] = D[1] /\ \A k \in 1 .. Len(y) : s[k] = y[k]
  <2>1. IsVector(y) /\ IsVector(D) /\ Len(D) = 1
    BY <1>2, <1>8
  <2> QED BY <2>1, <1>9, OneMore
<1>11. D[1] = d /\ Len(y) = 3 /\ y[1] = a /\ y[2] = b /\ y[3] = c
  BY <1>2, <1>8
<1>12. Len(s) = 4 /\ s[4] = d /\ s[1] = y[1] /\ s[2] = y[2] /\ s[3] = y[3]
  BY <1>10, <1>11
<1>13. Len(s) = 4 /\ s[1] = a /\ s[2] = b /\ s[3] = c /\ s[4] = d
  BY <1>11, <1>12
<1> QED BY <1>13 DEF s

LEMMA OperatesCode ==
  ASSUME NEW i, Operates(i), NEW s, s = genInst(i)
  PROVE  /\ Len(s) = 4 /\ s[1] = LoadOf(1, i.src.lhs) /\ s[2] = LoadOf(2, i.src.rhs)
         /\ s[3] = Operation(i.src) /\ s[4] = genStoreX(i.dest, StoreReg(i.src))
<1>1. i.tag = "ASSIGN" /\ "binary" \in DOMAIN i.src
  BY KindSrc DEF Operates, Kinds, Kind
<1>2. s = genBinary(i.src) \o <<genStoreX(i.dest, StoreReg(i.src))>>
  BY <1>1 DEF genInst, genAssign, StoreReg
<1>3. i.src.lhs # NoOperand
  BY DEF Operates, Simple, IsVar, IsConst, NoOperand
<1>4. genBinary(i.src) = genOperand(1, i.src.lhs) \o genOperand(2, i.src.rhs) \o <<Operation(i.src)>>
  BY <1>3 DEF genBinary, Operates, Operation
<1>5. genBinary(i.src) = <<LoadOf(1, i.src.lhs)>> \o <<LoadOf(2, i.src.rhs)>> \o <<Operation(i.src)>>
  BY <1>4, OperandCode DEF Operates
<1> QED BY <1>2, <1>5, FourLong

LEMMA InvertsCode ==
  ASSUME NEW i, Inverts(i), NEW s, s = genInst(i)
  PROVE  /\ Len(s) = 3 /\ s[1] = LoadOf(1, i.src.rhs) /\ s[2] = Inversion(i.src)
         /\ s[3] = genStoreX(i.dest, 1)
<1>1. i.tag = "ASSIGN" /\ "binary" \in DOMAIN i.src
  BY KindSrc DEF Inverts, Kinds, Kind
<1>2. i.src.binary = "BNOT" /\ i.src.lhs = NoOperand /\ IsVar(i.src.rhs)
  BY DEF Inverts
<1>3. genBinary(i.src) = <<LoadOf(1, i.src.rhs), Inversion(i.src)>>
  BY <1>2 DEF genBinary, Inversion, LoadOf
<1>4. i.src.binary \notin ToState
  BY <1>2 DEF ToState
<1>5. s = <<LoadOf(1, i.src.rhs), Inversion(i.src)>> \o <<genStoreX(i.dest, 1)>>
  BY <1>1, <1>3, <1>4 DEF genInst, genAssign
<1> QED BY <1>5, Pair, Single, OneMore

LEMMA SetsCode ==
  ASSUME NEW i, Sets(i), NEW s, s = genInst(i)
  PROVE  Len(s) = 1 /\ s[1] = genStoreConst(i.dest, i.src.const)
<1>1. i.tag = "ASSIGN" /\ "binary" \notin DOMAIN i.src /\ "const" \in DOMAIN i.src
  BY KindSrc DEF Sets, Kinds, Kind
<1>2. s = <<genStoreConst(i.dest, i.src.const)>>
  BY <1>1 DEF genInst, genAssign, IsConst
<1> QED BY <1>2, Single

LEMMA MovesCode ==
  ASSUME NEW i, Moves(i), NEW s, s = genInst(i)
  PROVE  Len(s) = 2 /\ s[1] = LoadOf(1, i.src) /\ s[2] = genStoreX(i.dest, 1)
<1>1. /\ i.tag = "ASSIGN" /\ "binary" \notin DOMAIN i.src /\ "const" \notin DOMAIN i.src
      /\ "var" \in DOMAIN i.src
  BY KindSrc DEF Moves, Kinds, Kind
<1>2. s = <<genLoadX(1, i.src), genStoreX(i.dest, 1)>>
  BY <1>1 DEF genInst, genAssign, IsConst, IsVar
<1>3. LoadOf(1, i.src) = genLoadX(1, i.src)
  BY <1>1 DEF LoadOf, IsVar
<1> QED BY <1>2, <1>3, Pair

LEMMA ReturnsCode ==
  ASSUME NEW i, Returns(i), NEW s, s = genInst(i)
  PROVE  /\ i.ret = NoOperand => Len(s) = 1
         /\ i.ret # NoOperand => Len(s) = 2 /\ s[1] = LoadOf(1, i.ret)
         /\ s[Len(s)] = [op |-> "RET"]
<1> DEFINE x == [op |-> "RET"]
<1>1. s = genOperand(1, i.ret) \o <<x>>
  BY DEF Returns, genInst, genReturn
<1> HIDE DEF x
<1>2. CASE i.ret = NoOperand
  <2>1. genOperand(1, i.ret) = << >>
    BY <1>2 DEF genOperand, IsVar, IsConst, NoOperand
  <2> QED BY <1>1, <1>2, <2>1, Empty, Single, OneMore DEF x
<1>3. CASE i.ret # NoOperand
  <2>1. genOperand(1, i.ret) = <<LoadOf(1, i.ret)>>
    BY <1>3, OperandCode DEF Returns
  <2> QED BY <1>1, <1>3, <2>1, Single, OneMore DEF x
<1> QED BY <1>2, <1>3

BranchInst(yes, no) == [op |-> "JIF", label1 |-> yes, label2 |-> no]
JumpInst(to) == [op |-> "JMP", label |-> to]

LEMMA BranchesCode ==
  ASSUME NEW i, Branches(i), NEW s, s = genInst(i)
  PROVE  /\ Len(s) = 2 /\ s[1] = LoadOf(0, i.cond)
         /\ s[2] = BranchInst(i.yes, i.no)
<1> DEFINE x == [op |-> "JIF", label1 |-> i.yes, label2 |-> i.no]
           y == [op |-> "LOADX", reg |-> 0, name |-> i.cond.var, idx |-> << >>]
<1>1. s = <<y, x>>
  BY DEF Branches, genInst, genBranch
<1>2. y = LoadOf(0, i.cond)
  BY DEF LoadOf, genLoadX, Branches
<1> HIDE DEF x, y
<1> QED BY <1>1, <1>2, Pair DEF x, BranchInst

LEMMA JumpCode ==
  ASSUME NEW i, i.tag = "JMP", NEW s, s = genInst(i)
  PROVE  Len(s) = 1 /\ s[1] = JumpInst(i.to)
<1> DEFINE x == [op |-> "JMP", label |-> i.to]
<1>1. s = <<x>>
  BY DEF genInst, genJump
<1> HIDE DEF x
<1> QED BY <1>1, Single DEF x, JumpInst

LEMMA Framed ==
  ASSUME NEW x, NEW t, IsVector(t), NEW y
  PROVE  LET s == <<x>> \o t \o <<y>>
         IN /\ Len(s) = Len(t) + 2 /\ Len(t) \in Nat /\ s[1] = x /\ s[Len(t) + 2] = y
            /\ \A k \in 1 .. Len(t) : s[k + 1] = t[k]
<1> DEFINE n == Len(t)
           s == <<x>> \o t \o <<y>>
<1> HIDE DEF n, s
<1>1. n \in Nat /\ t = [k \in 1 .. n |-> t[k]]
  BY VectorShape DEF n
<1>2. PICK h : h = <<x>> \o t
  OBVIOUS
<1>3. IsVector(h) /\ Len(h) = n + 1 /\ h[1] = x /\ \A k \in 1 .. n : h[k + 1] = t[k]
  BY <1>1, <1>2, Behind
<1>4. PICK e : e = <<y>>
  OBVIOUS
<1>5. IsVector(e) /\ Len(e) = 1 /\ e[1] = y
  BY <1>4, Single
<1>6. s = h \o e
  BY <1>2, <1>4 DEF s
<1>7. Len(s) = Len(h) + 1 /\ s[Len(h) + 1] = e[1] /\ \A k \in 1 .. Len(h) : s[k] = h[k]
  <2>1. IsVector(h) /\ IsVector(e) /\ Len(e) = 1
    BY <1>3, <1>5
  <2> QED BY <2>1, <1>6, OneMore
<1>8. Len(h) = n + 1 /\ h[1] = x /\ e[1] = y /\ \A k \in 1 .. n : h[k + 1] = t[k]
  BY <1>3, <1>5
<1>9. Len(s) = n + 2 /\ s[n + 2] = y /\ s[1] = x
  BY <1>1, <1>7, <1>8
<1>10. \A k \in 1 .. n : s[k + 1] = t[k]
  BY <1>1, <1>7, <1>8
<1> QED BY <1>1, <1>9, <1>10 DEF s, n

CallInst(name) == [op |-> "CALL", name |-> name, target |-> -1]

LEMMA CallingCode ==
  ASSUME NEW i, Calling(i), NEW s, s = genInst(i), NEW args, args = i.src.args
  PROVE  /\ Len(args) \in Nat /\ Len(s) = Len(args) + 2
         /\ s[1] = CallInst(i.src.call) /\ s[Len(args) + 2] = genStoreX(i.dest, 1)
         /\ \A k \in 1 .. Len(args) : s[k + 1] = genArg(args[k])
         /\ HasCall(i) /\ Called(i) = i.src
<1> DEFINE t == [k \in DOMAIN args |-> genArg(args[k])]
           n == Len(args)
<1>1. i.tag = "ASSIGN" /\ "call" \in DOMAIN i.src /\ "binary" \notin DOMAIN i.src
      /\ "const" \notin DOMAIN i.src /\ "var" \notin DOMAIN i.src /\ "array" \notin DOMAIN i.src
  BY KindSrc DEF Calling, Kinds, Kind
<1>2. s = genCall(i.src) \o <<genStoreX(i.dest, 1)>>
  BY <1>1 DEF genInst, genAssign, IsConst, IsVar
<1>3. genCall(i.src) = <<CallInst(i.src.call)>> \o t
  BY DEF genCall, CallInst
<1>4. n \in Nat /\ DOMAIN args = 1 .. n
  BY VectorShape DEF Calling
<1>5. IsVector(t) /\ Len(t) = n
  <2>1. t = [k \in 1 .. n |-> t[k]]
    BY <1>4
  <2> HIDE DEF t
  <2> QED BY <2>1, <1>4, Vector
<1>6. \A k \in 1 .. n : t[k] = genArg(args[k])
  BY <1>4
<1>7. HasCall(i) /\ Called(i) = i.src
  BY <1>1 DEF HasCall, Called, IsCall
<1> HIDE DEF t
<1>8. s = <<CallInst(i.src.call)>> \o t \o <<genStoreX(i.dest, 1)>>
  BY <1>2, <1>3
<1>9. /\ Len(s) = Len(t) + 2 /\ s[1] = CallInst(i.src.call) /\ s[Len(t) + 2] = genStoreX(i.dest, 1)
      /\ \A k \in 1 .. Len(t) : s[k + 1] = t[k]
  BY <1>5, <1>8, Framed
<1> HIDE DEF n
<1>10. /\ Len(s) = n + 2 /\ s[1] = CallInst(i.src.call) /\ s[n + 2] = genStoreX(i.dest, 1)
       /\ \A k \in 1 .. n : s[k + 1] = genArg(args[k])
  BY <1>5, <1>6, <1>9
<1> QED BY <1>4, <1>7, <1>10 DEF n

LiteralOf(elems) == [k \in DOMAIN elems |-> IF IsVar(elems[k]) THEN None ELSE elems[k].const]
ElementLoad(x, k) == [op |-> "LOADXA", reg |-> 2, name |-> x.var, index |-> k - 1]
ArrayLoad(elems) == [op |-> "LOADA", reg |-> 2, val |-> Arr(LiteralOf(elems))]

(* The code of an array: its literal, the loads of its variables, a store. *)
Fills(s, w, elems, dest) ==
  /\ w \in Nat /\ w >= 2 /\ s[1] = ArrayLoad(elems) /\ s[w] = genStoreX(dest, 2)
  /\ Len(elems) \in Nat /\ DOMAIN elems = 1 .. Len(elems)
  /\ \A m \in 2 .. w - 1 : \E k \in DOMAIN elems :
       IsVar(elems[k]) /\ s[m] = ElementLoad(elems[k], k)
  /\ \A k \in DOMAIN elems : IsVar(elems[k]) =>
       \E m \in 2 .. w - 1 : s[m] = ElementLoad(elems[k], k)

LEMMA BuildsCode ==
  ASSUME NEW i, Builds(i), NEW s, s = genInst(i), NEW elems, elems = i.src.array, NEW w, w = Len(s)
  PROVE  Fills(s, w, elems, i.dest)
<1> DEFINE fill == [k \in DOMAIN elems |->
                      IF IsVar(elems[k]) THEN <<ElementLoad(elems[k], k)>> ELSE << >>]
           t == FlattenSeq(fill)
           n == Len(elems)
<1>1. i.tag = "ASSIGN" /\ "array" \in DOMAIN i.src /\ "binary" \notin DOMAIN i.src
      /\ "const" \notin DOMAIN i.src /\ "var" \notin DOMAIN i.src
  BY KindSrc DEF Builds, Kinds, Kind
<1>2. s = genArray(elems) \o <<genStoreX(i.dest, 2)>>
  BY <1>1 DEF genInst, genAssign, IsConst, IsVar
<1>3. genArray(elems) = <<ArrayLoad(elems)>> \o t
  BY DEF genArray, ArrayLoad, LiteralOf, ElementLoad
<1>4. n \in Nat /\ DOMAIN elems = 1 .. n
  BY VectorShape DEF Builds
<1>5. IsVector(fill) /\ Len(fill) = n
  <2>1. fill = [k \in 1 .. n |-> fill[k]]
    BY <1>4
  <2> HIDE DEF fill
  <2> QED BY <2>1, <1>4, Vector
<1>6. ASSUME NEW k \in 1 .. n
      PROVE  /\ IsVar(elems[k]) => IsVector(fill[k]) /\ Len(fill[k]) = 1 /\ fill[k][1] = ElementLoad(elems[k], k)
             /\ ~IsVar(elems[k]) => IsVector(fill[k]) /\ Len(fill[k]) = 0
  <2>1. fill[k] = IF IsVar(elems[k]) THEN <<ElementLoad(elems[k], k)>> ELSE << >>
    BY <1>4
  <2> HIDE DEF fill
  <2> QED BY <2>1, Single, Empty
<1> HIDE DEF fill
<1>7. Nested(fill)
  BY <1>4, <1>5, <1>6 DEF Nested
<1>8. /\ IsVector(t)
      /\ \A k \in 1 .. Len(fill) : \A j \in 1 .. Len(fill[k]) :
           t[Offsets(fill)[k - 1] + j] = fill[k][j]
      /\ Len(t) = Offsets(fill)[Len(fill)]
  BY <1>7, FlattenPlaces
<1>9. \A m \in 1 .. Len(t) : \E k \in 1 .. Len(fill) : \E j \in 1 .. Len(fill[k]) : t[m] = fill[k][j]
  BY <1>7, FlattenFrom
<1>10. ASSUME NEW k \in 1 .. n, IsVar(elems[k])
       PROVE  \E m \in 1 .. Len(t) : t[m] = ElementLoad(elems[k], k)
  <2> DEFINE o == Offsets(fill)
  <2>1. /\ Offsets(fill) \in [0 .. Len(fill) -> Nat]
        /\ \A m \in 1 .. Len(fill) : Offsets(fill)[m] = Offsets(fill)[m - 1] + Len(fill[m])
    BY <1>7, OffsetsShape
  <2>2. Offsets(fill)[k] <= Offsets(fill)[n]
    <3>1. k \in 0 .. Len(fill) /\ Len(fill) \in 0 .. Len(fill) /\ Len(fill) = n /\ k \in 0 .. n
      BY <1>4, <1>5
    <3> QED BY <1>7, <3>1, OffsetsGrow
  <2>3. Len(fill[k]) = 1 /\ fill[k][1] = ElementLoad(elems[k], k)
    BY <1>6, <1>10
  <2>7. /\ o \in [0 .. n -> Nat] /\ \A m \in 1 .. n : o[m] = o[m - 1] + Len(fill[m])
        /\ Len(t) = o[n] /\ o[k] <= o[n]
    BY <1>5, <1>8, <2>1, <2>2
  <2>4. o[k - 1] \in Nat /\ o[k] = o[k - 1] + 1 /\ o[k] <= Len(t) /\ o[n] \in Nat /\ Len(t) = o[n]
    <3> HIDE DEF o, n, t
    <3>1. k - 1 \in 0 .. n /\ n \in 0 .. n /\ k \in 1 .. n
      BY <1>4
    <3> QED BY <2>7, <3>1, <2>3
  <2>5. t[o[k - 1] + 1] = fill[k][1]
    BY <1>5, <1>8, <2>3
  <2> HIDE DEF o
  <2>6. o[k - 1] + 1 \in 1 .. Len(t)
    BY <2>4
  <2> QED BY <2>3, <2>5, <2>6
<1>11. ASSUME NEW m \in 1 .. Len(t)
       PROVE  \E k \in 1 .. n : IsVar(elems[k]) /\ t[m] = ElementLoad(elems[k], k)
  <2>1. PICK k \in 1 .. n : \E j \in 1 .. Len(fill[k]) : t[m] = fill[k][j]
    BY <1>5, <1>9
  <2>2. PICK j \in 1 .. Len(fill[k]) : t[m] = fill[k][j]
    BY <2>1
  <2>3. IsVar(elems[k]) /\ Len(fill[k]) = 1 /\ fill[k][1] = ElementLoad(elems[k], k)
    BY <1>6, <2>2
  <2>4. j = 1
    BY <2>2, <2>3
  <2> QED BY <2>2, <2>3, <2>4
<1> HIDE DEF t
<1>12. s = <<ArrayLoad(elems)>> \o t \o <<genStoreX(i.dest, 2)>>
  BY <1>2, <1>3
<1>13. /\ Len(s) = Len(t) + 2 /\ Len(t) \in Nat /\ s[1] = ArrayLoad(elems)
       /\ s[Len(t) + 2] = genStoreX(i.dest, 2)
       /\ \A k \in 1 .. Len(t) : s[k + 1] = t[k]
  BY <1>8, <1>12, Framed
<1>14. w = Len(t) + 2 /\ w \in Nat /\ w >= 2
  BY <1>13
<1>15. ASSUME NEW m \in 2 .. w - 1
       PROVE  \E k \in DOMAIN elems : IsVar(elems[k]) /\ s[m] = ElementLoad(elems[k], k)
  <2>1. m - 1 \in 1 .. Len(t) /\ m = (m - 1) + 1
    BY <1>13, <1>14
  <2>2. s[m] = t[m - 1]
    BY <1>13, <2>1
  <2> QED BY <1>4, <1>11, <2>1, <2>2
<1>16. ASSUME NEW k \in DOMAIN elems, IsVar(elems[k])
       PROVE  \E m \in 2 .. w - 1 : s[m] = ElementLoad(elems[k], k)
  <2>1. PICK m \in 1 .. Len(t) : t[m] = ElementLoad(elems[k], k)
    BY <1>4, <1>10, <1>16
  <2>2. m + 1 \in 2 .. w - 1
    BY <1>13, <1>14
  <2> QED BY <1>13, <2>1, <2>2
<1> QED BY <1>4, <1>13, <1>14, <1>15, <1>16 DEF Fills

-----------------------------------------------------------------------------
(* What the instructions of a meant program are *)

(* What the kinds of instruction need to know of their function.           *)
MeantIn(ir, f, i) ==
  /\ \/ Operates(i) \/ Inverts(i) \/ Sets(i) \/ Moves(i) \/ Builds(i) \/ Calling(i)
     \/ Returns(i) \/ i.tag = "JMP" \/ Branches(i)
  /\ f = 0 => i.tag = "ASSIGN" /\ ~Calling(i)
  /\ f # 0 => /\ Sets(i) => i.dest.idx # << >> \/ Local(ir, ir.funcs[f], i.dest.var)
              /\ Calling(i) => ArgumentsOK(ir, ir.funcs[f], i.src) /\ CallOK(ir, i)
              /\ TargetsOK(ir.funcs[f], i)

LEMMA SourceKinds ==
  ASSUME NEW i, i.tag = "ASSIGN", SourceOK(i.src), ~IsCall(i.src), SourceMeant(i.src)
  PROVE  Operates(i) \/ Inverts(i) \/ Sets(i) \/ Moves(i) \/ Builds(i)
<1>1. PICK kind \in Kinds : DOMAIN i.src \cap Kinds = {kind}
  BY DEF SourceOK
<1>2. Kind(i, kind)
  BY <1>1 DEF Kind
<1>3. /\ kind \in DOMAIN i.src /\ kind # "call"
      /\ \A other \in Kinds : other # kind => other \notin DOMAIN i.src
  BY <1>1, <1>2, KindSrc DEF IsCall
<1>4. CASE kind = "binary"
  <2>1. "binary" \in DOMAIN i.src /\ "var" \notin DOMAIN i.src /\ "const" \notin DOMAIN i.src
        /\ "array" \notin DOMAIN i.src
    BY <1>3, <1>4 DEF Kinds
  <2>2. OperationOK(i.src)
    BY <2>1 DEF SourceMeant, Simple, IsVar, IsConst
  <2> QED BY <1>2, <1>4, <2>2 DEF OperationOK, Operates, Inverts
<1>5. CASE kind = "const"
  <2>1. "binary" \notin DOMAIN i.src /\ "var" \notin DOMAIN i.src /\ "array" \notin DOMAIN i.src
    BY <1>3, <1>5 DEF Kinds
  <2>2. IsInt(i.src.const) \/ IsStr(i.src.const)
    BY <2>1 DEF SourceMeant, Simple, IsVar
  <2> QED BY <1>2, <1>5, <2>2 DEF Sets
<1>6. CASE kind = "var"
  BY <1>2, <1>6 DEF Moves
<1>7. CASE kind = "array"
  <2>1. "binary" \notin DOMAIN i.src /\ "var" \notin DOMAIN i.src /\ "const" \notin DOMAIN i.src
        /\ "array" \in DOMAIN i.src
    BY <1>3, <1>7 DEF Kinds
  <2>2. \A k \in DOMAIN i.src.array : Unindexed(i.src.array[k])
    BY <2>1 DEF SourceMeant, Simple, IsVar, IsConst
  <2>3. IsVector(i.src.array)
    BY <2>1 DEF SourceOK
  <2> QED BY <1>2, <1>7, <2>2, <2>3 DEF Builds
<1> QED BY <1>3, <1>4, <1>5, <1>6, <1>7 DEF Kinds

LEMMA AssignOnly ==
  ASSUME NEW i, Operates(i) \/ Inverts(i) \/ Sets(i) \/ Moves(i) \/ Builds(i) \/ Calling(i)
  PROVE  i.tag = "ASSIGN" /\ (Calling(i) <=> IsCall(i.src))
<1>1. CASE Calling(i)
  BY <1>1, KindSrc DEF Calling, Kind, Kinds, IsCall
<1>2. CASE ~Calling(i)
  <2>1. PICK kind \in Kinds : Kind(i, kind) /\ kind # "call"
    BY <1>2 DEF Operates, Inverts, Sets, Moves, Builds, Kinds
  <2>2. "call" \notin DOMAIN i.src
    BY <2>1, KindSrc DEF Kinds
  <2> QED BY <1>2, <2>1, <2>2 DEF Kind, IsCall
<1> QED BY <1>1, <1>2

LEMMA Classified ==
  ASSUME NEW ir, NEW p, Compiles(ir, p), NEW f, NEW b, NEW n, IsSpot(ir, f, b, n),
         NEW i, i = IRInsts(ir, f, b)[n]
  PROVE  MeantIn(ir, f, i)
<1>1. WellFormedIR(ir) /\ Meant(ir)
  BY CompiledFields
<1>2. CASE f = 0
  <2>1. i = ir.globals[n] /\ n \in DOMAIN ir.globals
    <3>1. IsVector(ir.globals)
      BY <1>1 DEF WellFormedIR
    <3> QED BY <1>2, <3>1, VectorShape DEF IRInsts, IsSpot
  <2>2. i.tag = "ASSIGN" /\ SourceOK(i.src) /\ ~IsCall(i.src)
    BY <1>1, <2>1 DEF WellFormedIR, GlobalOK
  <2>3. SourceMeant(i.src)
    BY <1>1, <2>1 DEF Meant, InitialiserMeant
  <2>4. Operates(i) \/ Inverts(i) \/ Sets(i) \/ Moves(i) \/ Builds(i)
    BY <2>2, <2>3, SourceKinds
  <2>5. ~Calling(i)
    BY <2>2, <2>4, AssignOnly
  <2> QED BY <1>2, <2>2, <2>4, <2>5 DEF MeantIn
<1>3. CASE f # 0
  <2>1. f \in 1 .. Len(ir.funcs) /\ b \in 1 .. BlockCount(ir)[f]
    BY <1>1, <1>3, BlockHere DEF IsSpot
  <2>2. i = ir.funcs[f].blocks[b].insts[n] /\ n \in 1 .. Len(ir.funcs[f].blocks[b].insts)
    BY <1>3 DEF IRInsts, IsSpot
  <2>3. InstOK(i) /\ TargetsOK(ir.funcs[f], i) /\ CallOK(ir, i)
    BY <1>1, <2>1, <2>2, InstHere
  <2>4. InstMeant(ir, ir.funcs[f], i)
    <3>1. f \in DOMAIN ir.funcs /\ b \in DOMAIN ir.funcs[f].blocks
      BY <1>1, <2>1, Functions
    <3>2. InstsOK(ir.funcs[f].blocks[b].insts)
      BY <1>1, <2>1, Functions
    <3>3. n \in DOMAIN ir.funcs[f].blocks[b].insts
      BY <3>2, <2>2, VectorShape DEF InstsOK
    <3> QED BY <1>1, <2>2, <3>1, <3>3 DEF Meant
  <2>5. CASE i.tag = "ASSIGN" /\ IsCall(i.src)
    <3>1. SourceOK(i.src)
      BY <2>3, <2>5 DEF InstOK
    <3>2. Kind(i, "call") /\ IsVector(i.src.args)
      BY <2>5, <3>1 DEF SourceOK, Kind, Kinds, IsCall
    <3>3. Calling(i)
      BY <3>2 DEF Calling
    <3>4. ArgumentsOK(ir, ir.funcs[f], i.src)
      BY <2>4, <2>5 DEF InstMeant
    <3>5. ~Sets(i)
      <4>1. "const" \notin DOMAIN i.src
        BY <3>2, KindSrc DEF Kinds
      <4> QED BY <4>1 DEF Sets, Kind
    <3> QED BY <1>3, <2>3, <3>3, <3>4, <3>5 DEF MeantIn
  <2>6. CASE i.tag = "ASSIGN" /\ ~IsCall(i.src)
    <3>1. SourceOK(i.src) /\ SourceMeant(i.src)
      BY <2>3, <2>4, <2>6 DEF InstOK, InstMeant
    <3>2. Operates(i) \/ Inverts(i) \/ Sets(i) \/ Moves(i) \/ Builds(i)
      BY <2>6, <3>1, SourceKinds
    <3>3. ~Calling(i)
      BY <2>6, <3>2, AssignOnly
    <3>4. Sets(i) => i.dest.idx # << >> \/ Local(ir, ir.funcs[f], i.dest.var)
      BY <2>4, <2>6 DEF InstMeant, Sets, Kind, IsConst
    <3> QED BY <1>3, <2>3, <3>2, <3>3, <3>4 DEF MeantIn
  <2>7. CASE i.tag # "ASSIGN"
    <3>1. i.tag \in {"RETURN", "JMP", "BRANCH"}
      BY <2>3, <2>4, <2>7 DEF InstOK, InstMeant
    <3>2. Returns(i) \/ i.tag = "JMP" \/ Branches(i)
      BY <2>4, <3>1 DEF InstMeant, Returns, Branches
    <3>3. ~Calling(i) /\ ~Sets(i)
      BY <2>7 DEF Calling, Sets, Kind
    <3> QED BY <1>3, <2>3, <3>2, <3>3 DEF MeantIn
  <2> QED BY <2>5, <2>6, <2>7
<1> QED BY <1>2, <1>3

(* The instruction at a place of the linked code.                          *)
LEMMA SpotInst ==
  ASSUME NEW ir, NEW p, Compiles(ir, p), NEW f, NEW b, NEW n, NEW l, NEW i, AtSpot(ir, i, f, b, n, l),
         NEW x, x = IRInsts(ir, f, b)[n], NEW s, s = genInst(x)
  PROVE  /\ p.code[i].op = s[l].op
         /\ s[l].op \notin {"JMP", "JIF", "CALL"} => p.code[i] = s[l]
         /\ Relocated(ir2VmInst(ir), x, s, l, p.code[i])
         /\ Extent(ir, f, b, n) = Len(s) /\ MeantIn(ir, f, x)
<1>1. p.code[i] = Fix(ir2VmInst(ir), s[l]) /\ GoodCode(x, s) /\ l \in 1 .. Len(s)
      /\ Extent(ir, f, b, n) = Len(s)
  BY SpotFacts
<1>2. Relocated(ir2VmInst(ir), x, s, l, p.code[i])
  BY <1>1, FixedGenerated
<1>3. p.code[i].op = s[l].op
  BY <1>2 DEF Relocated
<1>4. s[l].op \notin {"JMP", "JIF", "CALL"} => p.code[i] = s[l]
  BY <1>1, FixOther
<1>5. MeantIn(ir, f, x)
  BY Classified DEF AtSpot
<1> QED BY <1>1, <1>2, <1>3, <1>4, <1>5

FuncNamed(ir, name) == CHOOSE g \in DOMAIN ir.funcs : ir.funcs[g].name = name
MainOf(ir) == FuncNamed(ir, ENTRY_FUNC)

LEMMA MainFunction ==
  ASSUME NEW ir, NEW p, Compiles(ir, p), NEW m, m = MainOf(ir)
  PROVE  /\ m \in 1 .. Len(ir.funcs) /\ ir.funcs[m].name = ENTRY_FUNC
         /\ p.entry = HeadAt(ir)[m] /\ p.entry_end = HeadAt(ir)[m + 1] - 1
         /\ ParamCount(ir)[m] = 0
<1>1. WellFormedIR(ir)
  BY CompiledFields
<1>2. DOMAIN ir.funcs = 1 .. Len(ir.funcs)
  BY <1>1, Functions
<1>3. PICK g \in 1 .. Len(ir.funcs) : ir.funcs[g].name = ENTRY_FUNC /\ ir.funcs[g].params = << >>
  BY <1>1, <1>2 DEF WellFormedIR
<1>4. /\ Link(ir).entry = HeadAt(ir)[g] /\ Link(ir).entry_end = HeadAt(ir)[g + 1] - 1
      /\ (CHOOSE h \in DOMAIN ir.funcs : ir.funcs[h].name = ENTRY_FUNC) = g
  BY <1>1, <1>3, EntryAt
<1>5. m = g
  BY <1>4 DEF MainOf, FuncNamed
<1>6. ParamCount(ir)[g] = 0
  BY <1>3, Empty DEF ParamCount
<1> QED BY <1>3, <1>4, <1>5, <1>6, CompiledFields

LEMMA RetPlace ==
  ASSUME NEW ir, NEW p, Compiles(ir, p), NEW f, NEW b, NEW n, NEW l, NEW i, AtSpot(ir, i, f, b, n, l),
         NEW x, x = IRInsts(ir, f, b)[n], p.code[i].op = "RET"
  PROVE  Returns(x) /\ l = Extent(ir, f, b, n)
<1> DEFINE s == genInst(x)
<1>1. s[l].op = "RET" /\ GoodCode(x, s) /\ l \in 1 .. Len(s) /\ Extent(ir, f, b, n) = Len(s)
      /\ MeantIn(ir, f, x)
  BY SpotInst, SpotFacts
<1> HIDE DEF s
<1>2. x.tag \in Leaving
  BY <1>1 DEF GoodCode, Transfers
<1>3. Returns(x) \/ x.tag = "JMP" \/ Branches(x)
  BY <1>1, <1>2, AssignOnly DEF MeantIn, Leaving
<1>4. CASE Returns(x)
  <2>1. /\ x.ret = NoOperand => Len(s) = 1
        /\ x.ret # NoOperand => Len(s) = 2 /\ s[1] = LoadOf(1, x.ret)
    BY <1>4, ReturnsCode DEF s
  <2>2. LoadOf(1, x.ret).op # "RET"
    BY DEF LoadOf, genLoadX
  <2>3. l = Len(s)
    BY <1>1, <2>1, <2>2
  <2> QED BY <1>1, <1>4, <2>3
<1>5. x.tag # "JMP"
  <2>1. SUFFICES ASSUME x.tag = "JMP" PROVE FALSE
    OBVIOUS
  <2>3. Len(s) = 1 /\ s[1] = JumpInst(x.to)
    BY <2>1, JumpCode DEF s
  <2>2. Len(s) = 1 /\ s[1].op = "JMP"
    BY <2>3 DEF JumpInst
  <2> QED BY <1>1, <2>2
<1>6. ~Branches(x)
  <2>1. SUFFICES ASSUME Branches(x) PROVE FALSE
    OBVIOUS
  <2>4. Len(s) = 2 /\ s[1] = LoadOf(0, x.cond) /\ s[2] = BranchInst(x.yes, x.no)
    BY <2>1, BranchesCode DEF s
  <2>2. Len(s) = 2 /\ s[1] = LoadOf(0, x.cond) /\ s[2].op = "JIF"
    BY <2>4 DEF BranchInst
  <2>3. LoadOf(0, x.cond).op # "RET"
    BY DEF LoadOf, genLoadX
  <2> QED BY <1>1, <2>2, <2>3
<1> QED BY <1>3, <1>4, <1>5, <1>6

LEMMA SpotFunctionIs ==
  ASSUME NEW ir, NEW p, Compiles(ir, p), NEW f, NEW b, NEW n, NEW l, NEW i, AtSpot(ir, i, f, b, n, l),
         f # 0
  PROVE  /\ f \in 1 .. Len(ir.funcs) /\ FuncOf(p, i) = HeadAt(ir)[f]
         /\ HeadAt(ir)[f] \in Nat /\ ParamCount(ir)[f] \in Nat /\ i > HeadAt(ir)[f] + ParamCount(ir)[f]
         /\ Arity(p, HeadAt(ir)[f]) = ParamCount(ir)[f] /\ i \in Nat /\ i >= p.global_len
<1>1. f \in 0 .. Len(ir.funcs) /\ i \in Nat /\ p.global_len \in Nat /\ (f = 0 <=> i < p.global_len)
  BY SpotFacts
<1>2. f \in 1 .. Len(ir.funcs) /\ i >= p.global_len
  BY <1>1
<1>3. /\ FuncOf(Link(ir), i) = HeadAt(ir)[f]
      /\ HeadAt(ir)[f] \in Nat /\ ParamCount(ir)[f] \in Nat /\ i > HeadAt(ir)[f] + ParamCount(ir)[f]
      /\ Arity(Link(ir), HeadAt(ir)[f]) = ParamCount(ir)[f]
  BY <1>2, SpotFunction, CompiledFields DEF AtSpot
<1> QED BY <1>1, <1>2, <1>3, CompiledPlaces

(* main returns at its end only.                                           *)
LEMMA NoReturn ==
  ASSUME NEW ir, NEW p, Compiles(ir, p)
  PROVE  NoReturnInMain(p)
<1>1. SUFFICES ASSUME NEW i \in DOMAIN p.code, i >= p.global_len, FuncOf(p, i) = p.entry,
                      OpAt(p, i) = "RET"
               PROVE  i = p.entry_end
  BY DEF NoReturnInMain
<1> DEFINE m == MainOf(ir)
<1>2. WellFormedIR(ir) /\ Meant(ir)
  BY CompiledFields
<1>3. /\ m \in 1 .. Len(ir.funcs) /\ ir.funcs[m].name = ENTRY_FUNC
      /\ p.entry = HeadAt(ir)[m] /\ p.entry_end = HeadAt(ir)[m + 1] - 1
  BY MainFunction
<1> HIDE DEF m
<1>4. i \in 0 .. p.size - 1
  <2>1. Arranged(Link(ir), Len(ir.funcs), HeadAt(ir), ParamCount(ir))
    BY <1>2, LinkArranged
  <2>2. DOMAIN Link(ir).code = 0 .. Link(ir).size - 1
    BY <2>1 DEF Arranged
  <2> QED BY <1>1, <2>2, CompiledFields
<1>5. PICK f, b, n, l : AtSpot(ir, i, f, b, n, l)
  <2>1. ASSUME NEW f, NEW k, AtHeader(ir, i, f, k) PROVE FALSE
    BY <2>1, <1>1, HeaderFacts DEF OpAt
  <2> QED BY <1>4, <2>1, SpotOrHeader
<1>6. p.code[i].op = "RET"
  BY <1>1 DEF OpAt
<1>7. f # 0
  BY <1>5, <1>1, SpotFacts
<1>8. f = m
  <2>1. f \in 1 .. Len(ir.funcs) /\ HeadAt(ir)[f] = HeadAt(ir)[m]
    BY <1>1, <1>3, <1>5, <1>7, SpotFunctionIs
  <2> QED BY <1>3, <2>1, HeadsApart
<1> DEFINE x == IRInsts(ir, f, b)[n]
           func == ir.funcs[m]
<1>9. x.tag = "RETURN" /\ l = Extent(ir, f, b, n)
  BY <1>5, <1>6, RetPlace DEF Returns
<1>10. x = func.blocks[b].insts[n] /\ b \in DOMAIN func.blocks /\ n \in DOMAIN func.blocks[b].insts
       /\ m \in DOMAIN ir.funcs
  <2>1. IsSpot(ir, f, b, n)
    BY <1>5 DEF AtSpot
  <2>2. b \in 1 .. BlockCount(ir)[f]
    BY <1>2, <1>7, <2>1, BlockHere DEF IsSpot
  <2>3. b \in DOMAIN func.blocks /\ InstsOK(func.blocks[b].insts) /\ m \in DOMAIN ir.funcs
    BY <1>2, <1>3, <1>8, <2>2, Functions
  <2>4. n \in 1 .. Len(func.blocks[b].insts)
    BY <1>7, <1>8, <2>1 DEF IsSpot, IRInsts
  <2>5. n \in DOMAIN func.blocks[b].insts
    BY <2>3, <2>4, VectorShape DEF InstsOK
  <2> QED BY <1>7, <1>8, <2>3, <2>5 DEF IRInsts
<1>11. b = Len(func.blocks) /\ n = Len(func.blocks[Len(func.blocks)].insts)
  <2>1. func.blocks[b].insts[n].tag = "RETURN" <=>
          <<b, n>> = <<Len(func.blocks), Len(func.blocks[Len(func.blocks)].insts)>>
    BY <1>2, <1>3, <1>10 DEF Meant
  <2> QED BY <1>9, <1>10, <2>1
<1>12. /\ Begin(ir, m, b, n) + Extent(ir, m, b, n) - 1 = HeadAt(ir)[m + 1] - 1
  <2>1. n = Len(func.blocks[b].insts)
    BY <1>11
  <2> QED BY <1>2, <1>3, <1>11, <2>1, EndSpot
<1>13. i = Begin(ir, f, b, n) + l - 1
  BY <1>5 DEF AtSpot
<1> QED BY <1>3, <1>8, <1>9, <1>12, <1>13

(* The arguments taken at each place.                                      *)
LEMMA TakenInBody ==
  ASSUME NEW ir, NEW p, Compiles(ir, p), NEW f, NEW b, NEW n, NEW l, NEW i, AtSpot(ir, i, f, b, n, l),
         f # 0
  PROVE  ArgsTaken(p, i) = ParamCount(ir)[f]
<1> DEFINE h == HeadAt(ir)[f]
           c == ParamCount(ir)[f]
<1>1. FuncOf(p, i) = h /\ h \in Nat /\ c \in Nat /\ i > h + c /\ i \in Nat /\ Arity(p, h) = c
  BY SpotFunctionIs
<1> HIDE DEF h, c
<1>2. ArgsTaken(p, i) = IF i <= h + 1 THEN 0 ELSE IF i <= h + Arity(p, h) THEN i - h - 1 ELSE Arity(p, h)
  BY <1>1, ArgsTakenIs
<1>3. ArgsTaken(p, i) = c
  BY <1>1, <1>2
<1> QED BY <1>3 DEF c

Taken(k) == IF k = 0 THEN 0 ELSE k - 1

LEMMA HeaderFunctionIs ==
  ASSUME NEW ir, NEW p, Compiles(ir, p), NEW f, NEW k, NEW i, AtHeader(ir, i, f, k)
  PROVE  /\ FuncOf(p, i) = HeadAt(ir)[f] /\ Arity(p, HeadAt(ir)[f]) = ParamCount(ir)[f]
         /\ f \in 1 .. Len(ir.funcs) /\ HeadAt(ir)[f] \in Nat /\ i \in Nat
         /\ ArgsTaken(p, i) = Taken(k) /\ k \in 0 .. ParamCount(ir)[f] /\ ParamCount(ir)[f] \in Nat
<1> DEFINE h == HeadAt(ir)[f]
           c == ParamCount(ir)[f]
<1>1. f \in 1 .. Len(ir.funcs) /\ h \in Nat /\ c \in Nat /\ i \in Nat /\ k \in Nat
  BY HeaderFacts
<1>2. FuncOf(Link(ir), i) = h /\ Arity(Link(ir), h) = c
  BY HeaderFunction, CompiledFields DEF AtHeader
<1>3. FuncOf(p, i) = h /\ Arity(p, h) = c
  BY <1>2, CompiledPlaces
<1>4. k \in 0 .. c /\ i = h + k
  BY DEF AtHeader
<1> HIDE DEF h, c
<1>5. ArgsTaken(p, i) = IF i <= h + 1 THEN 0 ELSE IF i <= h + Arity(p, h) THEN i - h - 1 ELSE Arity(p, h)
  BY <1>3, ArgsTakenIs
<1>6. ArgsTaken(p, i) = Taken(k)
  BY <1>1, <1>3, <1>4, <1>5 DEF Taken
<1> QED BY <1>1, <1>3, <1>4, <1>6 DEF h, c

(* A call of the program's function g.                                     *)
UserCall(ir, x, g) ==
  /\ Calling(x) /\ x.src.call \notin DOMAIN BuiltinIndex
  /\ g \in 1 .. Len(ir.funcs) /\ ir.funcs[g].name = x.src.call
  /\ Len(x.src.args) = ParamCount(ir)[g] /\ g # MainOf(ir)

LEMMA CallSpot ==
  ASSUME NEW ir, NEW p, Compiles(ir, p), NEW f, NEW b, NEW n, NEW l, NEW i, AtSpot(ir, i, f, b, n, l),
         NEW x, x = IRInsts(ir, f, b)[n], p.code[i].op = "CALL"
  PROVE  /\ l = 1 /\ Calling(x) /\ f # 0
         /\ \/ x.src.call \in DOMAIN BuiltinIndex /\ p.code[i].target = BuiltinIndex[x.src.call]
            \/ \E g : UserCall(ir, x, g) /\ p.code[i].target = HeadAt(ir)[g]
<1> DEFINE s == genInst(x)
           B == ir2VmInst(ir)
<1>1. s[l].op = "CALL" /\ GoodCode(x, s) /\ Relocated(B, x, s, l, p.code[i]) /\ MeantIn(ir, f, x)
  BY SpotInst, SpotFacts
<1> HIDE DEF s, B
<1>2. l = 1 /\ HasCall(x) /\ p.code[i].target = CallTarget(B, Called(x).call)
  BY <1>1 DEF Relocated
<1>3. Calling(x)
  <2>1. \/ Operates(x) \/ Inverts(x) \/ Sets(x) \/ Moves(x) \/ Builds(x) \/ Calling(x)
        \/ x.tag \in {"RETURN", "JMP", "BRANCH"}
    BY <1>1 DEF MeantIn, Returns, Branches
  <2>2. x.tag \notin {"RETURN", "JMP", "BRANCH"}
    BY <1>2 DEF HasCall
  <2>3. x.tag = "ASSIGN"
    BY <2>1, <2>2, AssignOnly
  <2>4. IsCall(x.src)
    BY <1>2, <2>3 DEF HasCall
  <2> QED BY <2>1, <2>2, <2>4, AssignOnly
<1>4. f # 0
  BY <1>1, <1>3 DEF MeantIn
<1>5. Called(x) = x.src /\ HasCall(x)
  BY <1>3, CallingCode
<1>6. ArgumentsOK(ir, ir.funcs[f], x.src) /\ CallOK(ir, x)
  BY <1>1, <1>3, <1>4 DEF MeantIn
<1>7. CASE x.src.call \in DOMAIN BuiltinIndex
  BY <1>2, <1>3, <1>4, <1>5, <1>7 DEF CallTarget
<1>8. CASE x.src.call \notin DOMAIN BuiltinIndex
  <2>1. PICK g \in DOMAIN ir.funcs : /\ ir.funcs[g].name = x.src.call
                                     /\ Len(ir.funcs[g].params) = Len(x.src.args)
    BY <1>5, <1>6, <1>8 DEF CallOK
  <2>2. g \in 1 .. Len(ir.funcs) /\ WellFormedIR(ir)
    BY <2>1, Functions, CompiledFields
  <2>3. x.src.call # ENTRY_FUNC
    BY <1>6, <1>8 DEF ArgumentsOK
  <2>4. g # MainOf(ir)
    BY <2>1, <2>3, MainFunction
  <2>5. Len(x.src.args) = ParamCount(ir)[g]
    BY <2>1, <2>2 DEF ParamCount
  <2>6. p.code[i].target = Target(B, ir.funcs[g].name, TRUE)
    BY <1>2, <1>5, <1>8, <2>1 DEF CallTarget
  <2>7. Target(B, ir.funcs[g].name, TRUE) = Starts(ir)[Pos(ir, g, 0) - 1]
    BY <2>2, FuncTarget DEF B
  <2>8. HeadAt(ir)[g] = Starts(ir)[Pos(ir, g, 0) - 1]
    <3>1. Len(ir.funcs) \in Nat
      BY <2>2, Functions
    <3>2. g \in 1 .. Len(ir.funcs) + 1
      BY <2>2, <3>1
    <3> QED BY <3>2 DEF HeadAt
  <2>9. UserCall(ir, x, g)
    BY <1>3, <1>8, <2>1, <2>2, <2>4, <2>5 DEF UserCall
  <2> QED BY <1>2, <1>3, <1>4, <2>6, <2>7, <2>8, <2>9
<1> QED BY <1>7, <1>8

LEMMA BuiltinNegative ==
  ASSUME NEW name \in DOMAIN BuiltinIndex
  PROVE  BuiltinIndex[name] < 0 /\ BuiltinIndex[name] \in Builtin
<1>1. name \in {"print", "println", "read", "int", "string", "len"}
  BY DEF BuiltinIndex
<1> QED BY <1>1 DEF BuiltinIndex, Builtin, Printing, Read, ToInt, ToStr, Length

(* Every activation is in a function of the program.                       *)
LEMMA LinkedSpots ==
  ASSUME NEW p, WellLinked(p), NEW fs, FramesOK(fs), NEW i, Linked(p, fs, i), NEW k \in 2 .. Len(fs)
  PROVE  Spot(fs, i, k) \in p.global_len .. p.size - 1
<1>1. Len(fs) \in Nat
  BY VectorShape DEF FramesOK
<1>2. CASE k = Len(fs)
  BY <1>2 DEF Spot, Linked
<1>3. CASE k # Len(fs)
  <2>1. k \in 2 .. Len(fs) - 1 /\ k + 1 \in 1 .. Len(fs)
    BY <1>1, <1>3
  <2>2. PICK c \in DOMAIN p.code : Serves(p, fs, i, k, c)
    BY <2>1 DEF Linked
  <2> DEFINE j == Spot(fs, i, k + 1)
             f == p.code[c].target
             a == ArgsTaken(p, j)
  <2>3. j \in Int
    <3>1. CASE k + 1 = Len(fs)
      <4>1. i \in p.global_len .. p.size - 1 /\ p.size \in Nat /\ p.global_len \in 0 .. p.size - 1
        BY DEF Linked, WellLinked, WellFormed
      <4>2. j = i
        BY <3>1 DEF Spot
      <4> QED BY <4>1, <4>2
    <3>2. CASE k + 1 # Len(fs)
      <4>1. fs[k + 1].pc \in Int
        BY <2>1 DEF FramesOK
      <4> QED BY <3>2, <4>1 DEF Spot
    <3> QED BY <3>1, <3>2
  <2>4. /\ c >= p.global_len /\ OpAt(p, c) = "CALL" /\ f >= 0 /\ FuncOf(p, j) = f
        /\ fs[k].pc = c + a
    BY <2>2 DEF Serves
  <2>5. Arity(p, f) \in Nat /\ f \in Int
    <3>1. f \in DOMAIN p.code /\ f >= p.global_len /\ OpAt(p, f) = "FUNC"
      BY <2>2, <2>4 DEF WellLinked, CallsOK
    <3>2. DOMAIN p.code = 0 .. p.size - 1 /\ p.size \in Nat /\ p.global_len \in Int
      BY DEF WellLinked, WellFormed
    <3>3. f \in p.global_len .. p.size - 1
      BY <3>1, <3>2
    <3>4. FuncOf(p, f) = f
      BY <3>1, AtHead
    <3> QED BY <3>2, <3>3, <3>4, FuncOfHeads
  <2>6. a = IF j <= f + 1 THEN 0 ELSE IF j <= f + Arity(p, f) THEN j - f - 1 ELSE Arity(p, f)
    BY <2>4, ArgsTakenIs
  <2>7. a \in 0 .. Arity(p, f)
    <3> HIDE DEF a, j, f
    <3> QED BY <2>3, <2>5, <2>6
  <2>8. fs[k].pc \in p.global_len .. p.size - 1
    <3> HIDE DEF a
    <3> QED BY <2>2, <2>4, <2>7, CallerNext
  <2> QED BY <1>3, <2>8 DEF Spot
<1> QED BY <1>2, <1>3

-----------------------------------------------------------------------------
(* Values, to the machine and to the abstract machine *)

LEMMA WalkNowhere ==
  ASSUME NEW v
  PROVE  Walk(v, << >>) = v
<1> DEFINE P(g) == g = [k \in 0 .. Len(<< >>) |->
                          IF k = 0 THEN v
                          ELSE IF HasElem(g[k - 1], << >>[k]) THEN g[k - 1].arr[<< >>[k] + 1] ELSE Bad]
           h == [k \in {0} |-> v]
           w == CHOOSE g : P(g)
<1>1. Len(<< >>) = 0 /\ 0 .. 0 = {0}
  OBVIOUS
<1>2. P(h)
  BY <1>1
<1>3. P(w)
  <2> HIDE DEF P, h
  <2> QED BY <1>2
<1>4. w[0] = v
  BY <1>1, <1>3
<1>5. Walk(v, << >>) = w[Len(<< >>)]
  BY DEF Walk
<1> QED BY <1>1, <1>4, <1>5

LEMMA PutNowhere ==
  ASSUME NEW v, NEW w
  PROVE  Put(v, << >>, w) = w
BY DEF Put

LEMMA PutSound ==
  ASSUME NEW v, NEW path, NEW w, w # Bad
  PROVE  Put(v, path, w) # Bad
<1>1. \A s : Arr(s) # Bad
  <2> TAKE s
  <2>1. "arr" \in DOMAIN Arr(s) /\ "arr" \notin DOMAIN Bad
    BY DEF Arr, Bad
  <2> QED BY <2>1
<1>2. Put(v, path, w) = w \/ \E s : Put(v, path, w) = Arr(s)
  BY DEF Put
<1> QED BY <1>1, <1>2

LEMMA PutFirst ==
  ASSUME NEW s, NEW i \in Nat, NEW w
  PROVE  Put(Arr(s), <<i>>, w) = Arr([s EXCEPT ![i + 1] = w])
<1> DEFINE path == <<i>>
           new == [s EXCEPT ![i + 1] = w]
           last == Len(path) - 1
           outer(k) == Walk(Arr(s), SubSeq(path, 1, k)).arr
           P(g) == g = [k \in 0 .. last |->
                          [outer(k) EXCEPT ![path[k + 1] + 1] = IF k = last THEN w ELSE Arr(g[k + 1])]]
           h == [k \in {0} |-> new]
           f == CHOOSE g : P(g)
<1>1. last = 0 /\ 0 .. 0 = {0} /\ path[1] = i /\ path # << >>
  OBVIOUS
<1>2. outer(0) = s
  <2>1. SubSeq(path, 1, 0) = << >>
    OBVIOUS
  <2>2. Walk(Arr(s), << >>) = Arr(s)
    BY WalkNowhere
  <2>3. Arr(s).arr = s
    BY DEF Arr
  <2> QED BY <2>1, <2>2, <2>3
<1> HIDE DEF outer
<1>3. P(h)
  <2>1. \A g : [k \in 0 .. last |->
                  [outer(k) EXCEPT ![path[k + 1] + 1] = IF k = last THEN w ELSE Arr(g[k + 1])]]
                = [k \in {0} |-> new]
    <3> TAKE g
    <3>1. 0 .. last = {0}
      BY <1>1
    <3>2. \A k \in {0} : [outer(k) EXCEPT ![path[k + 1] + 1] = IF k = last THEN w ELSE Arr(g[k + 1])] = new
      <4>1. path[0 + 1] = i
        BY <1>1
      <4>2. [outer(0) EXCEPT ![path[0 + 1] + 1] = w] = new
        BY <1>2, <4>1
      <4>3. 0 = last
        BY <1>1
      <4> HIDE DEF path, last, new
      <4> QED BY <4>2, <4>3
    <3> HIDE DEF path, last, new
    <3> QED BY <3>1, <3>2
  <2> QED BY <2>1
<1>4. P(f)
  <2> HIDE DEF P, h
  <2> QED BY <1>3
<1>5. f[0] = new
  <2>1. f[0] = [outer(0) EXCEPT ![path[0 + 1] + 1] = IF 0 = last THEN w ELSE Arr(f[0 + 1])]
    <3>1. 0 \in 0 .. last
      BY <1>1
    <3> HIDE DEF f, path, last
    <3> QED BY <1>4, <3>1
  <2>2. path[0 + 1] = i /\ 0 = last
    BY <1>1
  <2> HIDE DEF f, path, last
  <2> QED BY <1>2, <2>1, <2>2
<1>6. Put(Arr(s), path, w) = IF path = << >> THEN w ELSE Arr(f[0])
  BY DEF Put, outer
<1> QED BY <1>1, <1>5, <1>6

(* The abstract machine has the same values.                               *)
LEMMA SameConstants ==
  /\ IRM!None = None /\ IRM!Bad = Bad /\ IRM!NoOperand = NoOperand
  /\ \A x : IRM!IsInt(x) = IsInt(x) /\ IRM!IsStr(x) = IsStr(x) /\ IRM!IsArr(x) = IsArr(x)
  /\ \A x : IRM!Int64(x) = Int64(x) /\ IRM!Str(x) = Str(x) /\ IRM!Arr(x) = Arr(x)
  /\ \A x : IRM!IsVar(x) = IsVar(x) /\ IRM!IsCall(x) = IsCall(x)
BY Zenon DEF IRM!None, None, IRM!Bad, Bad, IRM!NoOperand, NoOperand, IRM!IsInt, IsInt, IRM!IsStr, IsStr,
  IRM!IsArr, IsArr, IRM!Int64, Int64, IRM!Str, Str, IRM!Arr, Arr, IRM!IsVar, IsVar, IRM!IsCall, IsCall

LEMMA SameFlag == \A b : IRM!Flag(b) = Flag(b)
BY Zenon DEF IRM!Flag, Flag, IRM!Int64, Int64

LEMMA SameAsInt == \A v : IRM!AsInt(v) = AsInt(v)
BY Zenon DEF IRM!AsInt, AsInt, IRM!ParseInt, ParseInt, IRM!Digits, Digits, IRM!IsInt, IsInt, IRM!IsStr, IsStr

LEMMA SameAsStr == \A v : IRM!AsStr(v) = AsStr(v)
BY Zenon DEF IRM!AsStr, AsStr, IRM!IsInt, IsInt, IRM!IsStr, IsStr

LEMMA SameTruth == \A v : IRM!Truth(v) = Truth(v) /\ IRM!HasTruth(v) = HasTruth(v)
BY Zenon DEF IRM!Truth, Truth, IRM!HasTruth, HasTruth, IRM!IsStr, IsStr, IRM!IsInt, IsInt

LEMMA SameWalk == \A v, path : IRM!Walk(v, path) = Walk(v, path)
BY Zenon DEF IRM!Walk, Walk, IRM!HasElem, HasElem, IRM!IsArr, IsArr, IRM!Bad, Bad

LEMMA SamePut == \A v, path, w : IRM!Put(v, path, w) = Put(v, path, w)
BY Zenon DEF IRM!Put, Put, IRM!Walk, Walk, IRM!HasElem, HasElem, IRM!IsArr, IsArr, IRM!Bad, Bad,
  IRM!Arr, Arr

LEMMA SameRepeat == \A s, n : IRM!Repeat(s, n) = Repeat(s, n)
BY Zenon DEF IRM!Repeat, Repeat, IRM!FoldLeftDomain, FoldLeftDomain, IRM!FoldLeft, FoldLeft,
  IRM!MapThenFoldSet, MapThenFoldSet, IRM!Max, Max, IRM!Min, Min

LEMMA SameBitwise == \A op, m, n : IRM!Bitwise(op, m, n) = Bitwise(op, m, n)
BY Zenon DEF IRM!Bitwise, Bitwise, IRM!MapThenSumSet, MapThenSumSet, IRM!MapThenFoldSet, MapThenFoldSet,
  IRM!Bit, Bit, IRM!Width, Width

LEMMA SameQuot == \A a, b : IRM!Quot(a, b) = Quot(a, b)
BY Zenon DEF IRM!Quot, Quot, IRM!Abs, Abs

LEMMA SameIntOp == \A op, a, b : IRM!IntOp(op, a, b) = IntOp(op, a, b)
<1> TAKE op, a, b
<1>1. /\ IRM!Bitwise(op, a.int, b.int) = Bitwise(op, a.int, b.int)
      /\ IRM!Quot(a.int, b.int) = Quot(a.int, b.int)
      /\ IRM!BothInt(a, b) = BothInt(a, b) /\ IRM!Bad = Bad
      /\ \A n : IRM!Int64(n) = Int64(n)
  BY SameBitwise, SameQuot, SameConstants, Zenon DEF IRM!BothInt, BothInt
<1> QED BY <1>1 DEF IRM!IntOp, IntOp

LEMMA SameTimes == \A a, b : IRM!Times(a, b) = Times(a, b)
BY SameIntOp, SameRepeat, SameConstants, Zenon DEF IRM!Times, Times

LEMMA SamePlus == \A a, b : IRM!Plus(a, b) = Plus(a, b)
BY SameAsStr, SameConstants, Zenon DEF IRM!Plus, Plus, IRM!BothInt, BothInt, IRM!AnyStr, AnyStr

LEMMA SameArith == \A op, a, b : IRM!Arith(op, a, b) = Arith(op, a, b)
BY SamePlus, SameTimes, SameIntOp, Zenon DEF IRM!Arith, Arith

LEMMA SameCompare == \A op, a, b : IRM!Compare(op, a, b) = Compare(op, a, b)
<1> TAKE op, a, b
<1>1. /\ IRM!AsInt(a) = AsInt(a) /\ IRM!AsInt(b) = AsInt(b)
      /\ IRM!IsStr(a) = IsStr(a) /\ IRM!IsStr(b) = IsStr(b)
  BY SameAsInt, SameConstants, Zenon
<1> QED BY <1>1 DEF IRM!Compare, Compare

LEMMA SameLogic == \A op, a, b : IRM!Logic(op, a, b) = Logic(op, a, b)
BY SameFlag, SameConstants, Zenon DEF IRM!Logic, Logic, IRM!BothInt, BothInt

LEMMA SameNegate == \A op, a : IRM!Negate(op, a) = Negate(op, a)
BY SameFlag, SameConstants, Zenon DEF IRM!Negate, Negate

(* An operation of Selected means the same to both.                        *)
Result(op, a, b) == CASE op \in ArithOps   -> Arith(op, a, b)
                      [] op \in CompareOps -> Flag(Compare(op, a, b))
                      [] op \in LogicOps   -> Logic(op, a, b)

LEMMA SelectedOps ==
  ASSUME NEW op \in Selected
  PROVE  /\ op \in ArithOps \cup CompareOps \cup LogicOps
         /\ op \in ToState <=> op \notin ArithOps
         /\ op \in CompareOps <=> op \in IRM!Comparisons
         /\ op \in LogicOps <=> op \in {"LAND", "LOR"}
         /\ op \in ArithOps => op \notin CompareOps \cup LogicOps
         /\ op \in CompareOps => op \notin LogicOps
BY DEF Selected, ToState, ArithOps, CompareOps, LogicOps, IRM!Comparisons

LEMMA SameApply ==
  ASSUME NEW op \in Selected, NEW a, NEW b, a # Bad, b # Bad
  PROVE  IRM!Apply(op, a, b) = Result(op, a, b)
<1>1. a # IRM!Bad /\ b # IRM!Bad
  BY SameConstants
<1>2. CASE op \in CompareOps
  <2>1. IRM!Apply(op, a, b) = IRM!Flag(IRM!Compare(op, a, b))
    BY <1>1, <1>2, SelectedOps, Zenon DEF IRM!Apply
  <2>2. Result(op, a, b) = Flag(Compare(op, a, b))
    BY <1>2, SelectedOps DEF Result
  <2> QED BY <2>1, <2>2, SameFlag, SameCompare
<1>3. CASE op \in LogicOps
  <2>1. op \notin IRM!Comparisons /\ op \in {"LAND", "LOR"}
    BY <1>3, SelectedOps
  <2>2. IRM!Apply(op, a, b) = IRM!Logic(op, a, b)
    BY <1>1, <2>1, Zenon DEF IRM!Apply
  <2>3. Result(op, a, b) = Logic(op, a, b)
    BY <1>3, SelectedOps DEF Result
  <2> QED BY <2>2, <2>3, SameLogic
<1>4. CASE op \in ArithOps
  <2>1. op \notin IRM!Comparisons /\ op \notin {"LAND", "LOR"}
    BY <1>4, SelectedOps
  <2>2. IRM!Apply(op, a, b) = IRM!Arith(op, a, b)
    BY <1>1, <2>1, Zenon DEF IRM!Apply
  <2>3. Result(op, a, b) = Arith(op, a, b)
    BY <1>4, SelectedOps DEF Result
  <2> QED BY <2>2, <2>3, SameArith
<1> QED BY <1>2, <1>3, <1>4, SelectedOps

LEMMA BadApply ==
  ASSUME NEW op, NEW a, NEW b, a = Bad \/ b = Bad
  PROVE  IRM!Apply(op, a, b) = Bad
<1>1. a = IRM!Bad \/ b = IRM!Bad
  BY SameConstants
<1>2. IRM!Apply(op, a, b) = IRM!Bad
  BY <1>1 DEF IRM!Apply
<1> QED BY <1>2, SameConstants

-----------------------------------------------------------------------------
(* Names and their values, from the topmost frame *)

(* The value of a name in a scope, and from the topmost of the frames fs.  *)
Held(scope, name) == IF name \in DOMAIN scope THEN scope[name] ELSE None
HomeIn(fs, name) == IF \/ name \in DOMAIN fs[Len(fs)].symbols
                       \/ name \notin DOMAIN fs[1].symbols
                      THEN Len(fs) ELSE 1
LookupIn(fs, name) == Held(fs[HomeIn(fs, name)].symbols, name)
PathIn(fs, idx) == [k \in DOMAIN idx |-> IF "var" \in DOMAIN idx[k]
                                           THEN AsInt(LookupIn(fs, idx[k].var))
                                           ELSE idx[k].const]
ElementIn(fs, x) == Walk(LookupIn(fs, x.var), PathIn(fs, x.idx))
ValueIn(fs, x) == IF IsVar(x) THEN ElementIn(fs, x) ELSE x.const

LEMMA LookupHere ==
  /\ \A name : Home(name) = HomeIn(frame, name) /\ Lookup(name) = LookupIn(frame, name)
  /\ \A idx : Path(idx) = PathIn(frame, idx)
  /\ \A x : Element(x.var, x.idx) = ElementIn(frame, x)
<1>1. \A name : Home(name) = HomeIn(frame, name) /\ Lookup(name) = LookupIn(frame, name)
  BY DEF Home, HomeIn, Lookup, LookupIn, Held, Top
<1>2. \A idx : Path(idx) = PathIn(frame, idx)
  BY <1>1 DEF Path, PathIn
<1>3. \A x : Element(x.var, x.idx) = ElementIn(frame, x)
  BY <1>1, <1>2 DEF Element, ElementIn
<1> QED BY <1>1, <1>2, <1>3

(* Assigned is what a scope holds.                                         *)
LEMMA AssignedIs ==
  ASSUME NEW s
  PROVE  /\ DOMAIN Assigned(s) = {n \in DOMAIN s : Held(s, n) # None}
         /\ \A n \in DOMAIN Assigned(s) : Assigned(s)[n] = Held(s, n)
         /\ \A n : Held(Assigned(s), n) = Held(s, n)
         /\ \A n : n \in DOMAIN Assigned(s) <=> Held(s, n) # None
BY DEF Assigned, Held

LEMMA AssignedSame ==
  ASSUME NEW s, NEW t, \A n : Held(s, n) = Held(t, n)
  PROVE  Assigned(s) = Assigned(t)
<1>1. {n \in DOMAIN s : s[n] # None} = {n \in DOMAIN t : t[n] # None}
  BY DEF Held
<1>2. \A n \in {m \in DOMAIN s : s[m] # None} : s[n] = t[n]
  BY DEF Held
<1> QED BY <1>1, <1>2 DEF Assigned

Rebound(scope, name, v) ==
  LET names == IF v = None THEN DOMAIN scope \ {name} ELSE DOMAIN scope \cup {name}
  IN [n \in names |-> IF n = name THEN v ELSE scope[n]]

LEMMA SameBound == \A scope, name, v : IRM!Bound(scope, name, v) = Rebound(scope, name, v)
BY SameConstants DEF IRM!Bound, Rebound

LEMMA AssignedBound ==
  ASSUME NEW s, NEW t, NEW name, NEW v,
         \A n : Held(t, n) = IF n = name THEN v ELSE Held(s, n)
  PROVE  Assigned(t) = Rebound(Assigned(s), name, v)
<1> DEFINE names == IF v = None THEN DOMAIN Assigned(s) \ {name} ELSE DOMAIN Assigned(s) \cup {name}
<1>1. Rebound(Assigned(s), name, v)
        = [n \in names |-> IF n = name THEN v ELSE Assigned(s)[n]]
  BY DEF Rebound
<1>2. DOMAIN Assigned(t) = names
  <2>1. \A n : n \in DOMAIN Assigned(t) <=> Held(t, n) # None
    BY AssignedIs
  <2>2. \A n : n \in DOMAIN Assigned(s) <=> Held(s, n) # None
    BY AssignedIs
  <2>3. \A n : n \in DOMAIN Assigned(t) <=> n \in names
    BY <2>1, <2>2
  <2> QED BY <2>3
<1>3. \A n \in names : Assigned(t)[n] = IF n = name THEN v ELSE Assigned(s)[n]
  <2>1. \A n \in DOMAIN Assigned(t) : Assigned(t)[n] = Held(t, n)
    BY AssignedIs
  <2>2. \A n \in DOMAIN Assigned(s) : Assigned(s)[n] = Held(s, n)
    BY AssignedIs
  <2>3. \A n \in names : n = name \/ n \in DOMAIN Assigned(s)
    OBVIOUS
  <2> HIDE DEF names
  <2> QED BY <1>2, <2>1, <2>2, <2>3
<1>4. Assigned(t) = [n \in DOMAIN Assigned(t) |-> Assigned(t)[n]]
  BY DEF Assigned
<1> HIDE DEF names
<1> QED BY <1>1, <1>2, <1>3, <1>4

-----------------------------------------------------------------------------
(* What a step does to the frames *)

(* No name disappears, and only the topmost frame gets new ones, none of   *)
(* them a global's.                                                        *)
Widened(fs, gs) ==
  \A k \in 1 .. Len(fs) :
    /\ DOMAIN fs[k].symbols \subseteq DOMAIN gs[k].symbols
    /\ \A n \in DOMAIN gs[k].symbols :
         n \in DOMAIN fs[k].symbols \/ (k = Len(fs) /\ n \notin DOMAIN fs[1].symbols)

Holds(fs, k, n) == Held(fs[k].symbols, n)

(* The frames gs hold what fs did ...                                      *)
Grown(fs, gs) ==
  /\ SameCalls(fs, gs) /\ Widened(fs, gs)
  /\ \A k \in 1 .. Len(fs) : \A n : Holds(gs, k, n) = Holds(fs, k, n)

(* ... but for the new value of name.                                      *)
Changed(fs, gs, name, v) ==
  /\ SameCalls(fs, gs) /\ Widened(fs, gs) /\ name \in DOMAIN gs[HomeIn(fs, name)].symbols
  /\ \A k \in 1 .. Len(fs) : \A n :
       Holds(gs, k, n) = IF k = HomeIn(fs, name) /\ n = name THEN v ELSE Holds(fs, k, n)

LEMMA TopIn ==
  ASSUME NEW fs, FramesOK(fs)
  PROVE  /\ Len(fs) \in Nat /\ Len(fs) \in 1 .. Len(fs) /\ 1 \in 1 .. Len(fs)
         /\ \A name : HomeIn(fs, name) \in {1, Len(fs)} /\ HomeIn(fs, name) \in 1 .. Len(fs)
<1>1. Len(fs) \in Nat /\ Len(fs) >= 1
  BY VectorShape DEF FramesOK
<1>2. \A name : HomeIn(fs, name) \in {1, Len(fs)}
  BY DEF HomeIn
<1> QED BY <1>1, <1>2

LEMMA Unchanged ==
  ASSUME NEW fs, FramesOK(fs)
  PROVE  Grown(fs, fs)
BY DEF Grown, SameCalls, Widened

LEMMA GrownLookups ==
  ASSUME NEW fs, FramesOK(fs), NEW gs, Grown(fs, gs)
  PROVE  /\ \A n : LookupIn(gs, n) = LookupIn(fs, n)
         /\ \A idx : PathIn(gs, idx) = PathIn(fs, idx)
         /\ \A x : ElementIn(gs, x) = ElementIn(fs, x) /\ ValueIn(gs, x) = ValueIn(fs, x)
         /\ \A k \in 1 .. Len(fs) : Assigned(gs[k].symbols) = Assigned(fs[k].symbols)
<1> DEFINE t == Len(fs)
<1>1. t \in Nat /\ t \in 1 .. t /\ 1 \in 1 .. t /\ Len(gs) = t
  BY TopIn DEF Grown, SameCalls
<1> HIDE DEF t
<1>2. \A n : LookupIn(gs, n) = LookupIn(fs, n)
  <2> TAKE n
  <2>1. Holds(gs, 1, n) = Holds(fs, 1, n) /\ Holds(gs, t, n) = Holds(fs, t, n)
    BY <1>1 DEF Grown, t
  <2>2. LookupIn(gs, n) = Holds(gs, HomeIn(gs, n), n) /\ LookupIn(fs, n) = Holds(fs, HomeIn(fs, n), n)
    BY DEF LookupIn, Holds
  <2>3. CASE HomeIn(gs, n) = HomeIn(fs, n)
    <3>1. HomeIn(fs, n) \in {1, t}
      BY TopIn DEF t
    <3> QED BY <2>1, <2>2, <2>3, <3>1
  <2>4. CASE HomeIn(gs, n) # HomeIn(fs, n)
    <3>1. t # 1
      BY <1>1, <2>4 DEF HomeIn, t
    <3>2. n \in DOMAIN gs[1].symbols <=> n \in DOMAIN fs[1].symbols
      BY <1>1, <3>1 DEF Grown, Widened, t
    <3>3. n \in DOMAIN fs[t].symbols => n \in DOMAIN gs[t].symbols
      BY <1>1 DEF Grown, Widened, t
    <3>4. n \in DOMAIN gs[t].symbols => n \in DOMAIN fs[t].symbols \/ n \notin DOMAIN fs[1].symbols
      BY <1>1 DEF Grown, Widened, t
    <3>5. HomeIn(gs, n) = IF n \in DOMAIN gs[t].symbols \/ n \notin DOMAIN gs[1].symbols THEN t ELSE 1
      BY <1>1 DEF HomeIn
    <3>6. HomeIn(fs, n) = IF n \in DOMAIN fs[t].symbols \/ n \notin DOMAIN fs[1].symbols THEN t ELSE 1
      BY DEF HomeIn, t
    <3> QED BY <2>4, <3>2, <3>3, <3>4, <3>5, <3>6
  <2> QED BY <2>3, <2>4
<1>3. \A idx : PathIn(gs, idx) = PathIn(fs, idx)
  BY <1>2 DEF PathIn
<1>4. \A x : ElementIn(gs, x) = ElementIn(fs, x)
  BY <1>2, <1>3 DEF ElementIn
<1>5. \A x : ValueIn(gs, x) = ValueIn(fs, x)
  BY <1>4 DEF ValueIn
<1>6. \A k \in 1 .. Len(fs) : Assigned(gs[k].symbols) = Assigned(fs[k].symbols)
  BY AssignedSame DEF Grown, Holds
<1> QED BY <1>2, <1>3, <1>4, <1>5, <1>6

(* Scope x is s with v for name.                                           *)
Binds(x, s, name, v) ==
  /\ DOMAIN x = DOMAIN s \cup {name}
  /\ \A n : Held(x, n) = IF n = name THEN v ELSE Held(s, n)

LEMMA BindBinds == \A s, name, v : Binds(Bind(s, name, v), s, name, v)
BY DEF Bind, Held, Binds

LEMMA DeclareGrows ==
  ASSUME FramesOK(frame), NEW names
  PROVE  Grown(frame, Declare(names))
<1> DEFINE t == Len(frame)
           gs == Declare(names)
           old == frame[t].symbols
           new == [n \in DOMAIN old \cup Created(names) |-> IF n \in Created(names) THEN None ELSE old[n]]
<1>1. t \in Nat /\ t \in 1 .. t
  BY TopIn
<1>2. SameCalls(frame, gs) /\ \A k \in 1 .. t : gs[k].symbols = IF k = t THEN new ELSE frame[k].symbols
  <2>1. gs = WithSymbols(frame, t, new)
    BY Zenon DEF Declare, WithSymbols, Top
  <2> HIDE DEF new, gs
  <2> QED BY <1>1, <2>1, SetSymbols
<1>3. \A n \in Created(names) : n \notin DOMAIN old /\ n \notin DOMAIN frame[1].symbols
  BY DEF Created, Top
<1>4. DOMAIN old \subseteq DOMAIN new /\ \A n \in DOMAIN new : n \in DOMAIN old \/ n \in Created(names)
  OBVIOUS
<1>5. \A n : Held(new, n) = Held(old, n)
  BY <1>3 DEF Held
<1> HIDE DEF gs, new
<1>6. Widened(frame, gs)
  BY <1>2, <1>3, <1>4 DEF Widened
<1>7. \A k \in 1 .. t : \A n : Holds(gs, k, n) = Holds(frame, k, n)
  BY <1>2, <1>5 DEF Holds
<1> QED BY <1>2, <1>6, <1>7 DEF Grown, gs

(* Storing v in name among frames that already know it, or its home.       *)
LEMMA BoundChanges ==
  ASSUME NEW fs, FramesOK(fs), NEW ds, Grown(fs, ds), NEW name, NEW v,
         name \in DOMAIN ds[HomeIn(fs, name)].symbols \/ HomeIn(fs, name) = Len(fs)
  PROVE  LET h == HomeIn(fs, name)
         IN Changed(fs, WithSymbols(ds, h, Bind(ds[h].symbols, name, v)), name, v)
<1> DEFINE h == HomeIn(fs, name)
           new == Bind(ds[h].symbols, name, v)
           gs == WithSymbols(ds, h, new)
           t == Len(fs)
<1>1. t \in Nat /\ h \in 1 .. t /\ t \in 1 .. t /\ h \in {1, t}
  BY TopIn
<1>2. FramesOK(ds) /\ Len(ds) = t /\ SameCalls(fs, ds) /\ Widened(fs, ds)
  BY DEF Grown, SameCalls
<1>3. SameCalls(ds, gs) /\ \A k \in 1 .. t : gs[k].symbols = IF k = h THEN new ELSE ds[k].symbols
  <2> HIDE DEF h, new, t
  <2> QED BY <1>1, <1>2, SetSymbols DEF t
<1>4. Binds(new, ds[h].symbols, name, v)
  <2> HIDE DEF h
  <2> QED BY BindBinds
<1>5. h = t => name \in DOMAIN fs[t].symbols \/ name \notin DOMAIN fs[1].symbols
  <2>1. CASE t = 1
    BY <2>1
  <2>2. CASE t # 1
    BY <2>2 DEF HomeIn
  <2> QED BY <2>1, <2>2
<1>6. name \in DOMAIN ds[h].symbols \/ h = t
  OBVIOUS
<1>7. SameCalls(fs, gs)
  BY <1>2, <1>3 DEF SameCalls
<1> HIDE DEF gs, new, h
<1>8. Widened(fs, gs)
  <2> SUFFICES ASSUME NEW k \in 1 .. t
               PROVE  /\ DOMAIN fs[k].symbols \subseteq DOMAIN gs[k].symbols
                      /\ \A n \in DOMAIN gs[k].symbols :
                           n \in DOMAIN fs[k].symbols \/ (k = t /\ n \notin DOMAIN fs[1].symbols)
    BY DEF Widened
  <2>1. /\ DOMAIN fs[k].symbols \subseteq DOMAIN ds[k].symbols
        /\ \A n \in DOMAIN ds[k].symbols :
             n \in DOMAIN fs[k].symbols \/ (k = t /\ n \notin DOMAIN fs[1].symbols)
    BY <1>2 DEF Widened
  <2>2. CASE k # h
    BY <1>3, <2>1, <2>2
  <2>3. CASE k = h
    <3>1. DOMAIN gs[k].symbols = DOMAIN ds[k].symbols \cup {name}
      BY <1>3, <1>4, <2>3 DEF Binds
    <3>2. name \in DOMAIN ds[k].symbols \/ (k = t /\ (name \in DOMAIN fs[t].symbols \/ name \notin DOMAIN fs[1].symbols))
      BY <1>5, <1>6, <2>3
    <3> QED BY <2>1, <3>1, <3>2
  <2> QED BY <2>2, <2>3
<1>9. name \in DOMAIN gs[h].symbols
  BY <1>1, <1>3, <1>4 DEF Binds
<1>10. \A k \in 1 .. t : \A n : Holds(gs, k, n) = IF k = h /\ n = name THEN v ELSE Holds(fs, k, n)
  <2> TAKE k \in 1 .. t
  <2> TAKE n
  <2>1. Holds(ds, k, n) = Holds(fs, k, n)
    BY DEF Grown
  <2>2. CASE k # h
    BY <1>3, <2>1, <2>2 DEF Holds
  <2>3. CASE k = h
    <3>1. Holds(gs, k, n) = Held(new, n)
      BY <1>3, <2>3 DEF Holds
    <3>2. Held(new, n) = IF n = name THEN v ELSE Held(ds[h].symbols, n)
      BY <1>4 DEF Binds
    <3> QED BY <2>1, <2>3, <3>1, <3>2 DEF Holds
  <2> QED BY <2>2, <2>3
<1>11. Changed(fs, gs, name, v)
  BY <1>7, <1>8, <1>9, <1>10 DEF Changed, h
<1> QED BY <1>11 DEF gs, new, h

LEMMA AssignChanges ==
  ASSUME FramesOK(frame), NEW name, NEW idx, NEW v
  PROVE  Changed(frame, Assign(name, idx, v), name, v)
<1> DEFINE ds == Declare(Touched(name, idx))
           h == HomeIn(frame, name)
<1>1. Grown(frame, ds)
  BY DeclareGrows
<1>2. Assign(name, idx, v) = WithSymbols(ds, h, Bind(ds[h].symbols, name, v))
  BY LookupHere, Zenon DEF Assign, WithSymbols
<1>3. h \in {1, Len(frame)} /\ h # Len(frame) => name \in DOMAIN frame[h].symbols
  BY DEF HomeIn
<1>4. h \in 1 .. Len(frame)
  BY TopIn
<1>5. name \in DOMAIN ds[h].symbols \/ h = Len(frame)
  <2> HIDE DEF ds, h
  <2> QED BY <1>1, <1>3, <1>4, TopIn DEF Grown, Widened, h
<1> HIDE DEF ds
<1> QED BY <1>1, <1>2, <1>5, BoundChanges

(* STOREI and STORES write the running frame.                              *)
LEMMA StoreChanges ==
  ASSUME FramesOK(frame), NEW name, HomeIn(frame, name) = Len(frame), NEW v
  PROVE  Changed(frame, [frame EXCEPT ![Top].symbols = Bind(@, name, v)], name, v)
<1> DEFINE t == Len(frame)
           gs == [frame EXCEPT ![Top].symbols = Bind(@, name, v)]
<1>1. Grown(frame, frame)
  BY Unchanged
<1>2. gs = WithSymbols(frame, t, Bind(frame[t].symbols, name, v))
  BY Zenon DEF WithSymbols, Top
<1> HIDE DEF gs
<1>3. Changed(frame, gs, name, v)
  BY <1>1, <1>2, BoundChanges
<1> QED BY <1>3 DEF gs

LEMMA ArgumentGrows ==
  ASSUME FramesOK(frame)
  PROVE  Grown(frame, BuiltinArgFrames)
BY DeclareGrows, Unchanged DEF BuiltinArgFrames

(* What the scopes hold afterwards.                                        *)
LEMMA ChangedScopes ==
  ASSUME NEW fs, FramesOK(fs), NEW gs, NEW name, NEW v, Changed(fs, gs, name, v)
  PROVE  \A k \in 1 .. Len(fs) :
           Assigned(gs[k].symbols) = IF k = HomeIn(fs, name)
                                       THEN Rebound(Assigned(fs[k].symbols), name, v)
                                       ELSE Assigned(fs[k].symbols)
<1> TAKE k \in 1 .. Len(fs)
<1>1. CASE k = HomeIn(fs, name)
  <2>1. \A n : Held(gs[k].symbols, n) = IF n = name THEN v ELSE Held(fs[k].symbols, n)
    BY <1>1 DEF Changed, Holds
  <2> QED BY <1>1, <2>1, AssignedBound
<1>2. CASE k # HomeIn(fs, name)
  <2>1. \A n : Held(gs[k].symbols, n) = Held(fs[k].symbols, n)
    BY <1>2 DEF Changed, Holds
  <2> QED BY <1>2, <2>1, AssignedSame
<1> QED BY <1>1, <1>2

LEMMA CompiledWell ==
  ASSUME NEW ir, NEW p, Compiles(ir, p)
  PROVE  WellLinked(p) /\ NoReturnInMain(p) /\ DOMAIN p.code = 0 .. p.size - 1 /\ p.size \in Nat
         /\ p.global_len \in Nat /\ p.global_len \in DOMAIN p.code
<1>1. WellLinked(p)
  BY DEF Compiles
<1>2. NoReturnInMain(p)
  BY NoReturn
<1>3. WellFormed(p)
  BY <1>1 DEF WellLinked
<1> QED BY <1>1, <1>2, <1>3 DEF WellFormed

-----------------------------------------------------------------------------
(* Callers *)

(* Function g's call at f, b, n, with a arguments taken at i.              *)
CallsAt(ir, i, f, b, n, g, a) ==
  /\ AtSpot(ir, i, f, b, n, a + 1) /\ f # 0
  /\ UserCall(ir, IRInsts(ir, f, b)[n], g)
  /\ a \in 0 .. ParamCount(ir)[g] /\ Extent(ir, f, b, n) = ParamCount(ir)[g] + 2

LEMMA TakenAt ==
  ASSUME NEW ir, NEW p, Compiles(ir, p), NEW i \in 0 .. p.size - 1, i >= p.global_len,
         NEW g, g = p.layout[i].fn
  PROVE  ArgsTaken(p, i) \in 0 .. ParamCount(ir)[g] /\ ParamCount(ir)[g] \in Nat
<1>1. CASE \E f, b, n, l : AtSpot(ir, i, f, b, n, l)
  <2>1. PICK f, b, n, l : AtSpot(ir, i, f, b, n, l)
    BY <1>1
  <2>2. f # 0 /\ g = f
    BY <2>1, SpotFacts
  <2>3. ArgsTaken(p, i) = ParamCount(ir)[f] /\ ParamCount(ir)[f] \in Nat
    BY <2>1, <2>2, TakenInBody, SpotFunctionIs
  <2> QED BY <2>2, <2>3
<1>2. CASE \E f, k : AtHeader(ir, i, f, k)
  <2>1. PICK f, k : AtHeader(ir, i, f, k)
    BY <1>2
  <2>2. g = f
    BY <2>1, HeaderFacts
  <2>3. ArgsTaken(p, i) = Taken(k) /\ k \in 0 .. ParamCount(ir)[f] /\ ParamCount(ir)[f] \in Nat
    BY <2>1, HeaderFunctionIs
  <2> QED BY <2>2, <2>3 DEF Taken
<1> QED BY <1>1, <1>2, SpotOrHeader

LEMMA CallerAt ==
  ASSUME NEW ir, NEW p, Compiles(ir, p), NEW fs, FramesOK(fs), NEW i, Linked(p, fs, i),
         NEW k \in 2 .. Len(fs) - 1, NEW j, j = Spot(fs, i, k + 1), NEW g, g = p.layout[j].fn
  PROVE  /\ \E f, b, n : CallsAt(ir, fs[k].pc, f, b, n, g, ArgsTaken(p, j))
         /\ j \in p.global_len .. p.size - 1
<1>1. WellLinked(p) /\ p.size \in Nat /\ p.global_len \in Nat /\ DOMAIN p.code = 0 .. p.size - 1
  BY CompiledWell
<1>2. Len(fs) \in Nat /\ k + 1 \in 2 .. Len(fs)
  BY TopIn
<1>3. j \in p.global_len .. p.size - 1
  BY <1>1, <1>2, LinkedSpots
<1>4. j \in 0 .. p.size - 1 /\ j >= p.global_len
  BY <1>1, <1>3
<1>5. g \in 1 .. Len(ir.funcs) /\ FuncOf(p, j) = HeadAt(ir)[g]
  BY <1>4, FunctionAt
<1>6. PICK c \in DOMAIN p.code : Serves(p, fs, i, k, c)
  BY DEF Linked
<1>7. /\ c \in 0 .. p.size - 1 /\ p.code[c].op = "CALL" /\ p.code[c].target >= 0
      /\ p.code[c].target = HeadAt(ir)[g] /\ fs[k].pc = c + ArgsTaken(p, j)
  BY <1>1, <1>5, <1>6 DEF Serves, OpAt
<1>8. \A f, m : ~AtHeader(ir, c, f, m)
  <2> SUFFICES ASSUME NEW f, NEW m, AtHeader(ir, c, f, m) PROVE FALSE
    OBVIOUS
  <2>1. p.code[c].op = "FUNC" \/ p.code[c].op = "PARAM"
    BY HeaderFacts
  <2> QED BY <1>7, <2>1
<1>9. PICK f, b, n, l : AtSpot(ir, c, f, b, n, l)
  BY <1>7, <1>8, SpotOrHeader
<1> DEFINE x == IRInsts(ir, f, b)[n]
<1>10. /\ l = 1 /\ Calling(x) /\ f # 0
       /\ \/ x.src.call \in DOMAIN BuiltinIndex /\ p.code[c].target = BuiltinIndex[x.src.call]
          \/ \E h : UserCall(ir, x, h) /\ p.code[c].target = HeadAt(ir)[h]
  BY <1>7, <1>9, CallSpot
<1>11. ~ (x.src.call \in DOMAIN BuiltinIndex /\ p.code[c].target = BuiltinIndex[x.src.call])
  <2> SUFFICES ASSUME x.src.call \in DOMAIN BuiltinIndex, p.code[c].target = BuiltinIndex[x.src.call]
               PROVE  FALSE
    OBVIOUS
  <2>1. BuiltinIndex[x.src.call] < 0 /\ BuiltinIndex[x.src.call] \in Int
    <3>1. BuiltinIndex[x.src.call] < 0 /\ BuiltinIndex[x.src.call] \in Builtin
      BY BuiltinNegative
    <3> QED BY <3>1 DEF Builtin, Printing, Read, ToInt, ToStr, Length
  <2> QED BY <1>7, <2>1
<1>12. PICK h : UserCall(ir, x, h) /\ p.code[c].target = HeadAt(ir)[h]
  BY <1>10, <1>11
<1>13. h = g
  <2>1. h \in 1 .. Len(ir.funcs) /\ HeadAt(ir)[h] = HeadAt(ir)[g]
    BY <1>7, <1>12 DEF UserCall
  <2> QED BY <1>5, <2>1, HeadsApart
<1>14. UserCall(ir, x, g)
  BY <1>12, <1>13
<1>15. Len(genInst(x)) = Len(x.src.args) + 2
  BY <1>10, CallingCode
<1>16. Extent(ir, f, b, n) = ParamCount(ir)[g] + 2
  BY <1>14, <1>15 DEF Extent, UserCall
<1>17. ArgsTaken(p, j) \in 0 .. ParamCount(ir)[g] /\ ParamCount(ir)[g] \in Nat
  BY <1>4, TakenAt
<1>18. IsSpot(ir, f, b, n) /\ c = Begin(ir, f, b, n) + 1 - 1 /\ Begin(ir, f, b, n) \in Nat /\ c \in Nat
  BY <1>9, <1>10, SpotFacts DEF AtSpot
<1>19. AtSpot(ir, fs[k].pc, f, b, n, ArgsTaken(p, j) + 1)
  <2> DEFINE a == ArgsTaken(p, j)
             e == Extent(ir, f, b, n)
             m == Begin(ir, f, b, n)
             q == ParamCount(ir)[g]
  <2>1. a \in 0 .. q /\ q \in Nat /\ e = q + 2 /\ m \in Nat /\ c = m + 1 - 1 /\ fs[k].pc = c + a
    BY <1>7, <1>16, <1>17, <1>18
  <2> HIDE DEF a, e, m, q
  <2>2. a + 1 \in 1 .. e /\ fs[k].pc = m + (a + 1) - 1
    BY <2>1
  <2> QED BY <1>18, <2>2 DEF AtSpot, a, e, m
<1>20. CallsAt(ir, fs[k].pc, f, b, n, g, ArgsTaken(p, j))
  BY <1>10, <1>14, <1>16, <1>17, <1>19 DEF CallsAt
<1> QED BY <1>3, <1>20

(* Main's frame is the second, and no other is main's.                     *)
LEMMA MainFrame ==
  ASSUME NEW ir, NEW p, Compiles(ir, p), NEW fs, FramesOK(fs), NEW i, Linked(p, fs, i),
         NEW k \in 2 .. Len(fs), NEW j, j = Spot(fs, i, k)
  PROVE  /\ j \in p.global_len .. p.size - 1
         /\ p.layout[j].fn = MainOf(ir) <=> k = 2
<1>1. WellLinked(p) /\ p.size \in Nat /\ p.global_len \in Nat
  BY CompiledWell
<1>2. j \in p.global_len .. p.size - 1
  BY <1>1, LinkedSpots
<1>3. j \in 0 .. p.size - 1 /\ j >= p.global_len /\ Len(fs) \in Nat
  BY <1>1, <1>2, TopIn
<1>4. CASE k = 2
  <2>1. FuncOf(p, j) = p.entry
    BY <1>4 DEF Linked
  <2>2. p.entry = HeadAt(ir)[MainOf(ir)] /\ MainOf(ir) \in 1 .. Len(ir.funcs)
    BY MainFunction
  <2>3. p.layout[j].fn \in 1 .. Len(ir.funcs) /\ FuncOf(p, j) = HeadAt(ir)[p.layout[j].fn]
    BY <1>3, FunctionAt
  <2> QED BY <1>2, <1>4, <2>1, <2>2, <2>3, HeadsApart
<1>5. CASE k # 2
  <2> DEFINE m == k - 1
  <2>1. m \in 2 .. Len(fs) - 1 /\ j = Spot(fs, i, m + 1)
    BY <1>3, <1>5
  <2> HIDE DEF m
  <2>2. PICK f, b, n : CallsAt(ir, fs[m].pc, f, b, n, p.layout[j].fn, ArgsTaken(p, j))
    BY <2>1, CallerAt
  <2>3. p.layout[j].fn # MainOf(ir)
    BY <2>2 DEF CallsAt, UserCall
  <2> QED BY <1>2, <1>5, <2>3
<1> QED BY <1>4, <1>5

-----------------------------------------------------------------------------
(* The invariant *)

(* What the registers hold before instruction l of the code of i.          *)
Filled(s, elems, l, fs) ==
  [k \in DOMAIN elems |->
     IF ~IsVar(elems[k]) THEN elems[k].const
     ELSE IF \E m \in 2 .. l - 1 : s[m] = ElementLoad(elems[k], k) THEN LookupIn(fs, elems[k].var)
     ELSE None]

Ready(i, l, rg, fs) ==
  /\ Operates(i) =>
       /\ l \in {2, 3} => rg[1] = ValueIn(fs, i.src.lhs)
       /\ l = 3 => rg[2] = ValueIn(fs, i.src.rhs)
       /\ l = 4 => /\ ValueIn(fs, i.src.lhs) # Bad /\ ValueIn(fs, i.src.rhs) # Bad
                   /\ rg[StoreReg(i.src)] = Result(i.src.binary, ValueIn(fs, i.src.lhs), ValueIn(fs, i.src.rhs))
  /\ Inverts(i) =>
       /\ l = 2 => rg[1] = ValueIn(fs, i.src.rhs)
       /\ l = 3 => rg[1] = Negate("BNOT", ValueIn(fs, i.src.rhs))
  /\ Moves(i) => (l = 2 => rg[1] = ValueIn(fs, i.src))
  /\ Builds(i) => (l > 1 => rg[2] = Arr(Filled(genInst(i), i.src.array, l, fs)))
  /\ Calling(i) => l = 1 \/ l = Len(i.src.args) + 2
  /\ Returns(i) => (i.ret # NoOperand /\ l = 2 => rg[1] = ValueIn(fs, i.ret))
  /\ Branches(i) => (l = 2 => rg[0] = ValueIn(fs, i.cond))

LEMMA ReadyFirst ==
  ASSUME NEW i, NEW rg, NEW fs
  PROVE  Ready(i, 1, rg, fs)
BY DEF Ready

(* The scopes: a global's name is in no other frame, unless it is a        *)
(* parameter there, and a function that calls has all its parameters.      *)
Params(ir, f) == {ir.funcs[f].params[k] : k \in DOMAIN ir.funcs[f].params}
ScopeOK(ir, f, scope) == DOMAIN scope \cap Declared(ir) \subseteq Params(ir, f)
Full(ir, f, scope) == Params(ir, f) \subseteq DOMAIN scope

ScopesOK(ir, p, fs, i) ==
  /\ Declared(ir) \subseteq DOMAIN fs[1].symbols
  /\ \A k \in 2 .. Len(fs) :
       LET f == p.layout[Spot(fs, i, k)].fn
       IN ScopeOK(ir, f, fs[k].symbols) /\ (k # Len(fs) => Full(ir, f, fs[k].symbols))

(* The parameters bound so far hold the caller's arguments.                *)
CallerValue(scope, x) == IF IsVar(x) THEN Held(scope, x.var) ELSE x.const
CallArgs(ir, p, i) == IRInsts(ir, p.layout[i].fn, p.layout[i].block)[p.layout[i].next].src.args
Passing(ir, p, fs, f, k) ==
  LET params == ir.funcs[f].params
      t == Len(fs)
  IN /\ DOMAIN fs[t].symbols = {params[j] : j \in 1 .. Taken(k)}
     /\ t > 2 => \A j \in 1 .. Taken(k) :
                   fs[t].symbols[params[j]] = CallerValue(fs[t - 1].symbols, CallArgs(ir, p, fs[t - 1].pc)[j])

(* Where the machine is, and what it has in its registers then.            *)
Earlier(ir, fs, n) == \A m \in 1 .. n - 1 : ir.globals[m].dest.var \in DOMAIN fs[1].symbols

Initialising(ir, p, fs, i, rg) ==
  \/ i = p.global_len /\ Declared(ir) \subseteq DOMAIN fs[1].symbols
  \/ \E n, l : AtSpot(ir, i, 0, 1, n, l) /\ Ready(ir.globals[n], l, rg, fs) /\ Earlier(ir, fs, n)

InBody(ir, fs, i, rg, f, b, n, l) ==
  /\ f # 0 /\ AtSpot(ir, i, f, b, n, l) /\ Full(ir, f, fs[Len(fs)].symbols)
  /\ Ready(IRInsts(ir, f, b)[n], l, rg, fs)
InHeader(ir, p, fs, i, f, k) == AtHeader(ir, i, f, k) /\ Passing(ir, p, fs, f, k)

Executing(ir, p, fs, i, rg) ==
  /\ ScopesOK(ir, p, fs, i)
  /\ \/ \E f, b, n, l : InBody(ir, fs, i, rg, f, b, n, l)
     \/ \E f, k : InHeader(ir, p, fs, i, f, k)

(* No register and no variable holds Bad: who computes it aborts.          *)
Clean(fs, rg) ==
  /\ \A r \in Reg : rg[r] # Bad
  /\ \A k \in 1 .. Len(fs) : \A n : Holds(fs, k, n) # Bad

Sound(ir, p, fs, i, m, rg) ==
  /\ Clean(fs, rg)
  /\ m = "INIT" => Initialising(ir, p, fs, i, rg)
  /\ m # "INIT" => Executing(ir, p, fs, i, rg)

-----------------------------------------------------------------------------
(* The refinement mapping, for any state *)

ActOf(p, fs, i, k) ==
  LET w == p.layout[Spot(fs, i, k)]
  IN [fn |-> w.fn, block |-> w.block, next |-> w.next, vars |-> Assigned(fs[k].symbols)]
StackOf(p, fs, i, m) ==
  LET active == IF p.layout[i].block = 0 THEN Len(fs) - 1 ELSE Len(fs)
  IN IF m = "INIT" /\ i < p.global_len
       THEN <<[fn |-> 0, block |-> 1, next |-> p.layout[i].next, vars |-> << >>]>>
     ELSE IF m = "INIT" \/ active < 2 THEN <<InitialisersDone>>
     ELSE [k \in 1 .. active - 1 |-> ActOf(p, fs, i, k + 1)]
AnswerOf(p, i, rg) ==
  LET w == p.layout[i]
      inst == p.source.funcs[w.fn].blocks[w.block].insts[w.next]
  IN IF w.block # 0 /\ w.last /\ w.fn # 0 /\ inst.tag = "ASSIGN" /\ IsCall(inst.src)
       THEN [given |-> TRUE, value |-> rg[1]] ELSE [given |-> FALSE]

LEMMA MappingIs ==
  /\ AbsStack = StackOf(prog, frame, pc, mode)
  /\ AbsAnswer = AnswerOf(prog, pc, reg)
<1>1. \A k : AbsActivation(k) = ActOf(prog, frame, pc, k)
  BY Zenon DEF AbsActivation, ActOf, Where
<1>2. AbsStack = StackOf(prog, frame, pc, mode)
  BY <1>1, Zenon DEF AbsStack, StackOf, Entering, Active, Where, Top
<1>3. AbsAnswer = AnswerOf(prog, pc, reg)
  BY Zenon DEF AbsAnswer, AnswerOf, Storing, Entering, Where
<1> QED BY <1>2, <1>3

LEMMA MappingNext ==
  /\ AbsStack' = StackOf(prog', frame', pc', mode')
  /\ AbsAnswer' = AnswerOf(prog', pc', reg')
<1>1. \A k : AbsActivation(k)' = ActOf(prog', frame', pc', k)
  BY Zenon DEF AbsActivation, ActOf, Where, Assigned, Spot
<1>2. AbsStack' = StackOf(prog', frame', pc', mode')
  BY <1>1, Zenon DEF AbsStack, StackOf, Entering, Active, Where, Top, InitialisersDone
<1>3. AbsAnswer' = AnswerOf(prog', pc', reg')
  BY Zenon DEF AbsAnswer, AnswerOf, Storing, Entering, Where
<1> QED BY <1>2, <1>3

Act4(f, b, n, scope) == [fn |-> f, block |-> b, next |-> n, vars |-> scope]
Acts(p, fs, i, d) == [k \in 1 .. d |-> ActOf(p, fs, i, k + 1)]
Given(v) == [given |-> TRUE, value |-> v]
NotGiven == [given |-> FALSE]

LEMMA StackBody ==
  ASSUME NEW ir, NEW p, Compiles(ir, p), NEW fs, FramesOK(fs), Len(fs) >= 2, NEW i,
         NEW f, NEW b, NEW n, NEW l, AtSpot(ir, i, f, b, n, l)
  PROVE  /\ StackOf(p, fs, i, "MAIN") = Acts(p, fs, i, Len(fs) - 1)
         /\ ActOf(p, fs, i, Len(fs)) = Act4(f, b, n, Assigned(fs[Len(fs)].symbols))
<1>1. Len(fs) \in Nat
  BY TopIn
<1>2. p.layout[i].fn = f /\ p.layout[i].block = b /\ p.layout[i].next = n /\ b # 0
  BY SpotFacts
<1>3. ActOf(p, fs, i, Len(fs)) = Act4(f, b, n, Assigned(fs[Len(fs)].symbols))
  BY <1>2 DEF ActOf, Act4, Spot
<1>4. StackOf(p, fs, i, "MAIN") = Acts(p, fs, i, Len(fs) - 1)
  BY <1>1, <1>2 DEF StackOf, Acts
<1> QED BY <1>3, <1>4

LEMMA StackHeader ==
  ASSUME NEW ir, NEW p, Compiles(ir, p), NEW fs, FramesOK(fs), Len(fs) >= 2, NEW i,
         NEW f, NEW k, AtHeader(ir, i, f, k)
  PROVE  StackOf(p, fs, i, "MAIN") = IF Len(fs) = 2 THEN <<Act4(0, 2, 1, << >>)>>
                                                    ELSE Acts(p, fs, i, Len(fs) - 2)
<1>1. Len(fs) \in Nat
  BY TopIn
<1>2. p.layout[i].block = 0
  BY HeaderFacts
<1>3. CASE Len(fs) = 2
  BY <1>1, <1>2, <1>3 DEF StackOf, InitialisersDone, Act4
<1>4. CASE Len(fs) # 2
  <2>1. Len(fs) - 1 - 1 = Len(fs) - 2 /\ ~(Len(fs) - 1 < 2)
    <3> DEFINE t == Len(fs)
    <3>1. t \in Nat /\ t >= 2 /\ t # 2
      BY <1>1, <1>4
    <3> HIDE DEF t
    <3>2. t - 1 - 1 = t - 2 /\ ~(t - 1 < 2)
      BY <3>1
    <3> QED BY <3>2 DEF t
  <2>2. StackOf(p, fs, i, "MAIN") = [j \in 1 .. (Len(fs) - 1) - 1 |-> ActOf(p, fs, i, j + 1)]
    BY <1>2, <2>1 DEF StackOf
  <2> QED BY <1>4, <2>1, <2>2 DEF Acts
<1> QED BY <1>3, <1>4

LEMMA StackInit ==
  ASSUME NEW ir, NEW p, Compiles(ir, p), NEW fs, NEW i,
         NEW n, NEW l, AtSpot(ir, i, 0, 1, n, l)
  PROVE  StackOf(p, fs, i, "INIT") = <<Act4(0, 1, n, << >>)>>
<1>1. p.layout[i].next = n /\ i < p.global_len
  BY SpotFacts
<1> QED BY <1>1 DEF StackOf, Act4

LEMMA StackDone ==
  ASSUME NEW ir, NEW p, Compiles(ir, p), NEW fs
  PROVE  StackOf(p, fs, p.global_len, "INIT") = <<Act4(0, 2, 1, << >>)>>
<1>1. ~(p.global_len < p.global_len)
  BY CompiledWell
<1> QED BY <1>1 DEF StackOf, Act4, InitialisersDone

(* Behind the initialisers comes a FUNC.                                   *)
LEMMA DoneAtHeader ==
  ASSUME NEW ir, NEW p, Compiles(ir, p)
  PROVE  p.layout[p.global_len].block = 0
<1> DEFINE i == p.global_len
<1>1. i \in 0 .. p.size - 1 /\ OpAt(p, i) = "FUNC" /\ i \in DOMAIN p.code /\ i \in Nat
  BY CompiledWell DEF WellLinked, WellFormed
<1>2. FuncOf(p, i) = i
  BY <1>1, CompiledWell, AtHead
<1>3. CASE \E f, b, n, l : AtSpot(ir, i, f, b, n, l)
  <2>1. PICK f, b, n, l : AtSpot(ir, i, f, b, n, l)
    BY <1>3
  <2>2. f # 0
    <3>1. f = 0 <=> i < p.global_len
      BY <2>1, SpotFacts
    <3> QED BY <1>1, <3>1
  <2>3. FuncOf(p, i) = HeadAt(ir)[f] /\ i > HeadAt(ir)[f] + ParamCount(ir)[f]
        /\ HeadAt(ir)[f] \in Nat /\ ParamCount(ir)[f] \in Nat
    BY <2>1, <2>2, SpotFunctionIs
  <2> QED BY <1>1, <1>2, <2>3
<1>4. CASE \E f, k : AtHeader(ir, i, f, k)
  BY <1>4, HeaderFacts
<1>5. (\E f, b, n, l : AtSpot(ir, i, f, b, n, l)) \/ (\E f, k : AtHeader(ir, i, f, k))
  <2> HIDE DEF i
  <2> QED BY <1>1, SpotOrHeader
<1> QED BY <1>3, <1>4, <1>5

LEMMA AnswerBody ==
  ASSUME NEW ir, NEW p, Compiles(ir, p), NEW i, NEW rg,
         NEW f, NEW b, NEW n, NEW l, AtSpot(ir, i, f, b, n, l), NEW x, x = IRInsts(ir, f, b)[n]
  PROVE  AnswerOf(p, i, rg) = IF f # 0 /\ l = Extent(ir, f, b, n) /\ x.tag = "ASSIGN" /\ IsCall(x.src)
                                THEN Given(rg[1]) ELSE NotGiven
<1>1. /\ p.layout[i].fn = f /\ p.layout[i].block = b /\ p.layout[i].next = n /\ b # 0
      /\ p.layout[i].last <=> l = Extent(ir, f, b, n)
  BY SpotFacts
<1>2. p.source = ir
  BY CompiledFields
<1>3. CASE f = 0
  BY <1>1, <1>3 DEF AnswerOf, NotGiven
<1>4. CASE f # 0
  <2>1. x = ir.funcs[f].blocks[b].insts[n]
    BY <1>4 DEF IRInsts
  <2> QED BY <1>1, <1>2, <1>4, <2>1 DEF AnswerOf, Given, NotGiven
<1> QED BY <1>3, <1>4

LEMMA AnswerHeader ==
  ASSUME NEW ir, NEW p, Compiles(ir, p), NEW i, NEW rg,
         (\E f, k : AtHeader(ir, i, f, k)) \/ i = p.global_len
  PROVE  AnswerOf(p, i, rg) = NotGiven
<1>1. p.layout[i].block = 0
  BY HeaderFacts, DoneAtHeader
<1> QED BY <1>1 DEF AnswerOf, NotGiven

LEMMA SameBlocks ==
  /\ \A f : IRM!Blocks(f) = IF f = 0 THEN <<[name |-> "globals", insts |-> prog.source.globals]>>
                            ELSE prog.source.funcs[f].blocks
  /\ \A f : Len(IRM!Blocks(f)) = BlockTotal(prog.source, f)
  /\ \A f, b : b \in 1 .. BlockTotal(prog.source, f) => IRM!Blocks(f)[b].insts = IRInsts(prog.source, f, b)
<1>1. \A f : IRM!Blocks(f) = IF f = 0 THEN <<[name |-> "globals", insts |-> prog.source.globals]>>
                             ELSE prog.source.funcs[f].blocks
  BY Zenon DEF IRM!Blocks
<1>2. \A f : Len(IRM!Blocks(f)) = BlockTotal(prog.source, f)
  BY <1>1 DEF BlockTotal
<1>3. \A f, b : b \in 1 .. BlockTotal(prog.source, f) => IRM!Blocks(f)[b].insts = IRInsts(prog.source, f, b)
  BY <1>1 DEF BlockTotal, IRInsts
<1> QED BY <1>1, <1>2, <1>3

LEMMA SamePosition ==
  ASSUME NEW f, NEW b \in Nat, NEW n, b >= 1, BlockTotal(prog.source, f) \in Nat
  PROVE  IRM!Position(f, b, n) = PosAfter(prog.source, f, b, n)
<1> DEFINE ir == prog.source
           t == BlockTotal(ir, f)
           one == {c \in b + 1 .. t : IRM!Blocks(f)[c].insts # << >>}
           two == {c \in b + 1 .. t : IRInsts(ir, f, c) # << >>}
<1>1. Len(IRM!Blocks(f)) = t /\ \A c \in 1 .. t : IRM!Blocks(f)[c].insts = IRInsts(ir, f, c)
  BY SameBlocks
<1>2. one = two
  <2> HIDE DEF ir, t
  <2> QED BY <1>1 DEF t
<1>3. IRM!Min(one) = Min(one)
  BY Zenon DEF IRM!Min, Min
<1>4. b <= t => IRM!Blocks(f)[b].insts = IRInsts(ir, f, b)
  <2> HIDE DEF ir, t
  <2> QED BY <1>1 DEF t
<1>5. IRM!Position(f, b, n) =
        IF b <= Len(IRM!Blocks(f)) /\ n <= Len(IRM!Blocks(f)[b].insts)
          THEN [fn |-> f, block |-> b, next |-> n]
        ELSE [fn |-> f, next |-> 1,
              block |-> IF {c \in b + 1 .. Len(IRM!Blocks(f)) : IRM!Blocks(f)[c].insts # << >>} = {}
                          THEN Len(IRM!Blocks(f)) + 1
                        ELSE IRM!Min({c \in b + 1 .. Len(IRM!Blocks(f)) : IRM!Blocks(f)[c].insts # << >>})]
  BY Zenon DEF IRM!Position
<1>6. PosAfter(ir, f, b, n) =
        IF b <= t /\ n <= Len(IRInsts(ir, f, b)) THEN [fn |-> f, block |-> b, next |-> n]
        ELSE [fn |-> f, next |-> 1, block |-> IF two = {} THEN t + 1 ELSE Min(two)]
  BY Zenon DEF PosAfter
<1>7. IRM!Position(f, b, n) =
        IF b <= t /\ n <= Len(IRM!Blocks(f)[b].insts) THEN [fn |-> f, block |-> b, next |-> n]
        ELSE [fn |-> f, next |-> 1, block |-> IF one = {} THEN t + 1 ELSE IRM!Min(one)]
  BY <1>1, <1>5, Zenon
<1> HIDE DEF one, two, t, ir
<1>8. CASE b <= t
  BY <1>2, <1>3, <1>4, <1>6, <1>7, <1>8 DEF ir
<1>9. CASE ~(b <= t)
  BY <1>2, <1>3, <1>4, <1>6, <1>7, <1>9 DEF ir
<1> QED BY <1>8, <1>9

(* The running activation of a stack s.                                    *)
Runs(s, d, f, b, n, scope) ==
  d \in Nat /\ d >= 1 /\ DOMAIN s = 1 .. d /\ Len(s) = d /\ s[d] = Act4(f, b, n, scope)

LEMMA RunningIs ==
  ASSUME NEW d, NEW f, NEW b, NEW n, NEW scope, Runs(AbsStack, d, f, b, n, scope)
  PROVE  /\ IRM!Depth = d /\ IRM!Running = Act4(f, b, n, scope)
         /\ IRM!Running.fn = f /\ IRM!Running.vars = scope
<1>1. IRM!Depth = d
  BY Zenon DEF IRM!Depth, Runs
<1>2. IRM!Running = Act4(f, b, n, scope)
  BY <1>1, Zenon DEF IRM!Running, Runs
<1> QED BY <1>1, <1>2 DEF Act4

LEMMA RunningSpot ==
  ASSUME NEW d, NEW f, NEW b, NEW n, NEW scope, Runs(AbsStack, d, f, b, n, scope),
         IsSpot(prog.source, f, b, n), BlockTotal(prog.source, f) \in Nat
  PROVE  ~IRM!AtEnd /\ IRM!Inst = IRInsts(prog.source, f, b)[n]
<1>1. IRM!Running = Act4(f, b, n, scope)
  BY RunningIs
<1>2. IRM!Running.fn = f /\ IRM!Running.block = b /\ IRM!Running.next = n
  BY <1>1 DEF Act4
<1>3. b \in 1 .. BlockTotal(prog.source, f)
  BY DEF IsSpot, IsBlock
<1>4. IRM!Inst = IRInsts(prog.source, f, b)[n]
  BY <1>2, <1>3, SameBlocks, Zenon DEF IRM!Inst
<1>5. IRM!AtEnd = (b > BlockTotal(prog.source, f))
  BY <1>2, SameBlocks, Zenon DEF IRM!AtEnd
<1>6. ~(b > BlockTotal(prog.source, f))
  BY <1>3
<1> QED BY <1>4, <1>5, <1>6

LEMMA TotalBlocks ==
  ASSUME NEW ir, NEW p, Compiles(ir, p), NEW f \in 0 .. Len(ir.funcs)
  PROVE  BlockTotal(ir, f) \in Nat /\ Len(ir.funcs) \in Nat
<1>1. WellFormedIR(ir)
  BY CompiledFields
<1>2. Len(ir.funcs) \in Nat /\ \A g \in 1 .. Len(ir.funcs) : Len(ir.funcs[g].blocks) \in Nat
  BY <1>1, Functions, VectorShape DEF FunctionOK
<1> QED BY <1>2 DEF BlockTotal

-----------------------------------------------------------------------------
(* Variables of the running function, in the frames and in the activation *)

(* The frames of a machine that executes function f, or the initialisers.  *)
Scoped(ir, fs, f) ==
  IF f = 0 THEN Len(fs) = 1
  ELSE /\ Len(fs) >= 2 /\ DOMAIN fs[1].symbols = Declared(ir)
       /\ Full(ir, f, fs[Len(fs)].symbols) /\ ScopeOK(ir, f, fs[Len(fs)].symbols)
LocalTo(ir, f, name) == f # 0 /\ Local(ir, ir.funcs[f], name)

LEMMA HomeOf ==
  ASSUME NEW ir, NEW fs, FramesOK(fs), NEW f, Scoped(ir, fs, f), NEW name
  PROVE  HomeIn(fs, name) = IF LocalTo(ir, f, name) THEN Len(fs) ELSE 1
<1>1. CASE f = 0
  BY <1>1 DEF HomeIn, Scoped, LocalTo
<1>2. CASE f # 0
  <2> DEFINE top == DOMAIN fs[Len(fs)].symbols
  <2>1. /\ DOMAIN fs[1].symbols = Declared(ir) /\ Params(ir, f) \subseteq top
        /\ top \cap Declared(ir) \subseteq Params(ir, f)
    BY <1>2 DEF Scoped, Full, ScopeOK
  <2>2. LocalTo(ir, f, name) <=> name \in Params(ir, f) \/ name \notin Declared(ir)
    BY <1>2 DEF LocalTo, Local, Params
  <2>3. HomeIn(fs, name) = IF name \in top \/ name \notin Declared(ir) THEN Len(fs) ELSE 1
    BY <2>1 DEF HomeIn
  <2> HIDE DEF top
  <2> QED BY <2>1, <2>2, <2>3
<1> QED BY <1>1, <1>2

LEMMA LocalIs ==
  ASSUME NEW d, NEW f, NEW b, NEW n, NEW scope, Runs(AbsStack, d, f, b, n, scope)
  PROVE  \A name : IRM!IsLocal(name) = LocalTo(prog.source, f, name)
<1>1. IRM!Running.fn = f
  BY RunningIs
<1>2. \A g, name : IRM!Local(prog.source, g, name) = Local(prog.source, g, name)
  BY Zenon DEF IRM!Local, Local, IRM!Declared, Declared
<1> QED BY <1>1, <1>2, Zenon DEF IRM!IsLocal, LocalTo

(* The running machine, abstract and concrete.                             *)
InStep(d, f, b, n, scope) ==
  /\ Runs(AbsStack, d, f, b, n, scope) /\ FramesOK(frame) /\ Scoped(prog.source, frame, f)
  /\ f # 0 => scope = Assigned(frame[Len(frame)].symbols)

LEMMA VariableIs ==
  ASSUME NEW d, NEW f, NEW b, NEW n, NEW scope, InStep(d, f, b, n, scope)
  PROVE  \A name : IRM!Value(name) = LookupIn(frame, name)
<1> TAKE name
<1> DEFINE s == IF LocalTo(prog.source, f, name) THEN scope ELSE Assigned(frame[1].symbols)
<1>1. IRM!Running.vars = scope
  BY RunningIs DEF InStep
<1>2. IRM!IsLocal(name) = LocalTo(prog.source, f, name)
  BY LocalIs DEF InStep
<1>3. IRM!Scope(name) = s
  BY <1>1, <1>2, Zenon DEF IRM!Scope
<1>4. IRM!Value(name) = IF name \in DOMAIN s THEN s[name] ELSE None
  BY <1>3, SameConstants, Zenon DEF IRM!Value
<1>5. IRM!Value(name) = Held(s, name)
  BY <1>4 DEF Held
<1>6. s = Assigned(frame[HomeIn(frame, name)].symbols)
  <2>1. HomeIn(frame, name) = IF LocalTo(prog.source, f, name) THEN Len(frame) ELSE 1
    BY HomeOf DEF InStep
  <2>2. LocalTo(prog.source, f, name) => scope = Assigned(frame[Len(frame)].symbols)
    BY DEF InStep, LocalTo
  <2> QED BY <2>1, <2>2
<1>7. Held(s, name) = Held(frame[HomeIn(frame, name)].symbols, name)
  BY <1>6, AssignedIs
<1> QED BY <1>5, <1>7 DEF LookupIn

LEMMA OperandIs ==
  ASSUME NEW d, NEW f, NEW b, NEW n, NEW scope, InStep(d, f, b, n, scope)
  PROVE  /\ \A idx : IRM!Path(idx) = PathIn(frame, idx)
         /\ \A x : IRM!Element(x) = ElementIn(frame, x)
         /\ \A x : IRM!Operand(x) = ValueIn(frame, x)
<1>1. \A name : IRM!Value(name) = LookupIn(frame, name)
  BY VariableIs
<1>2. \A idx : IRM!Path(idx) = PathIn(frame, idx)
  BY <1>1, SameAsInt DEF IRM!Path, PathIn
<1>3. \A x : IRM!Element(x) = ElementIn(frame, x)
  BY <1>1, <1>2, SameWalk, Zenon DEF IRM!Element, ElementIn
<1>4. \A x : IRM!Operand(x) = ValueIn(frame, x)
  BY <1>3, SameConstants, Zenon DEF IRM!Operand, ValueIn
<1> QED BY <1>2, <1>3, <1>4

(* The stack s with the running activation replaced.                       *)
Rewritten(s, d, x) == [s EXCEPT ![d] = x]

LEMMA RewrittenIs ==
  ASSUME NEW s, NEW d \in Nat, d >= 1, s = [k \in 1 .. d |-> s[k]], NEW x
  PROVE  /\ Rewritten(s, d, x) = [k \in 1 .. d |-> IF k = d THEN x ELSE s[k]]
         /\ Rewritten(s, d, s[d]) = s
BY DEF Rewritten

LEMMA StackMoves ==
  ASSUME NEW ir, NEW p, Compiles(ir, p), NEW fs, FramesOK(fs), Len(fs) >= 2,
         NEW gs, SameCalls(fs, gs),
         \A k \in 2 .. Len(fs) - 1 : Assigned(gs[k].symbols) = Assigned(fs[k].symbols),
         NEW i, NEW f, NEW b, NEW n, NEW l, AtSpot(ir, i, f, b, n, l),
         NEW j, NEW g, NEW c, NEW m, NEW e, AtSpot(ir, j, g, c, m, e)
  PROVE  StackOf(p, gs, j, "MAIN") =
           Rewritten(StackOf(p, fs, i, "MAIN"), Len(fs) - 1, Act4(g, c, m, Assigned(gs[Len(fs)].symbols)))
<1> DEFINE t == Len(fs)
           d == t - 1
           A == Acts(p, fs, i, d)
           B == Acts(p, gs, j, d)
           x == Act4(g, c, m, Assigned(gs[t].symbols))
<1>1. FramesOK(gs) /\ Len(gs) = t /\ t \in Nat /\ d \in Nat /\ d >= 1 /\ d + 1 = t
  BY TopIn DEF SameCalls
<1>2. StackOf(p, fs, i, "MAIN") = A
  BY StackBody
<1>3. StackOf(p, gs, j, "MAIN") = B /\ ActOf(p, gs, j, t) = x
  BY <1>1, StackBody
<1>4. \A k \in 1 .. d : k # d => ActOf(p, gs, j, k + 1) = ActOf(p, fs, i, k + 1)
  <2> SUFFICES ASSUME NEW k \in 1 .. d, k # d PROVE ActOf(p, gs, j, k + 1) = ActOf(p, fs, i, k + 1)
    OBVIOUS
  <2> DEFINE h == k + 1
  <2>1. h \in 2 .. t - 1 /\ h \in 1 .. t /\ h # t
    BY <1>1
  <2> HIDE DEF h
  <2>2. Assigned(gs[h].symbols) = Assigned(fs[h].symbols)
    BY <2>1
  <2>3. gs[h].pc = fs[h].pc
    BY <2>1 DEF SameCalls
  <2>4. Spot(gs, j, h) = Spot(fs, i, h)
    BY <1>1, <2>1, <2>3 DEF Spot
  <2>5. ActOf(p, gs, j, h) = ActOf(p, fs, i, h)
    BY <2>2, <2>4 DEF ActOf
  <2> QED BY <2>5 DEF h
<1>5. Rewritten(A, d, x) = [k \in 1 .. d |-> IF k = d THEN x ELSE A[k]]
  <2>1. A = [k \in 1 .. d |-> A[k]]
    BY DEF Acts
  <2> HIDE DEF A, d, x
  <2> QED BY <1>1, <2>1 DEF Rewritten
<1>6. B = [k \in 1 .. d |-> ActOf(p, gs, j, k + 1)] /\ A = [k \in 1 .. d |-> ActOf(p, fs, i, k + 1)]
  BY DEF Acts
<1> HIDE DEF A, B, d, x, t
<1>7. B = Rewritten(A, d, x)
  <2>1. \A k \in 1 .. d : ActOf(p, gs, j, k + 1) = IF k = d THEN x ELSE A[k]
    BY <1>1, <1>3, <1>4, <1>6
  <2> QED BY <1>5, <1>6, <2>1
<1> QED BY <1>2, <1>3, <1>7 DEF d, x, t

LEMMA AdvanceIs ==
  ASSUME NEW d, NEW f, NEW b, NEW n, NEW scope, Runs(AbsStack, d, f, b, n, scope),
         IsSpot(prog.source, f, b, n), BlockTotal(prog.source, f) \in Nat,
         NEW q, q = PosAfter(prog.source, f, b, n + 1)
  PROVE  IRM!Advance(AbsStack) = Rewritten(AbsStack, d, Act4(q.fn, q.block, q.next, scope))
<1>1. /\ Len(AbsStack) = d /\ AbsStack[d].fn = f /\ AbsStack[d].block = b /\ AbsStack[d].next = n
      /\ AbsStack[d].vars = scope
  BY DEF Runs, Act4
<1>2. b \in Nat /\ b >= 1
  BY DEF IsSpot, IsBlock
<1>3. IRM!Position(f, b, n + 1) = q
  BY <1>2, SamePosition
<1>4. IRM!Advance(AbsStack)
        = IRM!GoTo(AbsStack, IRM!Position(AbsStack[d].fn, AbsStack[d].block, AbsStack[d].next + 1))
  BY <1>1, Zenon DEF IRM!Advance
<1>5. IRM!Advance(AbsStack) = IRM!GoTo(AbsStack, q)
  BY <1>1, <1>3, <1>4, Zenon
<1>6. IRM!GoTo(AbsStack, q) = [AbsStack EXCEPT ![d] = IRM!Activation(q, AbsStack[d].vars)]
  BY <1>1, Zenon DEF IRM!GoTo
<1>7. IRM!Activation(q, scope) = Act4(q.fn, q.block, q.next, scope)
  BY Zenon DEF IRM!Activation, Act4
<1> QED BY <1>1, <1>5, <1>6, <1>7, Zenon DEF Rewritten

LEMMA LocalFrames ==
  ASSUME NEW ir, NEW fs, FramesOK(fs), NEW f, Scoped(ir, fs, f), NEW name, LocalTo(ir, f, name)
  PROVE  Len(fs) # 1 /\ Len(fs) >= 2
<1> DEFINE t == Len(fs)
<1>1. t \in Nat
  BY TopIn
<1>2. t >= 2
  BY DEF Scoped, LocalTo
<1>3. t # 1 /\ t >= 2
  <2> HIDE DEF t
  <2> QED BY <1>1, <1>2
<1> QED BY <1>3 DEF t

LEMMA WriteIs ==
  ASSUME NEW d, NEW f, NEW b, NEW n, NEW scope, InStep(d, f, b, n, scope),
         NEW x, NEW v, NEW new, new = Put(LookupIn(frame, x.var), PathIn(frame, x.idx), v),
         Changed(frame, frame', x.var, new),
         NEW s, NEW y, s = Rewritten(AbsStack, d, y),
         NEW g, NEW c, NEW m, y = Act4(g, c, m, scope),
         NEW after, after = (IF LocalTo(prog.source, f, x.var) THEN Rebound(scope, x.var, new) ELSE scope),
         AbsStack' = Rewritten(AbsStack, d, Act4(g, c, m, after))
  PROVE  IRM!Write(x, v, s)
<1> DEFINE local == LocalTo(prog.source, f, x.var)
           G == Assigned(frame[1].symbols)
           H == Assigned(frame'[1].symbols)
<1>1. IRM!Put(IRM!Value(x.var), IRM!Path(x.idx), v) = new
  BY VariableIs, OperandIs, SamePut, Zenon
<1>2. IRM!IsLocal(x.var) = local /\ IRM!Depth = d
  BY LocalIs, RunningIs DEF InStep
<1>3. H = IF local THEN G ELSE Rebound(G, x.var, new)
  <2>1. FramesOK(frame) /\ Scoped(prog.source, frame, f) /\ 1 \in 1 .. Len(frame)
    BY TopIn DEF InStep
  <2>2. H = IF 1 = HomeIn(frame, x.var) THEN Rebound(G, x.var, new) ELSE G
    BY <2>1, ChangedScopes
  <2>3. HomeIn(frame, x.var) = IF local THEN Len(frame) ELSE 1
    BY <2>1, HomeOf
  <2>4. local => Len(frame) # 1
    BY <2>1, LocalFrames
  <2> HIDE DEF local, G, H
  <2> QED BY <2>2, <2>3, <2>4
<1>4. /\ local => AbsStack' = [s EXCEPT ![d].vars = Rebound(@, x.var, new)]
      /\ ~local => AbsStack' = s
  <2>1. d \in DOMAIN AbsStack
    BY DEF InStep, Runs
  <2>2. s[d] = y /\ s = Rewritten(AbsStack, d, y) /\ d \in DOMAIN s
    BY <2>1 DEF Rewritten
  <2>3. CASE local
    <3>1. after = Rebound(scope, x.var, new)
      BY <2>3
    <3>2. [y EXCEPT !.vars = Rebound(@, x.var, new)] = Act4(g, c, m, after)
      BY <3>1 DEF Act4
    <3>3. [s EXCEPT ![d].vars = Rebound(@, x.var, new)] = [s EXCEPT ![d] = Act4(g, c, m, after)]
      BY <2>2, <3>2
    <3>4. [s EXCEPT ![d] = Act4(g, c, m, after)] = Rewritten(AbsStack, d, Act4(g, c, m, after))
      BY <2>1, <2>2 DEF Rewritten
    <3> QED BY <2>3, <3>3, <3>4
  <2>4. CASE ~local
    <3>1. after = scope
      BY <2>4
    <3> QED BY <2>2, <2>4, <3>1
  <2> QED BY <2>3, <2>4
<1>5. IRM!Bound(G, x.var, new) = Rebound(G, x.var, new)
      /\ \A z : IRM!Bound(z, x.var, new) = Rebound(z, x.var, new)
  BY SameBound
<1>6. (Assigned(frame[1].symbols))' = H
  BY Zenon DEF Assigned
<1>7. CASE local
  <2>1. H = G
    BY <1>3, <1>7
  <2>2. AbsStack' = [s EXCEPT ![d].vars = IRM!Bound(@, x.var, new)]
    BY <1>4, <1>5, <1>7
  <2> QED BY <1>1, <1>2, <1>6, <1>7, <2>1, <2>2 DEF IRM!Write
<1>8. CASE ~local
  <2>1. H = IRM!Bound(G, x.var, new)
    BY <1>3, <1>5, <1>8
  <2>2. AbsStack' = s
    BY <1>4, <1>8
  <2> QED BY <1>1, <1>2, <1>6, <1>8, <2>1, <2>2 DEF IRM!Write
<1> QED BY <1>7, <1>8

LEMMA WidenedKeeps ==
  ASSUME NEW ir, NEW fs, FramesOK(fs), NEW gs, SameCalls(fs, gs), Widened(fs, gs),
         Declared(ir) \subseteq DOMAIN fs[1].symbols
  PROVE  /\ Declared(ir) \subseteq DOMAIN gs[1].symbols
         /\ \A f : Full(ir, f, fs[Len(fs)].symbols) => Full(ir, f, gs[Len(gs)].symbols)
         /\ \A f : \A k \in 1 .. Len(fs) : k # 1 =>
              /\ ScopeOK(ir, f, fs[k].symbols) => ScopeOK(ir, f, gs[k].symbols)
              /\ Full(ir, f, fs[k].symbols) => Full(ir, f, gs[k].symbols)
         /\ \A n : Earlier(ir, fs, n) => Earlier(ir, gs, n)
<1>1. 1 \in 1 .. Len(fs) /\ Len(fs) \in 1 .. Len(fs) /\ Len(gs) = Len(fs)
  BY TopIn DEF SameCalls
<1>2. \A k \in 1 .. Len(fs) :
        /\ DOMAIN fs[k].symbols \subseteq DOMAIN gs[k].symbols
        /\ \A n \in DOMAIN gs[k].symbols : n \in DOMAIN fs[k].symbols \/ n \notin DOMAIN fs[1].symbols
  BY DEF Widened
<1>3. Declared(ir) \subseteq DOMAIN gs[1].symbols
  BY <1>1, <1>2
<1>4. \A f : \A k \in 1 .. Len(fs) : Full(ir, f, fs[k].symbols) => Full(ir, f, gs[k].symbols)
  BY <1>2 DEF Full
<1>5. \A f : \A k \in 1 .. Len(fs) : ScopeOK(ir, f, fs[k].symbols) => ScopeOK(ir, f, gs[k].symbols)
  BY <1>2 DEF ScopeOK
<1>6. \A n : Earlier(ir, fs, n) => Earlier(ir, gs, n)
  BY <1>1, <1>2 DEF Earlier
<1> QED BY <1>1, <1>3, <1>4, <1>5, <1>6

LEMMA ScopesMove ==
  ASSUME NEW ir, NEW p, NEW fs, FramesOK(fs), NEW i, ScopesOK(ir, p, fs, i), Len(fs) >= 2,
         NEW gs, SameCalls(fs, gs), Widened(fs, gs),
         NEW j, p.layout[j].fn = p.layout[i].fn
  PROVE  ScopesOK(ir, p, gs, j)
<1>1. Len(fs) \in Nat /\ Len(gs) = Len(fs) /\ Declared(ir) \subseteq DOMAIN fs[1].symbols
  BY TopIn DEF SameCalls, ScopesOK
<1>2. Declared(ir) \subseteq DOMAIN gs[1].symbols
  BY <1>1, WidenedKeeps
<1>3. ASSUME NEW k \in 2 .. Len(gs)
      PROVE  LET f == p.layout[Spot(gs, j, k)].fn
             IN ScopeOK(ir, f, gs[k].symbols) /\ (k # Len(gs) => Full(ir, f, gs[k].symbols))
  <2> DEFINE f == p.layout[Spot(fs, i, k)].fn
             g == p.layout[Spot(gs, j, k)].fn
  <2>1. k \in 2 .. Len(fs) /\ k \in 1 .. Len(fs) /\ k # 1
    BY <1>1
  <2>2. f = g
    BY <1>1, <2>1 DEF Spot, SameCalls
  <2>3. ScopeOK(ir, f, fs[k].symbols) /\ (k # Len(fs) => Full(ir, f, fs[k].symbols))
    BY <2>1 DEF ScopesOK
  <2> HIDE DEF f, g
  <2>4. ScopeOK(ir, f, gs[k].symbols) /\ (k # Len(fs) => Full(ir, f, gs[k].symbols))
    BY <1>1, <2>1, <2>3, WidenedKeeps
  <2> QED BY <1>1, <2>2, <2>4 DEF g
<1> QED BY <1>2, <1>3 DEF ScopesOK

LEMMA CleanKept ==
  ASSUME NEW fs, NEW rg, Clean(fs, rg), NEW gs, NEW rh,
         \A r \in Reg : rh[r] # Bad,
         Grown(fs, gs) \/ \E name, v : Changed(fs, gs, name, v) /\ v # Bad
  PROVE  Clean(gs, rh)
<1>1. Len(gs) = Len(fs)
  BY DEF Grown, Changed, SameCalls
<1>2. CASE Grown(fs, gs)
  BY <1>1, <1>2 DEF Clean, Grown
<1>3. CASE \E name, v : Changed(fs, gs, name, v) /\ v # Bad
  <2>1. PICK name, v : Changed(fs, gs, name, v) /\ v # Bad
    BY <1>3
  <2>2. \A k \in 1 .. Len(fs) : \A n : Holds(gs, k, n) = v \/ Holds(gs, k, n) = Holds(fs, k, n)
    BY <2>1 DEF Changed
  <2> QED BY <1>1, <2>1, <2>2 DEF Clean
<1> QED BY <1>2, <1>3

-----------------------------------------------------------------------------
(* The machine in the code of an IR instruction *)

(* The machine executes instruction l of f, b, n.                          *)
Facts ==
  /\ Compiles(prog.source, prog) /\ FramesOK(frame) /\ Clean(frame, reg) /\ DOMAIN reg = Reg
  /\ status = "running" /\ pc \in Int

Doing(f, b, n, l) ==
  /\ AtSpot(prog.source, pc, f, b, n, l) /\ Ready(IRInsts(prog.source, f, b)[n], l, reg, frame)
  /\ Scoped(prog.source, frame, f)
  /\ f = 0 => mode = "INIT" /\ b = 1 /\ Earlier(prog.source, frame, n)
  /\ f # 0 => /\ mode = "MAIN" /\ Linked(prog, frame, pc)
              /\ ScopesOK(prog.source, prog, frame, pc)

Running4(fs, f) == IF f = 0 THEN << >> ELSE Assigned(fs[Len(fs)].symbols)
Deep(fs, f) == IF f = 0 THEN 1 ELSE Len(fs) - 1

LEMMA DoingRuns ==
  ASSUME Facts, NEW f, NEW b, NEW n, NEW l, Doing(f, b, n, l)
  PROVE  /\ InStep(Deep(frame, f), f, b, n, Running4(frame, f))
         /\ ~IRM!AtEnd /\ IRM!Inst = IRInsts(prog.source, f, b)[n]
         /\ BlockTotal(prog.source, f) \in Nat /\ IsSpot(prog.source, f, b, n)
<1> DEFINE ir == prog.source
           d == Deep(frame, f)
           scope == Running4(frame, f)
           t == Len(frame)
<1>1. t \in Nat
  BY TopIn DEF Facts
<1>2. AtSpot(ir, pc, f, b, n, l) /\ Compiles(ir, prog) /\ FramesOK(frame)
  BY DEF Doing, Facts
<1>3. AbsStack = StackOf(prog, frame, pc, mode)
  BY MappingIs
<1>4. Runs(AbsStack, d, f, b, n, scope)
  <2>1. CASE f = 0
    <3>1. AbsStack = <<Act4(0, 1, n, << >>)>> /\ b = 1
      BY <1>2, <1>3, <2>1, StackInit DEF Doing
    <3> QED BY <2>1, <3>1 DEF Runs, Deep, Running4
  <2>2. CASE f # 0
    <3>1. mode = "MAIN" /\ t >= 2
      BY <2>2 DEF Doing, Scoped
    <3>2. AbsStack = Acts(prog, frame, pc, t - 1) /\ ActOf(prog, frame, pc, t) = Act4(f, b, n, Assigned(frame[t].symbols))
      BY <1>2, <1>3, <3>1, StackBody
    <3> DEFINE e == t - 1
    <3>3. e \in Nat /\ e >= 1 /\ e + 1 = t
      <4> HIDE DEF t
      <4> QED BY <1>1, <3>1
    <3> HIDE DEF t, e
    <3>4. AbsStack = [k \in 1 .. e |-> ActOf(prog, frame, pc, k + 1)]
      BY <3>2 DEF Acts, e
    <3>5. DOMAIN AbsStack = 1 .. e /\ Len(AbsStack) = e /\ AbsStack[e] = ActOf(prog, frame, pc, t)
      BY <3>3, <3>4
    <3>6. d = e /\ scope = Assigned(frame[t].symbols)
      BY <2>2 DEF Deep, Running4, e, t
    <3> QED BY <3>2, <3>3, <3>5, <3>6 DEF Runs
  <2> QED BY <2>1, <2>2
<1>5. InStep(d, f, b, n, scope)
  BY <1>2, <1>4 DEF InStep, Doing, Running4
<1>6. BlockTotal(ir, f) \in Nat /\ IsSpot(ir, f, b, n)
  <2>1. f \in 0 .. Len(ir.funcs)
    BY <1>2, SpotFacts
  <2> QED BY <1>2, <2>1, TotalBlocks DEF AtSpot
<1> QED BY <1>4, <1>5, <1>6, RunningSpot

Sound1 == Sound(prog.source, prog, frame, pc, mode, reg)
SoundNext == Sound(prog'.source, prog', frame', pc', mode', reg')

Straightly == pc' = pc + 1 /\ UNCHANGED <<prog, mode, status>>

LEMMA SoundHere ==
  ASSUME NEW ir, NEW p, NEW fs, NEW i, NEW rg, Clean(fs, rg)
  PROVE  /\ Initialising(ir, p, fs, i, rg) => Sound(ir, p, fs, i, "INIT", rg)
         /\ Executing(ir, p, fs, i, rg) => Sound(ir, p, fs, i, "MAIN", rg)
BY DEF Sound

(* A step inside the code of one IR instruction: the abstract machine      *)
(* stands still.                                                           *)
LEMMA Interior ==
  ASSUME Facts, NEW f, NEW b, NEW n, NEW l, Doing(f, b, n, l), NEW x, x = IRInsts(prog.source, f, b)[n],
         l < Extent(prog.source, f, b, n), Straightly, UNCHANGED out,
         Grown(frame, frame'), \A r \in Reg : reg'[r] # Bad,
         Ready(x, l + 1, reg', frame'), ~(x.tag = "ASSIGN" /\ IsCall(x.src))
  PROVE  SoundNext /\ UNCHANGED IRM!vars
<1> DEFINE ir == prog.source
           t == Len(frame)
<1>1. /\ AtSpot(ir, pc, f, b, n, l) /\ Compiles(ir, prog) /\ FramesOK(frame) /\ Clean(frame, reg)
      /\ SameCalls(frame, frame') /\ Widened(frame, frame') /\ prog' = prog /\ mode' = mode /\ pc' = pc + 1
  BY DEF Doing, Facts, Straightly, Grown
<1>2. AtSpot(ir, pc + 1, f, b, n, l + 1)
  <2> DEFINE e == Extent(ir, f, b, n)
             m == Begin(ir, f, b, n)
  <2>1. l \in Nat /\ l \in 1 .. e /\ e \in Nat /\ m \in Nat /\ pc = m + l - 1 /\ l < e
    BY <1>1, SpotFacts DEF AtSpot
  <2> HIDE DEF e, m
  <2>2. l + 1 \in 1 .. e /\ pc + 1 = m + (l + 1) - 1
    BY <2>1
  <2> QED BY <1>1, <2>2 DEF AtSpot, e, m
<1>3. Clean(frame', reg')
  BY <1>1, CleanKept
<1>4. AbsAnswer = NotGiven /\ AbsAnswer' = NotGiven
  BY <1>1, <1>2, MappingIs, MappingNext, AnswerBody
<1>5. t \in Nat /\ 1 \in 1 .. t /\ \A k \in 1 .. t : Assigned(frame'[k].symbols) = Assigned(frame[k].symbols)
  BY <1>1, TopIn, GrownLookups
<1>6. SoundNext /\ AbsStack' = AbsStack
  <2>1. CASE f = 0
    <3>1. mode = "INIT" /\ b = 1 /\ Earlier(ir, frame, n) /\ Scoped(ir, frame, 0)
      BY <2>1 DEF Doing
    <3>2. Earlier(ir, frame', n)
      <4>1. \A m \in 1 .. n - 1 : ir.globals[m].dest.var \in DOMAIN frame'[1].symbols
        BY <1>1, <1>5, <3>1 DEF Earlier, Widened
      <4> QED BY <4>1 DEF Earlier
    <3>3. IRInsts(ir, f, b) = ir.globals
      BY <2>1 DEF IRInsts
    <3>4. Initialising(ir, prog, frame', pc + 1, reg')
      BY <1>2, <2>1, <3>1, <3>2, <3>3 DEF Initialising
    <3>5. AbsStack' = AbsStack
      BY <1>1, <1>2, <2>1, <3>1, MappingIs, MappingNext, StackInit
    <3> QED BY <1>1, <1>3, <3>1, <3>4, <3>5, SoundHere DEF SoundNext
  <2>2. CASE f # 0
    <3>1. mode = "MAIN" /\ Scoped(ir, frame, f) /\ ScopesOK(ir, prog, frame, pc) /\ t >= 2
      BY <2>2 DEF Doing, Scoped
    <3>2. Full(ir, f, frame[t].symbols) /\ Declared(ir) \subseteq DOMAIN frame[1].symbols /\ Len(frame') = t
      BY <1>1, <2>2, <3>1 DEF Scoped, ScopesOK, SameCalls
    <3>3. Full(ir, f, frame'[t].symbols)
      BY <1>1, <3>2, WidenedKeeps
    <3>4. ScopesOK(ir, prog, frame', pc + 1)
      <4>1. prog.layout[pc + 1].fn = prog.layout[pc].fn
        BY <1>1, <1>2, SpotFacts
      <4> QED BY <1>1, <3>1, <4>1, ScopesMove
    <3>5. InBody(ir, frame', pc + 1, reg', f, b, n, l + 1)
      BY <1>2, <2>2, <3>2, <3>3 DEF InBody
    <3>6. Executing(ir, prog, frame', pc + 1, reg')
      BY <3>4, <3>5 DEF Executing
    <3>7. AbsStack' = AbsStack
      <4> DEFINE A == StackOf(prog, frame, pc, "MAIN")
                 y == Act4(f, b, n, Assigned(frame[t].symbols))
                 d == t - 1
      <4>1. AbsStack = A /\ AbsStack' = StackOf(prog, frame', pc + 1, "MAIN")
        BY <1>1, <3>1, MappingIs, MappingNext
      <4>2. t \in 1 .. t
        BY <1>1, TopIn
      <4>3. \A k \in 2 .. t - 1 : Assigned(frame'[k].symbols) = Assigned(frame[k].symbols)
        BY <1>5
      <4>4. StackOf(prog, frame', pc + 1, "MAIN") = Rewritten(A, d, Act4(f, b, n, Assigned(frame'[t].symbols)))
        BY <1>1, <1>2, <3>1, <4>3, StackMoves
      <4>5. Assigned(frame'[t].symbols) = Assigned(frame[t].symbols)
        BY <1>5, <4>2
      <4>6. Runs(A, d, f, b, n, Running4(frame, f))
        BY <2>2, <4>1, DoingRuns DEF InStep, Deep
      <4>7. A[d] = y
        BY <2>2, <4>6 DEF Runs, Running4
      <4>8. A = [k \in DOMAIN A |-> A[k]]
        BY <1>1, <3>1, StackBody DEF Acts
      <4> HIDE DEF A, y, d, t
      <4>9. Rewritten(A, d, y) = A
        BY <4>7, <4>8 DEF Rewritten
      <4> QED BY <4>1, <4>4, <4>5, <4>9 DEF y
    <3> QED BY <1>1, <1>3, <3>1, <3>6, <3>7, SoundHere DEF SoundNext
  <2> QED BY <2>1, <2>2
<1>7. (prog.source)' = prog.source /\ (Assigned(frame[1].symbols))' = Assigned(frame[1].symbols)
      /\ out' = out /\ status' = status
  <2>1. (Assigned(frame[1].symbols))' = Assigned(frame'[1].symbols)
    BY Zenon DEF Assigned
  <2> QED BY <1>1, <1>5, <2>1 DEF Straightly
<1> QED BY <1>4, <1>6, <1>7 DEF IRM!vars

LEMMA NextGlobal ==
  ASSUME NEW ir, NEW n, IsSpot(ir, 0, 1, n), Len(ir.globals) \in Nat
  PROVE  /\ n \in 1 .. Len(ir.globals) /\ IRInsts(ir, 0, 1) = ir.globals
         /\ PosAfter(ir, 0, 1, n + 1) = IF n < Len(ir.globals)
                                          THEN [fn |-> 0, block |-> 1, next |-> n + 1]
                                          ELSE [fn |-> 0, block |-> 2, next |-> 1]
<1>1. IRInsts(ir, 0, 1) = ir.globals /\ BlockTotal(ir, 0) = 1
  BY DEF IRInsts, BlockTotal
<1>2. n \in 1 .. Len(ir.globals)
  BY <1>1 DEF IsSpot
<1>3. {c \in 1 + 1 .. 1 : IRInsts(ir, 0, c) # << >>} = {}
  <2>1. 1 + 1 .. 1 = {}
    OBVIOUS
  <2> QED BY <2>1
<1>4. n < Len(ir.globals) <=> 1 <= 1 /\ n + 1 <= Len(ir.globals)
  BY <1>2
<1> QED BY <1>1, <1>2, <1>3, <1>4 DEF PosAfter

LEMMA GlobalsAre ==
  ASSUME NEW ir, NEW p, Compiles(ir, p)
  PROVE  Len(ir.globals) \in Nat /\ DOMAIN ir.globals = 1 .. Len(ir.globals)
BY CompiledFields DEF WellFormedIR, IsVector

(* The initialisers up to the n-th have run when its store has. *)
LEMMA EarlierGrows ==
  ASSUME NEW ir, NEW fs, FramesOK(fs), Len(fs) = 1, NEW n \in Nat, Earlier(ir, fs, n),
         NEW gs, NEW v, Changed(fs, gs, ir.globals[n].dest.var, v)
  PROVE  \A m \in 1 .. n : ir.globals[m].dest.var \in DOMAIN gs[1].symbols
<1> DEFINE name == ir.globals[n].dest.var
<1>1. HomeIn(fs, name) = 1
  <2> HIDE DEF name
  <2> QED BY TopIn
<1>2. name \in DOMAIN gs[1].symbols /\ DOMAIN fs[1].symbols \subseteq DOMAIN gs[1].symbols
  <2>1. 1 \in 1 .. Len(fs)
    BY TopIn
  <2> QED BY <1>1, <2>1 DEF Changed, Widened
<1> HIDE DEF name
<1> SUFFICES ASSUME NEW m \in 1 .. n PROVE ir.globals[m].dest.var \in DOMAIN gs[1].symbols
  OBVIOUS
<1>3. CASE m = n
  BY <1>2, <1>3 DEF name
<1>4. CASE m # n
  <2>1. m \in 1 .. n - 1
    BY <1>4
  <2> QED BY <1>2, <2>1 DEF Earlier
<1> QED BY <1>3, <1>4

-----------------------------------------------------------------------------
(* The end of an IR instruction *)

Stored(x, v) == Changed(frame, frame', x.var, Put(LookupIn(frame, x.var), PathIn(frame, x.idx), v))
LastOf(f, b, n) == Extent(prog.source, f, b, n)

LEMMA AfterLast ==
  ASSUME Facts, NEW f, NEW b, NEW n, NEW l, Doing(f, b, n, l), l = LastOf(f, b, n)
  PROVE  /\ Begin(prog.source, f, b, n) + Extent(prog.source, f, b, n) = pc + 1
         /\ IsSpot(prog.source, f, b, n) /\ Compiles(prog.source, prog) /\ pc \in Nat
<1> DEFINE ir == prog.source
           e == Extent(ir, f, b, n)
           m == Begin(ir, f, b, n)
<1>1. AtSpot(ir, pc, f, b, n, l) /\ Compiles(ir, prog)
  BY DEF Doing, Facts
<1>2. l \in Nat /\ e \in Nat /\ m \in Nat /\ pc = m + l - 1 /\ l = e /\ pc \in Nat
  BY <1>1, SpotFacts DEF AtSpot, LastOf
<1>3. IsSpot(ir, f, b, n)
  BY <1>1 DEF AtSpot
<1> HIDE DEF e, m
<1>4. m + e = pc + 1
  BY <1>2
<1> QED BY <1>1, <1>2, <1>3, <1>4 DEF m, e

LEMMA StartOfSpot ==
  ASSUME NEW ir, NEW p, Compiles(ir, p), NEW f, NEW b, NEW n, IsSpot(ir, f, b, n), NEW i, i = Begin(ir, f, b, n)
  PROVE  AtSpot(ir, i, f, b, n, 1)
<1>1. WellFormedIR(ir)
  BY CompiledFields
<1>2. Extent(ir, f, b, n) \in Nat \ {0} /\ Begin(ir, f, b, n) \in Nat
  <2>1. GoodCode(IRInsts(ir, f, b)[n], genInst(IRInsts(ir, f, b)[n])) /\ Extent(ir, f, b, n) \in Nat \ {0}
    <3>1. IsBlock(ir, f, b) /\ n \in 1 .. Len(IRInsts(ir, f, b))
      BY DEF IsSpot
    <3>2. InstsOK(IRInsts(ir, f, b))
      BY <1>1, <3>1, BlockHere
    <3> QED BY <3>1, <3>2, GenWithin DEF Extent
  <2>2. 1 \in 1 .. Extent(ir, f, b, n)
    BY <2>1
  <2>3. Begin(ir, f, b, n) = Begin(ir, f, b, n) + 1 - 1 \/ TRUE
    OBVIOUS
  <2>4. \A l \in 1 .. Extent(ir, f, b, n) : Begin(ir, f, b, n) \in Nat
    BY <1>1, SpotCode
  <2> QED BY <2>1, <2>2, <2>4
<1>3. 1 \in 1 .. Extent(ir, f, b, n) /\ i = Begin(ir, f, b, n) + 1 - 1
  BY <1>2
<1> QED BY <1>3 DEF AtSpot

(* What the last store of an assignment establishes: the abstract machine  *)
(* has written and moved on.                                               *)
Stores(x, v) == SoundNext /\ IRM!Write(x, v, IRM!Advance(AbsStack)) /\ AbsAnswer' = NotGiven

LEMMA ChangedClean ==
  ASSUME NEW fs, FramesOK(fs), NEW rg, Clean(fs, rg), NEW gs, NEW x, NEW v, v # Bad,
         Changed(fs, gs, x.var, Put(LookupIn(fs, x.var), PathIn(fs, x.idx), v))
  PROVE  Clean(gs, rg) /\ SameCalls(fs, gs) /\ Widened(fs, gs)
<1> DEFINE new == Put(LookupIn(fs, x.var), PathIn(fs, x.idx), v)
<1>1. new # Bad
  BY PutSound
<1>2. \A r \in Reg : rg[r] # Bad
  BY DEF Clean
<1> HIDE DEF new
<1>3. Changed(fs, gs, x.var, new)
  BY DEF new
<1>4. Clean(gs, rg)
  BY <1>1, <1>2, <1>3, CleanKept
<1> QED BY <1>3, <1>4 DEF Changed

LEMMA EarlierTo ==
  ASSUME NEW ir, NEW fs, NEW n \in Nat, \A m \in 1 .. n : ir.globals[m].dest.var \in DOMAIN fs[1].symbols
  PROVE  Earlier(ir, fs, n + 1)
<1>1. n + 1 - 1 = n
  OBVIOUS
<1> QED BY <1>1 DEF Earlier

LEMMA FinalInit ==
  ASSUME Facts, NEW b, NEW n, NEW l, Doing(0, b, n, l), l = LastOf(0, b, n),
         NEW x, x = IRInsts(prog.source, 0, b)[n].dest,
         Straightly, UNCHANGED <<reg, out>>, NEW v, v # Bad, Stored(x, v)
  PROVE  Stores(x, v)
<1> DEFINE ir == prog.source
           q == PosAfter(ir, 0, b, n + 1)
           new == Put(LookupIn(frame, x.var), PathIn(frame, x.idx), v)
           e == Begin(ir, 0, b, n) + Extent(ir, 0, b, n)
<1>1. /\ Compiles(ir, prog) /\ FramesOK(frame) /\ Clean(frame, reg) /\ mode = "INIT" /\ b = 1
      /\ Earlier(ir, frame, n) /\ Len(frame) = 1 /\ pc' = pc + 1 /\ prog' = prog /\ mode' = mode /\ reg' = reg
  BY DEF Facts, Doing, Scoped, Straightly
<1>2. e = pc + 1 /\ IsSpot(ir, 0, 1, n) /\ pc \in Nat
  BY <1>1, AfterLast
<1>3. /\ Len(ir.globals) \in Nat /\ DOMAIN ir.globals = 1 .. Len(ir.globals) /\ n \in 1 .. Len(ir.globals)
      /\ IRInsts(ir, 0, 1) = ir.globals
      /\ q = IF n < Len(ir.globals) THEN [fn |-> 0, block |-> 1, next |-> n + 1]
                                    ELSE [fn |-> 0, block |-> 2, next |-> 1]
  BY <1>1, <1>2, GlobalsAre, NextGlobal
<1>4. Changed(frame, frame', x.var, new) /\ Clean(frame', reg') /\ x = ir.globals[n].dest
  BY <1>1, <1>3, ChangedClean DEF Stored
<1>5. \A m \in 1 .. n : ir.globals[m].dest.var \in DOMAIN frame'[1].symbols
  <2>1. n \in Nat /\ Changed(frame, frame', ir.globals[n].dest.var, new)
    <3> HIDE DEF new
    <3> QED BY <1>3, <1>4
  <2> HIDE DEF new, ir
  <2> QED BY <1>1, <2>1, EarlierGrows
<1>6. \/ /\ q = [fn |-> 0, block |-> q.block, next |-> q.next]
         /\ IsSpot(ir, 0, q.block, q.next) /\ Begin(ir, 0, q.block, q.next) = e
      \/ q = [fn |-> 0, block |-> 2, next |-> 1] /\ e = Link(ir).global_len
  <2>1. WellFormedIR(ir)
    BY <1>1, CompiledFields
  <2>2. PosAfter(ir, 0, 1, n + 1) = q
    BY <1>1
  <2>3. e = Begin(ir, 0, 1, n) + Extent(ir, 0, 1, n)
    BY <1>1
  <2> HIDE DEF q, e
  <2> QED BY <1>2, <2>1, <2>2, <2>3, NextSpot
<1>7. Runs(AbsStack, 1, 0, 1, n, << >>) /\ InStep(1, 0, 1, n, << >>) /\ BlockTotal(ir, 0) \in Nat
  <2>1. /\ InStep(Deep(frame, 0), 0, b, n, Running4(frame, 0)) /\ BlockTotal(ir, 0) \in Nat
    BY DoingRuns
  <2>2. Deep(frame, 0) = 1 /\ Running4(frame, 0) = << >>
    BY DEF Deep, Running4
  <2> QED BY <1>1, <2>1, <2>2 DEF InStep
<1>8. IRM!Advance(AbsStack) = Rewritten(AbsStack, 1, Act4(q.fn, q.block, q.next, << >>))
  BY <1>1, <1>2, <1>7, AdvanceIs
<1>9. AbsStack = <<Act4(0, 1, n, << >>)>>
  BY <1>1, MappingIs, StackInit DEF Doing
<1>10. /\ AbsStack' = <<Act4(q.fn, q.block, q.next, << >>)>> /\ AbsAnswer' = NotGiven /\ q.fn = 0
       /\ Initialising(ir, prog, frame', pc + 1, reg')
  <2>1. CASE n < Len(ir.globals)
    <3>1. q.fn = 0 /\ q.block = 1 /\ q.next = n + 1
      BY <1>3, <2>1
    <3>2. AtSpot(ir, pc + 1, 0, 1, n + 1, 1)
      <4>1. IsSpot(ir, 0, 1, n + 1) /\ Begin(ir, 0, 1, n + 1) = e
        BY <1>6, <3>1
      <4> QED BY <1>1, <1>2, <4>1, StartOfSpot
    <3>3. AbsStack' = <<Act4(0, 1, n + 1, << >>)>>
      BY <1>1, <3>2, MappingNext, StackInit
    <3>4. AbsAnswer' = NotGiven
      BY <1>1, <3>2, MappingNext, AnswerBody
    <3>5. Earlier(ir, frame', n + 1)
      <4> HIDE DEF ir
      <4> QED BY <1>3, <1>5, EarlierTo
    <3>6. Initialising(ir, prog, frame', pc + 1, reg')
      BY <3>2, <3>5, ReadyFirst DEF Initialising
    <3> QED BY <3>1, <3>3, <3>4, <3>6
  <2>2. CASE ~(n < Len(ir.globals))
    <3>1. q.fn = 0 /\ q.block = 2 /\ q.next = 1 /\ n = Len(ir.globals)
      BY <1>3, <2>2
    <3>2. pc + 1 = prog.global_len
      <4>1. ~IsSpot(ir, 0, 2, 1)
        BY DEF IsSpot, IsBlock, BlockTotal
      <4> QED BY <1>1, <1>2, <1>6, <3>1, <4>1, CompiledFields
    <3>3. AbsStack' = <<Act4(0, 2, 1, << >>)>>
      BY <1>1, <3>2, MappingNext, StackDone
    <3>4. AbsAnswer' = NotGiven
      BY <1>1, <3>2, MappingNext, AnswerHeader
    <3>5. Declared(ir) \subseteq DOMAIN frame'[1].symbols
      BY <1>3, <1>5, <3>1 DEF Declared
    <3>6. Initialising(ir, prog, frame', pc + 1, reg')
      BY <3>2, <3>5 DEF Initialising
    <3> QED BY <3>1, <3>3, <3>4, <3>6
  <2> QED BY <2>1, <2>2
<1>11. IRM!Write(x, v, IRM!Advance(AbsStack))
  <2> DEFINE y == Act4(q.fn, q.block, q.next, << >>)
             s == IRM!Advance(AbsStack)
  <2>1. AbsStack' = Rewritten(AbsStack, 1, y)
    <3>1. \A a, c : Rewritten(<<a>>, 1, c) = <<c>>
      BY DEF Rewritten
    <3> HIDE DEF y, q
    <3> QED BY <1>9, <1>10, <3>1 DEF y
  <2>2. ~LocalTo(ir, 0, x.var)
    BY DEF LocalTo
  <2>3. s = Rewritten(AbsStack, 1, y)
    BY <1>8
  <2> HIDE DEF new, s, q
  <2>4. new = Put(LookupIn(frame, x.var), PathIn(frame, x.idx), v)
    BY DEF new
  <2>5. IRM!Write(x, v, s)
    BY <1>4, <1>7, <2>1, <2>2, <2>3, <2>4, WriteIs
  <2> QED BY <2>5 DEF s
<1>12. SoundNext
  BY <1>1, <1>4, <1>10, SoundHere DEF SoundNext
<1> QED BY <1>10, <1>11, <1>12 DEF Stores

(* The running function goes on at an instruction of its own. *)
GoesOn(f, b, n) == f # 0 /\ IsSpot(prog.source, f, b, n) /\ pc' = Begin(prog.source, f, b, n)

LEMMA MovesOn ==
  ASSUME Facts, NEW f, NEW b, NEW n, NEW l, Doing(f, b, n, l), NEW c, NEW m, GoesOn(f, c, m),
         UNCHANGED <<prog, mode>>, SameCalls(frame, frame'), Widened(frame, frame'), Clean(frame', reg'),
         \A k \in 2 .. Len(frame) - 1 : Assigned(frame'[k].symbols) = Assigned(frame[k].symbols)
  PROVE  /\ SoundNext
         /\ AbsAnswer' = IF Extent(prog.source, f, c, m) = 1 /\ IRInsts(prog.source, f, c)[m].tag = "ASSIGN"
                              /\ IsCall(IRInsts(prog.source, f, c)[m].src)
                           THEN Given(reg'[1]) ELSE NotGiven
         /\ AbsStack' = Rewritten(AbsStack, Len(frame) - 1, Act4(f, c, m, Assigned(frame'[Len(frame)].symbols)))
<1> DEFINE ir == prog.source
           t == Len(frame)
<1>1. /\ Compiles(ir, prog) /\ FramesOK(frame) /\ f # 0 /\ AtSpot(ir, pc, f, b, n, l) /\ mode = "MAIN"
      /\ Scoped(ir, frame, f) /\ ScopesOK(ir, prog, frame, pc) /\ prog' = prog /\ mode' = mode
      /\ IsSpot(ir, f, c, m) /\ pc' = Begin(ir, f, c, m) /\ t >= 2
  BY DEF Facts, Doing, GoesOn, Scoped
<1>2. AtSpot(ir, pc', f, c, m, 1)
  BY <1>1, StartOfSpot
<1>3. Full(ir, f, frame[t].symbols) /\ Declared(ir) \subseteq DOMAIN frame[1].symbols /\ Len(frame') = t
  BY <1>1 DEF Scoped, ScopesOK, SameCalls
<1>4. Full(ir, f, frame'[t].symbols)
  BY <1>1, <1>3, WidenedKeeps
<1>5. ScopesOK(ir, prog, frame', pc')
  <2>1. prog.layout[pc'].fn = prog.layout[pc].fn
    BY <1>1, <1>2, SpotFacts
  <2> QED BY <1>1, <2>1, ScopesMove
<1>6. InBody(ir, frame', pc', reg', f, c, m, 1)
  BY <1>1, <1>2, <1>3, <1>4, ReadyFirst DEF InBody
<1>7. Executing(ir, prog, frame', pc', reg')
  BY <1>5, <1>6 DEF Executing
<1>8. SoundNext
  BY <1>1, <1>7, SoundHere DEF SoundNext
<1>9. AbsStack' = Rewritten(AbsStack, t - 1, Act4(f, c, m, Assigned(frame'[t].symbols)))
  BY <1>1, <1>2, MappingIs, MappingNext, StackMoves
<1>10. AbsAnswer' = AnswerOf(prog, pc', reg')
  BY <1>1, MappingNext
<1>11. AnswerOf(prog, pc', reg') =
         IF Extent(prog.source, f, c, m) = 1 /\ IRInsts(prog.source, f, c)[m].tag = "ASSIGN"
            /\ IsCall(IRInsts(prog.source, f, c)[m].src)
           THEN Given(reg'[1]) ELSE NotGiven
  <2> DEFINE x == IRInsts(prog.source, f, c)[m]
             e == Extent(prog.source, f, c, m)
  <2>1. AnswerOf(prog, pc', reg') = IF f # 0 /\ 1 = e /\ x.tag = "ASSIGN" /\ IsCall(x.src)
                                      THEN Given(reg'[1]) ELSE NotGiven
    BY <1>1, <1>2, AnswerBody
  <2> HIDE DEF x, e
  <2>2. f # 0 /\ 1 = e /\ x.tag = "ASSIGN" /\ IsCall(x.src) <=> e = 1 /\ x.tag = "ASSIGN" /\ IsCall(x.src)
    BY <1>1
  <2>3. AnswerOf(prog, pc', reg') = IF e = 1 /\ x.tag = "ASSIGN" /\ IsCall(x.src)
                                      THEN Given(reg'[1]) ELSE NotGiven
    BY <2>1, <2>2
  <2> QED BY <2>3 DEF x, e
<1> QED BY <1>8, <1>9, <1>10, <1>11

(* A call's code has at least two instructions, so none of them is its     *)
(* first and its last.                                                     *)
LEMMA CallsAreLong ==
  ASSUME NEW ir, NEW p, Compiles(ir, p), NEW f, NEW b, NEW n, IsSpot(ir, f, b, n),
         NEW x, x = IRInsts(ir, f, b)[n], x.tag = "ASSIGN", IsCall(x.src)
  PROVE  Calling(x) /\ Extent(ir, f, b, n) # 1 /\ f # 0
<1>1. MeantIn(ir, f, x)
  BY Classified
<1>2. Calling(x) /\ f # 0
  <2>1. Operates(x) \/ Inverts(x) \/ Sets(x) \/ Moves(x) \/ Builds(x) \/ Calling(x)
    BY <1>1 DEF MeantIn, Returns, Branches
  <2> QED BY <1>1, <2>1, AssignOnly DEF MeantIn
<1>3. Extent(ir, f, b, n) # 1
  <2> DEFINE w == Len(x.src.args)
  <2>1. w \in Nat /\ Len(genInst(x)) = w + 2
    BY <1>2, CallingCode
  <2> HIDE DEF w
  <2> QED BY <2>1 DEF Extent
<1> QED BY <1>2, <1>3

LEMMA GoesQuietly ==
  ASSUME Facts, NEW f, NEW b, NEW n, NEW l, Doing(f, b, n, l), NEW c, NEW m, GoesOn(f, c, m),
         UNCHANGED <<prog, mode>>, SameCalls(frame, frame'), Widened(frame, frame'), Clean(frame', reg'),
         \A k \in 2 .. Len(frame) - 1 : Assigned(frame'[k].symbols) = Assigned(frame[k].symbols)
  PROVE  /\ SoundNext /\ AbsAnswer' = NotGiven
         /\ AbsStack' = Rewritten(AbsStack, Len(frame) - 1, Act4(f, c, m, Assigned(frame'[Len(frame)].symbols)))
<1> DEFINE x == IRInsts(prog.source, f, c)[m]
           e == Extent(prog.source, f, c, m)
<1>1. Compiles(prog.source, prog) /\ IsSpot(prog.source, f, c, m)
  BY DEF Facts, GoesOn
<1>2. ~(e = 1 /\ x.tag = "ASSIGN" /\ IsCall(x.src))
  BY <1>1, CallsAreLong
<1>3. /\ SoundNext
      /\ AbsAnswer' = IF e = 1 /\ x.tag = "ASSIGN" /\ IsCall(x.src) THEN Given(reg'[1]) ELSE NotGiven
      /\ AbsStack' = Rewritten(AbsStack, Len(frame) - 1, Act4(f, c, m, Assigned(frame'[Len(frame)].symbols)))
  BY MovesOn
<1> HIDE DEF x, e
<1> QED BY <1>2, <1>3

LEMMA StoredClean ==
  ASSUME FramesOK(frame), Clean(frame, reg), NEW x, NEW v, v # Bad, Stored(x, v)
  PROVE  Clean(frame', reg) /\ SameCalls(frame, frame') /\ Widened(frame, frame')
BY ChangedClean DEF Stored

(* A store changes the scope of its variable only. *)
LEMMA StoredScopes ==
  ASSUME Facts, NEW f, f # 0, NEW b, NEW n, NEW l, Doing(f, b, n, l), NEW x, NEW v, Stored(x, v),
         NEW scope, scope = Assigned(frame[Len(frame)].symbols),
         NEW new, new = Put(LookupIn(frame, x.var), PathIn(frame, x.idx), v)
  PROVE  /\ \A k \in 2 .. Len(frame) - 1 : Assigned(frame'[k].symbols) = Assigned(frame[k].symbols)
         /\ Assigned(frame'[Len(frame)].symbols) =
              IF LocalTo(prog.source, f, x.var) THEN Rebound(scope, x.var, new) ELSE scope
<1> DEFINE ir == prog.source
           t == Len(frame)
<1>1. FramesOK(frame) /\ Scoped(ir, frame, f) /\ t >= 2 /\ Changed(frame, frame', x.var, new)
  BY DEF Facts, Doing, Scoped, Stored
<1>2. \A k \in 1 .. t : Assigned(frame'[k].symbols) =
        IF k = HomeIn(frame, x.var) THEN Rebound(Assigned(frame[k].symbols), x.var, new)
                                    ELSE Assigned(frame[k].symbols)
  BY <1>1, ChangedScopes
<1>3. t \in Nat /\ HomeIn(frame, x.var) = IF LocalTo(ir, f, x.var) THEN t ELSE 1
  BY <1>1, HomeOf, TopIn
<1>4. scope = Assigned(frame[t].symbols)
  OBVIOUS
<1>5. \A k \in 2 .. t - 1 : Assigned(frame'[k].symbols) = Assigned(frame[k].symbols)
  <2> HIDE DEF t
  <2> SUFFICES ASSUME NEW k \in 2 .. t - 1 PROVE Assigned(frame'[k].symbols) = Assigned(frame[k].symbols)
    OBVIOUS
  <2>1. k \in 1 .. t /\ k # 1 /\ k # t
    BY <1>3
  <2>2. k # HomeIn(frame, x.var)
    BY <1>3, <2>1
  <2> QED BY <1>2, <2>1, <2>2
<1>6. Assigned(frame'[t].symbols) = IF LocalTo(ir, f, x.var) THEN Rebound(scope, x.var, new) ELSE scope
  <2> HIDE DEF t
  <2>1. t \in 1 .. t /\ t # 1
    BY <1>1, <1>3
  <2>2. CASE LocalTo(ir, f, x.var)
    BY <1>2, <1>3, <1>4, <2>1, <2>2
  <2>3. CASE ~LocalTo(ir, f, x.var)
    BY <1>2, <1>3, <1>4, <2>1, <2>3
  <2> QED BY <2>2, <2>3
<1> QED BY <1>5, <1>6

LEMMA StoredWrites ==
  ASSUME Facts, NEW f, f # 0, NEW b, NEW n, NEW l, Doing(f, b, n, l), NEW x, NEW v, Stored(x, v),
         NEW d, d = Len(frame) - 1, NEW scope, scope = Assigned(frame[Len(frame)].symbols), NEW c, NEW m,
         AbsStack' = Rewritten(AbsStack, d, Act4(f, c, m, Assigned(frame'[Len(frame)].symbols))),
         NEW s, s = Rewritten(AbsStack, d, Act4(f, c, m, scope))
  PROVE  IRM!Write(x, v, s)
<1> DEFINE new == Put(LookupIn(frame, x.var), PathIn(frame, x.idx), v)
           after == IF LocalTo(prog.source, f, x.var) THEN Rebound(scope, x.var, new) ELSE scope
           y == Act4(f, c, m, scope)
<1>1. Changed(frame, frame', x.var, new)
  BY DEF Stored
<1>2. InStep(d, f, b, n, scope)
  <2>1. InStep(Deep(frame, f), f, b, n, Running4(frame, f))
    BY DoingRuns
  <2>2. Deep(frame, f) = d /\ Running4(frame, f) = scope
    BY DEF Deep, Running4
  <2> QED BY <2>1, <2>2
<1>3. Assigned(frame'[Len(frame)].symbols) = after
  <2>1. new = Put(LookupIn(frame, x.var), PathIn(frame, x.idx), v)
    OBVIOUS
  <2> HIDE DEF new
  <2> QED BY <2>1, StoredScopes
<1>4. /\ AbsStack' = Rewritten(AbsStack, d, Act4(f, c, m, after)) /\ s = Rewritten(AbsStack, d, y)
  BY <1>3
<1> HIDE DEF new, after
<1>5. y = Act4(f, c, m, scope) /\ new = Put(LookupIn(frame, x.var), PathIn(frame, x.idx), v)
  BY DEF new
<1>6. after = IF LocalTo(prog.source, f, x.var) THEN Rebound(scope, x.var, new) ELSE scope
  BY DEF after
<1> HIDE DEF y
<1> QED BY <1>1, <1>2, <1>4, <1>5, <1>6, WriteIs

LEMMA FinalBody ==
  ASSUME Facts, NEW f, f # 0, NEW b, NEW n, NEW l, Doing(f, b, n, l), l = LastOf(f, b, n),
         NEW x, x = IRInsts(prog.source, f, b)[n].dest, IRInsts(prog.source, f, b)[n].tag = "ASSIGN",
         pc' = pc + 1, UNCHANGED <<prog, mode, reg, out>>, NEW v, v # Bad, Stored(x, v)
  PROVE  Stores(x, v)
<1> DEFINE ir == prog.source
           d == Len(frame) - 1
           q == PosAfter(ir, f, b, n + 1)
           e == Begin(ir, f, b, n) + Extent(ir, f, b, n)
           scope == Assigned(frame[Len(frame)].symbols)
           s == IRM!Advance(AbsStack)
<1>1. /\ Compiles(ir, prog) /\ FramesOK(frame) /\ Clean(frame, reg)
  BY DEF Facts
<1>2. e = pc + 1 /\ IsSpot(ir, f, b, n)
  BY AfterLast
<1>3. Clean(frame', reg') /\ SameCalls(frame, frame') /\ Widened(frame, frame')
  BY <1>1, StoredClean
<1>4. q.fn = f /\ GoesOn(f, q.block, q.next)
  <2>1. WellFormedIR(ir) /\ IRInsts(ir, f, b)[n].tag \notin Leaving
    BY <1>1, CompiledFields DEF Leaving
  <2>2. \/ /\ q = [fn |-> f, block |-> q.block, next |-> q.next]
           /\ IsSpot(ir, f, q.block, q.next) /\ Begin(ir, f, q.block, q.next) = e
        \/ f = 0 /\ q = [fn |-> 0, block |-> 2, next |-> 1] /\ e = Link(ir).global_len
    BY <1>2, <2>1, NextSpot
  <2> HIDE DEF q, e
  <2>3. q = [fn |-> f, block |-> q.block, next |-> q.next] /\ IsSpot(ir, f, q.block, q.next) /\ pc' = Begin(ir, f, q.block, q.next)
    BY <1>2, <2>2
  <2>4. q.fn = f
    BY <2>3
  <2> QED BY <2>3, <2>4 DEF GoesOn
<1>5. \A k \in 2 .. Len(frame) - 1 : Assigned(frame'[k].symbols) = Assigned(frame[k].symbols)
  BY StoredScopes
<1>6. /\ SoundNext /\ AbsAnswer' = NotGiven
      /\ AbsStack' = Rewritten(AbsStack, d, Act4(f, q.block, q.next, Assigned(frame'[Len(frame)].symbols)))
  <2> HIDE DEF q
  <2> QED BY <1>3, <1>4, <1>5, GoesQuietly
<1>7. s = Rewritten(AbsStack, d, Act4(f, q.block, q.next, scope))
  <2>1. InStep(Deep(frame, f), f, b, n, Running4(frame, f)) /\ BlockTotal(ir, f) \in Nat
    BY DoingRuns
  <2>2. Deep(frame, f) = d /\ Running4(frame, f) = scope
    BY DEF Deep, Running4
  <2>3. Runs(AbsStack, d, f, b, n, scope)
    BY <2>1, <2>2 DEF InStep
  <2> QED BY <1>2, <1>4, <2>1, <2>3, AdvanceIs
<1>8. IRM!Write(x, v, s)
  <2>1. d = Len(frame) - 1 /\ scope = Assigned(frame[Len(frame)].symbols)
    OBVIOUS
  <2> HIDE DEF q, s, d, scope
  <2> QED BY <1>6, <1>7, <2>1, StoredWrites
<1> QED BY <1>6, <1>8 DEF Stores

LEMMA Final ==
  ASSUME Facts, NEW f, NEW b, NEW n, NEW l, Doing(f, b, n, l), l = LastOf(f, b, n),
         NEW x, x = IRInsts(prog.source, f, b)[n].dest, IRInsts(prog.source, f, b)[n].tag = "ASSIGN",
         Straightly, UNCHANGED <<reg, out>>, NEW v, v # Bad, Stored(x, v)
  PROVE  Stores(x, v) /\ (prog.source)' = prog.source /\ out' = out /\ status' = status
<1>1. CASE f = 0
  BY <1>1, FinalInit DEF Straightly
<1>2. CASE f # 0
  BY <1>2, FinalBody DEF Straightly
<1> QED BY <1>1, <1>2

(* The initialisers' code mentions the global variables only. *)
LEMMA TableNames ==
  ASSUME NEW ir, NEW p, Compiles(ir, p)
  PROVE  GlobalNames(p) \subseteq Declared(ir)
<1> SUFFICES ASSUME NEW i \in 0 .. p.global_len - 1, NEW name \in Mentioned(p.code[i])
             PROVE  name \in Declared(ir)
  BY DEF GlobalNames
<1>1. i \in 0 .. p.size - 1 /\ i < p.global_len
  <2>1. p.global_len \in Nat /\ p.size \in Nat /\ p.global_len \in 0 .. p.size - 1
    BY CompiledWell
  <2> QED BY <2>1
<1>2. ~(\E f, k : AtHeader(ir, i, f, k))
  BY <1>1, HeaderFacts
<1>3. PICK f, b, n, l : AtSpot(ir, i, f, b, n, l)
  BY <1>1, <1>2, SpotOrHeader
<1>4. f = 0 /\ IsSpot(ir, 0, b, n) /\ l \in 1 .. Len(genInst(IRInsts(ir, f, b)[n]))
  BY <1>1, <1>3, SpotFacts DEF AtSpot
<1>5. n \in DOMAIN ir.globals /\ IRInsts(ir, f, b) = ir.globals
  <2>1. IRInsts(ir, f, b) = ir.globals
    BY <1>4 DEF IRInsts
  <2> QED BY <1>4, <2>1, GlobalsAre DEF IsSpot
<1> DEFINE code == genInst(ir.globals[n])
<1>6. l \in DOMAIN code /\ Mentioned(code[l]) \subseteq Declared(ir)
  <2>1. InitialiserMeant(ir, ir.globals[n])
    BY <1>5, CompiledFields DEF Meant
  <2>2. Len(code) \in Nat /\ DOMAIN code = 1 .. Len(code)
    BY <1>3, <1>5, SpotFacts DEF GoodCode, IsVector
  <2> QED BY <1>4, <1>5, <2>1, <2>2 DEF InitialiserMeant
<1>7. p.code[i].op = code[l].op /\ (code[l].op \notin {"JMP", "JIF", "CALL"} => p.code[i] = code[l])
  BY <1>3, <1>5, SpotInst
<1>8. Mentioned(p.code[i]) = Mentioned(code[l])
  <2> HIDE DEF code
  <2>1. CASE code[l].op \in {"JMP", "JIF", "CALL"}
    <3>1. \A x : x.op \in {"JMP", "JIF", "CALL"} => Mentioned(x) = {}
      BY DEF Mentioned, StoreConst
    <3> QED BY <1>7, <2>1, <3>1
  <2>2. CASE code[l].op \notin {"JMP", "JIF", "CALL"}
    BY <1>7, <2>2
  <2> QED BY <2>1, <2>2
<1> HIDE DEF code
<1> QED BY <1>6, <1>8

-----------------------------------------------------------------------------
(* A turn, and the invariant *)

(* What VMProofs keeps, and Sound.                                         *)
Invariant == TypeOK /\ CallProtocol /\ (NoReturnInMain(prog) => GlobalTable) /\ Sound1

Heading(f, k) ==
  /\ mode = "MAIN" /\ Linked(prog, frame, pc) /\ ScopesOK(prog.source, prog, frame, pc)
  /\ InHeader(prog.source, prog, frame, pc, f, k) /\ DOMAIN frame[1].symbols = Declared(prog.source)

(* What is compiled is well linked, so that ProgramsCompiled implies       *)
(* ProgramsLinked.                                                         *)
LEMMA CompiledLinked ==
  ASSUME NEW ir, WellFormedIR(ir)
  PROVE  WellLinked(Compiled(ir))
<1> DEFINE p == Link(ir)
           q == Compiled(ir)
<1>1. q.code = p.code /\ q.size = p.size /\ q.entry = p.entry /\ q.entry_end = p.entry_end
      /\ q.global_len = p.global_len
  BY DEF Compiled
<1>2. WellLinked(p)
  BY LinkWell
<1> HIDE DEF p, q
<1>3. /\ \A i : OpAt(q, i) = OpAt(p, i) /\ FuncOf(q, i) = FuncOf(p, i)
      /\ \A f, i : Heads(q, f, i) = Heads(p, f, i) /\ Takes(q, f, i) = Takes(p, f, i)
      /\ \A f : Arity(q, f) = Arity(p, f)
  BY <1>1 DEF OpAt, FuncOf, Heads, Takes, Arity
<1>4. \A f, i : Body(q, f, i) = Body(p, f, i)
  BY <1>1, <1>3 DEF Body
<1>5. WellFormed(q) /\ GlobalsOK(q)
  BY <1>1, <1>2, <1>3 DEF WellLinked, WellFormed, GlobalsOK
<1>6. FunctionsOK(q)
  BY <1>1, <1>2, <1>3 DEF WellLinked, FunctionsOK
<1>7. FlowOK(q)
  BY <1>1, <1>2, <1>3, <1>4 DEF WellLinked, FlowOK
<1>8. CallsOK(q)
  BY <1>1, <1>2, <1>3 DEF WellLinked, CallsOK
<1>9. WellLinked(q)
  BY <1>5, <1>6, <1>7, <1>8 DEF WellLinked
<1> QED BY <1>9 DEF q

LEMMA LoadedCompiles ==
  ASSUME prog \in Programs
  PROVE  Compiles(prog.source, prog)
BY ProgramsCompiled, CompiledLinked DEF Compiles

LEMMA HereFacts ==
  ASSUME Invariant, status = "running"
  PROVE  Facts
BY LoadedCompiles DEF Invariant, TypeOK, Sound1, Sound, Facts

LEMMA TableIs ==
  ASSUME Invariant, mode = "MAIN"
  PROVE  /\ Linked(prog, frame, pc) /\ Executing(prog.source, prog, frame, pc, reg)
         /\ DOMAIN frame[1].symbols = Declared(prog.source)
<1>1. Compiles(prog.source, prog) /\ NoReturnInMain(prog)
  BY LoadedCompiles, NoReturn DEF Invariant, TypeOK
<1>2. Linked(prog, frame, pc) /\ GlobalTable
  BY <1>1 DEF Invariant, CallProtocol
<1>3. Executing(prog.source, prog, frame, pc, reg)
  BY DEF Invariant, Sound1, Sound
<1> QED BY <1>1, <1>2, <1>3, TableNames DEF GlobalTable, Executing, ScopesOK

LEMMA Context ==
  ASSUME Invariant, status = "running", ~AtMain
  PROVE  /\ Facts
         /\ \/ \E f, b, n, l : Doing(f, b, n, l)
            \/ \E f, k : Heading(f, k)
<1> DEFINE ir == prog.source
<1>1. Facts /\ Compiles(ir, prog) /\ FramesOK(frame) /\ mode \in {"INIT", "MAIN"} /\ NoReturnInMain(prog)
  BY HereFacts, NoReturn DEF Facts, Invariant, TypeOK
<1>2. CASE mode = "INIT"
  <2>1. Len(frame) = 1 /\ pc # prog.global_len
    BY <1>1, <1>2 DEF Invariant, CallProtocol, AtMain, Top
  <2>2. Initialising(ir, prog, frame, pc, reg)
    BY <1>2 DEF Invariant, Sound1, Sound
  <2>3. PICK n, l : AtSpot(ir, pc, 0, 1, n, l) /\ Ready(ir.globals[n], l, reg, frame) /\ Earlier(ir, frame, n)
    BY <2>1, <2>2 DEF Initialising
  <2>4. IRInsts(ir, 0, 1) = ir.globals /\ Scoped(ir, frame, 0)
    BY <2>1 DEF IRInsts, Scoped
  <2>5. Doing(0, 1, n, l)
    BY <1>2, <2>3, <2>4 DEF Doing
  <2> QED BY <1>1, <2>5
<1>3. CASE mode = "MAIN"
  <2>1. /\ Linked(prog, frame, pc) /\ Executing(ir, prog, frame, pc, reg)
        /\ DOMAIN frame[1].symbols = Declared(ir)
    BY <1>3, TableIs
  <2>2. ScopesOK(ir, prog, frame, pc) /\ Len(frame) >= 2
    BY <2>1 DEF Executing, Linked
  <2>3. CASE \E f, k : InHeader(ir, prog, frame, pc, f, k)
    BY <1>1, <1>3, <2>1, <2>2, <2>3 DEF Heading
  <2>4. CASE \E f, b, n, l : InBody(ir, frame, pc, reg, f, b, n, l)
    <3>1. PICK f, b, n, l : InBody(ir, frame, pc, reg, f, b, n, l)
      BY <2>4
    <3>2. /\ f # 0 /\ AtSpot(ir, pc, f, b, n, l) /\ Full(ir, f, frame[Len(frame)].symbols)
          /\ Ready(IRInsts(ir, f, b)[n], l, reg, frame)
      BY <3>1 DEF InBody
    <3>3. prog.layout[pc].fn = f
      BY <1>1, <3>2, SpotFacts
    <3>4. Spot(frame, pc, Len(frame)) = pc /\ Len(frame) \in 2 .. Len(frame)
      <4>1. Len(frame) \in Nat
        BY <1>1, TopIn
      <4> QED BY <2>2, <4>1 DEF Spot
    <3>5. ScopeOK(ir, f, frame[Len(frame)].symbols)
      BY <2>2, <3>3, <3>4 DEF ScopesOK
    <3>6. Scoped(ir, frame, f)
      BY <2>1, <2>2, <3>2, <3>5 DEF Scoped
    <3>7. Doing(f, b, n, l)
      BY <1>3, <2>1, <2>2, <3>2, <3>6 DEF Doing
    <3> QED BY <1>1, <3>7
  <2> QED BY <2>1, <2>3, <2>4 DEF Executing
<1> QED BY <1>1, <1>2, <1>3

(* What a turn with a fetched instruction is, by its opcode. *)
Turns(op) ==
  \/ op \in ArithOps \cup CompareOps \cup LogicOps /\ Binary
  \/ op \in UnaryOps /\ Unary
  \/ op \in LoadConst /\ Load
  \/ op = "LOADX" /\ LoadX
  \/ op = "LOADXA" /\ LoadXA
  \/ op \in StoreConst /\ Store
  \/ op = "STOREA" /\ StoreA
  \/ op = "STOREX" /\ StoreX
  \/ op \in {"FUNC", "ARG"} /\ Pass
  \/ op = "CALL" /\ (Call \/ Builtins)
  \/ op = "PARAM" /\ Param
  \/ op = "RET" /\ Ret
  \/ op = "JMP" /\ Jmp
  \/ op = "JIF" /\ Jif

LEMMA Turn ==
  ASSUME Next, Fetched
  PROVE  Abort \/ Turns(Inst.op)
<1>1. ~StartMain /\ ~Halt /\ ~Terminated
  BY DEF Fetched, StartMain, Halt, Terminated
<1>2. Binary => Inst.op \in ArithOps \cup CompareOps \cup LogicOps
  BY DEF Binary, Fetch
<1>3. (Unary => Inst.op \in UnaryOps) /\ (Load => Inst.op \in LoadConst) /\ (Store => Inst.op \in StoreConst)
  BY DEF Unary, Load, Store, Fetch
<1>4. /\ (LoadX => Inst.op = "LOADX") /\ (LoadXA => Inst.op = "LOADXA") /\ (StoreA => Inst.op = "STOREA")
      /\ (StoreX => Inst.op = "STOREX") /\ (Pass => Inst.op \in {"FUNC", "ARG"})
  BY DEF LoadX, LoadXA, StoreA, StoreX, Pass, Fetch
<1>5. (Call \/ Builtins) => Inst.op = "CALL"
  BY DEF Call, Builtins, CallPrint, CallRead, CallConvert, CallLength, CallBuiltin, Fetch
<1>6. /\ (Param => Inst.op = "PARAM") /\ (Ret => Inst.op = "RET") /\ (Jmp => Inst.op = "JMP")
      /\ (Jif => Inst.op = "JIF")
  BY DEF Param, Ret, Jmp, Jif, Fetch
<1> QED BY <1>1, <1>2, <1>3, <1>4, <1>5, <1>6 DEF Next, Turns, Builtins

(* A turn simulated: the strengthened invariant again, and a step of the   *)
(* abstract machine or none.                                               *)
Simulated == SoundNext /\ (IRM!Next \/ UNCHANGED IRM!vars)

LEMMA Aborts ==
  ASSUME Abort, Sound1, IRM!Fails
  PROVE  Simulated
<1>1. UNCHANGED <<prog, reg, frame, pc, mode, out>> /\ status' = "aborted"
  BY DEF Abort
<1>2. SoundNext
  BY <1>1 DEF Sound1, SoundNext
<1>3. AbsStack' = AbsStack /\ AbsAnswer' = AbsAnswer
  BY <1>1, MappingIs, MappingNext
<1>4. (prog.source)' = prog.source /\ (Assigned(frame[1].symbols))' = Assigned(frame[1].symbols)
  <2>1. (Assigned(frame[1].symbols))' = Assigned(frame'[1].symbols)
    BY Zenon DEF Assigned
  <2> QED BY <1>1, <2>1
<1>5. IRM!Fail
  BY <1>1, <1>3, <1>4 DEF IRM!Fail
<1> QED BY <1>2, <1>5 DEF Simulated, IRM!Next

LEMMA Computes ==
  ASSUME SoundNext, IRM!Next
  PROVE  Simulated
BY DEF Simulated

LEMMA Stutters ==
  ASSUME SoundNext, UNCHANGED IRM!vars
  PROVE  Simulated
BY DEF Simulated

-----------------------------------------------------------------------------
(* Assignments *)

(* What a turn at a load does. *)
Loads(r, x) ==
  \/ Abort /\ ValueIn(frame, x) = Bad
  \/ /\ Straightly /\ UNCHANGED out /\ Grown(frame, frame') /\ ValueIn(frame, x) # Bad
     /\ reg' = [reg EXCEPT ![r] = ValueIn(frame, x)]

LEMMA LoadTurn ==
  ASSUME Facts, Next, Fetched, NEW r \in Reg, NEW x, Simple(x), Inst = LoadOf(r, x)
  PROVE  Loads(r, x)
<1>1. FramesOK(frame)
  BY DEF Facts
<1>2. CASE IsVar(x)
  <2>1. Inst = genLoadX(r, x)
    BY <1>2 DEF LoadOf
  <2>2. Inst.op = "LOADX" /\ Inst.name = x.var /\ Inst.idx = x.idx /\ Inst.reg = r
    BY <2>1 DEF genLoadX
  <2>3. Element(Inst.name, Inst.idx) = ValueIn(frame, x)
    BY <1>2, <2>2, LookupHere DEF ValueIn
  <2>4. Fault(Inst) <=> ValueIn(frame, x) = Bad
    BY <2>2, <2>3 DEF Fault, ArithOps, LogicOps, CompareOps, UnaryOps
  <2>5. Abort \/ LoadX
    BY <2>2, Turn DEF Turns, ArithOps, LogicOps, CompareOps, UnaryOps, LoadConst, StoreConst
  <2>6. CASE Abort
    BY <2>4, <2>6 DEF Abort, Loads
  <2>7. CASE LoadX
    <3>1. ~Fault(Inst) /\ reg' = [reg EXCEPT ![r] = Element(Inst.name, Inst.idx)]
          /\ frame' = Declare(Touched(Inst.name, Inst.idx)) /\ Straightly /\ UNCHANGED out
      BY <2>2, <2>7 DEF LoadX, Fetch, Step, Straightly
    <3>2. Grown(frame, frame')
      BY <1>1, <3>1, DeclareGrows
    <3> QED BY <2>3, <2>4, <3>1, <3>2 DEF Loads
  <2> QED BY <2>5, <2>6, <2>7
<1>3. CASE ~IsVar(x)
  <2>1. (IsInt(x.const) \/ IsStr(x.const)) /\ ValueIn(frame, x) = x.const
    BY <1>3 DEF Simple, ValueIn
  <2>2. x.const # Bad
    BY <2>1 DEF IsInt, IsStr, Bad
  <2>3. Inst.op \in {"LOADI", "LOADS"} /\ Inst.reg = r /\ Inst.val = x.const
    BY <1>3 DEF LoadOf
  <2>4. ~Fault(Inst)
    BY <2>3 DEF Fault, ArithOps, LogicOps, CompareOps, UnaryOps
  <2>5. Load
    BY <2>3, <2>4, Turn DEF Turns, ArithOps, LogicOps, CompareOps, UnaryOps, LoadConst, StoreConst, Abort
  <2>6. reg' = [reg EXCEPT ![r] = x.const] /\ frame' = frame /\ Straightly /\ UNCHANGED out
    BY <2>3, <2>5 DEF Load, Step, Straightly
  <2> QED BY <1>1, <2>1, <2>2, <2>6, Unchanged DEF Loads
<1> QED BY <1>2, <1>3

(* A turn at the l-th instruction of the code of IR instruction x. *)
At(f, b, n, l, x) ==
  Facts /\ Sound1 /\ Next /\ Fetched /\ Doing(f, b, n, l) /\ x = IRInsts(prog.source, f, b)[n]

LEMMA AtInst ==
  ASSUME NEW f, NEW b, NEW n, NEW l, NEW x, At(f, b, n, l, x), NEW s, s = genInst(x)
  PROVE  /\ Inst.op = s[l].op
         /\ s[l].op \notin {"JMP", "JIF", "CALL"} => Inst = s[l]
         /\ Relocated(ir2VmInst(prog.source), x, s, l, Inst)
         /\ LastOf(f, b, n) = Len(s) /\ MeantIn(prog.source, f, x) /\ l \in 1 .. Len(s) /\ Len(s) \in Nat
<1>1. AtSpot(prog.source, pc, f, b, n, l) /\ Compiles(prog.source, prog) /\ x = IRInsts(prog.source, f, b)[n]
  BY DEF At, Doing, Facts
<1>2. Inst = prog.code[pc]
  BY DEF Inst
<1>3. l \in 1 .. Len(s) /\ Len(s) \in Nat
  BY <1>1, SpotFacts
<1> QED BY <1>1, <1>2, <1>3, SpotInst DEF LastOf

LEMMA AtRuns ==
  ASSUME NEW f, NEW b, NEW n, NEW l, NEW x, At(f, b, n, l, x)
  PROVE  /\ IRM!Inst = x /\ \A tag : IRM!Executes(tag) <=> x.tag = tag
         /\ \A y : IRM!Element(y) = ElementIn(frame, y) /\ IRM!Operand(y) = ValueIn(frame, y)
         /\ InStep(Deep(frame, f), f, b, n, Running4(frame, f))
<1>1. Facts /\ Doing(f, b, n, l) /\ x = IRInsts(prog.source, f, b)[n] /\ status = "running"
  BY DEF At, Facts
<1>2. InStep(Deep(frame, f), f, b, n, Running4(frame, f)) /\ ~IRM!AtEnd /\ IRM!Inst = x
  BY <1>1, DoingRuns
<1> QED BY <1>1, <1>2, OperandIs DEF IRM!Executes

LEMMA AtAnswer ==
  ASSUME NEW f, NEW b, NEW n, NEW l, NEW x, At(f, b, n, l, x)
  PROVE  AbsAnswer = IF f # 0 /\ l = LastOf(f, b, n) /\ x.tag = "ASSIGN" /\ IsCall(x.src)
                       THEN Given(reg[1]) ELSE NotGiven
BY AnswerBody, MappingIs DEF At, Doing, Facts, LastOf

(* A load or an operation inside the code of one IR instruction. *)
LEMMA LoadInside ==
  ASSUME NEW f, NEW b, NEW n, NEW l, NEW x, At(f, b, n, l, x), l < LastOf(f, b, n),
         NEW r \in Reg, NEW y, Loads(r, y), ~(x.tag = "ASSIGN" /\ IsCall(x.src)),
         ValueIn(frame, y) = Bad => IRM!Fails,
         Grown(frame, frame') /\ reg' = [reg EXCEPT ![r] = ValueIn(frame, y)] => Ready(x, l + 1, reg', frame')
  PROVE  Simulated
<1>1. /\ Facts /\ Sound1 /\ Doing(f, b, n, l) /\ x = IRInsts(prog.source, f, b)[n] /\ DOMAIN reg = Reg
      /\ l < Extent(prog.source, f, b, n) /\ \A q \in Reg : reg[q] # Bad
  BY DEF At, LastOf, Facts, Clean
<1>2. CASE Abort /\ ValueIn(frame, y) = Bad
  BY <1>1, <1>2, Aborts
<1>3. CASE /\ Straightly /\ UNCHANGED out /\ Grown(frame, frame') /\ ValueIn(frame, y) # Bad
           /\ reg' = [reg EXCEPT ![r] = ValueIn(frame, y)]
  <2>1. \A q \in Reg : reg'[q] # Bad
    BY <1>1, <1>3
  <2>2. Ready(x, l + 1, reg', frame')
    BY <1>3
  <2>3. SoundNext /\ UNCHANGED IRM!vars
    BY <1>1, <1>3, <2>1, <2>2, Interior
  <2> QED BY <2>3, Stutters
<1> QED BY <1>2, <1>3 DEF Loads

StoreTurns(y, v) ==
  \/ Abort /\ ElementIn(frame, y) = Bad
  \/ ElementIn(frame, y) # Bad /\ Stored(y, v) /\ Straightly /\ UNCHANGED <<reg, out>>

LEMMA StoreTurn ==
  ASSUME Facts, Next, Fetched, NEW r \in Reg, NEW y, Inst = genStoreX(y, r)
  PROVE  StoreTurns(y, reg[r])
<1>1. FramesOK(frame)
  BY DEF Facts
<1>2. Inst.op = "STOREX" /\ Inst.name = y.var /\ Inst.idx = y.idx /\ Inst.reg = r
  BY DEF genStoreX
<1>3. Element(Inst.name, Inst.idx) = ElementIn(frame, y)
  BY <1>2, LookupHere
<1>4. Fault(Inst) <=> ElementIn(frame, y) = Bad
  BY <1>2, <1>3 DEF Fault, ArithOps, LogicOps, CompareOps, UnaryOps
<1>5. Abort \/ StoreX
  BY <1>2, Turn DEF Turns, ArithOps, LogicOps, CompareOps, UnaryOps, LoadConst, StoreConst
<1>6. CASE Abort
  BY <1>4, <1>6 DEF Abort, StoreTurns
<1>7. CASE StoreX
  <2>1. /\ ~Fault(Inst) /\ Straightly /\ UNCHANGED <<reg, out>>
        /\ frame' = Assign(y.var, y.idx, Put(Lookup(y.var), Path(y.idx), reg[r]))
    BY <1>2, <1>7 DEF StoreX, Fetch, Step, Straightly
  <2>2. Lookup(y.var) = LookupIn(frame, y.var) /\ Path(y.idx) = PathIn(frame, y.idx)
    BY LookupHere
  <2>3. Stored(y, reg[r])
    BY <1>1, <2>1, <2>2, AssignChanges DEF Stored
  <2> QED BY <1>4, <2>1, <2>3 DEF StoreTurns
<1> QED BY <1>5, <1>6, <1>7

(* The last turn of an assignment that is no call. *)
LEMMA ComputeTurn ==
  ASSUME NEW f, NEW b, NEW n, NEW l, NEW x, At(f, b, n, l, x), l = LastOf(f, b, n),
         x.tag = "ASSIGN", ~IsCall(x.src),
         NEW v, v # Bad, v = IRM!Expression(x.src), StoreTurns(x.dest, v)
  PROVE  Simulated
<1>1. /\ Facts /\ Sound1 /\ Doing(f, b, n, l) /\ x = IRInsts(prog.source, f, b)[n]
  BY DEF At
<1>2. /\ IRM!Inst = x /\ IRM!Executes("ASSIGN") /\ IRM!Element(x.dest) = ElementIn(frame, x.dest)
      /\ IRM!IsCall(x.src) = IsCall(x.src) /\ IRM!Bad = Bad /\ AbsAnswer = NotGiven
  BY AtRuns, AtAnswer, SameConstants
<1>3. CASE Abort /\ ElementIn(frame, x.dest) = Bad
  <2>1. IRM!Fails
    BY <1>2, <1>3 DEF IRM!Fails
  <2> QED BY <1>1, <1>3, <2>1, Aborts
<1>4. CASE ElementIn(frame, x.dest) # Bad /\ Stored(x.dest, v) /\ Straightly /\ UNCHANGED <<reg, out>>
  <2>1. Stores(x.dest, v) /\ (prog.source)' = prog.source /\ out' = out /\ status' = status
    BY <1>1, <1>4, Final
  <2>2. IRM!Write(x.dest, IRM!Expression(x.src), IRM!Advance(AbsStack)) /\ AbsAnswer' = AbsAnswer /\ SoundNext
    BY <1>2, <2>1 DEF Stores
  <2>3. IRM!Compute
    BY <1>2, <1>4, <2>1, <2>2 DEF IRM!Compute
  <2> QED BY <2>2, <2>3, Computes DEF IRM!Next
<1> QED BY <1>3, <1>4 DEF StoreTurns

OnlyKind(x, k) == \A j \in Kinds : j # k => j \notin DOMAIN x.src

(* Which kind an instruction is of excludes the others. *)
LEMMA OneKind ==
  ASSUME NEW x, NEW k \in Kinds, Kind(x, k)
  PROVE  /\ x.tag = "ASSIGN" /\ k \in DOMAIN x.src /\ OnlyKind(x, k)
         /\ \A j \in Kinds : j # k => ~Kind(x, j)
<1>1. DOMAIN x.src \cap Kinds = {k} /\ x.tag = "ASSIGN"
  BY DEF Kind
<1> QED BY <1>1 DEF Kind, OnlyKind

(* Readiness, by kind. *)
OperandsReady(x, l, rg, fs) ==
  /\ l \in {2, 3} => rg[1] = ValueIn(fs, x.src.lhs)
  /\ l = 3 => rg[2] = ValueIn(fs, x.src.rhs)
  /\ l = 4 => /\ ValueIn(fs, x.src.lhs) # Bad /\ ValueIn(fs, x.src.rhs) # Bad
              /\ rg[StoreReg(x.src)] = Result(x.src.binary, ValueIn(fs, x.src.lhs), ValueIn(fs, x.src.rhs))
InversionReady(x, l, rg, fs) ==
  /\ l = 2 => rg[1] = ValueIn(fs, x.src.rhs)
  /\ l = 3 => rg[1] = Negate("BNOT", ValueIn(fs, x.src.rhs))

LEMMA ReadyIs ==
  ASSUME NEW x, NEW l, NEW rg, NEW fs
  PROVE  /\ Operates(x) => (Ready(x, l, rg, fs) <=> OperandsReady(x, l, rg, fs))
         /\ Inverts(x) => (Ready(x, l, rg, fs) <=> InversionReady(x, l, rg, fs))
         /\ Sets(x) => Ready(x, l, rg, fs)
         /\ Moves(x) => (Ready(x, l, rg, fs) <=> (l = 2 => rg[1] = ValueIn(fs, x.src)))
         /\ Builds(x) => (Ready(x, l, rg, fs) <=> (l > 1 => rg[2] = Arr(Filled(genInst(x), x.src.array, l, fs))))
         /\ Calling(x) => (Ready(x, l, rg, fs) <=> l = 1 \/ l = Len(x.src.args) + 2)
         /\ Returns(x) => (Ready(x, l, rg, fs) <=> (x.ret # NoOperand /\ l = 2 => rg[1] = ValueIn(fs, x.ret)))
         /\ Branches(x) => (Ready(x, l, rg, fs) <=> (l = 2 => rg[0] = ValueIn(fs, x.cond)))
         /\ x.tag = "JMP" => Ready(x, l, rg, fs)
<1>1. \A k, j \in Kinds : Kind(x, k) /\ Kind(x, j) => k = j
  BY DEF Kind
<1>2. /\ "binary" \in Kinds /\ "const" \in Kinds /\ "var" \in Kinds /\ "array" \in Kinds /\ "call" \in Kinds
  BY DEF Kinds
<1>3. /\ Kind(x, "binary") => ~Kind(x, "const") /\ ~Kind(x, "var") /\ ~Kind(x, "array") /\ ~Kind(x, "call") /\ x.tag = "ASSIGN"
      /\ Kind(x, "const") => ~Kind(x, "var") /\ ~Kind(x, "array") /\ ~Kind(x, "call") /\ x.tag = "ASSIGN"
      /\ Kind(x, "var") => ~Kind(x, "array") /\ ~Kind(x, "call") /\ x.tag = "ASSIGN"
      /\ Kind(x, "array") => ~Kind(x, "call") /\ x.tag = "ASSIGN"
      /\ Kind(x, "call") => x.tag = "ASSIGN"
  BY <1>1, <1>2 DEF Kind
<1>4. /\ (Operates(x) => Kind(x, "binary") /\ ~Inverts(x)) /\ (Inverts(x) => Kind(x, "binary")) /\ (Moves(x) => Kind(x, "var"))
      /\ (Builds(x) => Kind(x, "array")) /\ (Calling(x) => Kind(x, "call")) /\ (Sets(x) => Kind(x, "const"))
      /\ (Returns(x) => x.tag = "RETURN") /\ (Branches(x) => x.tag = "BRANCH")
  BY DEF Operates, Inverts, Moves, Builds, Calling, Returns, Branches, Sets, Simple, IsVar, IsConst, NoOperand
<1> QED BY <1>3, <1>4 DEF Ready, OperandsReady, InversionReady

(* The two-operand instructions. *)
LEMMA OperandFails ==
  ASSUME NEW f, NEW b, NEW n, NEW l, NEW x, At(f, b, n, l, x), x.tag = "ASSIGN", ~IsCall(x.src),
         IRM!Expression(x.src) = Bad
  PROVE  IRM!Fails
BY AtRuns, SameConstants DEF IRM!Fails

LEMMA OperatesMeans ==
  ASSUME NEW f, NEW b, NEW n, NEW l, NEW x, At(f, b, n, l, x), Operates(x)
  PROVE  /\ IRM!Expression(x.src) =
              IRM!Apply(x.src.binary, ValueIn(frame, x.src.lhs), ValueIn(frame, x.src.rhs))
         /\ x.tag = "ASSIGN" /\ ~IsCall(x.src)
<1>1. Kind(x, "binary") /\ Simple(x.src.lhs)
  BY DEF Operates
<1>2. "binary" \in DOMAIN x.src /\ "call" \notin DOMAIN x.src /\ x.tag = "ASSIGN"
  BY <1>1, OneKind DEF Kinds, OnlyKind
<1>3. x.src.lhs # NoOperand
  BY <1>1 DEF Simple, IsVar, IsConst, NoOperand
<1>4. \A y : IRM!Operand(y) = ValueIn(frame, y)
  BY AtRuns
<1>5. IRM!Expression(x.src) = IRM!Apply(x.src.binary, IRM!Operand(x.src.lhs), IRM!Operand(x.src.rhs))
  <2>1. x.src.lhs # IRM!NoOperand
    BY <1>3, SameConstants
  <2>2. "array" \notin DOMAIN x.src
    BY <1>1, OneKind DEF Kinds, OnlyKind
  <2> QED BY <1>2, <2>1, <2>2 DEF IRM!Expression
<1> QED BY <1>2, <1>4, <1>5 DEF IsCall

LEMMA OperatesTurn ==
  ASSUME NEW f, NEW b, NEW n, NEW l, NEW x, At(f, b, n, l, x), Operates(x)
  PROVE  Simulated
<1> DEFINE u == ValueIn(frame, x.src.lhs)
           w == ValueIn(frame, x.src.rhs)
           op == x.src.binary
           res == Result(op, u, w)
           s == genInst(x)
<1>1. /\ Facts /\ Sound1 /\ Next /\ Fetched /\ Doing(f, b, n, l) /\ x = IRInsts(prog.source, f, b)[n]
      /\ Ready(x, l, reg, frame) /\ FramesOK(frame) /\ DOMAIN reg = Reg /\ \A q \in Reg : reg[q] # Bad
  BY DEF At, Facts, Clean, Doing
<1>2. /\ Operates(x) /\ op \in Selected /\ Simple(x.src.lhs) /\ Simple(x.src.rhs)
  BY DEF Operates
<1>3. /\ Len(s) = 4 /\ s[1] = LoadOf(1, x.src.lhs) /\ s[2] = LoadOf(2, x.src.rhs)
      /\ s[3] = Operation(x.src) /\ s[4] = genStoreX(x.dest, StoreReg(x.src))
  BY OperatesCode
<1>4. IRM!Expression(x.src) = IRM!Apply(op, u, w) /\ x.tag = "ASSIGN" /\ ~IsCall(x.src)
  BY OperatesMeans
<1>5. LastOf(f, b, n) = 4 /\ l \in 1 .. 4 /\ (s[l].op \notin {"JMP", "JIF", "CALL"} => Inst = s[l])
      /\ Inst.op = s[l].op
  <2>1. /\ LastOf(f, b, n) = Len(s) /\ l \in 1 .. Len(s)
        /\ (s[l].op \notin {"JMP", "JIF", "CALL"} => Inst = s[l]) /\ Inst.op = s[l].op
    BY AtInst
  <2> HIDE DEF s
  <2> QED BY <1>3, <2>1
<1>6. /\ l \in {2, 3} => reg[1] = u
      /\ l = 3 => reg[2] = w
      /\ l = 4 => u # Bad /\ w # Bad /\ reg[StoreReg(x.src)] = res
  BY <1>1, <1>2, ReadyIs DEF OperandsReady
<1>7. Grown(frame, frame') => ValueIn(frame', x.src.lhs) = u /\ ValueIn(frame', x.src.rhs) = w
  BY <1>1, GrownLookups
<1>8. \A y, r : LoadOf(r, y).op \in {"LOADX", "LOADI", "LOADS"}
  BY DEF LoadOf, genLoadX
<1>9. 0 \in Reg /\ 1 \in Reg /\ 2 \in Reg /\ StoreReg(x.src) \in Reg /\ StoreReg(x.src) \in {0, 1}
  BY DEF Reg, StoreReg
<1>10. u = Bad \/ w = Bad => IRM!Fails
  BY <1>4, BadApply, OperandFails
<1>11. l = 1 => Inst = LoadOf(1, x.src.lhs)
  BY <1>3, <1>5, <1>8
<1>12. l = 2 => Inst = LoadOf(2, x.src.rhs)
  BY <1>3, <1>5, <1>8
<1>13. l = 3 => Inst = Operation(x.src)
  <2>1. s[3].op \in Selected
    BY <1>2, <1>3 DEF Operation
  <2>2. s[3].op \notin {"JMP", "JIF", "CALL"}
    BY <2>1 DEF Selected
  <2> QED BY <1>3, <1>5, <2>2
<1>14. l = 4 => Inst = genStoreX(x.dest, StoreReg(x.src))
  BY <1>3, <1>5 DEF genStoreX
<1>15. CASE l = 1
  <2>1. Loads(1, x.src.lhs)
    BY <1>1, <1>2, <1>9, <1>11, <1>15, LoadTurn
  <2>2. Grown(frame, frame') /\ reg' = [reg EXCEPT ![1] = u] => Ready(x, 2, reg', frame')
    <3> SUFFICES ASSUME Grown(frame, frame'), reg' = [reg EXCEPT ![1] = u] PROVE Ready(x, 2, reg', frame')
      OBVIOUS
    <3>1. reg'[1] = ValueIn(frame', x.src.lhs)
      BY <1>1, <1>7, <1>9
    <3> HIDE DEF u
    <3>2. OperandsReady(x, 2, reg', frame')
      BY <3>1 DEF OperandsReady
    <3> QED BY <1>2, <3>2, ReadyIs
  <2>3. 1 + 1 = 2 /\ l < LastOf(f, b, n) /\ l + 1 = 2
    BY <1>5, <1>15
  <2> QED BY <1>4, <1>9, <1>10, <2>1, <2>2, <2>3, LoadInside
<1>16. CASE l = 2
  <2>1. Loads(2, x.src.rhs)
    BY <1>1, <1>2, <1>9, <1>12, <1>16, LoadTurn
  <2>2. Grown(frame, frame') /\ reg' = [reg EXCEPT ![2] = w] => Ready(x, 3, reg', frame')
    <3> SUFFICES ASSUME Grown(frame, frame'), reg' = [reg EXCEPT ![2] = w] PROVE Ready(x, 3, reg', frame')
      OBVIOUS
    <3>1. reg'[1] = ValueIn(frame', x.src.lhs) /\ reg'[2] = ValueIn(frame', x.src.rhs)
      BY <1>1, <1>6, <1>7, <1>9, <1>16
    <3> HIDE DEF u, w
    <3>2. OperandsReady(x, 3, reg', frame')
      BY <3>1 DEF OperandsReady
    <3> QED BY <1>2, <3>2, ReadyIs
  <2>3. l < LastOf(f, b, n) /\ l + 1 = 3
    BY <1>5, <1>16
  <2> QED BY <1>4, <1>9, <1>10, <2>1, <2>2, <2>3, LoadInside
<1>17. CASE l = 3
  <2>1. Inst.op = op /\ Inst.r1 = 1 /\ Inst.r2 = 2
    BY <1>13, <1>17 DEF Operation
  <2>2. u # Bad /\ w # Bad /\ reg[1] = u /\ reg[2] = w
    BY <1>1, <1>6, <1>9, <1>17
  <2>3. /\ op \in ArithOps \cup CompareOps \cup LogicOps /\ (op \in ToState <=> op \notin ArithOps)
    BY <1>2, SelectedOps
  <2>4. BinaryResult(Inst) = res
    BY <2>1, <2>2 DEF BinaryResult, Result
  <2>5. IRM!Expression(x.src) = res
    BY <1>2, <1>4, <2>2, SameApply
  <2>6. Fault(Inst) <=> res = Bad
    BY <2>1, <2>3, <2>4 DEF Fault, ArithOps, LogicOps, CompareOps, UnaryOps
  <2>7. Abort \/ Binary
    BY <1>1, <2>1, <2>3, Turn DEF Turns, ArithOps, LogicOps, CompareOps, UnaryOps, LoadConst, StoreConst
  <2>8. CASE Abort
    <3>1. IRM!Fails
      BY <1>4, <2>5, <2>6, <2>8, OperandFails DEF Abort
    <3> QED BY <1>1, <2>8, <3>1, Aborts
  <2>9. CASE Binary
    <3> DEFINE r == StoreReg(x.src)
    <3>1. (IF op \in ArithOps THEN 1 ELSE 0) = r
      BY <2>3 DEF StoreReg
    <3>2. ~Fault(Inst) /\ Straightly /\ UNCHANGED <<frame, out>> /\ reg' = [reg EXCEPT ![r] = res]
      BY <2>1, <2>4, <2>9, <3>1 DEF Binary, Fetch, Step, Straightly
    <3> HIDE DEF r
    <3>3. Grown(frame, frame') /\ res # Bad
      BY <1>1, <2>6, <3>2, Unchanged
    <3>4. \A q \in Reg : reg'[q] # Bad
      <4> HIDE DEF res
      <4> QED BY <1>1, <3>2, <3>3
    <3>5. reg'[r] = Result(op, ValueIn(frame', x.src.lhs), ValueIn(frame', x.src.rhs))
      BY <1>1, <1>7, <1>9, <3>2, <3>3 DEF r
    <3>6. Ready(x, 4, reg', frame')
      <4>1. ValueIn(frame', x.src.lhs) # Bad /\ ValueIn(frame', x.src.rhs) # Bad
        BY <1>7, <2>2, <3>3
      <4>2. OperandsReady(x, 4, reg', frame')
        BY <3>5, <4>1 DEF r, OperandsReady
      <4> QED BY <1>2, <4>2, ReadyIs
    <3>7. l + 1 = 4 /\ l < Extent(prog.source, f, b, n)
      BY <1>5, <1>17 DEF LastOf
    <3>8. SoundNext /\ UNCHANGED IRM!vars
      BY <1>1, <1>4, <3>2, <3>3, <3>4, <3>6, <3>7, Interior
    <3> QED BY <3>8, Stutters
  <2> QED BY <2>7, <2>8, <2>9
<1>18. CASE l = 4
  <2>1. StoreTurns(x.dest, res) /\ res # Bad
    BY <1>1, <1>6, <1>9, <1>14, <1>18, StoreTurn
  <2>2. IRM!Expression(x.src) = res
    <3>1. u # Bad /\ w # Bad
      BY <1>6, <1>18
    <3> QED BY <1>2, <1>4, <3>1, SameApply
  <2> HIDE DEF res
  <2> QED BY <1>4, <1>5, <1>18, <2>1, <2>2, ComputeTurn
<1> QED BY <1>5, <1>15, <1>16, <1>17, <1>18

LEMMA AtFacts ==
  ASSUME NEW f, NEW b, NEW n, NEW l, NEW x, At(f, b, n, l, x)
  PROVE  /\ Facts /\ Sound1 /\ Next /\ Fetched /\ Doing(f, b, n, l) /\ x = IRInsts(prog.source, f, b)[n]
         /\ Ready(x, l, reg, frame) /\ FramesOK(frame) /\ DOMAIN reg = Reg /\ \A q \in Reg : reg[q] # Bad
         /\ \A q \in 0 .. 2 : q \in Reg
BY DEF At, Facts, Clean, Doing, Reg

LEMMA LoadOps == \A y, r : LoadOf(r, y).op \in {"LOADX", "LOADI", "LOADS"}
BY DEF LoadOf, genLoadX

LEMMA InvertsMeans ==
  ASSUME NEW f, NEW b, NEW n, NEW l, NEW x, At(f, b, n, l, x), Inverts(x)
  PROVE  /\ IRM!Expression(x.src) = Negate("BNOT", ValueIn(frame, x.src.rhs))
         /\ x.tag = "ASSIGN" /\ ~IsCall(x.src) /\ Simple(x.src.rhs)
<1>1. Kind(x, "binary") /\ x.src.binary = "BNOT" /\ x.src.lhs = NoOperand /\ IsVar(x.src.rhs)
  BY DEF Inverts
<1>2. "binary" \in DOMAIN x.src /\ "call" \notin DOMAIN x.src /\ "array" \notin DOMAIN x.src /\ x.tag = "ASSIGN"
  BY <1>1, OneKind DEF Kinds, OnlyKind
<1>3. \A y : IRM!Operand(y) = ValueIn(frame, y)
  BY AtRuns
<1>4. IRM!Expression(x.src) = IRM!Negate(x.src.binary, IRM!Operand(x.src.rhs))
  <2>1. x.src.lhs = IRM!NoOperand
    BY <1>1, SameConstants
  <2> QED BY <1>2, <2>1 DEF IRM!Expression
<1> QED BY <1>1, <1>2, <1>3, <1>4, SameNegate DEF IsCall, Simple

LEMMA InvertsTurn ==
  ASSUME NEW f, NEW b, NEW n, NEW l, NEW x, At(f, b, n, l, x), Inverts(x)
  PROVE  Simulated
<1> DEFINE u == ValueIn(frame, x.src.rhs)
           res == Negate("BNOT", u)
           s == genInst(x)
<1>1. /\ Facts /\ Sound1 /\ Next /\ Fetched /\ Doing(f, b, n, l) /\ x = IRInsts(prog.source, f, b)[n]
      /\ Ready(x, l, reg, frame) /\ FramesOK(frame) /\ DOMAIN reg = Reg /\ \A q \in Reg : reg[q] # Bad
      /\ 1 \in Reg
  BY AtFacts
<1>2. Len(s) = 3 /\ s[1] = LoadOf(1, x.src.rhs) /\ s[2] = Inversion(x.src) /\ s[3] = genStoreX(x.dest, 1)
  BY InvertsCode
<1>3. IRM!Expression(x.src) = res /\ x.tag = "ASSIGN" /\ ~IsCall(x.src) /\ Simple(x.src.rhs)
  BY InvertsMeans
<1>4. LastOf(f, b, n) = 3 /\ l \in 1 .. 3 /\ (s[l].op \notin {"JMP", "JIF", "CALL"} => Inst = s[l])
  <2>1. /\ LastOf(f, b, n) = Len(s) /\ l \in 1 .. Len(s)
        /\ (s[l].op \notin {"JMP", "JIF", "CALL"} => Inst = s[l]) /\ Inst.op = s[l].op
    BY AtInst
  <2> HIDE DEF s
  <2> QED BY <1>2, <2>1
<1>5. (l = 2 => reg[1] = u) /\ (l = 3 => reg[1] = res)
  BY <1>1, ReadyIs DEF InversionReady
<1>6. Grown(frame, frame') => ValueIn(frame', x.src.rhs) = u
  BY <1>1, GrownLookups
<1>7. u = Bad => IRM!Fails
  <2>1. Negate("BNOT", Bad) = Bad
    BY DEF Negate, IsInt, Bad
  <2> QED BY <1>3, <2>1, OperandFails
<1>8. CASE l = 1
  <2>1. Inst = LoadOf(1, x.src.rhs)
    BY <1>2, <1>4, <1>8, LoadOps
  <2>2. Loads(1, x.src.rhs)
    BY <1>1, <1>3, <2>1, LoadTurn
  <2>3. Grown(frame, frame') /\ reg' = [reg EXCEPT ![1] = u] => Ready(x, 2, reg', frame')
    <3> SUFFICES ASSUME Grown(frame, frame'), reg' = [reg EXCEPT ![1] = u] PROVE Ready(x, 2, reg', frame')
      OBVIOUS
    <3>1. reg'[1] = ValueIn(frame', x.src.rhs)
      BY <1>1, <1>6
    <3>2. InversionReady(x, 2, reg', frame')
      BY <3>1 DEF InversionReady
    <3> QED BY <3>2, ReadyIs
  <2>4. l < LastOf(f, b, n) /\ l + 1 = 2
    BY <1>4, <1>8
  <2> QED BY <1>1, <1>3, <1>7, <2>2, <2>3, <2>4, LoadInside
<1>9. CASE l = 2
  <2>1. Inst.op = "BNOT" /\ Inst.reg = 1
    <3>1. s[l].op = "BNOT"
      BY <1>2, <1>9 DEF Inversion
    <3> QED BY <1>2, <1>4, <1>9, <3>1 DEF Inversion
  <2>2. reg[1] = u
    BY <1>5, <1>9
  <2>3. Fault(Inst) <=> res = Bad
    BY <2>1, <2>2 DEF Fault, ArithOps, LogicOps, CompareOps, UnaryOps
  <2>4. Abort \/ Unary
    BY <1>1, <2>1, Turn DEF Turns, ArithOps, LogicOps, CompareOps, UnaryOps, LoadConst, StoreConst
  <2>5. CASE Abort
    <3>1. IRM!Fails
      BY <1>3, <2>3, <2>5, OperandFails DEF Abort
    <3> QED BY <1>1, <2>5, <3>1, Aborts
  <2>6. CASE Unary
    <3>1. ~Fault(Inst) /\ Straightly /\ UNCHANGED <<frame, out>> /\ reg' = [reg EXCEPT ![1] = res]
      BY <2>1, <2>2, <2>6 DEF Unary, Fetch, Step, Straightly
    <3>2. Grown(frame, frame') /\ res # Bad
      BY <1>1, <2>3, <3>1, Unchanged
    <3>3. \A q \in Reg : reg'[q] # Bad
      <4> HIDE DEF res
      <4> QED BY <1>1, <3>1, <3>2
    <3>4. reg'[1] = Negate("BNOT", ValueIn(frame', x.src.rhs))
      BY <1>1, <1>6, <3>1, <3>2
    <3>5. Ready(x, 3, reg', frame')
      <4>1. InversionReady(x, 3, reg', frame')
        BY <3>4 DEF InversionReady
      <4> QED BY <4>1, ReadyIs
    <3>6. l + 1 = 3 /\ l < Extent(prog.source, f, b, n)
      BY <1>4, <1>9 DEF LastOf
    <3>7. SoundNext /\ UNCHANGED IRM!vars
      BY <1>1, <1>3, <3>1, <3>2, <3>3, <3>5, <3>6, Interior
    <3> QED BY <3>7, Stutters
  <2> QED BY <2>4, <2>5, <2>6
<1>10. CASE l = 3
  <2>1. Inst = genStoreX(x.dest, 1)
    BY <1>2, <1>4, <1>10 DEF genStoreX
  <2>2. StoreTurns(x.dest, res) /\ res # Bad
    BY <1>1, <1>5, <1>10, <2>1, StoreTurn
  <2> HIDE DEF res
  <2> QED BY <1>3, <1>4, <1>10, <2>2, ComputeTurn
<1> QED BY <1>4, <1>8, <1>9, <1>10

LEMMA MovesMeans ==
  ASSUME NEW f, NEW b, NEW n, NEW l, NEW x, At(f, b, n, l, x), Moves(x) \/ Sets(x)
  PROVE  /\ IRM!Expression(x.src) = ValueIn(frame, x.src)
         /\ x.tag = "ASSIGN" /\ ~IsCall(x.src)
         /\ Moves(x) => Simple(x.src)
         /\ Sets(x) => ValueIn(frame, x.src) = x.src.const /\ x.src.const # Bad
<1>1. PICK k \in {"var", "const"} : Kind(x, k)
  BY DEF Moves, Sets
<1>2. /\ "binary" \notin DOMAIN x.src /\ "call" \notin DOMAIN x.src /\ "array" \notin DOMAIN x.src
      /\ x.tag = "ASSIGN" /\ k \in DOMAIN x.src
  BY <1>1, OneKind DEF Kinds, OnlyKind
<1>3. \A y : IRM!Operand(y) = ValueIn(frame, y)
  BY AtRuns
<1>4. IRM!Expression(x.src) = IRM!Operand(x.src)
  BY <1>2 DEF IRM!Expression
<1>5. Moves(x) => Simple(x.src)
  BY OneKind DEF Moves, Kinds, Simple, IsVar
<1>6. Sets(x) => ~IsVar(x.src) /\ x.src.const # Bad
  BY OneKind DEF Sets, Kinds, OnlyKind, IsVar, IsInt, IsStr, Bad
<1> QED BY <1>2, <1>3, <1>4, <1>5, <1>6 DEF IsCall, ValueIn

LEMMA MovesTurn ==
  ASSUME NEW f, NEW b, NEW n, NEW l, NEW x, At(f, b, n, l, x), Moves(x)
  PROVE  Simulated
<1> DEFINE u == ValueIn(frame, x.src)
           s == genInst(x)
<1>1. /\ Facts /\ Sound1 /\ Next /\ Fetched /\ Doing(f, b, n, l) /\ x = IRInsts(prog.source, f, b)[n]
      /\ Ready(x, l, reg, frame) /\ FramesOK(frame) /\ DOMAIN reg = Reg /\ \A q \in Reg : reg[q] # Bad
      /\ 1 \in Reg
  BY AtFacts
<1>2. Len(s) = 2 /\ s[1] = LoadOf(1, x.src) /\ s[2] = genStoreX(x.dest, 1)
  BY MovesCode
<1>3. IRM!Expression(x.src) = u /\ x.tag = "ASSIGN" /\ ~IsCall(x.src) /\ Simple(x.src)
  BY MovesMeans
<1>4. LastOf(f, b, n) = 2 /\ l \in 1 .. 2 /\ (s[l].op \notin {"JMP", "JIF", "CALL"} => Inst = s[l])
  <2>1. /\ LastOf(f, b, n) = Len(s) /\ l \in 1 .. Len(s)
        /\ (s[l].op \notin {"JMP", "JIF", "CALL"} => Inst = s[l]) /\ Inst.op = s[l].op
    BY AtInst
  <2> HIDE DEF s
  <2> QED BY <1>2, <2>1
<1>5. l = 2 => reg[1] = u
  BY <1>1, ReadyIs
<1>6. CASE l = 1
  <2>1. Inst = LoadOf(1, x.src)
    BY <1>2, <1>4, <1>6, LoadOps
  <2>2. Loads(1, x.src)
    BY <1>1, <1>3, <2>1, LoadTurn
  <2>3. Grown(frame, frame') /\ reg' = [reg EXCEPT ![1] = u] => Ready(x, 2, reg', frame')
    <3> SUFFICES ASSUME Grown(frame, frame'), reg' = [reg EXCEPT ![1] = u] PROVE Ready(x, 2, reg', frame')
      OBVIOUS
    <3>1. reg'[1] = ValueIn(frame', x.src)
      BY <1>1, GrownLookups
    <3> QED BY <3>1, ReadyIs
  <2>4. l < LastOf(f, b, n) /\ l + 1 = 2
    BY <1>4, <1>6
  <2>5. u = Bad => IRM!Fails
    BY <1>3, OperandFails
  <2> QED BY <1>1, <1>3, <2>2, <2>3, <2>4, <2>5, LoadInside
<1>7. CASE l = 2
  <2>1. Inst = genStoreX(x.dest, 1)
    BY <1>2, <1>4, <1>7 DEF genStoreX
  <2>2. StoreTurns(x.dest, u) /\ u # Bad
    BY <1>1, <1>5, <1>7, <2>1, StoreTurn
  <2> HIDE DEF u
  <2> QED BY <1>3, <1>4, <1>7, <2>2, ComputeTurn
<1> QED BY <1>4, <1>6, <1>7

LEMMA NoPath ==
  ASSUME NEW fs, NEW idx, idx = << >>
  PROVE  PathIn(fs, idx) = << >>
<1>1. DOMAIN idx = {}
  OBVIOUS
<1> QED BY <1>1 DEF PathIn

LEMMA UnindexedIs ==
  ASSUME NEW fs, NEW x, x.idx = << >>
  PROVE  ElementIn(fs, x) = LookupIn(fs, x.var)
BY NoPath, WalkNowhere DEF ElementIn

LEMMA LookupClean ==
  ASSUME FramesOK(frame), Clean(frame, reg), NEW name
  PROVE  LookupIn(frame, name) # Bad
<1>1. HomeIn(frame, name) \in 1 .. Len(frame)
  BY TopIn
<1> QED BY <1>1 DEF LookupIn, Clean, Holds

LEMMA SetsTurn ==
  ASSUME NEW f, NEW b, NEW n, NEW l, NEW x, At(f, b, n, l, x), Sets(x)
  PROVE  Simulated
<1> DEFINE v == x.src.const
           y == x.dest
           s == genInst(x)
<1>1. /\ Facts /\ Sound1 /\ Next /\ Fetched /\ Doing(f, b, n, l) /\ x = IRInsts(prog.source, f, b)[n]
      /\ FramesOK(frame) /\ Scoped(prog.source, frame, f) /\ Clean(frame, reg)
  BY AtFacts DEF Doing, Facts
<1>2. Len(s) = 1 /\ s[1] = genStoreConst(y, v)
  BY SetsCode
<1>3. IRM!Expression(x.src) = v /\ x.tag = "ASSIGN" /\ ~IsCall(x.src) /\ v # Bad
  BY MovesMeans
<1>4. LastOf(f, b, n) = l /\ (s[1].op \notin {"JMP", "JIF", "CALL"} => Inst = s[1])
  <2>1. /\ LastOf(f, b, n) = Len(s) /\ l \in 1 .. Len(s)
        /\ (s[l].op \notin {"JMP", "JIF", "CALL"} => Inst = s[l]) /\ Inst.op = s[l].op
    BY AtInst
  <2> HIDE DEF s
  <2> QED BY <1>2, <2>1
<1>5. MeantIn(prog.source, f, x)
  BY AtInst
<1>6. Inst = genStoreConst(y, v)
  BY <1>2, <1>4 DEF genStoreConst
<1>7. CASE y.idx # << >>
  <2>1. Inst.op = "STOREA" /\ Inst.name = y.var /\ Inst.idx = y.idx /\ Inst.val = v
    BY <1>6, <1>7 DEF genStoreConst
  <2>2. Element(Inst.name, Inst.idx) = ElementIn(frame, y)
    BY <2>1, LookupHere
  <2>3. Fault(Inst) <=> ElementIn(frame, y) = Bad
    BY <2>1, <2>2 DEF Fault, ArithOps, LogicOps, CompareOps, UnaryOps
  <2>4. Abort \/ StoreA
    BY <1>1, <2>1, Turn DEF Turns, ArithOps, LogicOps, CompareOps, UnaryOps, LoadConst, StoreConst
  <2>5. CASE Abort
    <3>1. StoreTurns(y, v)
      BY <2>3, <2>5 DEF Abort, StoreTurns
    <3> QED BY <1>3, <1>4, <3>1, ComputeTurn
  <2>6. CASE StoreA
    <3>1. /\ ~Fault(Inst) /\ Straightly /\ UNCHANGED <<reg, out>>
          /\ frame' = Assign(y.var, y.idx, Put(Lookup(y.var), Path(y.idx), v))
      BY <2>1, <2>6 DEF StoreA, Fetch, Step, Straightly
    <3>2. Lookup(y.var) = LookupIn(frame, y.var) /\ Path(y.idx) = PathIn(frame, y.idx)
      BY LookupHere
    <3>3. Stored(y, v)
      BY <1>1, <3>1, <3>2, AssignChanges DEF Stored
    <3>4. StoreTurns(y, v)
      BY <2>3, <3>1, <3>3 DEF StoreTurns
    <3> QED BY <1>3, <1>4, <3>4, ComputeTurn
  <2> QED BY <2>4, <2>5, <2>6
<1>8. CASE y.idx = << >>
  <2>1. Inst.op \in StoreConst /\ Inst.name = y.var /\ Inst.val = v
    BY <1>6, <1>8 DEF genStoreConst, StoreConst
  <2>2. ~Fault(Inst)
    BY <2>1 DEF Fault, ArithOps, LogicOps, CompareOps, UnaryOps, StoreConst
  <2>3. Store
    BY <1>1, <2>1, <2>2, Turn DEF Abort, Turns, ArithOps, LogicOps, CompareOps, UnaryOps, LoadConst, StoreConst
  <2>4. /\ Straightly /\ UNCHANGED <<reg, out>>
        /\ frame' = [frame EXCEPT ![Top].symbols = Bind(@, y.var, v)]
    BY <2>1, <2>3 DEF Store, Step, Straightly
  <2>5. HomeIn(frame, y.var) = Len(frame)
    <3>1. CASE f = 0
      BY <1>1, <3>1, TopIn DEF Scoped
    <3>2. CASE f # 0
      <4>1. LocalTo(prog.source, f, y.var)
        BY <1>5, <1>8, <3>2 DEF MeantIn, LocalTo
      <4> QED BY <1>1, <4>1, HomeOf
    <3> QED BY <3>1, <3>2
  <2>6. Put(LookupIn(frame, y.var), PathIn(frame, y.idx), v) = v
    <3>1. PathIn(frame, y.idx) = << >>
      BY <1>8, NoPath
    <3> QED BY <3>1, PutNowhere
  <2>7. Stored(y, v)
    BY <1>1, <2>4, <2>5, <2>6, StoreChanges DEF Stored
  <2>8. ElementIn(frame, y) # Bad
    BY <1>1, <1>8, UnindexedIs, LookupClean
  <2>9. StoreTurns(y, v)
    BY <2>4, <2>7, <2>8 DEF StoreTurns
  <2> QED BY <1>3, <1>4, <2>9, ComputeTurn
<1> QED BY <1>7, <1>8

(* How the array in register 2 fills up, element load by element load. *)
LEMMA FilledFirst ==
  ASSUME NEW s, NEW elems, NEW fs
  PROVE  Filled(s, elems, 2, fs) = LiteralOf(elems)
<1>1. 2 .. 2 - 1 = {}
  OBVIOUS
<1> QED BY <1>1 DEF Filled, LiteralOf

LEMMA FilledNext ==
  ASSUME NEW s, NEW elems, NEW l \in Nat, l >= 2, NEW fs, NEW k \in DOMAIN elems, DOMAIN elems \subseteq Nat,
         IsVar(elems[k]), s[l] = ElementLoad(elems[k], k),
         NEW gs, \A name : LookupIn(gs, name) = LookupIn(fs, name)
  PROVE  Filled(s, elems, l + 1, gs) = Rewritten(Filled(s, elems, l, fs), k, LookupIn(fs, elems[k].var))
<1> DEFINE A == Filled(s, elems, l + 1, gs)
           B == Filled(s, elems, l, fs)
<1>1. DOMAIN A = DOMAIN elems /\ DOMAIN B = DOMAIN elems /\ A = [j \in DOMAIN elems |-> A[j]]
      /\ B = [j \in DOMAIN elems |-> B[j]]
  BY DEF Filled
<1>2. \A j \in DOMAIN elems : A[j] = IF j = k THEN LookupIn(fs, elems[k].var) ELSE B[j]
  <2> SUFFICES ASSUME NEW j \in DOMAIN elems
               PROVE  A[j] = IF j = k THEN LookupIn(fs, elems[k].var) ELSE B[j]
    OBVIOUS
  <2> DEFINE ran(m) == s[m] = ElementLoad(elems[j], j)
  <2>1. /\ A[j] = IF ~IsVar(elems[j]) THEN elems[j].const
                  ELSE IF \E m \in 2 .. l + 1 - 1 : ran(m) THEN LookupIn(fs, elems[j].var) ELSE None
        /\ B[j] = IF ~IsVar(elems[j]) THEN elems[j].const
                  ELSE IF \E m \in 2 .. l - 1 : ran(m) THEN LookupIn(fs, elems[j].var) ELSE None
    BY DEF Filled
  <2>2. 2 .. l + 1 - 1 = (2 .. l - 1) \cup {l}
    OBVIOUS
  <2>3. CASE j = k
    BY <2>1, <2>2, <2>3
  <2>4. CASE j # k
    <3>1. ElementLoad(elems[j], j).index # ElementLoad(elems[k], k).index
      <4>1. j \in Nat /\ k \in Nat
        OBVIOUS
      <4> QED BY <2>4, <4>1 DEF ElementLoad
    <3>2. ~ran(l)
      BY <3>1
    <3> HIDE DEF ran
    <3> QED BY <2>1, <2>2, <2>4, <3>2
  <2> QED BY <2>3, <2>4
<1> HIDE DEF A, B
<1>3. A = [B EXCEPT ![k] = LookupIn(fs, elems[k].var)]
  BY <1>1, <1>2
<1> QED BY <1>3 DEF A, B, Rewritten

Values(fs, elems) == [k \in DOMAIN elems |-> ValueIn(fs, elems[k])]

LEMMA FilledLast ==
  ASSUME NEW s, NEW elems, NEW w, NEW fs,
         \A k \in DOMAIN elems : Unindexed(elems[k]),
         \A k \in DOMAIN elems : IsVar(elems[k]) => \E m \in 2 .. w - 1 : s[m] = ElementLoad(elems[k], k)
  PROVE  Filled(s, elems, w, fs) = Values(fs, elems)
<1>1. \A k \in DOMAIN elems : IsVar(elems[k]) => ValueIn(fs, elems[k]) = LookupIn(fs, elems[k].var)
  BY UnindexedIs DEF Unindexed, ValueIn
<1>2. \A k \in DOMAIN elems : ~IsVar(elems[k]) => ValueIn(fs, elems[k]) = elems[k].const
  BY DEF ValueIn
<1> QED BY <1>1, <1>2 DEF Filled, Values

LEMMA BuildsMeans ==
  ASSUME NEW f, NEW b, NEW n, NEW l, NEW x, At(f, b, n, l, x), Builds(x)
  PROVE  /\ IRM!Expression(x.src) = Arr(Values(frame, x.src.array))
         /\ x.tag = "ASSIGN" /\ ~IsCall(x.src)
<1>1. Kind(x, "array")
  BY DEF Builds
<1>2. /\ "binary" \notin DOMAIN x.src /\ "call" \notin DOMAIN x.src /\ "array" \in DOMAIN x.src
      /\ x.tag = "ASSIGN"
  BY <1>1, OneKind DEF Kinds, OnlyKind
<1>3. \A y : IRM!Operand(y) = ValueIn(frame, y)
  BY AtRuns
<1> DEFINE elems == x.src.array
<1>4. IRM!Expression(x.src) = IRM!Arr([k \in DOMAIN elems |-> IRM!Operand(elems[k])])
  BY <1>2 DEF IRM!Expression
<1>5. [k \in DOMAIN elems |-> IRM!Operand(elems[k])] = [k \in DOMAIN elems |-> ValueIn(frame, elems[k])]
  BY <1>3
<1> QED BY <1>2, <1>4, <1>5, SameConstants DEF IsCall, Values

(* A turn at an element load. *)
LEMMA ElementTurn ==
  ASSUME Facts, Next, Fetched, NEW elems, IsVector(elems), NEW k \in DOMAIN elems, IsVar(elems[k]),
         Inst = ElementLoad(elems[k], k), NEW F, DOMAIN F = DOMAIN elems, F = [j \in DOMAIN elems |-> F[j]],
         reg[2] = Arr(F)
  PROVE  /\ Straightly /\ UNCHANGED out /\ Grown(frame, frame')
         /\ reg' = [reg EXCEPT ![2] = Arr(Rewritten(F, k, LookupIn(frame, elems[k].var)))]
<1>1. FramesOK(frame)
  BY DEF Facts
<1>2. /\ Len(elems) \in Nat /\ DOMAIN elems = 1 .. Len(elems) /\ k \in 1 .. Len(elems)
  BY VectorShape
<1> DEFINE name == elems[k].var
           w == Len(elems)
<1>3. Inst.op = "LOADXA" /\ Inst.reg = 2 /\ Inst.name = name /\ Inst.index = k - 1
  BY DEF ElementLoad
<1>4. Len(F) = w
  BY <1>2, Vector
<1>5. HasElem(reg[2], k - 1)
  <2>1. IsArr(Arr(F)) /\ Arr(F).arr = F
    BY DEF IsArr, Arr
  <2>2. k - 1 \in 0 .. w - 1
    <3> HIDE DEF w
    <3> QED BY <1>2 DEF w
  <2> QED BY <1>4, <2>1, <2>2 DEF HasElem
<1>6. ~Fault(Inst)
  BY <1>3, <1>5 DEF Fault, ArithOps, LogicOps, CompareOps, UnaryOps
<1>7. LoadXA
  BY <1>3, <1>6, Turn DEF Abort, Turns, ArithOps, LogicOps, CompareOps, UnaryOps, LoadConst, StoreConst
<1>8. /\ Straightly /\ UNCHANGED out /\ frame' = Declare({name})
      /\ reg' = [reg EXCEPT ![2] = Put(reg[2], <<k - 1>>, Lookup(name))]
  BY <1>3, <1>7 DEF LoadXA, Step, Straightly
<1>9. Lookup(name) = LookupIn(frame, name)
  BY LookupHere
<1>10. Put(Arr(F), <<k - 1>>, LookupIn(frame, name)) = Arr([F EXCEPT ![k] = LookupIn(frame, name)])
  <2> DEFINE m == k - 1
             v == LookupIn(frame, name)
  <2>1. m \in Nat /\ m + 1 = k
    BY <1>2
  <2> HIDE DEF m, v
  <2>2. Put(Arr(F), <<m>>, v) = Arr([F EXCEPT ![m + 1] = v])
    BY <2>1, PutFirst
  <2> QED BY <2>1, <2>2 DEF m, v
<1>11. Grown(frame, frame')
  BY <1>1, <1>8, DeclareGrows
<1> QED BY <1>8, <1>9, <1>10, <1>11 DEF Rewritten

LEMMA BuildsTurn ==
  ASSUME NEW f, NEW b, NEW n, NEW l, NEW x, At(f, b, n, l, x), Builds(x)
  PROVE  Simulated
<1> DEFINE elems == x.src.array
           s == genInst(x)
           w == Len(s)
<1>1. /\ Facts /\ Sound1 /\ Next /\ Fetched /\ Doing(f, b, n, l) /\ x = IRInsts(prog.source, f, b)[n]
      /\ Ready(x, l, reg, frame) /\ FramesOK(frame) /\ DOMAIN reg = Reg /\ \A q \in Reg : reg[q] # Bad
      /\ 2 \in Reg
  BY AtFacts
<1>2. /\ w \in Nat /\ w >= 2 /\ s[1] = ArrayLoad(elems) /\ s[w] = genStoreX(x.dest, 2)
      /\ Len(elems) \in Nat /\ DOMAIN elems = 1 .. Len(elems)
      /\ \A m \in 2 .. w - 1 : \E k \in DOMAIN elems :
           IsVar(elems[k]) /\ s[m] = ElementLoad(elems[k], k)
      /\ \A k \in DOMAIN elems : IsVar(elems[k]) =>
           \E m \in 2 .. w - 1 : s[m] = ElementLoad(elems[k], k)
  <2>1. s = genInst(x) /\ elems = x.src.array /\ w = Len(s)
    OBVIOUS
  <2> HIDE DEF s, elems, w
  <2>2. Fills(s, w, elems, x.dest)
    BY <2>1, BuildsCode
  <2> QED BY <2>2 DEF Fills
<1>3. IRM!Expression(x.src) = Arr(Values(frame, elems)) /\ x.tag = "ASSIGN" /\ ~IsCall(x.src)
  BY BuildsMeans
<1>4. LastOf(f, b, n) = w /\ l \in 1 .. w /\ (s[l].op \notin {"JMP", "JIF", "CALL"} => Inst = s[l])
  BY AtInst
<1>5. IsVector(elems) /\ \A k \in DOMAIN elems : Unindexed(elems[k])
  BY DEF Builds
<1>6. l > 1 => reg[2] = Arr(Filled(s, elems, l, frame))
  BY <1>1, ReadyIs
<1>7. l < w => l < Extent(prog.source, f, b, n)
  BY <1>4 DEF LastOf
<1> HIDE DEF w
<1>8. CASE l = 1
  <2>1. Inst = ArrayLoad(elems)
    BY <1>2, <1>4, <1>8 DEF ArrayLoad
  <2>2. Inst.op = "LOADA" /\ Inst.reg = 2 /\ Inst.val = Arr(LiteralOf(elems))
    BY <2>1 DEF ArrayLoad
  <2>3. ~Fault(Inst)
    BY <2>2 DEF Fault, ArithOps, LogicOps, CompareOps, UnaryOps
  <2>4. Load
    BY <1>1, <2>2, <2>3, Turn DEF Abort, Turns, ArithOps, LogicOps, CompareOps, UnaryOps, LoadConst, StoreConst
  <2>5. reg' = [reg EXCEPT ![2] = Arr(LiteralOf(elems))] /\ frame' = frame /\ Straightly /\ UNCHANGED out
    BY <2>2, <2>4 DEF Load, Step, Straightly
  <2>6. Grown(frame, frame') /\ \A q \in Reg : reg'[q] # Bad
    BY <1>1, <2>5, Unchanged DEF Arr, Bad
  <2>7. Ready(x, 2, reg', frame')
    <3>1. reg'[2] = Arr(Filled(s, elems, 2, frame'))
      BY <1>1, <2>5, FilledFirst
    <3> QED BY <3>1, ReadyIs
  <2>8. l + 1 = 2 /\ l < Extent(prog.source, f, b, n)
    BY <1>2, <1>7, <1>8
  <2>9. SoundNext /\ UNCHANGED IRM!vars
    BY <1>1, <1>3, <2>5, <2>6, <2>7, <2>8, Interior
  <2> QED BY <2>9, Stutters
<1>9. CASE l \in 2 .. w - 1
  <2>1. PICK k \in DOMAIN elems : IsVar(elems[k]) /\ s[l] = ElementLoad(elems[k], k)
    BY <1>2, <1>9
  <2>2. Inst = ElementLoad(elems[k], k)
    BY <1>4, <2>1 DEF ElementLoad
  <2> DEFINE F == Filled(s, elems, l, frame)
             G == Rewritten(F, k, LookupIn(frame, elems[k].var))
  <2>3. DOMAIN F = DOMAIN elems /\ F = [j \in DOMAIN elems |-> F[j]]
    BY DEF Filled
  <2>4. l \in Nat /\ l >= 2 /\ l > 1 /\ DOMAIN elems \subseteq Nat
    BY <1>2, <1>9
  <2>5. reg[2] = Arr(F)
    BY <1>6, <2>4
  <2>6. Straightly /\ UNCHANGED out /\ Grown(frame, frame') /\ reg' = [reg EXCEPT ![2] = Arr(G)]
    <3> HIDE DEF F, s, elems
    <3> QED BY <1>1, <1>5, <2>1, <2>2, <2>3, <2>5, ElementTurn
  <2>7. \A q \in Reg : reg'[q] # Bad
    <3> HIDE DEF G
    <3> QED BY <1>1, <2>6 DEF Arr, Bad
  <2>8. Filled(s, elems, l + 1, frame') = G
    <3>1. \A name : LookupIn(frame', name) = LookupIn(frame, name)
      BY <1>1, <2>6, GrownLookups
    <3>2. l \in Nat /\ l >= 2 /\ DOMAIN elems \subseteq Nat /\ IsVar(elems[k]) /\ s[l] = ElementLoad(elems[k], k)
      BY <2>1, <2>4
    <3> HIDE DEF s, elems
    <3> QED BY <3>1, <3>2, FilledNext
  <2>9. Ready(x, l + 1, reg', frame')
    <3>1. reg'[2] = Arr(G)
      <4> HIDE DEF G
      <4> QED BY <1>1, <2>6
    <3> QED BY <2>8, <3>1, ReadyIs
  <2>10. l < Extent(prog.source, f, b, n)
    BY <1>2, <1>7, <1>9
  <2>11. SoundNext /\ UNCHANGED IRM!vars
    BY <1>1, <1>3, <2>6, <2>7, <2>9, <2>10, Interior
  <2> QED BY <2>11, Stutters
<1>10. CASE l = w
  <2>1. Inst = genStoreX(x.dest, 2)
    BY <1>2, <1>4, <1>10 DEF genStoreX
  <2> DEFINE v == Arr(Values(frame, elems))
  <2>2. Filled(s, elems, w, frame) = Values(frame, elems)
    <3> HIDE DEF s, elems
    <3> QED BY <1>2, <1>5, FilledLast
  <2>3. reg[2] = v
    BY <1>2, <1>6, <1>10, <2>2
  <2>4. StoreTurns(x.dest, v) /\ v # Bad
    <3> HIDE DEF v
    <3> QED BY <1>1, <2>1, <2>3, StoreTurn
  <2> HIDE DEF v
  <2> QED BY <1>3, <1>4, <1>10, <2>4, ComputeTurn DEF v
<1>11. l = 1 \/ l \in 2 .. w - 1 \/ l = w
  BY <1>2, <1>4
<1> QED BY <1>8, <1>9, <1>10, <1>11

-----------------------------------------------------------------------------
(* Jumps, branches, returns *)

(* Control passes to the block of a name. *)
Goes(f, name) == AbsStack' = IRM!GoTo(AbsStack, IRM!Position(f, IRM!BlockNamed(f, name), 1))

LEMMA JumpTo ==
  ASSUME Facts, NEW f, NEW b, NEW n, NEW l, Doing(f, b, n, l), f \in 1 .. Len(prog.source.funcs),
         NEW name, LeadsIn(prog.source, f, name), UNCHANGED <<prog, mode, frame>>,
         \A q \in Reg : reg'[q] # Bad, pc' = Target(ir2VmInst(prog.source), name, FALSE)
  PROVE  SoundNext /\ AbsAnswer' = NotGiven /\ Goes(f, name)
<1> DEFINE ir == prog.source
           t == Len(frame)
           scope == Assigned(frame[t].symbols)
           d == t - 1
           c == CHOOSE k \in DOMAIN ir.funcs[f].blocks : ir.funcs[f].blocks[k].name = name
<1>1. /\ Compiles(ir, prog) /\ WellFormedIR(ir) /\ FramesOK(frame) /\ f # 0 /\ Clean(frame, reg)
  <2>1. f # 0
    <3>1. \A m : f \in 1 .. m => f # 0
      OBVIOUS
    <3> QED BY <3>1
  <2> QED BY <2>1, CompiledFields DEF Facts
<1>2. /\ IsSpot(ir, f, c, 1) /\ Target(ir2VmInst(ir), name, FALSE) = Begin(ir, f, c, 1)
      /\ PosAfter(ir, f, c, 1) = [fn |-> f, block |-> c, next |-> 1]
  <2>1. f \in 1 .. Len(ir.funcs) /\ LeadsIn(ir, f, name)
    OBVIOUS
  <2>2. c = BlockOf(ir, f, name)
    BY DEF BlockOf
  <2> HIDE DEF ir, c
  <2> QED BY <1>1, <2>1, <2>2, JumpSpot
<1>3. GoesOn(f, c, 1)
  BY <1>1, <1>2 DEF GoesOn
<1>4. Grown(frame, frame') /\ SameCalls(frame, frame') /\ Widened(frame, frame')
  BY <1>1, Unchanged DEF Grown
<1>5. Clean(frame', reg')
  BY <1>1, <1>4, CleanKept
<1>6. /\ SoundNext /\ AbsAnswer' = NotGiven
      /\ AbsStack' = Rewritten(AbsStack, d, Act4(f, c, 1, scope))
  <2>1. \A k \in 2 .. t - 1 : Assigned(frame'[k].symbols) = Assigned(frame[k].symbols)
    OBVIOUS
  <2>2. Assigned(frame'[t].symbols) = scope
    OBVIOUS
  <2>3. /\ SoundNext /\ AbsAnswer' = NotGiven
        /\ AbsStack' = Rewritten(AbsStack, d, Act4(f, c, 1, Assigned(frame'[t].symbols)))
    <3> HIDE DEF c
    <3> QED BY <1>3, <1>4, <1>5, <2>1, GoesQuietly
  <2> QED BY <2>2, <2>3
<1>7. InStep(Deep(frame, f), f, b, n, Running4(frame, f)) /\ BlockTotal(ir, f) \in Nat
  BY DoingRuns
<1>8. Runs(AbsStack, d, f, b, n, scope)
  BY <1>1, <1>7 DEF InStep, Deep, Running4
<1>9. Len(AbsStack) = d /\ AbsStack[d].vars = scope
  BY <1>8 DEF Runs, Act4
<1>10. IRM!BlockNamed(f, name) = c
  BY <1>1, SameBlocks DEF IRM!BlockNamed
<1>11. IRM!Position(f, c, 1) = PosAfter(ir, f, c, 1)
  <2>1. c \in Nat /\ c >= 1
    BY <1>2, SMTT(20) DEF IsSpot, IsBlock
  <2> HIDE DEF c
  <2> QED BY <1>7, <2>1, SamePosition
<1> DEFINE pos == [fn |-> f, block |-> c, next |-> 1]
<1>12. IRM!GoTo(AbsStack, IRM!Position(f, IRM!BlockNamed(f, name), 1)) = IRM!GoTo(AbsStack, pos)
  BY <1>2, <1>10, <1>11
<1>13. IRM!GoTo(AbsStack, pos) = [AbsStack EXCEPT ![d] = IRM!Activation(pos, AbsStack[d].vars)]
  BY <1>9, Zenon DEF IRM!GoTo
<1>14. IRM!Activation(pos, scope) = Act4(f, c, 1, scope)
  <2> HIDE DEF c
  <2>1. pos.fn = f /\ pos.block = c /\ pos.next = 1
    OBVIOUS
  <2> HIDE DEF pos
  <2> QED BY <2>1, Zenon DEF IRM!Activation, Act4
<1> HIDE DEF pos, c, d, scope
<1>15. AbsStack' = IRM!GoTo(AbsStack, IRM!Position(f, IRM!BlockNamed(f, name), 1))
  BY <1>6, <1>9, <1>12, <1>13, <1>14, Zenon DEF Rewritten
<1> QED BY <1>6, <1>15 DEF Goes

LEMMA SameGlobals ==
  ASSUME UNCHANGED <<prog, frame>>
  PROVE  (prog.source)' = prog.source /\ (Assigned(frame[1].symbols))' = Assigned(frame[1].symbols)
<1>1. (Assigned(frame[1].symbols))' = Assigned(frame'[1].symbols)
  BY Zenon DEF Assigned
<1> QED BY <1>1

LEMMA BodyFunction ==
  ASSUME NEW f, NEW b, NEW n, NEW l, NEW x, At(f, b, n, l, x), x.tag # "ASSIGN"
  PROVE  f # 0 /\ f \in 1 .. Len(prog.source.funcs) /\ MeantIn(prog.source, f, x)
<1>1. MeantIn(prog.source, f, x)
  BY AtInst
<1>2. f # 0
  BY <1>1 DEF MeantIn
<1>3. AtSpot(prog.source, pc, f, b, n, l) /\ Compiles(prog.source, prog)
  BY DEF At, Doing, Facts
<1>4. f \in 1 .. Len(prog.source.funcs)
  BY <1>2, <1>3, SpotFunctionIs
<1> QED BY <1>1, <1>2, <1>4

LEMMA JumpTurn ==
  ASSUME NEW f, NEW b, NEW n, NEW l, NEW x, At(f, b, n, l, x), x.tag = "JMP"
  PROVE  Simulated
<1> DEFINE ir == prog.source
           s == genInst(x)
<1>1. /\ Facts /\ Sound1 /\ Next /\ Fetched /\ Doing(f, b, n, l) /\ \A q \in Reg : reg[q] # Bad
  BY AtFacts
<1>2. Inst.op = "JMP" /\ Inst.target = Target(ir2VmInst(ir), x.to, FALSE)
  <2>1. Len(s) = 1 /\ s[1] = JumpInst(x.to)
    BY JumpCode
  <2>2. Inst.op = s[l].op /\ l \in 1 .. Len(s) /\ Relocated(ir2VmInst(ir), x, s, l, Inst)
    BY AtInst
  <2> HIDE DEF s
  <2>3. Inst.op = "JMP"
    BY <2>1, <2>2 DEF JumpInst
  <2> QED BY <2>2, <2>3 DEF Relocated
<1>3. ~Fault(Inst)
  BY <1>2 DEF Fault, ArithOps, LogicOps, CompareOps, UnaryOps
<1>4. Jmp
  BY <1>1, <1>2, <1>3, Turn DEF Abort, Turns, ArithOps, LogicOps, CompareOps, UnaryOps, LoadConst, StoreConst
<1>5. pc' = Inst.target /\ UNCHANGED <<prog, reg, frame, mode, status, out>>
  BY <1>4 DEF Jmp
<1>6. f # 0 /\ f \in 1 .. Len(ir.funcs) /\ MeantIn(ir, f, x)
  BY BodyFunction
<1>7. LeadsIn(ir, f, x.to)
  BY <1>6 DEF MeantIn, TargetsOK, LeadsIn
<1>8. SoundNext /\ AbsAnswer' = NotGiven /\ Goes(f, x.to)
  BY <1>1, <1>2, <1>5, <1>6, <1>7, JumpTo
<1>9. AbsAnswer = NotGiven /\ IRM!Inst = x /\ IRM!Executes("JMP") /\ IRM!Running.fn = f
  BY AtAnswer, AtRuns, RunningIs DEF InStep
<1>10. IRM!Jump
  BY <1>5, <1>8, <1>9, SameGlobals DEF IRM!Jump, Goes
<1> QED BY <1>8, <1>10, Computes DEF IRM!Next

LEMMA BranchTurn ==
  ASSUME NEW f, NEW b, NEW n, NEW l, NEW x, At(f, b, n, l, x), Branches(x)
  PROVE  Simulated
<1> DEFINE ir == prog.source
           u == ValueIn(frame, x.cond)
           s == genInst(x)
           B == ir2VmInst(ir)
<1>1. /\ Facts /\ Sound1 /\ Next /\ Fetched /\ Doing(f, b, n, l) /\ x = IRInsts(prog.source, f, b)[n]
      /\ Ready(x, l, reg, frame) /\ FramesOK(frame) /\ DOMAIN reg = Reg /\ \A q \in Reg : reg[q] # Bad
      /\ 0 \in Reg
  BY AtFacts
<1>2. Len(s) = 2 /\ s[1] = LoadOf(0, x.cond) /\ s[2] = BranchInst(x.yes, x.no)
  BY BranchesCode
<1>3. x.tag = "BRANCH" /\ Simple(x.cond)
  BY DEF Branches, Simple
<1>4. LastOf(f, b, n) = 2 /\ l \in 1 .. 2 /\ (s[l].op \notin {"JMP", "JIF", "CALL"} => Inst = s[l])
      /\ Inst.op = s[l].op /\ Relocated(B, x, s, l, Inst)
  <2>1. /\ LastOf(f, b, n) = Len(s) /\ l \in 1 .. Len(s) /\ Relocated(B, x, s, l, Inst)
        /\ (s[l].op \notin {"JMP", "JIF", "CALL"} => Inst = s[l]) /\ Inst.op = s[l].op
    BY AtInst
  <2> HIDE DEF s, B
  <2> QED BY <1>2, <2>1
<1>5. l = 2 => reg[0] = u
  BY <1>1, ReadyIs
<1>6. AbsAnswer = NotGiven /\ IRM!Inst = x /\ IRM!Executes("BRANCH") /\ IRM!Running.fn = f
      /\ IRM!Operand(x.cond) = u
  BY <1>3, AtAnswer, AtRuns, RunningIs DEF InStep
<1>7. ~HasTruth(u) => IRM!Fails
  BY <1>6, SameTruth DEF IRM!Fails
<1>8. CASE l = 1
  <2>1. Inst = LoadOf(0, x.cond)
    BY <1>2, <1>4, <1>8, LoadOps
  <2>2. Loads(0, x.cond)
    BY <1>1, <1>3, <2>1, LoadTurn
  <2>3. Grown(frame, frame') /\ reg' = [reg EXCEPT ![0] = u] => Ready(x, 2, reg', frame')
    <3> SUFFICES ASSUME Grown(frame, frame'), reg' = [reg EXCEPT ![0] = u] PROVE Ready(x, 2, reg', frame')
      OBVIOUS
    <3>1. reg'[0] = ValueIn(frame', x.cond)
      BY <1>1, GrownLookups
    <3> QED BY <3>1, ReadyIs
  <2>4. l < LastOf(f, b, n) /\ l + 1 = 2
    BY <1>4, <1>8
  <2>5. u = Bad => IRM!Fails
    <3>1. ~HasTruth(Bad)
      BY DEF HasTruth, IsInt, IsStr, Bad
    <3> QED BY <1>7, <3>1
  <2> QED BY <1>1, <1>3, <2>2, <2>3, <2>4, <2>5, LoadInside
<1>9. CASE l = 2
  <2>1. Inst.op = "JIF" /\ Inst.target1 = Target(B, x.yes, FALSE) /\ Inst.target2 = Target(B, x.no, FALSE)
    <3>1. Inst.op = "JIF"
      BY <1>2, <1>4, <1>9 DEF BranchInst
    <3> QED BY <1>4, <3>1 DEF Relocated
  <2>2. Fault(Inst) <=> ~HasTruth(u)
    BY <1>5, <1>9, <2>1 DEF Fault, ArithOps, LogicOps, CompareOps, UnaryOps
  <2>3. Abort \/ Jif
    BY <1>1, <2>1, Turn DEF Turns, ArithOps, LogicOps, CompareOps, UnaryOps, LoadConst, StoreConst
  <2>4. CASE Abort
    BY <1>1, <1>7, <2>2, <2>4, Aborts DEF Abort
  <2>5. CASE Jif
    <3> DEFINE to == IF Truth(u) THEN x.yes ELSE x.no
    <3>1. ~Fault(Inst) /\ pc' = Target(B, to, FALSE) /\ UNCHANGED <<prog, frame, mode, status, out>>
          /\ reg' = [reg EXCEPT ![0] = Flag(FALSE)]
      BY <1>5, <1>9, <2>1, <2>5 DEF Jif, Fetch
    <3>2. \A q \in Reg : reg'[q] # Bad
      BY <1>1, <3>1 DEF Flag, Int64, Bad
    <3>3. f # 0 /\ f \in 1 .. Len(ir.funcs) /\ MeantIn(ir, f, x)
      BY <1>3, BodyFunction
    <3>4. LeadsIn(ir, f, x.yes) /\ LeadsIn(ir, f, x.no)
      BY <1>3, <3>3 DEF MeantIn, TargetsOK, LeadsIn
    <3>5. LeadsIn(ir, f, to)
      BY <3>4
    <3>6. SoundNext /\ AbsAnswer' = NotGiven /\ Goes(f, to)
      <4> HIDE DEF to
      <4> QED BY <1>1, <3>1, <3>2, <3>3, <3>5, JumpTo
    <3>7. IRM!HasTruth(IRM!Operand(x.cond)) /\ IRM!Truth(IRM!Operand(x.cond)) = Truth(u)
      BY <1>6, <2>2, <3>1, SameTruth
    <3>8. (IF IRM!Truth(IRM!Operand(x.cond)) THEN x.yes ELSE x.no) = to
      BY <3>7
    <3> HIDE DEF to
    <3>9. IRM!Branch
      BY <1>6, <3>1, <3>6, <3>7, <3>8, SameGlobals DEF IRM!Branch, Goes
    <3> QED BY <3>6, <3>9, Computes DEF IRM!Next
  <2> QED BY <2>3, <2>4, <2>5
<1> QED BY <1>4, <1>8, <1>9

(* A return loads its value first. *)
LEMMA ReturnLoads ==
  ASSUME NEW f, NEW b, NEW n, NEW l, NEW x, At(f, b, n, l, x), Returns(x), l # LastOf(f, b, n)
  PROVE  Simulated
<1> DEFINE u == ValueIn(frame, x.ret)
           s == genInst(x)
<1>1. /\ Facts /\ Sound1 /\ Next /\ Fetched /\ Doing(f, b, n, l) /\ x = IRInsts(prog.source, f, b)[n]
      /\ Ready(x, l, reg, frame) /\ FramesOK(frame) /\ DOMAIN reg = Reg /\ \A q \in Reg : reg[q] # Bad
      /\ 1 \in Reg
  BY AtFacts
<1>2. /\ LastOf(f, b, n) = Len(s) /\ l \in 1 .. Len(s)
      /\ (s[l].op \notin {"JMP", "JIF", "CALL"} => Inst = s[l])
  BY AtInst
<1>3. x.ret # NoOperand
  <2>1. x.ret = NoOperand => Len(s) = 1
    BY ReturnsCode
  <2> HIDE DEF s
  <2> QED BY <1>2, <2>1
<1>4. LastOf(f, b, n) = 2 /\ l = 1 /\ s[1] = LoadOf(1, x.ret)
  <2>1. Len(s) = 2 /\ s[1] = LoadOf(1, x.ret)
    BY <1>3, ReturnsCode
  <2> HIDE DEF s
  <2> QED BY <1>2, <2>1
<1>5. x.tag = "RETURN" /\ Simple(x.ret)
  BY <1>3 DEF Returns
<1>6. Inst = LoadOf(1, x.ret)
  BY <1>2, <1>4, LoadOps
<1>7. Loads(1, x.ret)
  BY <1>1, <1>5, <1>6, LoadTurn
<1>8. u = Bad => IRM!Fails
  <2>1. IRM!Inst = x /\ IRM!Executes("RETURN") /\ IRM!Operand(x.ret) = u
    BY <1>5, AtRuns
  <2> QED BY <1>3, <2>1, SameConstants DEF IRM!Fails
<1>9. Grown(frame, frame') /\ reg' = [reg EXCEPT ![1] = u] => Ready(x, 2, reg', frame')
  <2> SUFFICES ASSUME Grown(frame, frame'), reg' = [reg EXCEPT ![1] = u] PROVE Ready(x, 2, reg', frame')
    OBVIOUS
  <2>1. reg'[1] = ValueIn(frame', x.ret)
    BY <1>1, GrownLookups
  <2> QED BY <2>1, ReadyIs
<1>10. l < LastOf(f, b, n) /\ l + 1 = 2
  BY <1>4
<1> QED BY <1>1, <1>5, <1>7, <1>8, <1>9, <1>10, LoadInside

LEMMA OneSpot ==
  ASSUME NEW ir, NEW p, Compiles(ir, p), NEW i,
         NEW f, NEW b, NEW n, NEW l, AtSpot(ir, i, f, b, n, l),
         NEW g, NEW c, NEW m, NEW e, AtSpot(ir, i, g, c, m, e)
  PROVE  f = g /\ b = c /\ n = m /\ l = e
<1>1. f = g /\ b = c /\ n = m
  BY SpotFacts
<1> DEFINE k == Begin(ir, f, b, n)
<1>2. k \in Nat /\ l \in Nat /\ e \in Nat /\ i = k + l - 1 /\ i = k + e - 1
  BY <1>1, SpotFacts DEF AtSpot
<1> HIDE DEF k
<1> QED BY <1>1, <1>2

(* The last instruction of main is its only return. *)
LEMMA EndOfMain ==
  ASSUME NEW ir, NEW p, Compiles(ir, p)
  PROVE  \E b, n : /\ AtSpot(ir, p.entry_end, MainOf(ir), b, n, Extent(ir, MainOf(ir), b, n))
                   /\ IRInsts(ir, MainOf(ir), b)[n].tag = "RETURN"
                   /\ \A c, m : /\ IsSpot(ir, MainOf(ir), c, m)
                                /\ IRInsts(ir, MainOf(ir), c)[m].tag = "RETURN"
                                => c = b /\ m = n
<1> DEFINE f == MainOf(ir)
           b == Len(ir.funcs[f].blocks)
           n == Len(ir.funcs[f].blocks[b].insts)
           e == Extent(ir, f, b, n)
<1>1. /\ WellFormedIR(ir) /\ Meant(ir) /\ f \in 1 .. Len(ir.funcs) /\ ir.funcs[f].name = ENTRY_FUNC
      /\ p.entry_end = HeadAt(ir)[f + 1] - 1
  BY CompiledFields, MainFunction
<1>2. IsSpot(ir, f, b, n) /\ Begin(ir, f, b, n) + e - 1 = HeadAt(ir)[f + 1] - 1
  BY <1>1, EndSpot
<1>3. f # 0 /\ f \in DOMAIN ir.funcs
  <2>1. f \in DOMAIN ir.funcs
    BY <1>1, FuncOfName
  <2>2. \A k : f \in 1 .. k => f # 0
    <3> HIDE DEF f
    <3> QED OBVIOUS
  <2> QED BY <1>1, <2>1, <2>2
<1>4. e \in Nat \ {0} /\ e \in 1 .. e
  <2>1. AtSpot(ir, Begin(ir, f, b, n), f, b, n, 1)
    BY <1>2, StartOfSpot
  <2>2. e \in Nat \ {0}
    BY <2>1, SpotFacts
  <2> HIDE DEF e
  <2> QED BY <2>2
<1>5. AtSpot(ir, p.entry_end, f, b, n, e)
  BY <1>1, <1>2, <1>4 DEF AtSpot
<1>6. \A c : IRInsts(ir, f, c) = ir.funcs[f].blocks[c].insts
  BY <1>3 DEF IRInsts
<1>7. \A c, m : IsSpot(ir, f, c, m) => c \in DOMAIN ir.funcs[f].blocks /\ m \in DOMAIN ir.funcs[f].blocks[c].insts
  <2> SUFFICES ASSUME NEW c, NEW m, IsSpot(ir, f, c, m)
               PROVE  c \in DOMAIN ir.funcs[f].blocks /\ m \in DOMAIN ir.funcs[f].blocks[c].insts
    OBVIOUS
  <2>1. c \in 1 .. Len(ir.funcs[f].blocks) /\ m \in 1 .. Len(ir.funcs[f].blocks[c].insts)
    BY <1>3, <1>6 DEF IsSpot, IsBlock, BlockTotal
  <2>2. FunctionOK(ir, ir.funcs[f])
    BY <1>1, <1>3 DEF WellFormedIR
  <2>3. IsVector(ir.funcs[f].blocks)
    BY <2>2 DEF FunctionOK
  <2>4. c \in DOMAIN ir.funcs[f].blocks
    BY <2>1, <2>3, VectorShape
  <2>5. IsVector(ir.funcs[f].blocks[c].insts)
    BY <2>2, <2>4 DEF FunctionOK
  <2> QED BY <2>1, <2>4, <2>5, VectorShape
<1>8. \A c, m : IsSpot(ir, f, c, m) => (IRInsts(ir, f, c)[m].tag = "RETURN" <=> <<c, m>> = <<b, n>>)
  BY <1>1, <1>3, <1>6, <1>7 DEF Meant
<1> HIDE DEF b, n, f, e
<1>9. IRInsts(ir, f, b)[n].tag = "RETURN"
  BY <1>2, <1>8
<1>10. \A c, m : IsSpot(ir, f, c, m) /\ IRInsts(ir, f, c)[m].tag = "RETURN" => c = b /\ m = n
  BY <1>8
<1> QED BY <1>5, <1>9, <1>10 DEF f, e

-----------------------------------------------------------------------------
(* The end of main, and of a call *)

(* The call depth, seen from the program. *)
LEMMA DepthIs ==
  ASSUME Facts, NEW f, NEW b, NEW n, NEW l, Doing(f, b, n, l), f # 0
  PROVE  /\ f = MainOf(prog.source) <=> Len(frame) = 2
         /\ Len(frame) \in Nat /\ Len(frame) >= 2
<1>1. /\ AtSpot(prog.source, pc, f, b, n, l) /\ Compiles(prog.source, prog) /\ FramesOK(frame)
      /\ Linked(prog, frame, pc)
  BY DEF Facts, Doing
<1>2. Len(frame) \in Nat /\ Len(frame) >= 2
  BY <1>1, TopIn DEF Linked
<1> DEFINE t == Len(frame)
<1>3. t \in 2 .. t /\ pc = Spot(frame, pc, t)
  <2>1. pc = Spot(frame, pc, t)
    BY DEF Spot
  <2>2. t \in Nat /\ t >= 2
    BY <1>2
  <2> HIDE DEF t
  <2> QED BY <2>1, <2>2
<1>4. prog.layout[pc].fn = f
  BY <1>1, SpotFacts
<1>5. t \in 2 .. Len(frame)
  BY <1>3
<1>6. Len(frame) = t
  OBVIOUS
<1> HIDE DEF t
<1>7. prog.layout[pc].fn = MainOf(prog.source) <=> t = 2
  BY <1>1, <1>3, <1>5, MainFrame
<1> QED BY <1>2, <1>4, <1>6, <1>7

LEMMA HaltTurn ==
  ASSUME Invariant, Halt
  PROVE  Simulated
<1> DEFINE ir == prog.source
           f == MainOf(ir)
<1>1. /\ status = "running" /\ ~AtMain /\ status' = "halted" /\ UNCHANGED <<prog, reg, frame, pc, mode, out>>
      /\ pc = prog.entry_end \/ pc \notin DOMAIN prog.code
  BY DEF Halt
<1>2. Facts /\ ((\E g, b, n, l : Doing(g, b, n, l)) \/ (\E g, k : Heading(g, k)))
  BY <1>1, Context
<1>3. Facts /\ Compiles(ir, prog) /\ DOMAIN prog.code = 0 .. prog.size - 1 /\ FramesOK(frame)
  BY <1>1, HereFacts, CompiledWell DEF Facts
<1>4. pc = prog.entry_end
  <2>1. CASE \E g, b, n, l : Doing(g, b, n, l)
    BY <1>1, <1>3, <2>1, SpotFacts DEF Doing
  <2>2. CASE \E g, k : Heading(g, k)
    BY <1>1, <1>3, <2>2, HeaderFacts DEF Heading, InHeader
  <2> QED BY <1>2, <2>1, <2>2
<1>5. PICK b, n : /\ AtSpot(ir, pc, f, b, n, Extent(ir, f, b, n)) /\ IRInsts(ir, f, b)[n].tag = "RETURN"
  BY <1>3, <1>4, EndOfMain
<1> DEFINE l == Extent(ir, f, b, n)
           x == IRInsts(ir, f, b)[n]
<1>6. ~(\E g, k : Heading(g, k))
  BY <1>3, <1>5, SpotFacts, HeaderFacts DEF Heading, InHeader
<1>7. Doing(f, b, n, l)
  <2>1. PICK g, c, m, e : Doing(g, c, m, e)
    BY <1>2, <1>6
  <2>2. AtSpot(ir, pc, g, c, m, e)
    BY <2>1 DEF Doing
  <2>3. AtSpot(ir, pc, f, b, n, l)
    BY <1>5
  <2> HIDE DEF f, l
  <2>4. g = f /\ c = b /\ m = n /\ e = l
    BY <1>3, <2>2, <2>3, OneSpot
  <2> QED BY <2>1, <2>4
<1>8. f # 0
  <2>1. f \in 1 .. Len(ir.funcs)
    BY <1>3, MainFunction
  <2> HIDE DEF f
  <2> QED BY <2>1
<1>9. Len(frame) = 2
  BY <1>3, <1>7, <1>8, DepthIs
<1> HIDE DEF f, l
<1>10. /\ InStep(Deep(frame, f), f, b, n, Running4(frame, f)) /\ ~IRM!AtEnd /\ IRM!Inst = x
  BY <1>3, <1>7, DoingRuns
<1>11. IRM!Depth = 1
  <2>1. Deep(frame, f) = 1
    BY <1>8, <1>9 DEF Deep
  <2> QED BY <1>10, <2>1, RunningIs DEF InStep
<1>12. AbsStack' = AbsStack /\ AbsAnswer' = AbsAnswer
  BY <1>1, MappingIs, MappingNext
<1>13. IRM!Finish
  BY <1>1, <1>5, <1>10, <1>11, <1>12, SameGlobals DEF IRM!Finish, IRM!Executes
<1>14. SoundNext
  BY <1>1 DEF Invariant, Sound1, SoundNext
<1> QED BY <1>13, <1>14, Computes DEF IRM!Next

(* gs is fs without its last frame. *)
Popped(fs, gs) ==
  FramesOK(gs) /\ Len(gs) = Len(fs) - 1 /\ \A k \in 1 .. Len(fs) - 1 : gs[k] = fs[k]

LEMMA PoppedScopes ==
  ASSUME NEW ir, NEW p, NEW fs, FramesOK(fs), Len(fs) >= 3, NEW i, ScopesOK(ir, p, fs, i),
         NEW gs, Popped(fs, gs), NEW j, NEW f, f = p.layout[j].fn, f = p.layout[fs[Len(fs) - 1].pc].fn
  PROVE  ScopesOK(ir, p, gs, j) /\ Full(ir, f, gs[Len(gs)].symbols)
<1> DEFINE t == Len(fs)
           r == t - 1
<1>1. t \in Nat /\ t >= 3 /\ r \in Nat /\ r >= 2 /\ r = t - 1
  BY TopIn
<1>2. Len(gs) = r /\ \A k \in 1 .. r : gs[k] = fs[k]
  BY DEF Popped
<1>3. fs[r].pc = fs[Len(fs) - 1].pc /\ Len(fs) = t
  OBVIOUS
<1>4. Declared(ir) \subseteq DOMAIN fs[1].symbols
  BY DEF ScopesOK
<1> HIDE DEF t, r
<1>5. \A k \in 2 .. r :
        /\ ScopeOK(ir, p.layout[fs[k].pc].fn, fs[k].symbols)
        /\ Full(ir, p.layout[fs[k].pc].fn, fs[k].symbols)
  <2> SUFFICES ASSUME NEW k \in 2 .. r
               PROVE  /\ ScopeOK(ir, p.layout[fs[k].pc].fn, fs[k].symbols)
                      /\ Full(ir, p.layout[fs[k].pc].fn, fs[k].symbols)
    OBVIOUS
  <2>1. k \in 2 .. Len(fs) /\ k # Len(fs)
    BY <1>1, <1>3
  <2>2. Spot(fs, i, k) = fs[k].pc
    BY <2>1 DEF Spot
  <2> QED BY <2>1, <2>2 DEF ScopesOK
<1>6. \A k \in 2 .. r :
        LET g == p.layout[Spot(gs, j, k)].fn
        IN ScopeOK(ir, g, gs[k].symbols) /\ (k # Len(gs) => Full(ir, g, gs[k].symbols))
  <2> SUFFICES ASSUME NEW k \in 2 .. r
               PROVE  LET g == p.layout[Spot(gs, j, k)].fn
                      IN ScopeOK(ir, g, gs[k].symbols) /\ (k # Len(gs) => Full(ir, g, gs[k].symbols))
    OBVIOUS
  <2>1. k \in 1 .. r
    BY <1>1
  <2>2. gs[k] = fs[k]
    BY <1>2, <2>1
  <2>3. p.layout[Spot(gs, j, k)].fn = p.layout[fs[k].pc].fn
    BY <1>2, <1>3, <2>2 DEF Spot
  <2> QED BY <1>5, <2>2, <2>3
<1>7. gs[1] = fs[1] /\ gs[r] = fs[r] /\ r \in 2 .. r
  BY <1>1, <1>2
<1>8. ScopesOK(ir, p, gs, j)
  BY <1>2, <1>4, <1>6, <1>7 DEF ScopesOK
<1>9. Full(ir, f, gs[r].symbols)
  BY <1>3, <1>5, <1>7
<1> QED BY <1>2, <1>8, <1>9

Upto(s, d) == SubSeq(s, 1, d)

(* Two code indices that belong to the same IR instruction. *)
InBodies(ir, i) == \E f, b, n, l : AtSpot(ir, i, f, b, n, l)
Together(ir, i, j) == \E f, b, n, l, e : AtSpot(ir, i, f, b, n, l) /\ AtSpot(ir, j, f, b, n, e)

LEMMA PoppedStack ==
  ASSUME NEW ir, NEW p, Compiles(ir, p), NEW fs, FramesOK(fs), Len(fs) >= 3, NEW gs, Popped(fs, gs),
         NEW i, InBodies(ir, i), NEW h, h = fs[Len(fs) - 1].pc, NEW j, Together(ir, h, j),
         NEW d, d = Len(fs) - 2
  PROVE  StackOf(p, gs, j, "MAIN") = Upto(StackOf(p, fs, i, "MAIN"), d)
<1>0. PICK f, b, n, l : AtSpot(ir, i, f, b, n, l)
  BY DEF InBodies
<1>01. PICK g, c, m, e, a : AtSpot(ir, h, g, c, m, e) /\ AtSpot(ir, j, g, c, m, a)
  BY DEF Together
<1> DEFINE t == Len(fs)
           was == [k \in 1 .. t - 1 |-> ActOf(p, fs, i, k + 1)]
           now == [k \in 1 .. d |-> ActOf(p, gs, j, k + 1)]
<1>1. t \in Nat /\ t >= 3 /\ d \in Nat /\ d = t - 2 /\ Len(gs) = t - 1 /\ Len(gs) >= 2
  BY TopIn DEF Popped
<1>2. StackOf(p, fs, i, "MAIN") = was
  <2>1. Len(fs) >= 2
    BY <1>1
  <2> QED BY <1>0, <2>1, StackBody DEF Acts
<1>3. StackOf(p, gs, j, "MAIN") = now
  <2>1. StackOf(p, gs, j, "MAIN") = Acts(p, gs, j, Len(gs) - 1)
    BY <1>01, <1>1, StackBody DEF Popped
  <2>2. Len(gs) - 1 = d
    BY <1>1
  <2> QED BY <2>1, <2>2 DEF Acts
<1>4. \A k \in 1 .. d : ActOf(p, gs, j, k + 1) = ActOf(p, fs, i, k + 1)
  <2> SUFFICES ASSUME NEW k \in 1 .. d
               PROVE  ActOf(p, gs, j, k + 1) = ActOf(p, fs, i, k + 1)
    OBVIOUS
  <2> DEFINE q == k + 1
  <2>1. q \in 1 .. t - 1 /\ q # t /\ (q = Len(gs) <=> q = t - 1) /\ q \in Nat
    BY <1>1
  <2>2. gs[q] = fs[q]
    BY <2>1 DEF Popped
  <2>3. t = Len(fs)
    OBVIOUS
  <2> HIDE DEF t, q
  <2>4. Spot(fs, i, q) = fs[q].pc
    BY <2>1, <2>3 DEF Spot
  <2>5. CASE q = Len(gs)
    <3>1. Spot(gs, j, q) = j /\ fs[q].pc = h
      BY <2>1, <2>3, <2>5 DEF Spot
    <3>3. /\ p.layout[j].fn = g /\ p.layout[j].block = c /\ p.layout[j].next = m
      BY <1>01, SpotFacts
    <3>4. p.layout[h].fn = g /\ p.layout[h].block = c /\ p.layout[h].next = m
      BY <1>01, SpotFacts
    <3>5. ActOf(p, gs, j, q) = ActOf(p, fs, i, q)
      BY <2>2, <2>4, <3>1, <3>3, <3>4 DEF ActOf
    <3> QED BY <3>5 DEF q
  <2>6. CASE q # Len(gs)
    <3>1. Spot(gs, j, q) = fs[q].pc
      BY <2>2, <2>6 DEF Spot
    <3>2. ActOf(p, gs, j, q) = ActOf(p, fs, i, q)
      BY <2>2, <2>4, <3>1 DEF ActOf
    <3> QED BY <3>2 DEF q
  <2> QED BY <2>5, <2>6
<1>5. now = SubSeq(was, 1, d)
  <2>1. now = [k \in 1 .. d |-> was[k]]
    <3>1. \A k \in 1 .. d : k \in 1 .. t - 1
      BY <1>1
    <3> QED BY <1>4, <3>1
  <2> HIDE DEF was, now
  <2>2. SubSeq(was, 1, d) = [k \in 1 .. d |-> was[k]]
    BY <1>1
  <2> QED BY <2>1, <2>2
<1> HIDE DEF was, now
<1> QED BY <1>2, <1>3, <1>5 DEF Upto

(* A RET of the running function resumes its caller at the instruction     *)
(* that stores what the call returned.                                     *)
LEMMA Resumes ==
  ASSUME Facts, TypeOK, Fetched, Ret, NEW f, NEW b, NEW n, NEW l, Doing(f, b, n, l), f # 0,
         Inst.op = "RET"
  PROVE  /\ SoundNext /\ AbsAnswer' = Given(reg[1]) /\ Len(frame) >= 3
         /\ AbsStack' = Upto(AbsStack, Len(frame) - 2)
         /\ (prog.source)' = prog.source /\ (Assigned(frame[1].symbols))' = Assigned(frame[1].symbols)
<1> DEFINE ir == prog.source
           t == Len(frame)
           r == t - 1
           i == frame[r].pc
<1>1. /\ AtSpot(ir, pc, f, b, n, l) /\ Compiles(ir, prog) /\ FramesOK(frame) /\ mode = "MAIN"
      /\ Linked(prog, frame, pc) /\ WellLinked(prog) /\ ScopesOK(ir, prog, frame, pc) /\ NoReturnInMain(prog)
      /\ pc # prog.entry_end /\ pc \in DOMAIN prog.code /\ Clean(frame, reg)
  BY CompiledWell DEF Facts, Doing, Fetched
<1>2. OpAt(prog, pc) = "RET"
  BY <1>1 DEF OpAt, Inst
<1>3. t \in Nat /\ t >= 3 /\ r \in Nat /\ r \in 2 .. t - 1 /\ r + 1 = t /\ r = t - 1
  <2>1. t \in Nat /\ t >= 3
    BY <1>1, <1>2, NotMain
  <2> HIDE DEF t
  <2> QED BY <2>1
<1>4. /\ frame' = SubSeq(frame, 1, t - 1) /\ pc' = i + 1
      /\ UNCHANGED <<prog, reg, mode, status, out>>
  <2>1. /\ frame' = SubSeq(frame, 1, Top - 1) /\ pc' = (IF Top > 2 THEN frame[Top - 1].pc ELSE pc) + 1
        /\ UNCHANGED <<prog, reg, mode, status, out>>
    BY DEF Ret
  <2> QED BY <1>3, <2>1 DEF Top
<1>5. Popped(frame, frame')
  <2>1. Len(frame) > 1
    BY <1>3
  <2> QED BY <1>1, <1>4, <2>1, PopKeeps DEF Popped
<1>6. prog.layout[pc].fn = f /\ f \in 1 .. Len(ir.funcs)
  BY <1>1, SpotFacts, SpotFunctionIs
<1>7. Spot(frame, pc, r + 1) = pc
  BY <1>3 DEF Spot
<1>8. \E g, c, m : CallsAt(ir, i, g, c, m, f, ArgsTaken(prog, pc))
  <2> HIDE DEF t, r
  <2>1. r \in 2 .. Len(frame) - 1
    BY <1>3 DEF t
  <2>2. \E g, c, m : CallsAt(ir, frame[r].pc, g, c, m, f, ArgsTaken(prog, pc))
    BY <1>1, <1>6, <1>7, <2>1, CallerAt
  <2> QED BY <2>2
<1>9. ArgsTaken(prog, pc) = ParamCount(ir)[f] /\ ParamCount(ir)[f] \in Nat
  BY <1>1, TakenInBody, SpotFunctionIs
<1> DEFINE a == ParamCount(ir)[f]
<1>10. PICK g, c, m : CallsAt(ir, i, g, c, m, f, a)
  BY <1>8, <1>9
<1> DEFINE y == IRInsts(ir, g, c)[m]
           e == Extent(ir, g, c, m)
<1>11. /\ AtSpot(ir, i, g, c, m, a + 1) /\ g # 0 /\ UserCall(ir, y, f) /\ e = a + 2
  BY <1>10 DEF CallsAt
<1>12. AtSpot(ir, pc', g, c, m, e)
  <2>1. IsSpot(ir, g, c, m) /\ i = Begin(ir, g, c, m) + (a + 1) - 1 /\ Begin(ir, g, c, m) \in Nat
    BY <1>1, <1>11, SpotFacts DEF AtSpot
  <2> DEFINE q == Begin(ir, g, c, m)
  <2>2. i = q + (a + 1) - 1 /\ q \in Nat /\ a \in Nat
    BY <1>9, <2>1
  <2> HIDE DEF i, q, a, e
  <2>3. i + 1 = q + e - 1 /\ e \in 1 .. e
    BY <1>11, <2>2
  <2> QED BY <1>4, <2>1, <2>3 DEF AtSpot, q, e
<1>13. prog.layout[pc'].fn = g /\ prog.layout[i].fn = g
  <2> HIDE DEF i
  <2> QED BY <1>1, <1>11, <1>12, SpotFacts
<1>14. ScopesOK(ir, prog, frame', pc') /\ Full(ir, g, frame'[Len(frame')].symbols)
  <2>1. Len(frame) >= 3 /\ g = prog.layout[frame[Len(frame) - 1].pc].fn
    BY <1>3, <1>13
  <2> QED BY <1>1, <1>5, <1>13, <2>1, PoppedScopes
<1>15. Ready(y, e, reg', frame')
  <2>1. Calling(y) /\ Len(y.src.args) = a
    BY <1>11 DEF UserCall
  <2> HIDE DEF y, e, a
  <2>2. e = Len(y.src.args) + 2
    BY <1>11, <2>1
  <2> QED BY <2>1, <2>2, ReadyIs
<1>16. Executing(ir, prog, frame', pc', reg')
  <2>1. InBody(ir, frame', pc', reg', g, c, m, e)
    BY <1>11, <1>12, <1>14, <1>15 DEF InBody
  <2> QED BY <1>14, <2>1 DEF Executing
<1>17. Clean(frame', reg')
  <2>1. \A k \in 1 .. Len(frame') : k \in 1 .. Len(frame) /\ frame'[k] = frame[k]
    BY <1>3, <1>5 DEF Popped
  <2> QED BY <1>1, <1>4, <2>1 DEF Clean, Holds
<1>18. SoundNext
  BY <1>1, <1>4, <1>16, <1>17, SoundHere DEF SoundNext
<1>19. AbsStack' = Upto(AbsStack, t - 2)
  <2>1. Len(frame) >= 3
    BY <1>3
  <2>2. StackOf(prog, frame', pc', "MAIN") = Upto(StackOf(prog, frame, pc, "MAIN"), Len(frame) - 2)
    <3> DEFINE h == a + 1
               j == pc'
               gs == frame'
    <3>1. Compiles(ir, prog) /\ FramesOK(frame) /\ AtSpot(ir, pc, f, b, n, l)
      BY <1>1
    <3>2. /\ AtSpot(ir, i, g, c, m, h) /\ AtSpot(ir, j, g, c, m, e) /\ Popped(frame, gs)
          /\ i = frame[Len(frame) - 1].pc
      BY <1>5, <1>11, <1>12
    <3> HIDE DEF h, j, gs, e, i, ir
    <3>4. InBodies(ir, pc) /\ Together(ir, i, j)
      BY <3>1, <3>2 DEF InBodies, Together
    <3>3. \A d : d = Len(frame) - 2 => StackOf(prog, gs, j, "MAIN") = Upto(StackOf(prog, frame, pc, "MAIN"), d)
      BY <2>1, <3>1, <3>2, <3>4, PoppedStack
    <3> QED BY <3>3 DEF gs, j
  <2> QED BY <1>1, <1>4, <2>2, MappingIs, MappingNext
<1>20. AbsAnswer' = Given(reg[1])
  <2>1. AbsAnswer' = AnswerOf(prog, pc', reg)
    BY <1>4, MappingNext
  <2>2. y.tag = "ASSIGN" /\ IsCall(y.src)
    BY <1>11, AssignOnly DEF UserCall
  <2>3. AnswerOf(prog, pc', reg) = IF g # 0 /\ e = e /\ y.tag = "ASSIGN" /\ IsCall(y.src)
                                     THEN Given(reg[1]) ELSE NotGiven
    BY <1>1, <1>12, AnswerBody
  <2> QED BY <1>11, <2>1, <2>2, <2>3
<1>21. frame'[1] = frame[1]
  <2>1. 1 \in 1 .. Len(frame) - 1
    BY <1>3
  <2> QED BY <1>5, <2>1 DEF Popped
<1>22. (Assigned(frame[1].symbols))' = Assigned(frame[1].symbols)
  <2>1. (Assigned(frame[1].symbols))' = Assigned(frame'[1].symbols)
    BY Zenon DEF Assigned
  <2> QED BY <1>21, <2>1
<1> QED BY <1>3, <1>4, <1>18, <1>19, <1>20, <1>22

LEMMA ReturnTurn ==
  ASSUME Invariant, NEW f, NEW b, NEW n, NEW l, NEW x, At(f, b, n, l, x), Returns(x), l = LastOf(f, b, n)
  PROVE  Simulated
<1> DEFINE s == genInst(x)
           t == Len(frame)
<1>1. /\ Facts /\ Sound1 /\ Next /\ Fetched /\ Doing(f, b, n, l) /\ TypeOK
      /\ Ready(x, l, reg, frame) /\ FramesOK(frame) /\ DOMAIN reg = Reg /\ \A q \in Reg : reg[q] # Bad
      /\ 1 \in Reg /\ prog.source = prog.source
  BY AtFacts DEF Invariant
<1>2. x.tag = "RETURN"
  BY DEF Returns
<1>3. f # 0
  BY <1>2, BodyFunction
<1>4. /\ s[Len(s)] = [op |-> "RET"] /\ (x.ret = NoOperand => Len(s) = 1)
      /\ (x.ret # NoOperand => Len(s) = 2)
  BY ReturnsCode
<1>5. Inst.op = "RET" /\ l = Len(s)
  <2>1. Inst.op = s[l].op /\ LastOf(f, b, n) = Len(s)
    BY AtInst
  <2> HIDE DEF s
  <2> QED BY <1>4, <2>1
<1>6. Linked(prog, frame, pc) /\ t \in Nat /\ t >= 2
  BY <1>1, <1>3, TopIn DEF Doing, Linked
<1>7. ~Fault(Inst)
  <2>1. Fault(Inst) => Top = 1
    BY <1>5 DEF Fault, ArithOps, LogicOps, CompareOps, UnaryOps
  <2>2. Top = t
    BY DEF Top
  <2> HIDE DEF t
  <2> QED BY <1>6, <2>1, <2>2
<1>8. Ret
  BY <1>1, <1>5, <1>7, Turn DEF Abort, Turns, ArithOps, LogicOps, CompareOps, UnaryOps, LoadConst, StoreConst
<1>9. /\ SoundNext /\ AbsAnswer' = Given(reg[1]) /\ t >= 3
      /\ AbsStack' = Upto(AbsStack, t - 2)
      /\ (prog.source)' = prog.source /\ (Assigned(frame[1].symbols))' = Assigned(frame[1].symbols)
  BY <1>1, <1>3, <1>5, <1>8, Resumes
<1>10. out' = out /\ status' = status
  BY <1>8 DEF Ret
<1>11. IRM!Inst = x /\ IRM!Executes("RETURN") /\ IRM!Depth = t - 1 /\ \A y : IRM!Operand(y) = ValueIn(frame, y)
  BY <1>2, <1>3, AtRuns, RunningIs DEF InStep, Deep
<1>12. x.ret # NoOperand => reg[1] = ValueIn(frame, x.ret)
  BY <1>1, <1>4, <1>5, ReadyIs
<1>13. reg[1] # Bad
  BY <1>1
<1>14. IRM!Return
  <2>1. IRM!Depth > 1 /\ IRM!Depth - 1 = t - 2
    BY <1>6, <1>9, <1>11
  <2>2. x.ret # NoOperand => IRM!Operand(x.ret) # Bad
    BY <1>11, <1>12, <1>13
  <2>3. AbsStack' = SubSeq(AbsStack, 1, IRM!Depth - 1)
    BY <1>9, <2>1 DEF Upto
  <2>4. AbsAnswer' = IRM!Answer(IF x.ret = NoOperand THEN AbsAnswer'.value ELSE IRM!Operand(x.ret))
    <3>1. AbsAnswer'.value = reg[1]
      BY <1>9 DEF Given
    <3>2. (IF x.ret = NoOperand THEN AbsAnswer'.value ELSE IRM!Operand(x.ret)) = reg[1]
      BY <1>11, <1>12, <3>1
    <3> QED BY <1>9, <3>2 DEF IRM!Answer, Given
  <2> QED BY <1>9, <1>10, <1>11, <2>1, <2>2, <2>3, <2>4, SameConstants DEF IRM!Return
<1> QED BY <1>9, <1>14, Computes DEF IRM!Next

-----------------------------------------------------------------------------
(* Calls of functions *)

(* gs is fs after a call at i: i is saved, and a new frame is on top. *)
Pushed(fs, gs, i) ==
  /\ FramesOK(gs) /\ Len(gs) = Len(fs) + 1 /\ gs[Len(gs)].symbols = << >>
  /\ \A k \in 1 .. Len(fs) : gs[k].symbols = fs[k].symbols /\ gs[k].pc = Spot(fs, i, k)

LEMMA PushedScopes ==
  ASSUME NEW ir, NEW p, NEW fs, FramesOK(fs), Len(fs) >= 2, NEW i, ScopesOK(ir, p, fs, i),
         Full(ir, p.layout[i].fn, fs[Len(fs)].symbols), NEW gs, Pushed(fs, gs, i), NEW j
  PROVE  ScopesOK(ir, p, gs, j)
<1> DEFINE t == Len(fs)
<1>1. t \in Nat /\ t >= 2 /\ Len(gs) = t + 1
  BY TopIn DEF Pushed
<1>2. \A k \in 1 .. t : gs[k].symbols = fs[k].symbols /\ Spot(gs, j, k) = Spot(fs, i, k)
  <2> SUFFICES ASSUME NEW k \in 1 .. t
               PROVE  gs[k].symbols = fs[k].symbols /\ Spot(gs, j, k) = Spot(fs, i, k)
    OBVIOUS
  <2>1. gs[k].symbols = fs[k].symbols /\ gs[k].pc = Spot(fs, i, k)
    BY DEF Pushed
  <2>2. k # Len(gs)
    BY <1>1
  <2>3. Spot(gs, j, k) = gs[k].pc
    BY <2>2 DEF Spot
  <2> QED BY <2>1, <2>3
<1>3. Declared(ir) \subseteq DOMAIN gs[1].symbols
  <2>1. 1 \in 1 .. t
    BY <1>1
  <2> QED BY <1>2, <2>1 DEF ScopesOK
<1>4. \A k \in 2 .. t + 1 :
        LET g == p.layout[Spot(gs, j, k)].fn
        IN ScopeOK(ir, g, gs[k].symbols) /\ (k # Len(gs) => Full(ir, g, gs[k].symbols))
  <2> SUFFICES ASSUME NEW k \in 2 .. t + 1
               PROVE  LET g == p.layout[Spot(gs, j, k)].fn
                      IN ScopeOK(ir, g, gs[k].symbols) /\ (k # Len(gs) => Full(ir, g, gs[k].symbols))
    OBVIOUS
  <2>1. CASE k = t + 1
    <3>1. DOMAIN gs[k].symbols = {} /\ k = Len(gs)
      BY <1>1, <2>1 DEF Pushed
    <3> QED BY <3>1 DEF ScopeOK
  <2>2. CASE k # t + 1
    <3>1. k \in 1 .. t /\ k \in 2 .. Len(fs)
      BY <1>1, <2>2
    <3> DEFINE g == p.layout[Spot(fs, i, k)].fn
    <3>2. ScopeOK(ir, g, fs[k].symbols) /\ (k # Len(fs) => Full(ir, g, fs[k].symbols))
      BY <3>1 DEF ScopesOK
    <3>3. k = Len(fs) => Full(ir, g, fs[k].symbols)
      BY DEF Spot
    <3> QED BY <1>2, <3>1, <3>2, <3>3
  <2> QED BY <2>1, <2>2
<1> QED BY <1>1, <1>3, <1>4 DEF ScopesOK

LEMMA PushedStack ==
  ASSUME NEW ir, NEW p, Compiles(ir, p), NEW fs, FramesOK(fs), Len(fs) >= 2,
         NEW i, InBodies(ir, i), NEW gs, Pushed(fs, gs, i), NEW j, NEW g, NEW k, AtHeader(ir, j, g, k)
  PROVE  StackOf(p, gs, j, "MAIN") = StackOf(p, fs, i, "MAIN")
<1> DEFINE t == Len(fs)
<1>1. t \in Nat /\ t >= 2 /\ Len(gs) = t + 1 /\ Len(gs) - 2 = t - 1 /\ Len(gs) >= 2 /\ Len(gs) # 2 /\ FramesOK(gs)
  BY TopIn DEF Pushed
<1>2. StackOf(p, fs, i, "MAIN") = Acts(p, fs, i, t - 1)
  BY StackBody DEF InBodies
<1>3. StackOf(p, gs, j, "MAIN") = Acts(p, gs, j, t - 1)
  BY <1>1, StackHeader
<1>4. \A q \in 1 .. t - 1 : ActOf(p, gs, j, q + 1) = ActOf(p, fs, i, q + 1)
  <2> SUFFICES ASSUME NEW q \in 1 .. t - 1
               PROVE  ActOf(p, gs, j, q + 1) = ActOf(p, fs, i, q + 1)
    OBVIOUS
  <2> DEFINE m == q + 1
  <2>1. m \in 1 .. t /\ m # Len(gs)
    BY <1>1
  <2> HIDE DEF m
  <2>2. gs[m].symbols = fs[m].symbols /\ gs[m].pc = Spot(fs, i, m)
    BY <2>1 DEF Pushed
  <2>3. Spot(gs, j, m) = Spot(fs, i, m)
    BY <2>1, <2>2 DEF Spot
  <2>4. ActOf(p, gs, j, m) = ActOf(p, fs, i, m)
    BY <2>2, <2>3 DEF ActOf
  <2> QED BY <2>4 DEF m
<1> QED BY <1>2, <1>3, <1>4 DEF Acts

LEMMA HeadsAre ==
  ASSUME NEW ir, NEW p, Compiles(ir, p), NEW g \in 1 .. Len(ir.funcs)
  PROVE  ParamCount(ir)[g] \in Nat /\ HeadAt(ir)[g] \in Nat
<1>1. Arranged(Link(ir), Len(ir.funcs), HeadAt(ir), ParamCount(ir))
  BY LinkArranged, CompiledFields
<1> QED BY <1>1, ArrangedNumbers

(* A call of a function only makes its frame: the callee counts as called  *)
(* once its parameters are bound.                                          *)
LEMMA CallsUser ==
  ASSUME Facts, TypeOK, Call, NEW f, NEW b, NEW n, NEW l, Doing(f, b, n, l), f # 0,
         NEW g \in 1 .. Len(prog.source.funcs), Inst.target = HeadAt(prog.source)[g]
  PROVE  /\ SoundNext /\ AbsAnswer' = NotGiven /\ AbsStack' = AbsStack /\ (prog.source)' = prog.source
         /\ (Assigned(frame[1].symbols))' = Assigned(frame[1].symbols)
<1> DEFINE ir == prog.source
           t == Len(frame)
<1>1. /\ AtSpot(ir, pc, f, b, n, l) /\ Compiles(ir, prog) /\ FramesOK(frame) /\ mode = "MAIN"
      /\ Scoped(ir, frame, f) /\ ScopesOK(ir, prog, frame, pc) /\ Clean(frame, reg)
      /\ Len(frame) >= 2 /\ Full(ir, f, frame[Len(frame)].symbols)
  BY DEF Facts, Doing, Scoped
<1>2. /\ FramesOK(frame') /\ Len(frame') = t + 1 /\ t \in Nat
      /\ \A k \in 1 .. t - 1 : frame'[k] = frame[k]
      /\ frame'[t].pc = pc /\ frame'[t].symbols = frame[t].symbols
      /\ frame'[t + 1] = NewFrame
  BY CallFrames DEF Top
<1>3. pc' = HeadAt(ir)[g] /\ UNCHANGED <<prog, reg, mode, status, out>>
  BY DEF Call
<1>4. Pushed(frame, frame', pc)
  <2>1. frame'[Len(frame')].symbols = << >>
    BY <1>2 DEF NewFrame
  <2>2. \A k \in 1 .. Len(frame) : frame'[k].symbols = frame[k].symbols /\ frame'[k].pc = Spot(frame, pc, k)
    <3> SUFFICES ASSUME NEW k \in 1 .. t
                 PROVE  frame'[k].symbols = frame[k].symbols /\ frame'[k].pc = Spot(frame, pc, k)
      OBVIOUS
    <3>1. k = t \/ k \in 1 .. t - 1
      BY <1>2
    <3> QED BY <1>2, <3>1 DEF Spot
  <2> QED BY <1>2, <2>1, <2>2 DEF Pushed
<1>5. AtHeader(ir, pc', g, 0)
  <2>1. ParamCount(ir)[g] \in Nat /\ HeadAt(ir)[g] \in Nat
    BY <1>1, HeadsAre
  <2> QED BY <1>3, <2>1 DEF AtHeader
<1>6. prog.layout[pc].fn = f
  BY <1>1, SpotFacts
<1>7. ScopesOK(ir, prog, frame', pc')
  BY <1>1, <1>4, <1>6, PushedScopes
<1>8. Passing(ir, prog, frame', g, 0)
  <2>1. DOMAIN frame'[Len(frame')].symbols = {} /\ \A k : ~(k \in 1 .. Taken(0))
    BY <1>4 DEF Pushed, Taken
  <2> QED BY <2>1 DEF Passing
<1>9. Executing(ir, prog, frame', pc', reg')
  BY <1>5, <1>7, <1>8 DEF Executing, InHeader
<1>10. Clean(frame', reg')
  <2>1. \A r \in Reg : reg'[r] # Bad
    BY <1>1, <1>3 DEF Clean
  <2>2. \A k \in 1 .. Len(frame') : \A m : Held(frame'[k].symbols, m) # Bad
    <3> SUFFICES ASSUME NEW k \in 1 .. Len(frame'), NEW m PROVE Held(frame'[k].symbols, m) # Bad
      OBVIOUS
    <3>1. CASE k = t + 1
      <4>1. DOMAIN frame'[k].symbols = {}
        BY <1>2, <1>4, <3>1 DEF Pushed
      <4> QED BY <4>1 DEF Held, None, Bad
    <3>2. CASE k # t + 1
      <4>1. k \in 1 .. Len(frame)
        BY <1>2, <3>2
      <4>2. frame'[k].symbols = frame[k].symbols
        BY <1>4, <4>1 DEF Pushed
      <4> QED BY <1>1, <4>1, <4>2 DEF Clean, Holds
    <3> QED BY <3>1, <3>2
  <2> QED BY <2>1, <2>2 DEF Clean, Holds
<1>11. SoundNext
  BY <1>1, <1>3, <1>9, <1>10, SoundHere DEF SoundNext
<1>12. AbsStack' = AbsStack
  <2>1. StackOf(prog, frame', pc', "MAIN") = StackOf(prog, frame, pc, "MAIN")
    <3>1. InBodies(ir, pc)
      BY <1>1 DEF InBodies
    <3> QED BY <1>1, <1>4, <1>5, <3>1, PushedStack
  <2> QED BY <1>1, <1>3, <2>1, MappingIs, MappingNext
<1>13. AbsAnswer' = NotGiven
  <2>1. AnswerOf(prog, pc', reg') = NotGiven
    BY <1>1, <1>5, AnswerHeader
  <2> QED BY <1>3, <2>1, MappingNext
<1>14. (Assigned(frame[1].symbols))' = Assigned(frame[1].symbols)
  <2>1. (Assigned(frame[1].symbols))' = Assigned(frame'[1].symbols)
    BY Zenon DEF Assigned
  <2>2. 1 \in 1 .. t - 1
    BY <1>1, <1>2
  <2> QED BY <1>2, <2>1, <2>2
<1> QED BY <1>3, <1>11, <1>12, <1>13, <1>14

(* The machine is about to execute a call. *)
LEMMA CallIs ==
  ASSUME NEW f, NEW b, NEW n, NEW l, NEW x, At(f, b, n, l, x), Calling(x)
  PROVE  /\ f # 0 /\ mode = "MAIN" /\ x.tag = "ASSIGN" /\ IsCall(x.src) /\ Len(x.src.args) \in Nat
         /\ LastOf(f, b, n) = Len(x.src.args) + 2
         /\ l = 1 \/ l = LastOf(f, b, n)
         /\ l = 1 => AbsAnswer = NotGiven
         /\ l # 1 => AbsAnswer = Given(reg[1])
         /\ Len(frame) \in Nat /\ Len(frame) >= 2
<1> DEFINE s == genInst(x)
           args == x.src.args
<1>1. LastOf(f, b, n) = Len(s) /\ MeantIn(prog.source, f, x)
  BY AtInst
<1>2. f # 0
  BY <1>1 DEF MeantIn
<1>3. Len(args) \in Nat /\ Len(s) = Len(args) + 2
  BY CallingCode
<1>4. x.tag = "ASSIGN" /\ IsCall(x.src)
  BY AssignOnly
<1>5. l = 1 \/ l = Len(args) + 2
  BY AtFacts, ReadyIs
<1>6. mode = "MAIN" /\ Len(frame) \in Nat /\ Len(frame) >= 2
  BY <1>2, AtFacts, TopIn DEF Doing, Scoped
<1> HIDE DEF s, args
<1>7. LastOf(f, b, n) = Len(args) + 2 /\ LastOf(f, b, n) # 1
  BY <1>1, <1>3
<1>8. AbsAnswer = IF l = LastOf(f, b, n) THEN Given(reg[1]) ELSE NotGiven
  BY <1>2, <1>4, AtAnswer
<1> QED BY <1>2, <1>3, <1>4, <1>5, <1>6, <1>7, <1>8 DEF args

LEMMA UserTurn ==
  ASSUME Invariant, NEW f, NEW b, NEW n, NEW l, NEW x, At(f, b, n, l, x), Calling(x), l = 1,
         x.src.call \notin DOMAIN BuiltinIndex
  PROVE  Simulated
<1> DEFINE ir == prog.source
<1>1. /\ Facts /\ Next /\ Fetched /\ Doing(f, b, n, l) /\ TypeOK /\ x = IRInsts(ir, f, b)[n]
      /\ Compiles(ir, prog) /\ AtSpot(ir, pc, f, b, n, l)
  BY AtFacts DEF Invariant, Facts, Doing
<1>2. f # 0 /\ AbsAnswer = NotGiven
  BY CallIs
<1>3. Inst.op = "CALL"
  <2>1. genInst(x)[1] = CallInst(x.src.call)
    BY CallingCode
  <2>2. Inst.op = genInst(x)[l].op
    BY AtInst
  <2> QED BY <2>1, <2>2 DEF CallInst
<1>4. PICK g : UserCall(ir, x, g) /\ Inst.target = HeadAt(ir)[g]
  <2>1. prog.code[pc].op = "CALL"
    BY <1>3 DEF Inst
  <2>2. \E g : UserCall(ir, x, g) /\ prog.code[pc].target = HeadAt(ir)[g]
    BY <1>1, <2>1, CallSpot
  <2> QED BY <2>2 DEF Inst
<1>5. g \in 1 .. Len(ir.funcs) /\ HeadAt(ir)[g] \in Nat
  BY <1>1, <1>4, HeadsAre DEF UserCall
<1>6. Inst.target >= 0 /\ ~(Inst.target < 0)
  BY <1>4, <1>5
<1>7. ~Fault(Inst)
  BY <1>3, <1>6 DEF Fault, ArithOps, LogicOps, CompareOps, UnaryOps
<1>8. Call \/ Builtins
  BY <1>1, <1>3, <1>7, Turn DEF Abort, Turns, ArithOps, LogicOps, CompareOps, UnaryOps, LoadConst, StoreConst
<1>9. Call
  <2>1. ASSUME Builtins PROVE Inst.target \in Builtin
    BY <2>1 DEF Builtins, CallPrint, CallRead, CallConvert, CallLength, CallBuiltin, Fetch, Builtin
  <2>2. Inst.target \notin Builtin
    BY <1>6 DEF Builtin, Printing, Read, ToInt, ToStr, Length
  <2> QED BY <1>8, <2>1, <2>2
<1>10. /\ SoundNext /\ AbsAnswer' = NotGiven /\ AbsStack' = AbsStack /\ (prog.source)' = prog.source
       /\ (Assigned(frame[1].symbols))' = Assigned(frame[1].symbols)
  BY <1>1, <1>2, <1>4, <1>5, <1>9, CallsUser
<1>11. out' = out /\ status' = status
  BY <1>9 DEF Call
<1>12. UNCHANGED IRM!vars
  BY <1>2, <1>10, <1>11 DEF IRM!vars
<1> QED BY <1>10, <1>12, Stutters

(* What the call returned is stored. *)
LEMMA ResultTurn ==
  ASSUME NEW f, NEW b, NEW n, NEW l, NEW x, At(f, b, n, l, x), Calling(x), l = LastOf(f, b, n), l # 1
  PROVE  Simulated
<1> DEFINE v == reg[1]
<1>1. /\ Facts /\ Sound1 /\ Next /\ Fetched /\ Doing(f, b, n, l) /\ x = IRInsts(prog.source, f, b)[n]
      /\ FramesOK(frame) /\ DOMAIN reg = Reg /\ v = reg[1]
      /\ 1 \in Reg /\ v # Bad
  <2>1. /\ Facts /\ Sound1 /\ Next /\ Fetched /\ Doing(f, b, n, l) /\ x = IRInsts(prog.source, f, b)[n]
        /\ FramesOK(frame) /\ DOMAIN reg = Reg /\ 1 \in Reg
    BY AtFacts
  <2>2. \A q \in Reg : reg[q] # Bad
    BY AtFacts
  <2> QED BY <2>1, <2>2
<1> HIDE DEF v
<1>2. f # 0 /\ x.tag = "ASSIGN" /\ IsCall(x.src) /\ AbsAnswer = Given(v) /\ l = Len(x.src.args) + 2
  BY <1>1, CallIs
<1>3. Inst = genStoreX(x.dest, 1)
  <2>1. genInst(x)[l] = genStoreX(x.dest, 1)
    BY <1>2, CallingCode
  <2>2. genStoreX(x.dest, 1).op \notin {"JMP", "JIF", "CALL"}
    BY DEF genStoreX
  <2> QED BY <2>1, <2>2, AtInst
<1>4. StoreTurns(x.dest, v)
  BY <1>1, <1>3, StoreTurn
<1>5. IRM!Inst = x /\ IRM!Executes("ASSIGN") /\ IRM!Element(x.dest) = ElementIn(frame, x.dest)
  BY <1>2, AtRuns
<1>6. CASE Abort /\ ElementIn(frame, x.dest) = Bad
  <2>1. IRM!Fails
    BY <1>2, <1>5, <1>6, SameConstants DEF IRM!Fails, Given
  <2> QED BY <1>1, <1>6, <2>1, Aborts
<1>7. CASE ElementIn(frame, x.dest) # Bad /\ Stored(x.dest, v) /\ Straightly /\ UNCHANGED <<reg, out>>
  <2>1. Stores(x.dest, v) /\ (prog.source)' = prog.source /\ out' = out /\ status' = status
    BY <1>1, <1>2, <1>7, Final
  <2>2. IRM!Store
    BY <1>2, <1>5, <1>7, <2>1, SameConstants DEF IRM!Store, Stores, Given, NotGiven, IRM!NoAnswer
  <2> QED BY <2>1, <2>2, Computes DEF IRM!Next, Stores
<1> QED BY <1>4, <1>6, <1>7 DEF StoreTurns

-----------------------------------------------------------------------------
(* Calls of builtins *)

(* What a builtin call finds behind it. *)
LEMMA BuiltinFinds ==
  ASSUME NEW f, NEW b, NEW n, NEW l, NEW x, At(f, b, n, l, x), Calling(x), l = 1,
         x.src.call \in DOMAIN BuiltinIndex
  PROVE  /\ Inst.op = "CALL" /\ Inst.target = BuiltinIndex[x.src.call]
         /\ x.src.call = "read" => Len(x.src.args) = 0 /\ ~HasArg
         /\ x.src.call # "read" => /\ Len(x.src.args) = 1 /\ Simple(x.src.args[1])
                                   /\ HasArg /\ TheArg = genArg(x.src.args[1])
<1> DEFINE ir == prog.source
           s == genInst(x)
           args == x.src.args
           i == pc + 1
<1>1. /\ Facts /\ Doing(f, b, n, l) /\ x = IRInsts(ir, f, b)[n] /\ Compiles(ir, prog) /\ AtSpot(ir, pc, f, b, n, 1)
      /\ f # 0 /\ Len(args) \in Nat /\ Extent(ir, f, b, n) = Len(args) + 2
  BY AtFacts, CallIs DEF Facts, Doing, LastOf
<1>2. Inst.op = "CALL"
  <2>1. s[1] = CallInst(x.src.call)
    BY CallingCode
  <2>2. Inst.op = s[l].op
    BY AtInst
  <2> QED BY <2>1, <2>2 DEF CallInst
<1>3. Inst.target = BuiltinIndex[x.src.call]
  <2>1. prog.code[pc].op = "CALL"
    BY <1>2 DEF Inst
  <2>2. \/ x.src.call \in DOMAIN BuiltinIndex /\ prog.code[pc].target = BuiltinIndex[x.src.call]
        \/ \E g : UserCall(ir, x, g) /\ prog.code[pc].target = HeadAt(ir)[g]
    BY <1>1, <2>1, CallSpot
  <2> QED BY <2>2 DEF Inst, UserCall
<1>4. /\ Len(args) = IF x.src.call = "read" THEN 0 ELSE 1
      /\ \A k \in DOMAIN args : Simple(args[k])
  <2>1. MeantIn(ir, f, x)
    BY AtInst
  <2> QED BY <1>1, <2>1 DEF MeantIn, ArgumentsOK
<1>5. AtSpot(ir, i, f, b, n, 2)
  <2>1. IsSpot(ir, f, b, n) /\ pc = Begin(ir, f, b, n) + 1 - 1 /\ Begin(ir, f, b, n) \in Nat
    BY <1>1, SpotFacts DEF AtSpot
  <2>2. 2 \in 1 .. Extent(ir, f, b, n)
    <3> HIDE DEF args
    <3> QED BY <1>1
  <2>3. i = Begin(ir, f, b, n) + 2 - 1
    BY <2>1
  <2> QED BY <2>1, <2>2, <2>3 DEF AtSpot
<1>6. i \in DOMAIN prog.code
  <2>1. i \in 0 .. prog.size - 1 /\ DOMAIN prog.code = 0 .. prog.size - 1
    <3> HIDE DEF i
    <3> QED BY <1>1, <1>5, SpotFacts, CompiledWell
  <2> QED BY <2>1
<1>7. prog.code[i].op = s[2].op /\ (s[2].op \notin {"JMP", "JIF", "CALL"} => prog.code[i] = s[2])
  <2> HIDE DEF i
  <2> QED BY <1>1, <1>5, SpotInst
<1>8. CASE x.src.call = "read"
  <2>1. Len(args) = 0 /\ s[Len(args) + 2] = genStoreX(x.dest, 1)
    BY <1>4, <1>8, CallingCode
  <2>2. s[2] = genStoreX(x.dest, 1)
    <3> HIDE DEF args, s
    <3> QED BY <2>1
  <2>3. ~HasArg
    BY <1>7, <2>2 DEF HasArg, genStoreX
  <2> QED BY <1>2, <1>3, <1>8, <2>1, <2>3
<1>9. CASE x.src.call # "read"
  <2>1. Len(args) = 1 /\ \A k \in 1 .. Len(args) : s[k + 1] = genArg(args[k])
    BY <1>4, <1>9, CallingCode
  <2>2. s[2] = genArg(args[1]) /\ 1 \in 1 .. Len(args)
    <3> HIDE DEF args, s
    <3> QED BY <2>1
  <2>3. DOMAIN args = 1 .. Len(args)
    BY VectorShape DEF Calling
  <2>4. genArg(args[1]).op = "ARG"
    BY DEF genArg
  <2>5. HasArg /\ TheArg = genArg(args[1])
    BY <1>6, <1>7, <2>2, <2>4 DEF HasArg, TheArg
  <2> QED BY <1>2, <1>3, <1>4, <1>9, <2>1, <2>2, <2>3, <2>5
<1> QED BY <1>8, <1>9

LEMMA ArgumentValue ==
  ASSUME HasArg, NEW y, Simple(y), TheArg = genArg(y)
  PROVE  /\ ArgValue = ValueIn(frame, y) /\ (IsVar(y) <=> TheArg.type = "MAP")
         /\ IsVar(y) => TheArg.name = y.var /\ TheArg.idx = y.idx
<1>1. CASE IsVar(y)
  <2>1. TheArg.type = "MAP" /\ TheArg.name = y.var /\ TheArg.idx = y.idx
    BY <1>1 DEF genArg
  <2>2. Element(TheArg.name, TheArg.idx) = ElementIn(frame, y)
    BY <2>1, LookupHere
  <2> QED BY <1>1, <2>1, <2>2 DEF ArgValue, ValueIn
<1>2. CASE ~IsVar(y)
  <2>1. TheArg.type = "RAW" /\ TheArg.val = y.const
    BY <1>2 DEF genArg
  <2> QED BY <1>2, <2>1 DEF ArgValue, ValueIn
<1> QED BY <1>1, <1>2

(* A builtin call goes on at the instruction that stores its result. *)
LEMMA BuiltinGoes ==
  ASSUME NEW f, NEW b, NEW n, NEW l, NEW x, At(f, b, n, l, x), Calling(x), l = 1,
         pc' = pc + (Len(x.src.args) + 1), UNCHANGED <<prog, mode>>,
         SameCalls(frame, frame'), Widened(frame, frame'), Clean(frame', reg'),
         \A k \in 2 .. Len(frame) - 1 : Assigned(frame'[k].symbols) = Assigned(frame[k].symbols)
  PROVE  /\ SoundNext /\ AbsAnswer' = Given(reg'[1]) /\ (prog.source)' = prog.source
         /\ AbsStack' = Rewritten(AbsStack, Len(frame) - 1, Act4(f, b, n, Assigned(frame'[Len(frame)].symbols)))
<1> DEFINE ir == prog.source
           t == Len(frame)
           w == Len(x.src.args)
           e == Extent(ir, f, b, n)
<1>1. /\ Facts /\ Doing(f, b, n, l) /\ x = IRInsts(ir, f, b)[n] /\ Compiles(ir, prog) /\ AtSpot(ir, pc, f, b, n, 1)
      /\ f # 0 /\ w \in Nat /\ e = w + 2 /\ FramesOK(frame) /\ mode = "MAIN" /\ t >= 2
      /\ ScopesOK(ir, prog, frame, pc) /\ Full(ir, f, frame[t].symbols)
      /\ Declared(ir) \subseteq DOMAIN frame[1].symbols /\ x.tag = "ASSIGN" /\ IsCall(x.src)
  <2>1. /\ Facts /\ Doing(f, b, n, l) /\ x = IRInsts(ir, f, b)[n] /\ f # 0 /\ w \in Nat /\ e = w + 2
        /\ x.tag = "ASSIGN" /\ IsCall(x.src) /\ l = 1
    BY AtFacts, CallIs DEF LastOf
  <2>2. Scoped(ir, frame, f) /\ ScopesOK(ir, prog, frame, pc) /\ mode = "MAIN"
    BY <2>1 DEF Doing
  <2> QED BY <2>1, <2>2 DEF Facts, Doing, Scoped, ScopesOK
<1>2. AtSpot(ir, pc', f, b, n, e)
  <2> DEFINE q == Begin(ir, f, b, n)
  <2>1. IsSpot(ir, f, b, n) /\ pc = q + 1 - 1 /\ q \in Nat
    BY <1>1, SpotFacts DEF AtSpot
  <2> HIDE DEF q, w, e
  <2>2. e \in 1 .. e /\ q + 1 - 1 + (w + 1) = q + e - 1
    BY <1>1, <2>1
  <2>3. pc' = pc + (w + 1)
    BY DEF w
  <2>4. pc' = q + e - 1
    BY <2>1, <2>2, <2>3
  <2> QED BY <2>1, <2>2, <2>4 DEF AtSpot, q, e
<1>3. Full(ir, f, frame'[t].symbols) /\ Len(frame') = t
  BY <1>1, WidenedKeeps DEF SameCalls
<1>4. ScopesOK(ir, prog, frame', pc')
  <2>1. prog.layout[pc'].fn = prog.layout[pc].fn
    <3> HIDE DEF e
    <3>1. prog.layout[pc].fn = f
      BY <1>1, SpotFacts
    <3>2. prog.layout[pc'].fn = f
      BY <1>1, <1>2, SpotFacts, SMTT(20)
    <3> QED BY <3>1, <3>2
  <2> QED BY <1>1, <2>1, ScopesMove
<1>5. Ready(x, e, reg', frame')
  <2> HIDE DEF e
  <2> QED BY <1>1, ReadyIs
<1>6. Executing(ir, prog, frame', pc', reg')
  <2>1. InBody(ir, frame', pc', reg', f, b, n, e)
    BY <1>1, <1>2, <1>3, <1>5 DEF InBody
  <2> QED BY <1>4, <2>1 DEF Executing
<1>7. SoundNext
  BY <1>1, <1>6, SoundHere DEF SoundNext
<1>8. AbsStack' = Rewritten(AbsStack, t - 1, Act4(f, b, n, Assigned(frame'[t].symbols)))
  BY <1>1, <1>2, MappingIs, MappingNext, StackMoves, SMTT(20)
<1>9. AbsAnswer' = Given(reg'[1])
  <2>1. AnswerOf(prog, pc', reg') = IF f # 0 /\ e = e /\ x.tag = "ASSIGN" /\ IsCall(x.src)
                                      THEN Given(reg'[1]) ELSE NotGiven
    BY <1>1, <1>2, AnswerBody
  <2> QED BY <1>1, <2>1, MappingNext
<1> QED BY <1>7, <1>8, <1>9

(* The running activation is the last of the stack. *)
LEMMA SameActivation ==
  ASSUME Facts, NEW f, f # 0, NEW b, NEW n, NEW l, Doing(f, b, n, l), NEW d, d = Len(frame) - 1
  PROVE  AbsStack = Rewritten(AbsStack, d, Act4(f, b, n, Assigned(frame[Len(frame)].symbols)))
<1> DEFINE A == AbsStack
           t == Len(frame)
<1>1. AtSpot(prog.source, pc, f, b, n, l) /\ Compiles(prog.source, prog) /\ FramesOK(frame) /\ mode = "MAIN" /\ t >= 2
  BY DEF Facts, Doing, Scoped
<1>2. t \in Nat
  BY <1>1, TopIn
<1>3. Runs(A, Deep(frame, f), f, b, n, Running4(frame, f))
  BY DoingRuns DEF InStep
<1>4. A[d] = Act4(f, b, n, Assigned(frame[t].symbols)) /\ DOMAIN A = 1 .. d
  BY <1>3 DEF Runs, Running4, Deep
<1>5. A = [k \in DOMAIN A |-> A[k]]
  <2>1. A = StackOf(prog, frame, pc, "MAIN")
    BY <1>1, MappingIs
  <2>2. A = Acts(prog, frame, pc, t - 1)
    BY <1>1, <2>1, StackBody
  <2> HIDE DEF A
  <2> QED BY <2>2 DEF Acts
<1>6. d \in Nat /\ d >= 1
  <2>1. d = t - 1
    OBVIOUS
  <2> HIDE DEF t
  <2> QED BY <1>1, <1>2, <2>1
<1> HIDE DEF A
<1>7. Rewritten(A, d, A[d]) = A
  BY <1>4, <1>5, <1>6, RewrittenIs
<1> QED BY <1>4, <1>7 DEF A

LEMMA CallsAre ==
  ASSUME NEW f, NEW b, NEW n, NEW l, NEW x, At(f, b, n, l, x), Calling(x), l = 1
  PROVE  /\ \A names : IRM!Calls(names) <=> x.src.call \in names
         /\ IRM!Argument = ValueIn(frame, x.src.args[1]) /\ IRM!Inst = x
<1>1. x.tag = "ASSIGN" /\ IsCall(x.src) /\ AbsAnswer = NotGiven
  BY CallIs
<1>2. IRM!Inst = x /\ IRM!Executes("ASSIGN")
  BY <1>1, AtRuns
<1>3. IRM!Operand(x.src.args[1]) = ValueIn(frame, x.src.args[1])
  BY AtRuns
<1>4. IRM!Argument = ValueIn(frame, x.src.args[1])
  BY <1>2, <1>3 DEF IRM!Argument
<1>5. \A names : IRM!Calls(names) <=> x.src.call \in names
  BY <1>1, <1>2, SameConstants DEF IRM!Calls, NotGiven
<1> QED BY <1>2, <1>4, <1>5

(* The builtins, and their codes. *)
LEMMA BuiltinCodes ==
  ASSUME NEW c \in DOMAIN BuiltinIndex
  PROVE  /\ c \in IRM!Builtins /\ c \in {"print", "println", "read", "int", "string", "len"}
         /\ BuiltinIndex[c] \in Builtin
         /\ BuiltinIndex[c] \in Printing <=> c \in {"print", "println"}
         /\ BuiltinIndex[c] = Read <=> c = "read"
         /\ BuiltinIndex[c] = ToInt <=> c = "int"
         /\ BuiltinIndex[c] = ToStr <=> c = "string"
         /\ BuiltinIndex[c] = Length <=> c = "len"
         /\ ~(BuiltinIndex[c] >= 0) /\ BuiltinIndex[c] < 0
<1>1. c \in {"print", "println", "read", "int", "string", "len"}
  BY DEF BuiltinIndex
<1>2. /\ BuiltinIndex["print"] = -1 /\ BuiltinIndex["println"] = -2 /\ BuiltinIndex["read"] = -3
      /\ BuiltinIndex["int"] = -4 /\ BuiltinIndex["string"] = -6 /\ BuiltinIndex["len"] = -7
  BY DEF BuiltinIndex
<1>3. c \in IRM!Builtins
  BY <1>1 DEF IRM!Builtins, IRM!VoidBuiltins
<1> QED BY <1>1, <1>2, <1>3 DEF Builtin, Printing, Read, ToInt, ToStr, Length

(* A builtin call that leaves every variable as it is. *)
LEMMA BuiltinQuiet ==
  ASSUME NEW f, NEW b, NEW n, NEW l, NEW x, At(f, b, n, l, x), Calling(x), l = 1,
         pc' = pc + (Len(x.src.args) + 1), UNCHANGED <<prog, mode>>,
         Grown(frame, frame'), \A r \in Reg : reg'[r] # Bad
  PROVE  /\ SoundNext /\ AbsAnswer' = Given(reg'[1]) /\ (prog.source)' = prog.source /\ AbsStack' = AbsStack
         /\ (Assigned(frame[1].symbols))' = Assigned(frame[1].symbols)
<1> DEFINE t == Len(frame)
           d == t - 1
           was == Assigned(frame[t].symbols)
<1>1. /\ Facts /\ Doing(f, b, n, l) /\ f # 0 /\ FramesOK(frame) /\ Clean(frame, reg)
  BY AtFacts, CallIs DEF Facts
<1>2. Clean(frame', reg') /\ SameCalls(frame, frame') /\ Widened(frame, frame')
  BY <1>1, CleanKept DEF Grown
<1>3. t \in Nat /\ 1 \in 1 .. t /\ t \in 1 .. t /\ \A k \in 1 .. t : Assigned(frame'[k].symbols) = Assigned(frame[k].symbols)
  BY <1>1, TopIn, GrownLookups
<1>4. \A k \in 2 .. t - 1 : Assigned(frame'[k].symbols) = Assigned(frame[k].symbols)
  BY <1>3
<1>5. /\ SoundNext /\ AbsAnswer' = Given(reg'[1]) /\ (prog.source)' = prog.source
      /\ AbsStack' = Rewritten(AbsStack, d, Act4(f, b, n, Assigned(frame'[t].symbols)))
  BY <1>2, <1>4, BuiltinGoes
<1>6. Assigned(frame'[t].symbols) = was
  BY <1>3
<1>7. AbsStack = Rewritten(AbsStack, d, Act4(f, b, n, was))
  <2>1. d = Len(frame) - 1
    OBVIOUS
  <2> HIDE DEF d
  <2> QED BY <1>1, <2>1, SameActivation
<1>8. AbsStack' = AbsStack
  BY <1>5, <1>6, <1>7
<1>9. (Assigned(frame[1].symbols))' = Assigned(frame'[1].symbols)
  BY Zenon DEF Assigned
<1> QED BY <1>3, <1>5, <1>8, <1>9

(* The machine is about to execute a builtin call with argument value u.   *)
AtBuiltin(f, b, n, x, c) ==
  At(f, b, n, 1, x) /\ Calling(x) /\ c = x.src.call /\ c \in DOMAIN BuiltinIndex
ArgumentOf(x) == ValueIn(frame, x.src.args[1])

LEMMA BuiltinHere ==
  ASSUME NEW f, NEW b, NEW n, NEW x, NEW c, AtBuiltin(f, b, n, x, c)
  PROVE  /\ Inst.op = "CALL" /\ Inst.target = BuiltinIndex[c]
         /\ FramesOK(frame) /\ DOMAIN reg = Reg /\ Next /\ Fetched /\ Sound1 /\ Facts
         /\ c = "read" => ~HasArg /\ Len(x.src.args) = 0
         /\ c # "read" => /\ HasArg /\ TheArg = genArg(x.src.args[1]) /\ Len(x.src.args) = 1
                          /\ ArgValue = ArgumentOf(x) /\ Simple(x.src.args[1]) /\ x.src.args # << >>
<1>1. /\ Inst.op = "CALL" /\ Inst.target = BuiltinIndex[x.src.call]
      /\ x.src.call = "read" => Len(x.src.args) = 0 /\ ~HasArg
      /\ x.src.call # "read" => /\ Len(x.src.args) = 1 /\ Simple(x.src.args[1])
                                /\ HasArg /\ TheArg = genArg(x.src.args[1])
  BY BuiltinFinds DEF AtBuiltin
<1>2. FramesOK(frame) /\ DOMAIN reg = Reg /\ Next /\ Fetched /\ Sound1 /\ Facts
  BY AtFacts DEF AtBuiltin
<1>3. c = x.src.call
  BY DEF AtBuiltin
<1>4. ASSUME c # "read" PROVE ArgValue = ArgumentOf(x) /\ x.src.args # << >>
  <2> DEFINE y == x.src.args[1]
  <2>1. HasArg /\ Simple(y) /\ TheArg = genArg(y)
    BY <1>1, <1>3, <1>4
  <2>2. Len(x.src.args) = 1 /\ Len(<< >>) = 0
    BY <1>1, <1>3, <1>4
  <2> HIDE DEF y
  <2>3. ArgValue = ValueIn(frame, y)
    BY <2>1, ArgumentValue
  <2> QED BY <2>2, <2>3 DEF ArgumentOf, y
<1> QED BY <1>1, <1>2, <1>3, <1>4

LEMMA BuiltinMeans ==
  ASSUME NEW f, NEW b, NEW n, NEW x, NEW c, AtBuiltin(f, b, n, x, c)
  PROVE  /\ \A names : IRM!Calls(names) <=> c \in names
         /\ IRM!Argument = ArgumentOf(x) /\ IRM!Inst = x /\ IRM!Inst.src.call = c
<1>1. x.src.call = c /\ At(f, b, n, 1, x) /\ Calling(x)
  BY DEF AtBuiltin
<1> QED BY <1>1, CallsAre DEF ArgumentOf

LEMMA BuiltinAborts ==
  ASSUME NEW f, NEW b, NEW n, NEW x, NEW c, AtBuiltin(f, b, n, x, c), Abort
  PROVE  Simulated
<1> DEFINE u == ArgumentOf(x)
<1>1. c \in DOMAIN BuiltinIndex /\ Sound1
  BY BuiltinHere DEF AtBuiltin
<1>2. BuiltinFault(Inst.target)
  <2>1. Inst.op = "CALL"
    BY BuiltinHere
  <2> QED BY <2>1 DEF Abort, Fault, ArithOps, LogicOps, CompareOps, UnaryOps
<1>3. Inst.target = BuiltinIndex[c] /\ BuiltinIndex[c] \in Builtin
  BY <1>1, BuiltinHere, BuiltinCodes
<1>4. c # "read"
  <2>1. ASSUME c = "read" PROVE FALSE
    <3>1. ~HasArg /\ BuiltinIndex[c] = Read
      BY <1>1, <2>1, BuiltinHere, BuiltinCodes
    <3> QED BY <1>2, <1>3, <3>1 DEF BuiltinFault, Printing, Read, ToInt, ToStr, Length
  <2> QED BY <2>1
<1>5. HasArg /\ ArgValue = u /\ x.src.args # << >>
  BY <1>4, BuiltinHere
<1>6. u = Bad \/ (c = "len" /\ ~IsStr(u) /\ ~IsArr(u))
  <2>1. BuiltinIndex[c] = Length => c = "len"
    BY <1>1, BuiltinCodes
  <2> QED BY <1>2, <1>3, <1>5, <2>1 DEF BuiltinFault
<1>7. /\ \A names : IRM!Calls(names) <=> c \in names
      /\ IRM!Argument = u /\ IRM!Inst = x
  BY BuiltinMeans
<1>8. c \in IRM!Builtins
  BY <1>1, BuiltinCodes
<1> HIDE DEF u
<1>9. IRM!Fails
  BY <1>5, <1>6, <1>7, <1>8, SameConstants DEF IRM!Fails
<1> QED BY <1>1, <1>9, Aborts

LEMMA BuiltinTurns ==
  ASSUME NEW f, NEW b, NEW n, NEW x, NEW c, AtBuiltin(f, b, n, x, c)
  PROVE  \/ Abort
         \/ /\ ~BuiltinFault(Inst.target)
            /\ \/ c \in {"print", "println"} /\ CallPrint
               \/ c = "read" /\ CallRead
               \/ c \in {"int", "string"} /\ CallConvert
               \/ c = "len" /\ CallLength
<1>1. Inst.op = "CALL" /\ Inst.target = BuiltinIndex[c] /\ Next /\ Fetched /\ c \in DOMAIN BuiltinIndex
  BY BuiltinHere DEF AtBuiltin
<1>2. Abort \/ Call \/ Builtins
  BY <1>1, Turn DEF Turns, ArithOps, LogicOps, CompareOps, UnaryOps, LoadConst, StoreConst
<1>3. ~Call
  BY <1>1, BuiltinCodes DEF Call
<1>4. ~BuiltinFault(Inst.target) \/ Abort
  <2>1. Inst.target < 0
    BY <1>1, BuiltinCodes
  <2>2. Builtins => ~Fault(Inst)
    BY DEF Builtins, CallPrint, CallRead, CallConvert, CallLength, CallBuiltin, Fetch
  <2>3. ~Fault(Inst) => ~BuiltinFault(Inst.target)
    BY <1>1, <2>1 DEF Fault, ArithOps, LogicOps, CompareOps, UnaryOps
  <2> QED BY <1>2, <1>3, <2>2, <2>3
<1>5. /\ CallPrint => Inst.target \in Printing
      /\ CallRead => Inst.target = Read
      /\ CallConvert => Inst.target = ToInt \/ Inst.target = ToStr
      /\ CallLength => Inst.target = Length
  BY DEF CallPrint, CallRead, CallConvert, CallLength, CallBuiltin
<1>6. /\ CallPrint => c \in {"print", "println"}
      /\ CallRead => c = "read"
      /\ CallConvert => c \in {"int", "string"}
      /\ CallLength => c = "len"
  BY <1>1, <1>5, BuiltinCodes
<1> QED BY <1>2, <1>3, <1>4, <1>6 DEF Builtins

(* A builtin call moves past its argument. *)
LEMMA BuiltinPc ==
  ASSUME NEW f, NEW b, NEW n, NEW x, NEW c, AtBuiltin(f, b, n, x, c), NEW fs, CallBuiltin(fs)
  PROVE  pc' = pc + (Len(x.src.args) + 1) /\ UNCHANGED <<prog, mode, status>>
<1>1. pc' = pc + (IF HasArg THEN 2 ELSE 1) /\ UNCHANGED <<prog, mode, status>>
  BY DEF CallBuiltin
<1>2. CASE c = "read"
  BY <1>1, <1>2, BuiltinHere
<1>3. CASE c # "read"
  <2> DEFINE w == Len(x.src.args)
  <2>1. HasArg /\ w = 1
    BY <1>3, BuiltinHere
  <2> HIDE DEF w
  <2>2. pc' = pc + (w + 1)
    BY <1>1, <2>1
  <2> QED BY <1>1, <2>2 DEF w
<1> QED BY <1>2, <1>3

LEMMA PrintTurn ==
  ASSUME NEW f, NEW b, NEW n, NEW x, NEW c, AtBuiltin(f, b, n, x, c), c \in {"print", "println"},
         CallPrint, ~BuiltinFault(Inst.target)
  PROVE  Simulated
<1> DEFINE u == ArgumentOf(x)
<1>1. /\ HasArg /\ ArgValue = u /\ FramesOK(frame) /\ At(f, b, n, 1, x) /\ Calling(x)
  BY BuiltinHere DEF AtBuiltin
<1>2. u # Bad
  BY <1>1 DEF BuiltinFault
<1>3. /\ out' = Append(out, u) /\ frame' = BuiltinArgFrames /\ reg' = reg
  BY <1>1 DEF CallPrint
<1>4. pc' = pc + (Len(x.src.args) + 1) /\ UNCHANGED <<prog, mode, status>>
  BY BuiltinPc DEF CallPrint
<1>5. Grown(frame, frame') /\ \A r \in Reg : reg'[r] # Bad
  BY <1>1, <1>3, ArgumentGrows, AtFacts
<1>6. /\ SoundNext /\ AbsAnswer' = Given(reg'[1]) /\ (prog.source)' = prog.source /\ AbsStack' = AbsStack
      /\ (Assigned(frame[1].symbols))' = Assigned(frame[1].symbols)
  BY <1>1, <1>4, <1>5, BuiltinQuiet
<1>7. IRM!Calls({"print", "println"}) /\ IRM!Argument = u
  BY BuiltinMeans
<1> HIDE DEF u
<1>8. IRM!Output
  <2>1. AbsAnswer' = IRM!Answer(AbsAnswer'.value)
    BY <1>6 DEF Given, IRM!Answer
  <2> QED BY <1>2, <1>3, <1>4, <1>6, <1>7, <2>1, SameConstants DEF IRM!Output
<1> QED BY <1>6, <1>8, Computes DEF IRM!Next

LEMMA ReadTurn ==
  ASSUME NEW f, NEW b, NEW n, NEW x, NEW c, AtBuiltin(f, b, n, x, c), c = "read", CallRead
  PROVE  Simulated
<1>1. FramesOK(frame) /\ At(f, b, n, 1, x) /\ Calling(x) /\ DOMAIN reg = Reg
  BY BuiltinHere DEF AtBuiltin
<1>2. PICK word \in Inputs : reg' = [reg EXCEPT ![1] = Str(word)]
  BY DEF CallRead
<1>3. /\ out' = out /\ frame' = BuiltinArgFrames
  BY DEF CallRead
<1>4. pc' = pc + (Len(x.src.args) + 1) /\ UNCHANGED <<prog, mode, status>>
  BY BuiltinPc DEF CallRead
<1>5. Grown(frame, frame') /\ (\A r \in Reg : reg'[r] # Bad) /\ reg'[1] = Str(word)
  <2>1. \A r \in Reg : reg[r] # Bad
    BY <1>1, AtFacts
  <2>2. Str(word) # Bad /\ 1 \in Reg
    BY DEF Str, Bad, Reg
  <2>3. \A r \in Reg : reg'[r] # Bad
    BY <1>1, <1>2, <2>1, <2>2
  <2>4. reg'[1] = Str(word)
    BY <1>1, <1>2, <2>2
  <2> QED BY <1>1, <1>3, <2>3, <2>4, ArgumentGrows
<1>6. /\ SoundNext /\ AbsAnswer' = Given(reg'[1]) /\ (prog.source)' = prog.source /\ AbsStack' = AbsStack
      /\ (Assigned(frame[1].symbols))' = Assigned(frame[1].symbols)
  BY <1>1, <1>4, <1>5, BuiltinQuiet
<1>7. IRM!Calls({"read"})
  BY BuiltinMeans
<1>8. IRM!ReadWord
  <2>1. AbsAnswer' = IRM!Answer(IRM!Str(word))
    BY <1>5, <1>6, SameConstants DEF Given, IRM!Answer
  <2> QED BY <1>3, <1>4, <1>6, <1>7, <2>1 DEF IRM!ReadWord
<1> QED BY <1>6, <1>8, Computes DEF IRM!Next

LEMMA LengthTurn ==
  ASSUME NEW f, NEW b, NEW n, NEW x, NEW c, AtBuiltin(f, b, n, x, c), c = "len",
         CallLength, ~BuiltinFault(Inst.target)
  PROVE  Simulated
<1> DEFINE u == ArgumentOf(x)
           v == Int64(IF IsStr(u) THEN Len(u.str) ELSE Len(u.arr))
<1>1. /\ HasArg /\ ArgValue = u /\ FramesOK(frame) /\ At(f, b, n, 1, x) /\ Calling(x) /\ DOMAIN reg = Reg
  BY BuiltinHere DEF AtBuiltin
<1>2. IsStr(u) \/ IsArr(u)
  <2>1. Inst.target = Length
    BY DEF CallLength, CallBuiltin
  <2> HIDE DEF u
  <2> QED BY <1>1, <2>1 DEF BuiltinFault
<1>3. /\ out' = out /\ frame' = BuiltinArgFrames /\ reg' = [reg EXCEPT ![1] = v]
  <2>1. /\ out' = out /\ frame' = BuiltinArgFrames
        /\ reg' = [reg EXCEPT ![1] = Int64(IF ~HasArg THEN 0
                                           ELSE IF IsStr(ArgValue) THEN Len(ArgValue.str)
                                           ELSE Len(ArgValue.arr))]
    BY DEF CallLength
  <2> HIDE DEF u
  <2> QED BY <1>1, <2>1
<1>4. pc' = pc + (Len(x.src.args) + 1) /\ UNCHANGED <<prog, mode, status>>
  BY BuiltinPc DEF CallLength
<1>5. Grown(frame, frame') /\ (\A r \in Reg : reg'[r] # Bad) /\ reg'[1] = v
  <2>1. \A r \in Reg : reg[r] # Bad
    BY <1>1, AtFacts
  <2>2. v # Bad /\ 1 \in Reg
    BY DEF Int64, Bad, Reg
  <2> HIDE DEF v
  <2>3. \A r \in Reg : reg'[r] # Bad
    BY <1>1, <1>3, <2>1, <2>2
  <2>4. reg'[1] = v
    BY <1>1, <1>3, <2>2
  <2> QED BY <1>1, <1>3, <2>3, <2>4, ArgumentGrows
<1>6. /\ SoundNext /\ AbsAnswer' = Given(reg'[1]) /\ (prog.source)' = prog.source /\ AbsStack' = AbsStack
      /\ (Assigned(frame[1].symbols))' = Assigned(frame[1].symbols)
  BY <1>1, <1>4, <1>5, BuiltinQuiet
<1>7. IRM!Calls({"len"}) /\ IRM!Argument = u
  BY BuiltinMeans
<1> HIDE DEF u
<1>8. IRM!Length
  <2>1. AbsAnswer' = IRM!Answer(IRM!Int64(IF IRM!IsStr(u) THEN Len(u.str) ELSE Len(u.arr)))
    BY <1>5, <1>6, SameConstants DEF Given, IRM!Answer
  <2> QED BY <1>2, <1>3, <1>4, <1>6, <1>7, <2>1, SameConstants DEF IRM!Length
<1> QED BY <1>6, <1>8, Computes DEF IRM!Next

Converted(c, u) == IF c = "int" THEN Int64(AsInt(u)) ELSE Str(AsStr(u))

(* What int and string do to the frames. *)
LEMMA ConvertIs ==
  ASSUME NEW f, NEW b, NEW n, NEW x, NEW c, AtBuiltin(f, b, n, x, c), c \in {"int", "string"}, CallConvert,
         NEW y, y = x.src.args[1], NEW v, v = Converted(c, ArgumentOf(x))
  PROVE  /\ IsVar(y) => Stored(y, v)
         /\ ~IsVar(y) => frame' = frame
         /\ v # Bad
<1> DEFINE u == ArgumentOf(x)
<1>1. /\ Inst.target = BuiltinIndex[c] /\ FramesOK(frame) /\ c \in DOMAIN BuiltinIndex
      /\ HasArg /\ TheArg = genArg(y) /\ ArgValue = u /\ Simple(y)
  BY BuiltinHere DEF AtBuiltin
<1>2. Inst.target = ToInt <=> c = "int"
  BY <1>1, BuiltinCodes
<1> HIDE DEF u
<1>3. frame' = IF TheArg.type = "MAP"
                 THEN Assign(TheArg.name, TheArg.idx, Put(Lookup(TheArg.name), Path(TheArg.idx), v))
                 ELSE frame
  <2>1. v = Converted(c, u)
    BY DEF u
  <2>2. v = IF Inst.target = ToInt THEN Int64(AsInt(ArgValue)) ELSE Str(AsStr(ArgValue))
    BY <1>1, <1>2, <2>1 DEF Converted
  <2> QED BY <2>2 DEF CallConvert
<1>4. /\ IsVar(y) <=> TheArg.type = "MAP"
      /\ IsVar(y) => TheArg.name = y.var /\ TheArg.idx = y.idx
  BY <1>1, ArgumentValue
<1>5. ASSUME IsVar(y) PROVE Stored(y, v)
  <2> DEFINE new == Put(Lookup(y.var), Path(y.idx), v)
  <2>1. frame' = Assign(y.var, y.idx, new)
    BY <1>3, <1>4, <1>5
  <2>2. new = Put(LookupIn(frame, y.var), PathIn(frame, y.idx), v)
    BY LookupHere
  <2> HIDE DEF new
  <2>3. Changed(frame, frame', y.var, new)
    BY <1>1, <2>1, AssignChanges
  <2> QED BY <2>2, <2>3 DEF Stored
<1>6. v # Bad
  BY DEF Converted, Int64, Str, Bad
<1> QED BY <1>3, <1>4, <1>5, <1>6

LEMMA ConvertWrites ==
  ASSUME NEW f, NEW b, NEW n, NEW x, NEW c, AtBuiltin(f, b, n, x, c), c \in {"int", "string"}, CallConvert,
         NEW y, y = x.src.args[1], NEW v, v = Converted(c, ArgumentOf(x)), IsVar(y)
  PROVE  SoundNext /\ AbsAnswer' = Given(reg'[1]) /\ (prog.source)' = prog.source /\ IRM!Write(y, v, AbsStack)
<1> DEFINE t == Len(frame)
           d == t - 1
           scope == Assigned(frame[t].symbols)
           new == Put(LookupIn(frame, y.var), PathIn(frame, y.idx), v)
<1>1. Stored(y, v) /\ v # Bad
  BY ConvertIs
<1>2. /\ At(f, b, n, 1, x) /\ Calling(x) /\ Facts /\ Doing(f, b, n, 1) /\ f # 0
      /\ FramesOK(frame) /\ Clean(frame, reg)
  BY AtFacts, CallIs DEF Facts, AtBuiltin
<1>3. Clean(frame', reg) /\ SameCalls(frame, frame') /\ Widened(frame, frame')
  BY <1>1, <1>2, StoredClean
<1>4. pc' = pc + (Len(x.src.args) + 1) /\ UNCHANGED <<prog, mode>> /\ reg' = reg
  BY BuiltinPc DEF CallConvert
<1>5. \A k \in 2 .. t - 1 : Assigned(frame'[k].symbols) = Assigned(frame[k].symbols)
  <2>1. scope = Assigned(frame[Len(frame)].symbols) /\ new = Put(LookupIn(frame, y.var), PathIn(frame, y.idx), v)
    OBVIOUS
  <2> HIDE DEF scope, new
  <2> QED BY <1>1, <1>2, <2>1, StoredScopes
<1>6. /\ SoundNext /\ AbsAnswer' = Given(reg'[1]) /\ (prog.source)' = prog.source
      /\ AbsStack' = Rewritten(AbsStack, d, Act4(f, b, n, Assigned(frame'[t].symbols)))
  BY <1>2, <1>3, <1>4, <1>5, BuiltinGoes
<1>7. IRM!Write(y, v, AbsStack)
  <2>1. d = Len(frame) - 1 /\ scope = Assigned(frame[Len(frame)].symbols)
        /\ AbsStack' = Rewritten(AbsStack, d, Act4(f, b, n, Assigned(frame'[Len(frame)].symbols)))
    BY <1>6
  <2> HIDE DEF d
  <2>2. AbsStack = Rewritten(AbsStack, d, Act4(f, b, n, scope))
    BY <1>2, <2>1, SameActivation
  <2> HIDE DEF scope
  <2> QED BY <1>1, <1>2, <2>1, <2>2, StoredWrites
<1> QED BY <1>6, <1>7

LEMMA ConvertTurn ==
  ASSUME NEW f, NEW b, NEW n, NEW x, NEW c, AtBuiltin(f, b, n, x, c), c \in {"int", "string"}, CallConvert,
         ~BuiltinFault(Inst.target)
  PROVE  Simulated
<1> DEFINE u == ArgumentOf(x)
           y == x.src.args[1]
           v == Converted(c, u)
<1>1. HasArg /\ ArgValue = u /\ FramesOK(frame) /\ At(f, b, n, 1, x) /\ Calling(x) /\ DOMAIN reg = Reg
  BY BuiltinHere DEF AtBuiltin
<1>2. u # Bad
  BY <1>1 DEF BuiltinFault
<1>3. IRM!Calls({"int", "string"}) /\ IRM!Argument = u /\ IRM!Inst = x /\ IRM!Inst.src.call = c
  BY BuiltinMeans
<1>4. out' = out /\ status' = status /\ reg' = reg
  BY BuiltinPc DEF CallConvert
<1>5. /\ SoundNext /\ AbsAnswer' = Given(reg'[1]) /\ (prog.source)' = prog.source
      /\ IF IsVar(y) THEN IRM!Write(y, v, AbsStack)
         ELSE AbsStack' = AbsStack /\ (Assigned(frame[1].symbols))' = Assigned(frame[1].symbols)
  <2>1. y = x.src.args[1] /\ v = Converted(c, ArgumentOf(x))
    OBVIOUS
  <2> HIDE DEF y, v, u
  <2>2. CASE IsVar(y)
    BY <2>1, <2>2, ConvertWrites
  <2>3. CASE ~IsVar(y)
    <3>1. frame' = frame
      BY <2>1, <2>3, ConvertIs
    <3>2. Grown(frame, frame')
      BY <1>1, <3>1, Unchanged
    <3>3. \A r \in Reg : reg'[r] # Bad
      BY <1>1, <1>4, AtFacts
    <3>4. pc' = pc + (Len(x.src.args) + 1) /\ UNCHANGED <<prog, mode>>
      BY BuiltinPc DEF CallConvert
    <3>5. /\ SoundNext /\ AbsAnswer' = Given(reg'[1]) /\ (prog.source)' = prog.source /\ AbsStack' = AbsStack
          /\ (Assigned(frame[1].symbols))' = Assigned(frame[1].symbols)
      BY <1>1, <3>2, <3>3, <3>4, BuiltinQuiet
    <3> QED BY <2>3, <3>5
  <2> QED BY <2>2, <2>3
<1>6. v = IF c = "int" THEN IRM!Int64(IRM!AsInt(u)) ELSE IRM!Str(IRM!AsStr(u))
  BY SameConstants, SameAsInt, SameAsStr DEF Converted
<1>7. AbsAnswer' = IRM!Answer(AbsAnswer'.value)
  BY <1>5 DEF Given, IRM!Answer
<1>8. IRM!Inst.src.args[1] = y
  BY <1>3
<1> HIDE DEF u, y, v
<1>9. IRM!Convert
  BY <1>2, <1>3, <1>4, <1>5, <1>6, <1>7, <1>8, SameConstants DEF IRM!Convert
<1> QED BY <1>5, <1>9, Computes DEF IRM!Next

(* The turn of a call instruction. *)
LEMMA CallTurn ==
  ASSUME Invariant, NEW f, NEW b, NEW n, NEW l, NEW x, At(f, b, n, l, x), Calling(x)
  PROVE  Simulated
<1> DEFINE c == x.src.call
<1>1. l = 1 \/ l = LastOf(f, b, n)
  BY CallIs
<1>2. CASE l = LastOf(f, b, n) /\ l # 1
  BY <1>2, ResultTurn
<1>3. CASE l = 1 /\ c \notin DOMAIN BuiltinIndex
  BY <1>3, UserTurn
<1>4. CASE l = 1 /\ c \in DOMAIN BuiltinIndex
  <2>1. AtBuiltin(f, b, n, x, c)
    BY <1>4 DEF AtBuiltin
  <2> HIDE DEF c
  <2>2. \/ Abort
        \/ /\ ~BuiltinFault(Inst.target)
           /\ \/ c \in {"print", "println"} /\ CallPrint
              \/ c = "read" /\ CallRead
              \/ c \in {"int", "string"} /\ CallConvert
              \/ c = "len" /\ CallLength
    BY <2>1, BuiltinTurns
  <2>3. CASE Abort
    BY <2>1, <2>3, BuiltinAborts
  <2>4. CASE ~BuiltinFault(Inst.target) /\ c \in {"print", "println"} /\ CallPrint
    BY <2>1, <2>4, PrintTurn
  <2>5. CASE c = "read" /\ CallRead
    BY <2>1, <2>5, ReadTurn
  <2>6. CASE ~BuiltinFault(Inst.target) /\ c \in {"int", "string"} /\ CallConvert
    BY <2>1, <2>6, ConvertTurn
  <2>7. CASE ~BuiltinFault(Inst.target) /\ c = "len" /\ CallLength
    BY <2>1, <2>7, LengthTurn
  <2> QED BY <2>2, <2>3, <2>4, <2>5, <2>6, <2>7
<1> QED BY <1>1, <1>2, <1>3, <1>4

-----------------------------------------------------------------------------
(* Turns in a body *)

(* Every turn in an initialiser or a body implements the IR. *)
LEMMA BodyTurn ==
  ASSUME Invariant, Next, Fetched, NEW f, NEW b, NEW n, NEW l, Facts, Doing(f, b, n, l)
  PROVE  Simulated
<1> DEFINE x == IRInsts(prog.source, f, b)[n]
<1>1. At(f, b, n, l, x)
  BY DEF At, Invariant
<1> HIDE DEF x
<1>2. /\ \/ Operates(x) \/ Inverts(x) \/ Sets(x) \/ Moves(x) \/ Builds(x) \/ Calling(x)
         \/ Returns(x) \/ x.tag = "JMP" \/ Branches(x)
  BY <1>1, AtInst DEF MeantIn
<1>3. CASE Operates(x) \/ Inverts(x) \/ Sets(x)
  BY <1>1, <1>3, OperatesTurn, InvertsTurn, SetsTurn
<1>4. CASE Moves(x) \/ Builds(x) \/ Calling(x)
  BY <1>1, <1>4, MovesTurn, BuildsTurn, CallTurn
<1>5. CASE Returns(x)
  BY <1>1, <1>5, ReturnLoads, ReturnTurn
<1>6. CASE x.tag = "JMP" \/ Branches(x)
  BY <1>1, <1>6, JumpTurn, BranchTurn
<1> QED BY <1>2, <1>3, <1>4, <1>5, <1>6

-----------------------------------------------------------------------------
(* Turns in a header: arguments become parameters *)

(* The frames while a function takes its arguments: main has none, and     *)
(* any other function was called from the frame below.                     *)
LEMMA HeadingFacts ==
  ASSUME Facts, NEW f, NEW k, Heading(f, k)
  PROVE  /\ AtHeader(prog.source, pc, f, k) /\ Compiles(prog.source, prog) /\ FramesOK(frame)
         /\ Linked(prog, frame, pc) /\ ScopesOK(prog.source, prog, frame, pc) /\ Clean(frame, reg)
         /\ Passing(prog.source, prog, frame, f, k) /\ mode = "MAIN"
         /\ Len(frame) \in Nat /\ Len(frame) >= 2 /\ prog.layout[pc].fn = f
<1>1. /\ AtHeader(prog.source, pc, f, k) /\ Compiles(prog.source, prog) /\ FramesOK(frame)
      /\ Linked(prog, frame, pc) /\ ScopesOK(prog.source, prog, frame, pc) /\ Clean(frame, reg)
      /\ Passing(prog.source, prog, frame, f, k) /\ mode = "MAIN"
  BY DEF Facts, Heading, InHeader
<1>2. Len(frame) \in Nat /\ Len(frame) >= 2
  BY <1>1, TopIn DEF Linked
<1>3. prog.layout[pc].fn = f
  BY <1>1, HeaderFacts
<1> QED BY <1>1, <1>2, <1>3

LEMMA HeadingDepth ==
  ASSUME Facts, NEW f, NEW k, Heading(f, k)
  PROVE  /\ f = MainOf(prog.source) <=> Len(frame) = 2
         /\ Len(frame) = 2 => ParamCount(prog.source)[f] = 0 /\ k = 0
<1>1. /\ AtHeader(prog.source, pc, f, k) /\ Compiles(prog.source, prog) /\ FramesOK(frame)
      /\ Linked(prog, frame, pc) /\ Len(frame) \in Nat /\ Len(frame) >= 2 /\ prog.layout[pc].fn = f
  BY HeadingFacts
<1> DEFINE t == Len(frame)
<1>2. t \in 2 .. t /\ pc = Spot(frame, pc, t)
  <2>1. pc = Spot(frame, pc, t)
    BY DEF Spot
  <2>2. t \in Nat /\ t >= 2
    BY <1>1
  <2> HIDE DEF t
  <2> QED BY <2>1, <2>2
<1>3. t \in 2 .. Len(frame) /\ Len(frame) = t
  BY <1>2
<1> HIDE DEF t
<1>4. prog.layout[pc].fn = MainOf(prog.source) <=> t = 2
  BY <1>1, <1>2, <1>3, MainFrame
<1>5. ASSUME f = MainOf(prog.source) PROVE ParamCount(prog.source)[f] = 0 /\ k = 0
  <2>1. ParamCount(prog.source)[f] = 0
    BY <1>1, <1>5, MainFunction
  <2>2. k \in 0 .. ParamCount(prog.source)[f]
    BY <1>1 DEF AtHeader
  <2> QED BY <2>1, <2>2
<1> QED BY <1>1, <1>3, <1>4, <1>5

LEMMA HeadingCalled ==
  ASSUME Facts, NEW f, NEW k, Heading(f, k), Len(frame) # 2, NEW h, h = frame[Len(frame) - 1].pc
  PROVE  \E g, b, n : CallsAt(prog.source, h, g, b, n, f, Taken(k))
<1> DEFINE t == Len(frame)
           r == t - 1
<1>1. /\ AtHeader(prog.source, pc, f, k) /\ Compiles(prog.source, prog) /\ FramesOK(frame)
      /\ Linked(prog, frame, pc) /\ t \in Nat /\ t >= 2 /\ prog.layout[pc].fn = f
  BY HeadingFacts
<1>2. r \in 2 .. t - 1 /\ r + 1 = t
  <2>1. t # 2 /\ t \in Nat /\ t >= 2
    BY <1>1
  <2> HIDE DEF t
  <2> QED BY <2>1
<1>3. Spot(frame, pc, r + 1) = pc
  BY <1>2 DEF Spot
<1>4. ArgsTaken(prog, pc) = Taken(k)
  BY <1>1, HeaderFunctionIs
<1>5. r \in 2 .. Len(frame) - 1 /\ h = frame[r].pc
  BY <1>2
<1> HIDE DEF t, r
<1>6. \E g, b, n : CallsAt(prog.source, frame[r].pc, g, b, n, f, ArgsTaken(prog, pc))
  BY <1>1, <1>3, <1>5, CallerAt
<1> QED BY <1>4, <1>5, <1>6

SameSpot(p, i, h) ==
  p.layout[i].fn = p.layout[h].fn /\ p.layout[i].block = p.layout[h].block /\ p.layout[i].next = p.layout[h].next

(* From fs to gs, a function has taken an argument: its callers' variables *)
(* hold what they held, and they are at the same calls.                    *)
Receives(ir, p, fs, gs) ==
  /\ FramesOK(gs) /\ Len(gs) = Len(fs) /\ gs[1] = fs[1]
  /\ \A j \in 2 .. Len(fs) - 1 :
       /\ \A m : Holds(gs, j, m) = Holds(fs, j, m)
       /\ DOMAIN fs[j].symbols \subseteq DOMAIN gs[j].symbols
       /\ SameSpot(p, gs[j].pc, fs[j].pc)
       /\ ScopeOK(ir, p.layout[fs[j].pc].fn, gs[j].symbols)

LEMMA ReceivesScopes ==
  ASSUME NEW ir, NEW p, NEW fs, FramesOK(fs), Len(fs) >= 2, NEW i, ScopesOK(ir, p, fs, i),
         NEW gs, Receives(ir, p, fs, gs), NEW j, ScopeOK(ir, p.layout[j].fn, gs[Len(gs)].symbols)
  PROVE  ScopesOK(ir, p, gs, j)
<1> DEFINE t == Len(fs)
<1>1. t \in Nat /\ t >= 2 /\ Len(gs) = t /\ gs[1] = fs[1] /\ Len(fs) = t
  BY TopIn DEF Receives
<1>2. Declared(ir) \subseteq DOMAIN gs[1].symbols
  BY <1>1 DEF ScopesOK
<1> HIDE DEF t
<1>3. \A k \in 2 .. t :
        LET f == p.layout[Spot(gs, j, k)].fn
        IN ScopeOK(ir, f, gs[k].symbols) /\ (k # t => Full(ir, f, gs[k].symbols))
  <2> SUFFICES ASSUME NEW k \in 2 .. t
               PROVE  LET f == p.layout[Spot(gs, j, k)].fn
                      IN ScopeOK(ir, f, gs[k].symbols) /\ (k # t => Full(ir, f, gs[k].symbols))
    OBVIOUS
  <2>1. CASE k = t
    <3>1. Spot(gs, j, k) = j
      BY <1>1, <2>1 DEF Spot
    <3> QED BY <1>1, <2>1, <3>1
  <2>2. CASE k # t
    <3>1. k \in 2 .. Len(fs) - 1 /\ k \in 2 .. Len(fs)
      BY <1>1, <2>2
    <3>2. Spot(gs, j, k) = gs[k].pc /\ Spot(fs, i, k) = fs[k].pc
      BY <1>1, <2>2 DEF Spot
    <3>3. /\ DOMAIN fs[k].symbols \subseteq DOMAIN gs[k].symbols
          /\ p.layout[gs[k].pc].fn = p.layout[fs[k].pc].fn
          /\ ScopeOK(ir, p.layout[fs[k].pc].fn, gs[k].symbols)
      BY <3>1 DEF Receives, SameSpot
    <3>4. Full(ir, p.layout[fs[k].pc].fn, fs[k].symbols)
      BY <1>1, <2>2, <3>1, <3>2 DEF ScopesOK
    <3>5. Full(ir, p.layout[fs[k].pc].fn, gs[k].symbols)
      BY <3>3, <3>4 DEF Full
    <3> QED BY <3>2, <3>3, <3>5
  <2> QED BY <2>1, <2>2
<1> QED BY <1>1, <1>2, <1>3 DEF ScopesOK

LEMMA ReceivesActs ==
  ASSUME NEW ir, NEW p, NEW fs, FramesOK(fs), NEW i,
         NEW gs, Receives(ir, p, fs, gs), NEW j, NEW d, d = Len(fs) - 2
  PROVE  Acts(p, gs, j, d) = Acts(p, fs, i, d)
<1>1. \A q \in 1 .. d : ActOf(p, gs, j, q + 1) = ActOf(p, fs, i, q + 1)
  <2> SUFFICES ASSUME NEW q \in 1 .. d
               PROVE  ActOf(p, gs, j, q + 1) = ActOf(p, fs, i, q + 1)
    OBVIOUS
  <2> DEFINE m == q + 1
             t == Len(fs)
  <2>1. t \in Nat /\ Len(gs) = t /\ d = t - 2
    BY TopIn DEF Receives
  <2>2. Len(fs) = t
    OBVIOUS
  <2> HIDE DEF t
  <2>3. m \in 2 .. t - 1 /\ m # t
    BY <2>1
  <2> HIDE DEF m
  <2>4. m \in 2 .. Len(fs) - 1
    BY <2>2, <2>3
  <2>5. /\ \A n : Holds(gs, m, n) = Holds(fs, m, n)
        /\ SameSpot(p, gs[m].pc, fs[m].pc)
    BY <2>4 DEF Receives
  <2>6. Spot(gs, j, m) = gs[m].pc /\ Spot(fs, i, m) = fs[m].pc
    BY <2>1, <2>2, <2>3 DEF Spot
  <2>7. Assigned(gs[m].symbols) = Assigned(fs[m].symbols)
    BY <2>5, AssignedSame DEF Holds
  <2>8. ActOf(p, gs, j, m) = ActOf(p, fs, i, m)
    BY <2>5, <2>6, <2>7 DEF ActOf, SameSpot
  <2> QED BY <2>8 DEF m
<1> QED BY <1>1 DEF Acts

LEMMA ReceivesClean ==
  ASSUME NEW ir, NEW p, NEW fs, FramesOK(fs), Len(fs) >= 2, NEW rg, Clean(fs, rg),
         NEW gs, Receives(ir, p, fs, gs), \A m : Holds(gs, Len(gs), m) # Bad
  PROVE  Clean(gs, rg)
<1> DEFINE t == Len(fs)
<1>1. t \in Nat /\ Len(gs) = t /\ t >= 2 /\ gs[1] = fs[1]
  BY TopIn DEF Receives
<1>2. ASSUME NEW k \in 1 .. t, NEW m PROVE Holds(gs, k, m) # Bad
  <2>1. CASE k = t
    BY <1>1, <2>1
  <2>2. CASE k # t
    <3>1. k = 1 \/ k \in 2 .. t - 1
      BY <1>1, <2>2
    <3>2. Holds(fs, k, m) # Bad
      BY <1>1 DEF Clean
    <3>3. Holds(gs, k, m) = Holds(fs, k, m)
      BY <1>1, <3>1 DEF Receives, Holds
    <3> QED BY <3>2, <3>3
  <2> QED BY <2>1, <2>2
<1>3. \A k \in 1 .. Len(gs) : \A m : Holds(gs, k, m) # Bad
  BY <1>1, <1>2
<1>4. \A r \in Reg : rg[r] # Bad
  BY DEF Clean
<1> QED BY <1>3, <1>4 DEF Clean

(* The argument a function takes next is an expression of its caller, in   *)
(* the call that made the function's frame.                                *)
LEMMA ArgumentAt ==
  ASSUME NEW ir, NEW p, Compiles(ir, p), NEW f, NEW g, NEW b, NEW n, NEW h, NEW a, CallsAt(ir, h, g, b, n, f, a),
         a # ParamCount(ir)[f], f \in 1 .. Len(ir.funcs), NEW q, q = a + 1, NEW i, i = h + 1
  PROVE  LET y == IRInsts(ir, g, b)[n].src.args[q]
         IN /\ p.code[i] = genArg(y) /\ i \in DOMAIN p.code
            /\ Unindexed(y) /\ (IsVar(y) => Local(ir, ir.funcs[g], y.var))
            /\ SameSpot(p, i, h) /\ CallArgs(ir, p, h) = IRInsts(ir, g, b)[n].src.args
            /\ p.layout[h].fn = g
<1> DEFINE x == IRInsts(ir, g, b)[n]
           s == genInst(x)
           c == ParamCount(ir)[f]
           args == x.src.args
           l == a + 2
<1>1. /\ AtSpot(ir, h, g, b, n, a + 1) /\ g # 0 /\ UserCall(ir, x, f) /\ a \in 0 .. c /\ Extent(ir, g, b, n) = c + 2
  BY DEF CallsAt
<1>2. c \in Nat
  BY HeadsAre
<1>3. Calling(x) /\ Len(args) = c /\ x.src.call \notin DOMAIN BuiltinIndex
  BY <1>1 DEF UserCall
<1>4. /\ Len(s) = Len(args) + 2 /\ \A k \in 1 .. Len(args) : s[k + 1] = genArg(args[k])
  BY <1>3, CallingCode, SMTT(20)
<1>5. IsSpot(ir, g, b, n) /\ h = Begin(ir, g, b, n) + (a + 1) - 1 /\ Begin(ir, g, b, n) \in Nat
  <2>1. h = Begin(ir, g, b, n) + (a + 1) - 1 /\ IsSpot(ir, g, b, n)
    BY <1>1 DEF AtSpot
  <2> DEFINE e == a + 1
  <2>2. AtSpot(ir, h, g, b, n, e)
    BY <1>1
  <2> HIDE DEF e
  <2>3. Begin(ir, g, b, n) \in Nat
    BY <2>2, SpotFacts
  <2> QED BY <2>1, <2>3
<1> HIDE DEF c, s, args
<1>6. a \in Nat /\ q \in 1 .. c /\ a + 2 = q + 1
  BY <1>1, <1>2 DEF c
<1>7. AtSpot(ir, i, g, b, n, l)
  <2> DEFINE u == Begin(ir, g, b, n)
  <2>1. h = u + (a + 1) - 1 /\ u \in Nat /\ Extent(ir, g, b, n) = c + 2
    BY <1>1, <1>5 DEF c
  <2> HIDE DEF u
  <2>2. i = u + l - 1 /\ l \in 1 .. Extent(ir, g, b, n)
    BY <1>2, <1>6, <2>1
  <2> QED BY <1>5, <2>2 DEF AtSpot, u
<1>8. s[l] = genArg(args[q])
  BY <1>3, <1>4, <1>6
<1>9. genArg(args[q]).op = "ARG"
  BY DEF genArg
<1>10. MeantIn(ir, g, x) /\ p.code[i] = s[l]
  <2> HIDE DEF l, x
  <2>1. x = IRInsts(ir, g, b)[n] /\ s = genInst(x)
    BY DEF x, s
  <2>2. s[l].op \notin {"JMP", "JIF", "CALL"} => p.code[i] = s[l]
    BY <1>7, <2>1, SpotInst
  <2>3. MeantIn(ir, g, x)
    BY <1>7, <2>1, SpotInst
  <2> QED BY <1>8, <1>9, <2>2, <2>3
<1>11. i \in DOMAIN p.code
  <2> HIDE DEF l
  <2>1. i \in 0 .. p.size - 1
    BY <1>7, SpotFacts
  <2> QED BY <2>1, CompiledWell
<1>12. Unindexed(args[q]) /\ (IsVar(args[q]) => Local(ir, ir.funcs[g], args[q].var))
  <2>1. ArgumentsOK(ir, ir.funcs[g], x.src)
    BY <1>1, <1>3, <1>10 DEF MeantIn
  <2>2. DOMAIN args = 1 .. c
    BY <1>3, VectorShape DEF Calling, args
  <2> QED BY <1>3, <1>6, <2>1, <2>2 DEF ArgumentsOK, args
<1>13. /\ p.layout[h].fn = g /\ p.layout[h].block = b /\ p.layout[h].next = n
  <2> DEFINE e == a + 1
  <2>1. AtSpot(ir, h, g, b, n, e)
    BY <1>1
  <2> HIDE DEF e
  <2> QED BY <2>1, SpotFacts
<1>14. /\ p.layout[i].fn = g /\ p.layout[i].block = b /\ p.layout[i].next = n
  <2> HIDE DEF l
  <2> QED BY <1>7, SpotFacts
<1>15. CallArgs(ir, p, h) = args
  BY <1>13 DEF CallArgs, args
<1> QED BY <1>8, <1>10, <1>11, <1>12, <1>13, <1>14, <1>15 DEF SameSpot, args

(* One instruction of a function's header was executed. *)
TakesOne(f, k) ==
  /\ Receives(prog.source, prog, frame, frame') /\ Passing(prog.source, prog, frame', f, k + 1)
  /\ \A m : Holds(frame', Len(frame'), m) # Bad
  /\ Straightly /\ UNCHANGED <<reg, out>>

LEMMA FuncTakes ==
  ASSUME Facts, Next, Fetched, NEW f, NEW k, Heading(f, k), k = 0
  PROVE  TakesOne(f, k)
<1> DEFINE ir == prog.source
           t == Len(frame)
<1>1. /\ AtHeader(ir, pc, f, k) /\ Compiles(ir, prog) /\ FramesOK(frame)
      /\ ScopesOK(ir, prog, frame, pc) /\ Clean(frame, reg) /\ Passing(ir, prog, frame, f, k)
      /\ t \in Nat /\ t >= 2
  BY HeadingFacts
<1>2. Inst.op = "FUNC"
  BY <1>1, HeaderFacts DEF Inst
<1>3. ~Fault(Inst)
  BY <1>2 DEF Fault, ArithOps, LogicOps, CompareOps, UnaryOps
<1>4. Pass
  BY <1>2, <1>3, Turn DEF Abort, Turns, ArithOps, LogicOps, CompareOps, UnaryOps, LoadConst, StoreConst
<1>5. Straightly /\ UNCHANGED <<reg, frame, out>>
  BY <1>4 DEF Pass, Step, Straightly
<1>6. ASSUME NEW j \in 2 .. t - 1
      PROVE  ScopeOK(ir, prog.layout[frame[j].pc].fn, frame[j].symbols)
  <2>1. j \in 2 .. Len(frame) /\ j # Len(frame)
    BY <1>1
  <2>2. Spot(frame, pc, j) = frame[j].pc
    BY <2>1 DEF Spot
  <2> QED BY <1>1, <2>1, <2>2 DEF ScopesOK
<1>7. Receives(ir, prog, frame, frame')
  BY <1>1, <1>5, <1>6 DEF Receives, SameSpot
<1>8. Passing(ir, prog, frame', f, k + 1)
  <2>1. Taken(k) = 0 /\ Taken(k + 1) = 0
    BY DEF Taken
  <2>2. Passing(ir, prog, frame, f, k + 1)
    BY <1>1, <2>1 DEF Passing
  <2> QED BY <1>5, <2>2
<1>9. t \in 1 .. Len(frame)
  BY <1>1
<1>10. \A m : Holds(frame', Len(frame'), m) # Bad
  BY <1>1, <1>5, <1>9 DEF Clean
<1> QED BY <1>5, <1>7, <1>8, <1>10 DEF TakesOne

(* PARAM gives the parameter the value of the argument in the caller. *)
LEMMA ParamTakes ==
  ASSUME Invariant, Facts, Next, Fetched, NEW f, NEW k, Heading(f, k), k # 0
  PROVE  TakesOne(f, k)
<1> DEFINE ir == prog.source
           t == Len(frame)
           r == t - 1
           h == frame[r].pc
           i == h + 1
           c == ParamCount(ir)[f]
           params == ir.funcs[f].params
<1>1. /\ AtHeader(ir, pc, f, k) /\ Compiles(ir, prog) /\ FramesOK(frame)
      /\ ScopesOK(ir, prog, frame, pc) /\ Clean(frame, reg) /\ Passing(ir, prog, frame, f, k)
      /\ t \in Nat /\ t >= 2 /\ TypeOK
  BY HeadingFacts DEF Invariant
<1>2. /\ Inst.op = "PARAM" /\ Inst.name = params[k] /\ k \in Nat /\ c \in Nat /\ f \in 1 .. Len(ir.funcs)
      /\ k \in 0 .. c
  <2>1. /\ k # 0 => prog.code[pc].op = "PARAM" /\ prog.code[pc].name = params[k]
        /\ k \in Nat /\ c \in Nat /\ f \in 1 .. Len(ir.funcs)
    BY <1>1, HeaderFacts
  <2>2. k \in 0 .. c
    BY <1>1 DEF AtHeader
  <2> QED BY <2>1, <2>2 DEF Inst
<1>3. t # 2
  BY HeadingDepth
<1>4. r \in 2 .. t - 1 /\ r \in 1 .. t /\ t \in 1 .. t /\ r # t /\ r = t - 1 /\ t >= 3
  <2> HIDE DEF t
  <2> QED BY <1>1, <1>3
<1>5. Len(frame) = t /\ Top = t /\ Top - 1 = r
  BY DEF Top
<1>6. h \in Int /\ h = frame[Len(frame) - 1].pc
  BY <1>1, <1>4 DEF FramesOK
<1> HIDE DEF t, r
<1>7. Taken(k) = k - 1 /\ Taken(k + 1) = k /\ k - 1 # c /\ k = (k - 1) + 1 /\ k \in 1 .. c
  BY <1>2 DEF Taken
<1>8. PICK g, b, n : CallsAt(ir, h, g, b, n, f, k - 1)
  <2> HIDE DEF h
  <2>1. Len(frame) # 2
    BY <1>3, <1>5
  <2>2. \E g, b, n : CallsAt(ir, h, g, b, n, f, Taken(k))
    BY <1>6, <2>1, HeadingCalled
  <2> QED BY <1>7, <2>2
<1> DEFINE args == IRInsts(ir, g, b)[n].src.args
           y == args[k]
<1>9. /\ prog.code[i] = genArg(y) /\ i \in DOMAIN prog.code
      /\ Unindexed(y) /\ (IsVar(y) => Local(ir, ir.funcs[g], y.var))
      /\ SameSpot(prog, i, h) /\ CallArgs(ir, prog, h) = args /\ prog.layout[h].fn = g
  <2> DEFINE a == k - 1
  <2>1. CallsAt(ir, h, g, b, n, f, a) /\ a # ParamCount(ir)[f] /\ f \in 1 .. Len(ir.funcs) /\ k = a + 1 /\ i = h + 1
    BY <1>2, <1>7, <1>8
  <2> HIDE DEF a, h, i, args
  <2>2. Compiles(ir, prog)
    BY <1>1
  <2>3. LET z == IRInsts(ir, g, b)[n].src.args[k]
        IN /\ prog.code[i] = genArg(z) /\ i \in DOMAIN prog.code
            /\ Unindexed(z) /\ (IsVar(z) => Local(ir, ir.funcs[g], z.var))
            /\ SameSpot(prog, i, h) /\ CallArgs(ir, prog, h) = IRInsts(ir, g, b)[n].src.args
            /\ prog.layout[h].fn = g
    BY <2>1, <2>2, ArgumentAt
  <2> QED BY <2>3 DEF args
<1> HIDE DEF args, i, y
<1>10. ParamArgAt = i
  BY <1>5 DEF ParamArgAt, i, h
<1>11. /\ prog.code[i].op = "ARG"
       /\ IsVar(y) => prog.code[i].type = "MAP" /\ prog.code[i].name = y.var
       /\ ~IsVar(y) => prog.code[i].type = "RAW" /\ prog.code[i].val = y.const
  BY <1>9 DEF genArg
<1>12. ~Fault(Inst)
  <2>1. Fault(Inst) => \/ Top = 1
                       \/ ParamArgAt \notin DOMAIN prog.code
                       \/ prog.code[ParamArgAt].op # "ARG"
    BY <1>2 DEF Fault, ArithOps, LogicOps, CompareOps, UnaryOps
  <2> QED BY <1>4, <1>5, <1>9, <1>10, <1>11, <2>1
<1>13. Param
  BY <1>2, <1>12, Turn DEF Abort, Turns, ArithOps, LogicOps, CompareOps, UnaryOps, LoadConst, StoreConst
<1>14. Straightly /\ UNCHANGED <<reg, out>>
  BY <1>13 DEF Param, Step, Straightly
<1> DEFINE v == CallerValue(frame[r].symbols, y)
<1>15. TakenValue = v
  <2>1. CASE IsVar(y)
    BY <1>5, <1>10, <1>11, <2>1 DEF TakenValue, CallerValue, Held
  <2>2. CASE ~IsVar(y)
    BY <1>5, <1>10, <1>11, <2>2 DEF TakenValue, CallerValue
  <2> QED BY <2>1, <2>2
<1>16. /\ CallerSeen = IF IsVar(y) THEN Bind(frame[r].symbols, y.var, v) ELSE frame[r].symbols
       /\ IsVar(y) => v = Held(frame[r].symbols, y.var)
  <2>1. IsVar(y) => v = Held(frame[r].symbols, y.var)
    BY DEF CallerValue
  <2> HIDE DEF v
  <2> QED BY <1>5, <1>10, <1>11, <1>15, <2>1 DEF CallerSeen
<1>17. v # Bad
  <2>1. CASE IsVar(y)
    <3>1. Held(frame[r].symbols, y.var) # Bad
      BY <1>1, <1>4, <1>5 DEF Clean, Holds
    <3> QED BY <1>16, <2>1, <3>1
  <2>2. CASE ~IsVar(y)
    <3>1. v = y.const /\ (IsInt(y.const) \/ IsStr(y.const))
      BY <1>9, <2>2 DEF Unindexed, Simple, CallerValue
    <3> HIDE DEF v
    <3> QED BY <3>1 DEF IsInt, IsStr, Bad
  <2> QED BY <2>1, <2>2
<1> HIDE DEF v
<1>18. /\ FramesOK(frame') /\ Len(frame') = t
       /\ frame'[r].pc = h + 1
       /\ \A j \in 1 .. t - 2 : frame'[j] = frame[j]
       /\ frame'[r].symbols = CallerSeen
       /\ frame'[t].symbols = Bind(frame[t].symbols, Inst.name, TakenValue)
  <2>1. /\ FramesOK(frame') /\ Len(frame') = Top
        /\ frame'[Top - 1].pc = frame[Top - 1].pc + 1
        /\ \A j \in 1 .. Top - 2 : frame'[j] = frame[j]
        /\ frame'[Top - 1].symbols = CallerSeen
        /\ frame'[Top].symbols = Bind(frame[Top].symbols, Inst.name, TakenValue)
    BY <1>1, <1>13, ParamFrames
  <2> QED BY <1>5, <2>1
<1>19. /\ \A m : Holds(frame', r, m) = Holds(frame, r, m)
       /\ DOMAIN frame[r].symbols \subseteq DOMAIN frame'[r].symbols
       /\ \A m \in DOMAIN frame'[r].symbols : m \in DOMAIN frame[r].symbols \/ (IsVar(y) /\ m = y.var)
  <2>1. CASE IsVar(y)
    <3>1. Binds(frame'[r].symbols, frame[r].symbols, y.var, v)
      BY <1>16, <1>18, <2>1, BindBinds
    <3> QED BY <1>16, <2>1, <3>1 DEF Binds, Holds
  <2>2. CASE ~IsVar(y)
    BY <1>16, <1>18, <2>2 DEF Holds
  <2> QED BY <2>1, <2>2
<1>20. Binds(frame'[t].symbols, frame[t].symbols, params[k], v)
  BY <1>2, <1>15, <1>18, BindBinds
<1>21. ScopeOK(ir, g, frame'[r].symbols)
  <2>1. ScopeOK(ir, g, frame[r].symbols)
    <3>1. Spot(frame, pc, r) = h /\ r \in 2 .. Len(frame)
      BY <1>1, <1>4, <1>5 DEF Spot, h
    <3> QED BY <1>1, <1>9, <3>1 DEF ScopesOK
  <2>2. IsVar(y) => y.var \in Params(ir, g) \/ y.var \notin Declared(ir)
    BY <1>9 DEF Local, Params
  <2> QED BY <1>19, <2>1, <2>2 DEF ScopeOK
<1>22. Receives(ir, prog, frame, frame')
  <2>1. frame'[1] = frame[1]
    BY <1>1, <1>4, <1>18
  <2>2. ASSUME NEW j \in 2 .. t - 1
        PROVE  /\ \A m : Holds(frame', j, m) = Holds(frame, j, m)
               /\ DOMAIN frame[j].symbols \subseteq DOMAIN frame'[j].symbols
               /\ SameSpot(prog, frame'[j].pc, frame[j].pc)
               /\ ScopeOK(ir, prog.layout[frame[j].pc].fn, frame'[j].symbols)
    <3>1. CASE j = r
      <4>1. SameSpot(prog, frame'[r].pc, h)
        BY <1>9, <1>18 DEF i
      <4> QED BY <1>9, <1>19, <1>21, <3>1, <4>1 DEF h
    <3>2. CASE j # r
      <4>1. frame'[j] = frame[j] /\ j \in 2 .. t /\ j # t
        BY <1>1, <1>4, <1>18, <3>2
      <4>2. Spot(frame, pc, j) = frame[j].pc
        BY <1>5, <4>1 DEF Spot
      <4>3. ScopeOK(ir, prog.layout[frame[j].pc].fn, frame[j].symbols)
        BY <1>1, <1>5, <4>1, <4>2 DEF ScopesOK
      <4> QED BY <4>1, <4>3 DEF Holds, SameSpot
    <3> QED BY <3>1, <3>2
  <2> QED BY <1>5, <1>18, <2>1, <2>2 DEF Receives
<1>23. Passing(ir, prog, frame', f, k + 1)
  <2> DEFINE old == frame[t].symbols
             now == frame'[t].symbols
  <2>1. /\ DOMAIN old = {params[j] : j \in 1 .. k - 1}
        /\ \A j \in 1 .. k - 1 : old[params[j]] = CallerValue(frame[r].symbols, args[j])
    <3>1. t > 2
      BY <1>1, <1>4
    <3>2. CallArgs(ir, prog, frame[t - 1].pc) = args
      BY <1>4, <1>9 DEF h
    <3> QED BY <1>1, <1>4, <1>5, <1>7, <3>1, <3>2 DEF Passing
  <2>2. 1 .. k = (1 .. k - 1) \cup {k} /\ k \notin 1 .. k - 1
    BY <1>2, <1>7
  <2>3. DOMAIN now = {params[j] : j \in 1 .. k}
    BY <1>20, <2>1, <2>2 DEF Binds
  <2>4. \A j, l \in 1 .. c : params[j] = params[l] => j = l
    <3>1. Meant(ir) /\ WellFormedIR(ir)
      BY <1>1, CompiledFields
    <3>2. f \in DOMAIN ir.funcs
      BY <1>2, <3>1, Functions
    <3>3. IsVector(params) /\ c = Len(params)
      BY <1>2, <3>1, Functions DEF ParamCount
    <3>4. DOMAIN params = 1 .. c
      BY <3>3, VectorShape
    <3>5. \A j, l \in DOMAIN params : params[j] = params[l] => j = l
      BY <3>1, <3>2 DEF Meant
    <3> QED BY <3>4, <3>5
  <2>5. ASSUME NEW j \in 1 .. k
        PROVE  now[params[j]] = CallerValue(frame'[r].symbols, args[j])
    <3>1. CallerValue(frame'[r].symbols, args[j]) = CallerValue(frame[r].symbols, args[j])
      BY <1>19 DEF CallerValue, Holds
    <3>2. params[j] \in DOMAIN now
      BY <2>3
    <3>3. now[params[j]] = IF params[j] = params[k] THEN v ELSE Held(old, params[j])
      BY <1>20, <3>2 DEF Binds, Held
    <3>4. CASE j = k
      BY <3>1, <3>3, <3>4 DEF v, y
    <3>5. CASE j # k
      <4>1. j \in 1 .. k - 1 /\ j \in 1 .. c
        BY <1>2, <1>7, <3>5
      <4>2. params[j] # params[k]
        BY <1>7, <2>4, <3>5, <4>1
      <4>3. Held(old, params[j]) = old[params[j]]
        BY <2>1, <4>1 DEF Held
      <4> QED BY <2>1, <3>1, <3>3, <4>1, <4>2, <4>3
    <3> QED BY <3>4, <3>5
  <2>6. CallArgs(ir, prog, frame'[r].pc) = args
    <3>1. SameSpot(prog, frame'[r].pc, h)
      BY <1>9, <1>18 DEF i
    <3> QED BY <1>9, <3>1 DEF SameSpot, CallArgs
  <2> HIDE DEF params, args
  <2> QED BY <1>4, <1>7, <1>18, <2>3, <2>5, <2>6 DEF Passing, params
<1>24. \A m : Holds(frame', Len(frame'), m) # Bad
  <2>1. \A m : Holds(frame, t, m) # Bad
    BY <1>1, <1>4, <1>5 DEF Clean
  <2> QED BY <1>17, <1>18, <1>20, <2>1 DEF Binds, Holds
<1> QED BY <1>14, <1>22, <1>23, <1>24 DEF TakesOne

(* What every instruction of a header keeps. *)
LEMMA TakesKeeps ==
  ASSUME Facts, NEW f, NEW k, Heading(f, k), TakesOne(f, k)
  PROVE  /\ Clean(frame', reg')
         /\ prog.layout[pc'].fn = f => ScopesOK(prog.source, prog, frame', pc')
         /\ FramesOK(frame') /\ Len(frame') = Len(frame)
         /\ AbsAnswer = NotGiven /\ (prog.source)' = prog.source
         /\ (Assigned(frame[1].symbols))' = Assigned(frame[1].symbols)
<1> DEFINE ir == prog.source
           t == Len(frame)
           params == ir.funcs[f].params
<1>1. /\ AtHeader(ir, pc, f, k) /\ Compiles(ir, prog) /\ FramesOK(frame)
      /\ ScopesOK(ir, prog, frame, pc) /\ Clean(frame, reg)
      /\ t \in Nat /\ t >= 2
  BY HeadingFacts
<1>2. /\ Receives(ir, prog, frame, frame') /\ Passing(ir, prog, frame', f, k + 1)
      /\ \A m : Holds(frame', Len(frame'), m) # Bad
      /\ pc' = pc + 1 /\ UNCHANGED <<prog, mode, reg>>
  BY DEF TakesOne, Straightly
<1>3. Clean(frame', reg')
  <2>1. Clean(frame', reg)
    BY <1>1, <1>2, ReceivesClean
  <2> QED BY <1>2, <2>1
<1>4. f \in 1 .. Len(ir.funcs) /\ k \in 0 .. ParamCount(ir)[f] /\ ParamCount(ir)[f] \in Nat
  BY <1>1, HeadsAre DEF AtHeader
<1>5. DOMAIN params = 1 .. ParamCount(ir)[f]
  <2>1. IsVector(params) /\ ParamCount(ir)[f] = Len(params)
    BY <1>1, <1>4, CompiledFields, Functions DEF ParamCount
  <2> QED BY <2>1, VectorShape
<1>6. ScopeOK(ir, f, frame'[Len(frame')].symbols)
  <2>1. DOMAIN frame'[Len(frame')].symbols = {params[j] : j \in 1 .. Taken(k + 1)}
    BY <1>2 DEF Passing
  <2>2. Taken(k + 1) = k
    BY <1>4 DEF Taken
  <2>3. \A j \in 1 .. k : j \in DOMAIN params
    BY <1>4, <1>5
  <2> QED BY <2>1, <2>2, <2>3 DEF ScopeOK, Params
<1>7. prog.layout[pc'].fn = f => ScopesOK(ir, prog, frame', pc')
  BY <1>1, <1>2, <1>6, ReceivesScopes
<1>8. AbsAnswer = NotGiven
  BY <1>1, AnswerHeader, MappingIs
<1>9. (Assigned(frame[1].symbols))' = Assigned(frame[1].symbols)
  <2>1. (Assigned(frame[1].symbols))' = Assigned(frame'[1].symbols)
    BY Zenon DEF Assigned
  <2> QED BY <1>2, <2>1 DEF Receives
<1> QED BY <1>2, <1>3, <1>7, <1>8, <1>9 DEF Receives

(* While a function takes its arguments it does not count as called. *)
LEMMA HeaderOn ==
  ASSUME Facts, NEW f, NEW k, Heading(f, k), TakesOne(f, k), k # ParamCount(prog.source)[f]
  PROVE  Simulated
<1> DEFINE ir == prog.source
           t == Len(frame)
           e == k + 1
           d == t - 2
<1>1. /\ AtHeader(ir, pc, f, k) /\ Compiles(ir, prog) /\ FramesOK(frame) /\ mode = "MAIN"
      /\ t \in Nat /\ t >= 2 /\ d = Len(frame) - 2
  BY HeadingFacts
<1>2. /\ Clean(frame', reg') /\ (prog.layout[pc'].fn = f => ScopesOK(ir, prog, frame', pc'))
      /\ FramesOK(frame') /\ Len(frame') = t /\ AbsAnswer = NotGiven /\ (prog.source)' = prog.source
      /\ (Assigned(frame[1].symbols))' = Assigned(frame[1].symbols)
  BY TakesKeeps
<1>3. /\ Receives(ir, prog, frame, frame') /\ Passing(ir, prog, frame', f, e)
      /\ pc' = pc + 1 /\ UNCHANGED <<prog, mode, reg, status, out>>
  BY DEF TakesOne, Straightly
<1>4. AtHeader(ir, pc', f, e)
  <2>1. /\ f \in 1 .. Len(ir.funcs) /\ k \in 0 .. ParamCount(ir)[f] /\ pc = HeadAt(ir)[f] + k
        /\ ParamCount(ir)[f] \in Nat /\ HeadAt(ir)[f] \in Nat
    BY <1>1, HeadsAre DEF AtHeader
  <2> QED BY <1>3, <2>1 DEF AtHeader
<1> HIDE DEF e, d
<1>5. prog.layout[pc'].fn = f
  BY <1>1, <1>4, HeaderFacts
<1>6. Executing(ir, prog, frame', pc', reg')
  BY <1>2, <1>3, <1>4, <1>5 DEF Executing, InHeader
<1>7. SoundNext
  BY <1>1, <1>2, <1>3, <1>6, SoundHere DEF SoundNext
<1>8. AbsStack' = AbsStack
  <2>1. StackOf(prog, frame, pc, "MAIN") = IF t = 2 THEN <<Act4(0, 2, 1, << >>)>>
                                                    ELSE Acts(prog, frame, pc, d)
    BY <1>1, StackHeader
  <2>2. StackOf(prog, frame', pc', "MAIN") = IF t = 2 THEN <<Act4(0, 2, 1, << >>)>>
                                                      ELSE Acts(prog, frame', pc', d)
    BY <1>1, <1>2, <1>4, StackHeader
  <2>3. Acts(prog, frame', pc', d) = Acts(prog, frame, pc, d)
    BY <1>1, <1>3, ReceivesActs
  <2> QED BY <1>1, <1>3, <2>1, <2>2, <2>3, MappingIs, MappingNext
<1>9. AbsAnswer' = NotGiven
  <2>1. AnswerOf(prog, pc', reg') = NotGiven
    BY <1>1, <1>4, AnswerHeader
  <2> QED BY <1>3, <2>1, MappingNext
<1>10. UNCHANGED IRM!vars
  BY <1>2, <1>3, <1>8, <1>9 DEF IRM!vars
<1> QED BY <1>7, <1>10, Stutters

(* Then it is at its first instruction, with its parameters bound. *)
LEMMA HeaderOff ==
  ASSUME Facts, NEW f, NEW k, Heading(f, k), TakesOne(f, k), k = ParamCount(prog.source)[f],
         NEW q, q = PosAfter(prog.source, f, 1, 1), NEW d, d = Len(frame) - 2
  PROVE  /\ SoundNext /\ AbsAnswer = NotGiven /\ AbsAnswer' = NotGiven /\ (prog.source)' = prog.source
         /\ (Assigned(frame[1].symbols))' = Assigned(frame[1].symbols)
         /\ AbsStack = IF Len(frame) = 2 THEN <<Act4(0, 2, 1, << >>)>> ELSE Acts(prog, frame, pc, d)
         /\ AbsStack' = Append(Acts(prog, frame, pc, d), Act4(f, q.block, 1, Assigned(frame'[Len(frame)].symbols)))
         /\ q = [fn |-> f, block |-> q.block, next |-> 1]
         /\ out' = out /\ status' = status
<1> DEFINE ir == prog.source
           t == Len(frame)
           e == k + 1
<1>1. /\ AtHeader(ir, pc, f, k) /\ Compiles(ir, prog) /\ FramesOK(frame) /\ mode = "MAIN"
      /\ t \in Nat /\ t >= 2 /\ WellFormedIR(ir)
  BY HeadingFacts, CompiledFields
<1>2. /\ Clean(frame', reg') /\ (prog.layout[pc'].fn = f => ScopesOK(ir, prog, frame', pc'))
      /\ FramesOK(frame') /\ Len(frame') = t /\ AbsAnswer = NotGiven /\ (prog.source)' = prog.source
      /\ (Assigned(frame[1].symbols))' = Assigned(frame[1].symbols)
  BY TakesKeeps
<1>3. /\ Receives(ir, prog, frame, frame') /\ Passing(ir, prog, frame', f, e)
      /\ pc' = pc + 1 /\ UNCHANGED <<prog, mode, reg, status, out>>
  BY DEF TakesOne, Straightly
<1>4. f \in 1 .. Len(ir.funcs) /\ pc = HeadAt(ir)[f] + k /\ k \in Nat /\ HeadAt(ir)[f] \in Nat
  BY <1>1, HeadsAre DEF AtHeader
<1>5. /\ q = [fn |-> f, block |-> q.block, next |-> 1] /\ IsSpot(ir, f, q.block, 1)
      /\ Begin(ir, f, q.block, 1) = HeadAt(ir)[f] + ParamCount(ir)[f] + 1
  BY <1>1, <1>4, FirstSpot
<1>6. pc' = Begin(ir, f, q.block, 1)
  <2> DEFINE h == HeadAt(ir)[f]
  <2>1. pc' = h + k + 1 /\ h \in Nat
    BY <1>3, <1>4
  <2> HIDE DEF h
  <2> QED BY <1>4, <1>5, <2>1 DEF h
<1>7. AtSpot(ir, pc', f, q.block, 1, 1) /\ f # 0
  BY <1>1, <1>4, <1>5, <1>6, StartOfSpot
<1>8. prog.layout[pc'].fn = f
  BY <1>1, <1>7, SpotFacts
<1>9. Full(ir, f, frame'[Len(frame')].symbols)
  <2>1. Taken(e) = k
    BY <1>4 DEF Taken
  <2>2. DOMAIN ir.funcs[f].params = 1 .. k
    <3>1. IsVector(ir.funcs[f].params) /\ k = Len(ir.funcs[f].params)
      BY <1>1, <1>4, Functions DEF ParamCount
    <3> QED BY <3>1, VectorShape
  <2> HIDE DEF e
  <2> QED BY <1>3, <2>1, <2>2 DEF Passing, Full, Params
<1> HIDE DEF e
<1>10. InBody(ir, frame', pc', reg', f, q.block, 1, 1)
  BY <1>7, <1>9, ReadyFirst DEF InBody
<1>11. Executing(ir, prog, frame', pc', reg')
  BY <1>2, <1>8, <1>10 DEF Executing
<1>12. SoundNext
  BY <1>1, <1>2, <1>3, <1>11, SoundHere DEF SoundNext
<1>13. AbsStack = IF t = 2 THEN <<Act4(0, 2, 1, << >>)>> ELSE Acts(prog, frame, pc, d)
  BY <1>1, MappingIs, StackHeader
<1>14. AbsStack' = Append(Acts(prog, frame, pc, d), Act4(f, q.block, 1, Assigned(frame'[t].symbols)))
  <2> DEFINE x == Act4(f, q.block, 1, Assigned(frame'[t].symbols))
  <2>1. StackOf(prog, frame', pc', "MAIN") = Acts(prog, frame', pc', t - 1) /\ ActOf(prog, frame', pc', t) = x
    BY <1>1, <1>2, <1>7, StackBody
  <2>2. AbsStack' = Acts(prog, frame', pc', t - 1)
    BY <1>1, <1>3, <2>1, MappingNext
  <2>3. Acts(prog, frame', pc', d) = Acts(prog, frame, pc, d)
    BY <1>1, <1>3, ReceivesActs
  <2> HIDE DEF x
  <2>4. d \in Nat /\ d + 1 = t - 1 /\ d + 2 = t
    BY <1>1
  <2> HIDE DEF t
  <2>5. Acts(prog, frame', pc', t - 1) = Append(Acts(prog, frame', pc', d), x)
    <3> DEFINE F == [j \in 1 .. d |-> ActOf(prog, frame', pc', j + 1)]
               G == [j \in 1 .. d + 1 |-> ActOf(prog, frame', pc', j + 1)]
    <3>1. Acts(prog, frame', pc', t - 1) = G /\ Acts(prog, frame', pc', d) = F
      BY <2>4 DEF Acts
    <3>2. G = Append(F, x)
      <4>1. Len(F) = d /\ DOMAIN F = 1 .. d /\ F = [j \in 1 .. d |-> F[j]]
        BY <2>4
      <4>2. Append(F, x) = [j \in 1 .. d + 1 |-> IF j = d + 1 THEN x ELSE F[j]]
        <5> HIDE DEF F
        <5> QED BY <2>4, <4>1
      <4>3. \A j \in 1 .. d + 1 : G[j] = IF j = d + 1 THEN x ELSE F[j]
        <5> SUFFICES ASSUME NEW j \in 1 .. d + 1
                     PROVE  G[j] = IF j = d + 1 THEN x ELSE F[j]
          OBVIOUS
        <5>1. CASE j = d + 1
          <6>1. j + 1 = t
            BY <2>4, <5>1
          <6> QED BY <2>1, <5>1, <6>1
        <5>2. CASE j # d + 1
          <6>1. j \in 1 .. d
            BY <2>4, <5>2
          <6> QED BY <5>2, <6>1
        <5> QED BY <5>1, <5>2
      <4> QED BY <4>2, <4>3
    <3> HIDE DEF F, G
    <3> QED BY <3>1, <3>2
  <2> QED BY <2>2, <2>3, <2>5 DEF x, t
<1>15. AbsAnswer' = NotGiven
  <2> DEFINE y == IRInsts(ir, f, q.block)[1]
             w == Extent(ir, f, q.block, 1)
  <2>1. AnswerOf(prog, pc', reg') = IF f # 0 /\ 1 = w /\ y.tag = "ASSIGN" /\ IsCall(y.src)
                                      THEN Given(reg'[1]) ELSE NotGiven
    BY <1>1, <1>7, AnswerBody
  <2>2. y.tag = "ASSIGN" /\ IsCall(y.src) => w # 1
    BY <1>1, <1>5, CallsAreLong
  <2> HIDE DEF y, w
  <2>3. AnswerOf(prog, pc', reg') = NotGiven
    BY <2>1, <2>2
  <2> QED BY <1>3, <2>3, MappingNext
<1> QED BY <1>2, <1>3, <1>5, <1>12, <1>13, <1>14, <1>15

LEMMA EmptyActs ==
  ASSUME NEW p, NEW fs, NEW i, NEW x
  PROVE  Append(Acts(p, fs, i, 0), x) = <<x>>
<1> DEFINE F == Acts(p, fs, i, 0)
<1>1. F = << >>
  BY DEF Acts
<1> HIDE DEF F
<1>2. Append(F, x) = <<x>>
  BY <1>1
<1> QED BY <1>2 DEF F

(* The first activation an abstract call or EnterMain makes. *)
LEMMA FirstActivation ==
  ASSUME NEW f, BlockTotal(prog.source, f) \in Nat, NEW q, q = PosAfter(prog.source, f, 1, 1),
         q = [fn |-> f, block |-> q.block, next |-> 1], NEW scope
  PROVE  IRM!Activation(IRM!Position(f, 1, 1), scope) = Act4(f, q.block, 1, scope)
<1>1. IRM!Position(f, 1, 1) = q
  BY SamePosition
<1>2. q.fn = f /\ q.next = 1
  OBVIOUS
<1> QED BY <1>1, <1>2 DEF IRM!Activation, Act4

LEMMA EnterTurn ==
  ASSUME Facts, NEW f, NEW k, Heading(f, k), TakesOne(f, k), k = ParamCount(prog.source)[f], Len(frame) = 2
  PROVE  Simulated
<1> DEFINE ir == prog.source
           q == PosAfter(ir, f, 1, 1)
           d == Len(frame) - 2
           scope == Assigned(frame'[Len(frame)].symbols)
<1>1. Compiles(ir, prog) /\ AtHeader(ir, pc, f, k) /\ FramesOK(frame)
  BY HeadingFacts
<1>2. f = MainOf(ir) /\ f \in 1 .. Len(ir.funcs) /\ k = 0
  BY <1>1, HeadingDepth DEF AtHeader
<1>3. d = 0 /\ d = Len(frame) - 2 /\ q = PosAfter(ir, f, 1, 1)
  OBVIOUS
<1> HIDE DEF d, q
<1>4. /\ SoundNext /\ AbsAnswer = NotGiven /\ AbsAnswer' = NotGiven /\ (prog.source)' = prog.source
      /\ (Assigned(frame[1].symbols))' = Assigned(frame[1].symbols)
      /\ AbsStack = <<Act4(0, 2, 1, << >>)>>
      /\ AbsStack' = Append(Acts(prog, frame, pc, d), Act4(f, q.block, 1, scope))
      /\ q = [fn |-> f, block |-> q.block, next |-> 1]
      /\ out' = out /\ status' = status
  BY <1>3, HeaderOff
<1>5. scope = << >>
  <2>1. DOMAIN frame'[Len(frame')].symbols = {}
    <3>1. Passing(ir, prog, frame', f, k + 1)
      BY DEF TakesOne
    <3>2. Taken(k + 1) = 0
      BY <1>2 DEF Taken
    <3> QED BY <3>1, <3>2 DEF Passing
  <2>2. Len(frame') = Len(frame)
    BY TakesKeeps
  <2> QED BY <2>1, <2>2 DEF Assigned
<1> HIDE DEF scope
<1>6. AbsStack' = <<Act4(f, q.block, 1, << >>)>>
  BY <1>3, <1>4, <1>5, EmptyActs
<1>7. Runs(AbsStack, 1, 0, 2, 1, << >>)
  BY <1>4 DEF Runs
<1>8. IRM!Running = Act4(0, 2, 1, << >>)
  BY <1>7, RunningIs
<1>9. IRM!Running.fn = 0 /\ IRM!AtEnd
  <2>1. Len(IRM!Blocks(0)) = 1
    BY SameBlocks DEF BlockTotal
  <2>2. IRM!Running.fn = 0 /\ IRM!Running.block = 2
    BY <1>8 DEF Act4
  <2>3. IRM!AtEnd <=> IRM!Running.block > Len(IRM!Blocks(IRM!Running.fn))
    BY DEF IRM!AtEnd
  <2>4. Len(IRM!Blocks(IRM!Running.fn)) = 1
    BY <2>1, <2>2
  <2> DEFINE w == Len(IRM!Blocks(IRM!Running.fn))
             z == IRM!Running.block
  <2>5. w = 1 /\ z = 2 /\ (IRM!AtEnd <=> z > w)
    BY <2>2, <2>3, <2>4
  <2> HIDE DEF w, z
  <2>6. IRM!AtEnd
    BY <2>5
  <2> QED BY <2>2, <2>6
<1>10. IRM!FuncNamed(IRM!ENTRY_FUNC) = f
  BY <1>2 DEF IRM!FuncNamed, IRM!ENTRY_FUNC, MainOf, FuncNamed, ENTRY_FUNC
<1>11. IRM!Activation(IRM!Position(f, 1, 1), << >>) = Act4(f, q.block, 1, << >>)
  <2>1. BlockTotal(ir, f) \in Nat
    <3>1. f \in 0 .. Len(ir.funcs)
      BY <1>1, <1>2, TotalBlocks, Functions, CompiledFields
    <3> QED BY <1>1, <3>1, TotalBlocks
  <2> QED BY <1>3, <1>4, <2>1, FirstActivation
<1>12. status = "running"
  BY DEF Facts
<1>13. IRM!EnterMain
  BY <1>4, <1>6, <1>9, <1>10, <1>11, <1>12 DEF IRM!EnterMain
<1> QED BY <1>4, <1>13, Computes DEF IRM!Next

(* The argument that parameter name stands for. *)
ArgOf(params, args, name) == args[CHOOSE k \in DOMAIN params : params[k] = name]

(* IRMachine's Call of function g by instruction x. *)
CallOf(g, x) ==
  LET params == prog.source.funcs[g].params
      given == {name \in {params[k] : k \in DOMAIN params} :
                  IRM!Operand(ArgOf(params, x.src.args, name)) # IRM!None}
  IN /\ \A name \in given : IRM!Operand(ArgOf(params, x.src.args, name)) # IRM!Bad
     /\ AbsStack' = Append(AbsStack,
                           IRM!Activation(IRM!Position(g, 1, 1),
                                          [name \in given |-> IRM!Operand(ArgOf(params, x.src.args, name))]))

LEMMA CallOfIs ==
  ASSUME IRM!Calls({prog.source.funcs[f].name : f \in DOMAIN prog.source.funcs}),
         CallOf(IRM!FuncNamed(IRM!Inst.src.call), IRM!Inst),
         (prog.source)' = prog.source, (Assigned(frame[1].symbols))' = Assigned(frame[1].symbols),
         AbsAnswer' = AbsAnswer, out' = out, status' = status
  PROVE  IRM!Call
BY Zenon DEF IRM!Call, CallOf, ArgOf

(* The value of an argument, to the abstract machine and in the caller's   *)
(* scope.                                                                  *)
LEMMA ArgumentIs ==
  ASSUME NEW d, NEW g, NEW b, NEW n, NEW s, Runs(AbsStack, d, g, b, n, Assigned(s)), g # 0,
         NEW y, Unindexed(y), IsVar(y) => Local(prog.source, prog.source.funcs[g], y.var)
  PROVE  IRM!Operand(y) = CallerValue(s, y)
<1>1. CASE IsVar(y)
  <2> DEFINE name == y.var
             scope == Assigned(s)
  <2>1. LocalTo(prog.source, g, name) /\ y.idx = << >>
    BY <1>1 DEF LocalTo, Unindexed
  <2>2. IRM!Running.vars = scope
    BY RunningIs
  <2>3. IRM!IsLocal(name)
    BY <2>1, LocalIs
  <2> HIDE DEF name, scope
  <2>4. IRM!Scope(name) = scope
    BY <2>2, <2>3, Zenon DEF IRM!Scope
  <2>5. IRM!Value(name) = Held(scope, name)
    BY <2>4, SameConstants, Zenon DEF IRM!Value, Held
  <2>6. IRM!Value(name) = Held(s, name)
    BY <2>5, AssignedIs DEF scope
  <2>7. IRM!Path(y.idx) = << >>
    <3>1. DOMAIN y.idx = {}
      BY <2>1
    <3> QED BY <3>1 DEF IRM!Path
  <2>8. IRM!Element(y) = Walk(Held(s, name), << >>)
    BY <2>6, <2>7, SameWalk, Zenon DEF IRM!Element, name
  <2>9. IRM!Element(y) = Held(s, name)
    BY <2>8, WalkNowhere
  <2>10. IRM!Operand(y) = IRM!Element(y)
    BY <1>1, SameConstants, Zenon DEF IRM!Operand
  <2> QED BY <1>1, <2>9, <2>10 DEF CallerValue, name
<1>2. CASE ~IsVar(y)
  <2>1. IRM!Operand(y) = y.const
    BY <1>2, SameConstants, Zenon DEF IRM!Operand
  <2> QED BY <1>2, <2>1 DEF CallerValue
<1> QED BY <1>1, <1>2

LEMMA ArgumentsAre ==
  ASSUME NEW ir, NEW p, Compiles(ir, p), NEW f, NEW g, NEW b, NEW n, NEW h, NEW a, CallsAt(ir, h, g, b, n, f, a),
         f \in 1 .. Len(ir.funcs), NEW x, x = IRInsts(ir, g, b)[n]
  PROVE  /\ \A k \in 1 .. ParamCount(ir)[f] :
              Unindexed(x.src.args[k]) /\ (IsVar(x.src.args[k]) => Local(ir, ir.funcs[g], x.src.args[k].var))
         /\ p.layout[h].fn = g /\ p.layout[h].block = b /\ p.layout[h].next = n
         /\ IsSpot(ir, g, b, n) /\ g # 0 /\ x.tag = "ASSIGN" /\ IsCall(x.src) /\ x.src.call = ir.funcs[f].name
         /\ g \in 0 .. Len(ir.funcs)
<1> DEFINE c == ParamCount(ir)[f]
           args == x.src.args
           e == a + 1
<1>1. /\ AtSpot(ir, h, g, b, n, e) /\ g # 0 /\ UserCall(ir, x, f)
  BY DEF CallsAt
<1>2. Calling(x) /\ Len(args) = c /\ x.src.call \notin DOMAIN BuiltinIndex /\ x.src.call = ir.funcs[f].name
  BY <1>1 DEF UserCall
<1>3. x.tag = "ASSIGN" /\ IsCall(x.src)
  BY <1>2, AssignOnly
<1> HIDE DEF e
<1>4. /\ p.layout[h].fn = g /\ p.layout[h].block = b /\ p.layout[h].next = n /\ IsSpot(ir, g, b, n)
      /\ g \in 0 .. Len(ir.funcs)
  BY <1>1, SpotFacts DEF AtSpot
<1>5. MeantIn(ir, g, x)
  BY <1>4, Classified
<1>6. ArgumentsOK(ir, ir.funcs[g], x.src)
  BY <1>1, <1>2, <1>5 DEF MeantIn
<1>7. DOMAIN args = 1 .. c
  BY <1>2, VectorShape DEF Calling
<1>8. \A k \in DOMAIN args : Unindexed(args[k]) /\ (IsVar(args[k]) => Local(ir, ir.funcs[g], args[k].var))
  BY <1>2, <1>6 DEF ArgumentsOK
<1> QED BY <1>1, <1>2, <1>3, <1>4, <1>7, <1>8

(* The variables of a function that has taken its arguments: each          *)
(* parameter holds the value of its argument in the caller.                *)
ParamsBound(f, k) ==
  LET s == frame'[Len(frame)].symbols
      params == prog.source.funcs[f].params
      args == CallArgs(prog.source, prog, frame[Len(frame) - 1].pc)
  IN /\ DOMAIN s = {params[j] : j \in DOMAIN params} /\ DOMAIN params = 1 .. k
     /\ \A name \in DOMAIN s :
          s[name] = CallerValue(frame[Len(frame) - 1].symbols, ArgOf(params, args, name))

LEMMA BoundParams ==
  ASSUME Facts, NEW f, NEW k, Heading(f, k), TakesOne(f, k), k = ParamCount(prog.source)[f], Len(frame) # 2
  PROVE  ParamsBound(f, k)
<1> DEFINE ir == prog.source
           t == Len(frame)
           s == frame'[Len(frame)].symbols
           r == Len(frame) - 1
           params == prog.source.funcs[f].params
           args == CallArgs(prog.source, prog, frame[r].pc)
<1>1. /\ AtHeader(ir, pc, f, k) /\ Compiles(ir, prog) /\ t \in Nat /\ t >= 2
  BY HeadingFacts
<1>2. /\ Receives(ir, prog, frame, frame') /\ Passing(ir, prog, frame', f, k + 1)
  BY DEF TakesOne
<1>3. f \in 1 .. Len(ir.funcs) /\ k \in Nat /\ k = ParamCount(ir)[f] /\ WellFormedIR(ir)
  BY <1>1, HeadsAre, CompiledFields DEF AtHeader
<1>4. DOMAIN params = 1 .. k
  <2>1. IsVector(params) /\ k = Len(params)
    BY <1>3, Functions DEF ParamCount
  <2> QED BY <2>1, VectorShape
<1>5. Len(frame') = t /\ Taken(k + 1) = k
  BY <1>2, <1>3 DEF Receives, Taken
<1>6. t > 2 /\ r \in 2 .. t - 1 /\ r = t - 1
  <2>1. t # 2
    OBVIOUS
  <2>2. r = t - 1
    OBVIOUS
  <2> HIDE DEF t
  <2> QED BY <1>1, <2>1, <2>2
<1>7. /\ DOMAIN s = {params[j] : j \in 1 .. k}
      /\ \A j \in 1 .. k : s[params[j]] = CallerValue(frame'[r].symbols, CallArgs(ir, prog, frame'[r].pc)[j])
  BY <1>2, <1>5, <1>6 DEF Passing
<1>8. CallArgs(ir, prog, frame'[r].pc) = args
  <2>1. SameSpot(prog, frame'[r].pc, frame[r].pc)
    BY <1>2, <1>6 DEF Receives
  <2> QED BY <2>1 DEF SameSpot, CallArgs
<1>9. \A j : CallerValue(frame'[r].symbols, args[j]) = CallerValue(frame[r].symbols, args[j])
  <2>1. \A m : Holds(frame', r, m) = Holds(frame, r, m)
    BY <1>2, <1>6 DEF Receives
  <2> QED BY <2>1 DEF CallerValue, Holds
<1>10. ASSUME NEW name \in DOMAIN s
       PROVE  s[name] = CallerValue(frame[r].symbols, ArgOf(params, args, name))
  <2> DEFINE m == CHOOSE j \in DOMAIN params : params[j] = name
  <2>1. m \in DOMAIN params /\ params[m] = name
    <3>1. \E j \in DOMAIN params : params[j] = name
      BY <1>4, <1>7
    <3> QED BY <3>1
  <2>2. ArgOf(params, args, name) = args[m]
    BY DEF ArgOf
  <2> HIDE DEF m
  <2> QED BY <1>4, <1>7, <1>8, <1>9, <2>1, <2>2
<1> QED BY <1>4, <1>7, <1>10 DEF ParamsBound

LEMMA CalledTurn ==
  ASSUME Facts, NEW f, NEW k, Heading(f, k), TakesOne(f, k), k = ParamCount(prog.source)[f], Len(frame) # 2
  PROVE  Simulated
<1> DEFINE ir == prog.source
           t == Len(frame)
           r == t - 1
           d == t - 2
           h == frame[r].pc
           q == PosAfter(ir, f, 1, 1)
           s == frame'[t].symbols
           params == ir.funcs[f].params
<1>1. Compiles(ir, prog) /\ AtHeader(ir, pc, f, k) /\ FramesOK(frame) /\ t \in Nat /\ t >= 2 /\ Clean(frame, reg)
  BY HeadingFacts
<1>2. f \in 1 .. Len(ir.funcs) /\ WellFormedIR(ir)
  BY <1>1, CompiledFields DEF AtHeader
<1>3. Len(frame) = t /\ r = t - 1 /\ d = t - 2 /\ d = Len(frame) - 2 /\ r = Len(frame) - 1 /\ s = frame'[Len(frame)].symbols
      /\ params = ir.funcs[f].params /\ q = PosAfter(ir, f, 1, 1) /\ h = frame[r].pc
  OBVIOUS
<1>4. d \in Nat /\ d >= 1 /\ r = d + 1 /\ r # t /\ r \in 1 .. t /\ t # 2
  <2>1. t # 2
    OBVIOUS
  <2>2. d = t - 2 /\ r = t - 1
    OBVIOUS
  <2> HIDE DEF t, d, r
  <2> QED BY <1>1, <2>1, <2>2
<1> HIDE DEF d, q, r, s, h, params
<1>5. /\ SoundNext /\ AbsAnswer = NotGiven /\ AbsAnswer' = NotGiven /\ (prog.source)' = prog.source
      /\ (Assigned(frame[1].symbols))' = Assigned(frame[1].symbols)
      /\ AbsStack = Acts(prog, frame, pc, d)
      /\ AbsStack' = Append(Acts(prog, frame, pc, d), Act4(f, q.block, 1, Assigned(s)))
      /\ q = [fn |-> f, block |-> q.block, next |-> 1]
      /\ out' = out /\ status' = status
  BY <1>3, <1>4, HeaderOff
<1>6. PICK g, b, n : CallsAt(ir, h, g, b, n, f, Taken(k))
  <2>1. h = frame[Len(frame) - 1].pc /\ Len(frame) # 2
    BY <1>3, <1>4
  <2> QED BY <2>1, HeadingCalled
<1> DEFINE x == IRInsts(ir, g, b)[n]
           args == x.src.args
           a == Taken(k)
           old == frame[r].symbols
<1>7. CallsAt(ir, h, g, b, n, f, a) /\ x = IRInsts(ir, g, b)[n] /\ args = x.src.args
  BY <1>6
<1> HIDE DEF x, a
<1>8. /\ \A j \in 1 .. ParamCount(ir)[f] :
           Unindexed(x.src.args[j]) /\ (IsVar(x.src.args[j]) => Local(ir, ir.funcs[g], x.src.args[j].var))
      /\ prog.layout[h].fn = g /\ prog.layout[h].block = b /\ prog.layout[h].next = n
      /\ IsSpot(ir, g, b, n) /\ g # 0 /\ x.tag = "ASSIGN" /\ IsCall(x.src) /\ x.src.call = ir.funcs[f].name
      /\ g \in 0 .. Len(ir.funcs)
  BY <1>1, <1>2, <1>7, ArgumentsAre
<1>9. Runs(AbsStack, d, g, b, n, Assigned(old))
  <2>1. Spot(frame, pc, r) = h
    BY <1>3, <1>4 DEF Spot
  <2>2. ActOf(prog, frame, pc, r) = Act4(g, b, n, Assigned(old))
    BY <1>8, <2>1 DEF ActOf, Act4
  <2> DEFINE F == [j \in 1 .. d |-> ActOf(prog, frame, pc, j + 1)]
  <2>3. AbsStack = F
    BY <1>5 DEF Acts
  <2>4. F[d] = ActOf(prog, frame, pc, r) /\ DOMAIN F = 1 .. d /\ Len(F) = d
    BY <1>4
  <2> HIDE DEF F
  <2> QED BY <1>4, <2>2, <2>3, <2>4 DEF Runs
<1>10. ~IRM!AtEnd /\ IRM!Inst = x
  <2>1. BlockTotal(ir, g) \in Nat
    BY <1>1, <1>8, TotalBlocks
  <2> QED BY <1>7, <1>8, <1>9, <2>1, RunningSpot
<1>11. IRM!Calls({prog.source.funcs[e].name : e \in DOMAIN prog.source.funcs})
  <2>1. IRM!Executes("ASSIGN")
    BY <1>8, <1>10 DEF IRM!Executes, Facts
  <2>2. f \in DOMAIN ir.funcs
    BY <1>2, Functions
  <2>3. x.src.call \in {prog.source.funcs[e].name : e \in DOMAIN prog.source.funcs}
    BY <1>8, <2>2
  <2> DEFINE names == {prog.source.funcs[e].name : e \in DOMAIN prog.source.funcs}
  <2> HIDE DEF names
  <2>4. x.src.call \in names => IRM!Calls(names)
    BY <1>5, <1>8, <1>10, <2>1, SameConstants DEF IRM!Calls, NotGiven
  <2> QED BY <2>3, <2>4 DEF names
<1>12. IRM!FuncNamed(x.src.call) = f
  <2>1. (CHOOSE e \in DOMAIN ir.funcs : ir.funcs[e].name = ir.funcs[f].name) = f
    BY <1>2, FuncOfName
  <2>2. IRM!FuncNamed(x.src.call) = IRM!FuncNamed(ir.funcs[f].name)
    BY <1>8
  <2> QED BY <2>1, <2>2 DEF IRM!FuncNamed
<1>13. /\ DOMAIN s = {params[j] : j \in DOMAIN params} /\ DOMAIN params = 1 .. k
       /\ \A name \in DOMAIN s : s[name] = CallerValue(old, ArgOf(params, args, name))
  <2>1. args = CallArgs(prog.source, prog, frame[r].pc)
    BY <1>3, <1>7, <1>8 DEF CallArgs
  <2>2. Len(frame) # 2 /\ k = ParamCount(prog.source)[f] /\ params = prog.source.funcs[f].params
        /\ s = frame'[Len(frame)].symbols /\ r = Len(frame) - 1 /\ old = frame[r].symbols
    BY <1>3
  <2>3. ParamsBound(f, k)
    BY <2>2, BoundParams
  <2> HIDE DEF args
  <2>4. frame'[Len(frame)].symbols = s /\ prog.source.funcs[f].params = params /\ Len(frame) - 1 = r
    BY <2>2
  <2> QED BY <2>1, <2>2, <2>3, <2>4 DEF ParamsBound
<1>14. \A name \in DOMAIN s : IRM!Operand(ArgOf(params, args, name)) = s[name]
  <2> SUFFICES ASSUME NEW name \in DOMAIN s
               PROVE  IRM!Operand(ArgOf(params, args, name)) = s[name]
    OBVIOUS
  <2> DEFINE m == CHOOSE j \in DOMAIN params : params[j] = name
             y == args[m]
  <2>1. m \in DOMAIN params
    BY <1>13
  <2>2. ArgOf(params, args, name) = y
    BY DEF ArgOf
  <2> HIDE DEF m, args
  <2>3. Unindexed(y) /\ (IsVar(y) => Local(ir, ir.funcs[g], y.var))
    BY <1>8, <1>13, <2>1 DEF args
  <2> HIDE DEF y, old
  <2>4. IRM!Operand(y) = CallerValue(old, y)
    BY <1>8, <1>9, <2>3, ArgumentIs
  <2> QED BY <1>13, <2>2, <2>4
<1>15. \A name \in DOMAIN s : s[name] # Bad
  <2>1. Clean(frame', reg') /\ Len(frame') = t
    BY TakesKeeps
  <2>2. t \in 1 .. Len(frame')
    BY <1>1, <2>1
  <2>3. \A m : Held(s, m) # Bad
    BY <1>3, <2>1, <2>2 DEF Clean, Holds
  <2> QED BY <2>3 DEF Held
<1>16. IRM!Activation(IRM!Position(f, 1, 1), Assigned(s)) = Act4(f, q.block, 1, Assigned(s))
  <2>1. BlockTotal(ir, f) \in Nat
    <3>1. f \in 0 .. Len(ir.funcs)
      BY <1>1, <1>2, TotalBlocks, Functions
    <3> QED BY <1>1, <3>1, TotalBlocks
  <2> QED BY <1>3, <1>5, <2>1, FirstActivation
<1>17. CallOf(f, x)
  <2> DEFINE given == {name \in {params[j] : j \in DOMAIN params} : IRM!Operand(ArgOf(params, args, name)) # IRM!None}
             F == [name \in given |-> IRM!Operand(ArgOf(params, args, name))]
  <2>1. given = {m \in DOMAIN s : s[m] # None}
    BY <1>13, <1>14, SameConstants
  <2>2. \A name \in given : IRM!Operand(ArgOf(params, args, name)) # IRM!Bad
    BY <1>14, <1>15, <2>1, SameConstants
  <2>3. F = Assigned(s)
    <3>1. \A name \in given : IRM!Operand(ArgOf(params, args, name)) = s[name]
      BY <1>14, <2>1
    <3> HIDE DEF given
    <3>2. F = [name \in given |-> s[name]]
      BY <3>1
    <3> HIDE DEF F
    <3> QED BY <2>1, <3>2 DEF Assigned
  <2>4. AbsStack' = Append(AbsStack, IRM!Activation(IRM!Position(f, 1, 1), F))
    BY <1>5, <1>16, <2>3
  <2>5. /\ \A name \in given : IRM!Operand(ArgOf(params, args, name)) # IRM!Bad
        /\ AbsStack' = Append(AbsStack, IRM!Activation(IRM!Position(f, 1, 1), F))
    BY <2>2, <2>4
  <2> QED BY <2>5, Zenon DEF CallOf, params
<1>18. IRM!Call
  <2>1. CallOf(IRM!FuncNamed(IRM!Inst.src.call), IRM!Inst)
    BY <1>10, <1>12, <1>17
  <2> QED BY <1>5, <1>11, <2>1, CallOfIs
<1> QED BY <1>5, <1>18, Computes DEF IRM!Next

(* Every turn in a header implements the IR. *)
LEMMA HeaderTurn ==
  ASSUME Invariant, Next, Fetched, Facts, NEW f, NEW k, Heading(f, k)
  PROVE  Simulated
<1>1. TakesOne(f, k)
  BY FuncTakes, ParamTakes
<1>2. CASE k # ParamCount(prog.source)[f]
  BY <1>1, <1>2, HeaderOn
<1>3. CASE k = ParamCount(prog.source)[f] /\ Len(frame) = 2
  BY <1>1, <1>3, EnterTurn
<1>4. CASE k = ParamCount(prog.source)[f] /\ Len(frame) # 2
  BY <1>1, <1>4, CalledTurn
<1> QED BY <1>2, <1>3, <1>4

-----------------------------------------------------------------------------
(* The whole machine *)

(* Entering main is no step of the abstract machine: its activation counts *)
(* once its FUNC has run.                                                  *)
LEMMA StartTurn ==
  ASSUME Invariant, StartMain
  PROVE  Simulated
<1> DEFINE ir == prog.source
           m == MainOf(ir)
           t == Len(frame)
           i == prog.entry
           fs == Append(frame, NewFrame)
<1>1. /\ status = "running" /\ AtMain /\ pc' = i /\ mode' = "MAIN"
      /\ frame' = fs /\ UNCHANGED <<prog, reg, status, out>>
  BY DEF StartMain
<1>2. Facts /\ Compiles(ir, prog) /\ FramesOK(frame) /\ Clean(frame, reg) /\ NoReturnInMain(prog)
  BY <1>1, HereFacts, NoReturn DEF Facts
<1>3. mode = "INIT" /\ t = 1 /\ pc = prog.global_len
  BY <1>1, <1>2 DEF Invariant, CallProtocol, AtMain, Top
<1>4. FramesOK(fs) /\ Len(fs) = 2 /\ fs[1] = frame[1] /\ fs[2] = NewFrame
  <2>1. IsVector(frame)
    BY <1>2 DEF FramesOK
  <2>2. IsVector(fs) /\ Len(fs) = t + 1 /\ \A k \in 1 .. t : fs[k] = frame[k] /\ fs[t + 1] = NewFrame
    BY <1>3, <2>1, VectorAppend
  <2> HIDE DEF fs
  <2>3. IsVector(fs) /\ Len(fs) = 2 /\ fs[1] = frame[1] /\ fs[2] = NewFrame
    <3> HIDE DEF t
    <3> QED BY <1>3, <2>2
  <2>4. frame[1].pc \in Int /\ frame[1] = [symbols |-> frame[1].symbols, pc |-> frame[1].pc]
    BY <1>2, <1>3 DEF FramesOK
  <2>5. NewFrame.pc \in Int /\ NewFrame = [symbols |-> NewFrame.symbols, pc |-> NewFrame.pc]
    BY DEF NewFrame
  <2> QED BY <2>3, <2>4, <2>5 DEF FramesOK
<1> HIDE DEF fs
<1>5. AtHeader(ir, i, m, 0) /\ ParamCount(ir)[m] = 0 /\ m \in 1 .. Len(ir.funcs)
  <2>1. m \in 1 .. Len(ir.funcs) /\ i = HeadAt(ir)[m] /\ ParamCount(ir)[m] = 0
    BY <1>2, MainFunction
  <2>2. HeadAt(ir)[m] \in Nat
    BY <1>2, <2>1, HeadsAre
  <2> HIDE DEF i, m
  <2>3. 0 \in 0 .. ParamCount(ir)[m] /\ i = HeadAt(ir)[m] + 0
    BY <2>1, <2>2
  <2> QED BY <2>1, <2>3 DEF AtHeader
<1> HIDE DEF i, m
<1>6. Params(ir, m) = {}
  <2>1. Len(ir.funcs[m].params) = 0 /\ IsVector(ir.funcs[m].params)
    BY <1>2, <1>5, Functions, CompiledFields DEF ParamCount
  <2> QED BY <2>1, VectorShape DEF Params
<1>7. Passing(ir, prog, fs, m, 0)
  BY <1>4 DEF Passing, Taken, NewFrame
<1>8. ScopesOK(ir, prog, fs, i)
  <2>1. Initialising(ir, prog, frame, pc, reg)
    BY <1>3 DEF Invariant, Sound1, Sound
  <2>2. Declared(ir) \subseteq DOMAIN frame[1].symbols
    <3>1. CASE \E n, l : AtSpot(ir, pc, 0, 1, n, l)
      BY <1>2, <1>3, <3>1, SpotFacts
    <3> QED BY <2>1, <3>1 DEF Initialising
  <2>3. DOMAIN fs[2].symbols = {}
    BY <1>4 DEF NewFrame
  <2> QED BY <1>4, <2>2, <2>3 DEF ScopesOK, ScopeOK
<1>9. Clean(fs, reg)
  <2>1. \A n : Holds(fs, 2, n) # Bad
    <3>1. None # Bad
      <4>1. None.none /\ DOMAIN None = {"none"} /\ DOMAIN Bad = {"bad"}
        BY DEF None, Bad
      <4> QED BY <4>1
    <3> QED BY <1>4, <3>1 DEF Holds, Held, NewFrame
  <2>2. \A n : Holds(fs, 1, n) # Bad
    BY <1>2, <1>3, <1>4 DEF Clean, Holds
  <2> QED BY <1>2, <1>4, <2>1, <2>2 DEF Clean
<1>10. SoundNext
  <2>1. Executing(ir, prog, fs, i, reg)
    BY <1>5, <1>7, <1>8 DEF Executing, InHeader
  <2> QED BY <1>1, <1>9, <2>1 DEF SoundNext, Sound
<1>11. AbsStack' = AbsStack
  <2>1. AbsStack = <<Act4(0, 2, 1, << >>)>>
    BY <1>2, <1>3, MappingIs, StackDone
  <2>2. StackOf(prog, fs, i, "MAIN") = <<Act4(0, 2, 1, << >>)>>
    <3>1. Len(fs) >= 2
      BY <1>4
    <3>2. StackOf(prog, fs, i, "MAIN") = IF Len(fs) = 2 THEN <<Act4(0, 2, 1, << >>)>>
                                                        ELSE Acts(prog, fs, i, Len(fs) - 2)
      <4> HIDE DEF ir
      <4> QED BY <1>2, <1>4, <1>5, <3>1, StackHeader
    <3> QED BY <1>4, <3>2
  <2> QED BY <1>1, <2>1, <2>2, MappingNext
<1>12. AbsAnswer' = AbsAnswer
  <2>1. AbsAnswer = NotGiven
    BY <1>2, <1>3, MappingIs, AnswerHeader
  <2>2. AnswerOf(prog, i, reg) = NotGiven
    BY <1>2, <1>5, AnswerHeader
  <2> QED BY <1>1, <2>1, <2>2, MappingNext
<1>13. (Assigned(frame[1].symbols))' = Assigned(frame[1].symbols)
  <2>1. (Assigned(frame[1].symbols))' = Assigned(frame'[1].symbols)
    BY Zenon DEF Assigned
  <2> QED BY <1>1, <1>4, <2>1
<1>14. UNCHANGED IRM!vars
  BY <1>1, <1>11, <1>12, <1>13 DEF IRM!vars
<1> QED BY <1>10, <1>14, Stutters

LEMMA EveryTurn ==
  ASSUME Invariant, [Next]_vars
  PROVE  SoundNext /\ [IRM!Next]_IRM!vars
<1>1. CASE UNCHANGED vars
  <2>1. SoundNext
    BY <1>1 DEF vars, Invariant, Sound1, SoundNext
  <2>2. AbsStack' = AbsStack /\ AbsAnswer' = AbsAnswer
    BY <1>1, MappingIs, MappingNext DEF vars
  <2>3. (Assigned(frame[1].symbols))' = Assigned(frame[1].symbols)
    BY <1>1, Zenon DEF Assigned, vars
  <2> QED BY <1>1, <2>1, <2>2, <2>3 DEF IRM!vars, vars
<1>2. CASE StartMain
  BY <1>2, StartTurn DEF Simulated
<1>3. CASE Halt
  BY <1>3, HaltTurn DEF Simulated
<1>4. CASE Next /\ Fetched
  <2>1. status = "running" /\ ~AtMain
    BY <1>4 DEF Fetched
  <2>2. CASE \E f, b, n, l : Facts /\ Doing(f, b, n, l)
    BY <1>4, <2>2, BodyTurn DEF Simulated
  <2>3. CASE \E f, k : Facts /\ Heading(f, k)
    BY <1>4, <2>3, HeaderTurn DEF Simulated
  <2> QED BY <2>1, <2>2, <2>3, Context
<1>5. CASE Terminated
  BY <1>1, <1>5 DEF Terminated
<1>6. Next => StartMain \/ Halt \/ Fetched \/ Terminated
  BY DEF Next, Abort, Binary, Unary, Load, LoadX, LoadXA, Store, StoreA, StoreX, Pass, Call, CallPrint, CallRead,
         CallConvert, CallLength, CallBuiltin, Param, Ret, Jmp, Jif, Fetch
<1> QED BY <1>1, <1>2, <1>3, <1>4, <1>5, <1>6

(* The code of the initialisers begins at 0; without initialisers main     *)
(* begins at once.                                                         *)
LEMMA FirstInitialiser ==
  ASSUME NEW ir, NEW p, Compiles(ir, p)
  PROVE  /\ Len(ir.globals) \in Nat /\ DOMAIN ir.globals = 1 .. Len(ir.globals)
         /\ IF Len(ir.globals) = 0 THEN p.global_len = 0 ELSE AtSpot(ir, 0, 0, 1, 1, 1)
<1> DEFINE t == Len(ir.globals)
           S == Starts(ir)
           B == ir2VmInst(ir)
<1>1. WellFormedIR(ir) /\ InstsOK(ir.globals) /\ t \in Nat /\ DOMAIN ir.globals = 1 .. t
  <2>1. WellFormedIR(ir)
    BY CompiledFields
  <2>2. InstsOK(ir.globals)
    BY <2>1, Globals
  <2> QED BY <2>1, <2>2, VectorShape DEF InstsOK
<1>2. IRInsts(ir, 0, 1) = ir.globals /\ IsBlock(ir, 0, 1)
  <2>1. Len(ir.funcs) \in Nat
    BY <1>1, Functions
  <2> QED BY <2>1 DEF IRInsts, IsBlock, BlockTotal
<1>3. Begin(ir, 0, 1, 1) = 0
  <2>1. S[0] = 0
    BY <1>1, StartsShape DEF Started
  <2>2. Offsets(Gens(ir.globals))[0] = 0
    BY <1>1, GensNested, OffsetsShape
  <2>3. BlockAt(ir, 0, 1) = 1
    BY DEF BlockAt
  <2> HIDE DEF S
  <2> QED BY <1>2, <2>1, <2>2, <2>3 DEF Begin, S
<1>4. CASE t # 0
  <2>1. IsSpot(ir, 0, 1, 1)
    BY <1>1, <1>2, <1>4 DEF IsSpot
  <2>2. Extent(ir, 0, 1, 1) \in Nat \ {0}
    <3>1. 1 \in 1 .. Len(ir.globals)
      BY <1>1, <1>4
    <3>2. GoodCode(ir.globals[1], genInst(ir.globals[1]))
      BY <1>1, <3>1, GensNested
    <3> QED BY <1>2, <3>2 DEF GoodCode, Extent
  <2> DEFINE e == Extent(ir, 0, 1, 1)
             m == Begin(ir, 0, 1, 1)
  <2>3. e \in Nat \ {0} /\ m = 0
    BY <1>3, <2>2
  <2> HIDE DEF e, m
  <2>4. 1 \in 1 .. e /\ 0 = m + 1 - 1
    BY <2>3
  <2>5. AtSpot(ir, 0, 0, 1, 1, 1)
    BY <2>1, <2>4 DEF AtSpot, e, m
  <2> QED BY <1>1, <1>4, <2>5
<1>5. CASE t = 0
  <2>1. p.global_len \in Nat /\ 0 \in 0 .. p.size - 1
    BY CompiledWell
  <2>2. CASE \E f, b, n, l : AtSpot(ir, 0, f, b, n, l)
    <3>1. PICK f, b, n, l : AtSpot(ir, 0, f, b, n, l)
      BY <2>2
    <3>2. f # 0
      <4>1. CASE f = 0
        <5>1. IsSpot(ir, 0, b, n)
          BY <3>1, <4>1 DEF AtSpot
        <5>2. n \in 1 .. Len(IRInsts(ir, 0, b))
          BY <5>1 DEF IsSpot
        <5>3. IRInsts(ir, 0, b) = ir.globals
          BY DEF IRInsts
        <5> QED BY <1>5, <5>2, <5>3
      <4> QED BY <4>1
    <3>3. f = 0 <=> 0 < p.global_len
      BY <3>1, SpotFacts
    <3> QED BY <1>1, <1>5, <2>1, <3>2, <3>3
  <2>3. CASE \E f, k : AtHeader(ir, 0, f, k)
    <3>1. 0 >= p.global_len
      BY <2>3, HeaderFacts
    <3> QED BY <1>1, <1>5, <2>1, <3>1
  <2> QED BY <2>1, <2>2, <2>3, SpotOrHeader
<1> QED BY <1>4, <1>5

LEMMA Begins ==
  ASSUME Init
  PROVE  Sound1 /\ IRM!Init
<1> DEFINE ir == prog.source
           t == Len(ir.globals)
<1>1. /\ prog \in Programs /\ reg = [r \in Reg |-> None] /\ frame = <<NewFrame>> /\ pc = 0
      /\ mode = "INIT" /\ status = "running" /\ out = << >>
  BY DEF Init
<1>2. Compiles(ir, prog)
  BY <1>1, LoadedCompiles
<1>3. None # Bad
  <2>1. None.none /\ DOMAIN None = {"none"} /\ DOMAIN Bad = {"bad"}
    BY DEF None, Bad
  <2> QED BY <2>1
<1>4. Clean(frame, reg)
  BY <1>1, <1>3 DEF Clean, Holds, Held, NewFrame
<1>5. /\ t \in Nat /\ DOMAIN ir.globals = 1 .. t
      /\ IF t = 0 THEN prog.global_len = 0 ELSE AtSpot(ir, pc, 0, 1, 1, 1)
  BY <1>1, <1>2, FirstInitialiser
<1>6. Initialising(ir, prog, frame, pc, reg)
  <2>1. CASE t = 0
    <3>1. Declared(ir) = {}
      BY <1>5, <2>1 DEF Declared
    <3> QED BY <1>1, <1>5, <2>1, <3>1 DEF Initialising
  <2>2. CASE t # 0
    <3>1. Ready(ir.globals[1], 1, reg, frame)
      BY ReadyFirst
    <3>2. Earlier(ir, frame, 1)
      BY DEF Earlier
    <3> QED BY <1>5, <2>2, <3>1, <3>2 DEF Initialising
  <2> QED BY <2>1, <2>2
<1>7. Sound1
  BY <1>1, <1>4, <1>6 DEF Sound1, Sound
<1>8. AbsStack = <<IRM!Activation(IRM!Position(0, 1, 1), << >>)>>
  <2>1. BlockTotal(ir, 0) = 1 /\ IRInsts(ir, 0, 1) = ir.globals
    BY DEF BlockTotal, IRInsts
  <2>2. IRM!Position(0, 1, 1) = PosAfter(ir, 0, 1, 1)
    BY <2>1, SamePosition
  <2>3. CASE t = 0
    <3>1. AbsStack = <<Act4(0, 2, 1, << >>)>>
      BY <1>1, <1>2, <1>5, <2>3, MappingIs, StackDone
    <3>2. PosAfter(ir, 0, 1, 1) = [fn |-> 0, next |-> 1, block |-> 2]
      BY <2>1, <2>3 DEF PosAfter
    <3> QED BY <2>2, <3>1, <3>2 DEF IRM!Activation, Act4
  <2>4. CASE t # 0
    <3>1. AbsStack = <<Act4(0, 1, 1, << >>)>>
      BY <1>1, <1>2, <1>5, <2>4, MappingIs, StackInit
    <3>2. PosAfter(ir, 0, 1, 1) = [fn |-> 0, block |-> 1, next |-> 1]
      BY <1>5, <2>1, <2>4 DEF PosAfter
    <3> QED BY <2>2, <3>1, <3>2 DEF IRM!Activation, Act4
  <2> QED BY <2>3, <2>4
<1>9. AbsAnswer = [given |-> FALSE]
  <2>1. CASE t = 0
    BY <1>1, <1>2, <1>5, <2>1, MappingIs, AnswerHeader DEF NotGiven
  <2>2. CASE t # 0
    BY <1>2, <1>5, <2>2, MappingIs, AnswerBody DEF NotGiven
  <2> QED BY <2>1, <2>2
<1>10. Assigned(frame[1].symbols) = << >>
  BY <1>1 DEF Assigned, NewFrame
<1>11. ir \in Sources
  BY <1>1 DEF Sources
<1> QED BY <1>1, <1>7, <1>8, <1>9, <1>10, <1>11 DEF IRM!Init, IRM!NoAnswer

(* The code that BytecodeGenerator makes of an IR program, relocated and   *)
(* executed by VM::run, does what the program means: every turn of run's   *)
(* loop is a step of IRMachine or leaves its state as it is.  So its       *)
(* variables hold at every IR instruction what they hold there, it prints  *)
(* what is printed there, in that order, and it returns from run, or       *)
(* aborts, only where IRMachine ends or fails.  The theorem supposes no    *)
(* more of the programs than ProgramsCompiled; ProgramsLinked, which the    *)
(* theorems about VM suppose, follows from it (CompiledLinked).            *)
THEOREM CompiledProgramsImplementIR == Spec => ImplementsIR
<1>1. Init => Sound1 /\ IRM!Init
  BY Begins
<1>2. Invariant /\ [Next]_vars => Sound1' /\ [IRM!Next]_IRM!vars
  <2>1. SoundNext = Sound1'
    BY DEF SoundNext, Sound1
  <2> QED BY <2>1, EveryTurn
<1>3. Spec => []TypeOK
  BY TypeCorrect
<1>4. Spec => []CallProtocol
  BY CallProtocolHolds
<1>5. Spec => [](NoReturnInMain(prog) => GlobalTable)
  BY GlobalTableKept
<1>6. TypeOK /\ CallProtocol /\ (NoReturnInMain(prog) => GlobalTable) /\ Sound1 => Invariant
  BY DEF Invariant
<1> QED BY <1>1, <1>2, <1>3, <1>4, <1>5, <1>6, PTL DEF Spec, ImplementsIR, IRM!Spec
=============================================================================
