--------------------------- MODULE LinkingProofs ----------------------------
(***************************************************************************)
(* Theorems about Linking, for every set of well-formed IR programs: every *)
(* jump and call of the linked code leads where its IR instruction says,   *)
(* the entry points are right, and the virtual machine can rely on the     *)
(* code.                                                                   *)
(***************************************************************************)
EXTENDS Linking, CodegenLemmas, FiniteSetTheorems, TLAPS

-----------------------------------------------------------------------------
(* The layout *)

(* The layout at the places of a block tells the function and the block,   *)
(* and, behind the header, the IR instruction.                             *)
Told(q, w, f, b, j) ==
  /\ w.fn = f /\ w.block = b
  /\ b # 0 => \A n, l : From(q.funcs[f].blocks[b].insts, j, n, l) => w.next = n

(* Every place of a block tells where it comes from. *)
LEMMA LayoutHere ==
  ASSUME NEW q, WellFormedIR(q), NEW B, B = ir2VmInst(q), NEW S, S = Starts(q),
         NEW y, y = LayoutOf(q), NEW f \in 1 .. Len(q.funcs), NEW b \in 0 .. BlockCount(q)[f],
         NEW j \in 1 .. Size(B, Pos(q, f, b)), NEW i, i = S[Pos(q, f, b) - 1] + j - 1
  PROVE  i \in DOMAIN y /\ Told(q, y[i], f, b, j)
<1> DEFINE k == Pos(q, f, b)
           W == OriginBlocks(q)
           F == Len(q.funcs)
           nb == BlockCount(q)
<1>1. LinkedAt(q, B, S, Link(q), W, y)
  BY LinkedCode
<1>2. OriginsPlaced(q, W, F, nb)
  BY Origins
<1>3. k \in 1 .. Len(B)
  <2>1. BlocksPlaced(q, B, F, nb)
    BY Blocks
  <2>2. k \in 2 .. Len(B) /\ Len(B) \in Nat
    BY <2>1 DEF BlocksPlaced
  <2> QED BY <2>2
<1>4. i \in DOMAIN y /\ y[i] = W[k][j]
  BY <1>1, <1>3 DEF LinkedAt
<1>5. CASE b = 0
  <2>1. W[k] = HeaderOrigin(f, q.funcs[f])
    BY <1>2, <1>5 DEF OriginsPlaced
  <2>2. IsVector(q.funcs[f].params)
    BY Functions
  <2>3. j \in 1 .. Len(q.funcs[f].params) + 1
    BY <1>5, HeaderBlock
  <2>4. W[k][j].fn = f /\ W[k][j].block = 0
    BY <2>1, <2>2, <2>3, HeaderOriginShape
  <2> QED BY <1>4, <1>5, <2>4 DEF Told
<1>6. CASE b # 0
  <2> DEFINE insts == q.funcs[f].blocks[b].insts
  <2>1. b \in 1 .. nb[f]
    BY <1>6, Functions
  <2>2. W[k] = Origin(f, b, insts)
    BY <1>2, <2>1 DEF OriginsPlaced
  <2>3. InstsOK(insts) /\ Size(B, k) = Len(genInsts(insts))
    BY <2>1, BodyBlock
  <2>4. \A n, l : From(insts, j, n, l) =>
          Origin(f, b, insts)[j] = [fn |-> f, block |-> b, next |-> n,
                                    last |-> l = Len(genInst(insts[n]))]
    BY <2>3, OriginShape
  <2>5. PICK n, l : From(insts, j, n, l)
    BY <2>3, GenInsts
  <2> DEFINE o == Origin(f, b, insts)[j]
  <2>6. y[i] = o
    BY <1>4, <2>2
  <2> HIDE DEF insts, o
  <2>7. ASSUME NEW m, NEW h, From(insts, j, m, h)
        PROVE  o.fn = f /\ o.block = b /\ o.next = m
    <3> DEFINE last == h = Len(genInst(insts[m]))
    <3>1. o = [fn |-> f, block |-> b, next |-> m, last |-> last]
      BY <2>4, <2>7 DEF o
    <3> HIDE DEF last
    <3> QED BY <3>1
  <2> QED BY <1>4, <2>5, <2>6, <2>7 DEF insts, Told
<1> QED BY <1>5, <1>6

(* The initialisers are what no function owns.                             *)
LEMMA LayoutGlobal ==
  ASSUME NEW q, WellFormedIR(q), NEW y, y = LayoutOf(q), NEW p, p = Link(q),
         NEW i \in 0 .. p.global_len - 1
  PROVE  i \in DOMAIN y /\ y[i].fn = 0
<1> DEFINE B == ir2VmInst(q)
           S == Starts(q)
           W == OriginBlocks(q)
           F == Len(q.funcs)
           nb == BlockCount(q)
<1>1. LinkedAt(q, B, S, p, W, y)
  BY LinkedCode
<1>2. Started(B, S)
  BY StartsShape
<1>3. 1 \in 1 .. Len(B)
  BY <1>2 DEF Started
<1>4. i + 1 \in 1 .. Size(B, 1) /\ i = S[1 - 1] + (i + 1) - 1
  <2>1. S[0] = 0 /\ Size(B, 1) \in Nat /\ S[1] = S[1 - 1] + Size(B, 1) /\ p.global_len = S[1]
    BY <1>1, <1>2, <1>3 DEF Started, LinkedAt
  <2> QED BY <2>1
<1>5. i \in DOMAIN y /\ y[i] = W[1][i + 1]
  BY <1>1, <1>3, <1>4 DEF LinkedAt
<1>6. InstsOK(q.globals) /\ W[1] = Origin(0, 1, q.globals) /\ Size(B, 1) = Len(genInsts(q.globals))
  <2>1. OriginsPlaced(q, W, F, nb) /\ BlocksPlaced(q, B, F, nb)
    BY Origins, Blocks
  <2>2. B[1] = Block("global_var_decl", genInsts(q.globals))
    BY <2>1 DEF BlocksPlaced
  <2>3. Size(B, 1) = Len(genInsts(q.globals))
    BY <2>2 DEF Size, Block
  <2> QED BY <2>1, <2>3, Globals DEF OriginsPlaced
<1>7. PICK n, l : From(q.globals, i + 1, n, l)
  BY <1>4, <1>6, GenInsts
<1>8. Origin(0, 1, q.globals)[i + 1] = [fn |-> 0, block |-> 1, next |-> n,
                                        last |-> l = Len(genInst(q.globals[n]))]
  BY <1>6, <1>7, OriginShape
<1> QED BY <1>5, <1>6, <1>8

(* Where block b of function f starts, if it has instructions, is where a *)
(* jump to it belongs.                                                     *)
LEMMA StartsThere ==
  ASSUME NEW q, WellFormedIR(q), NEW f \in 1 .. Len(q.funcs), NEW b \in 0 .. BlockCount(q)[f],
         Size(ir2VmInst(q), Pos(q, f, b)) > 0
  PROVE  StartOf(LayoutOf(q), f, b) = Starts(q)[Pos(q, f, b) - 1]
<1> DEFINE B == ir2VmInst(q)
           S == Starts(q)
           F == Len(q.funcs)
           nb == BlockCount(q)
           y == LayoutOf(q)
           k == Pos(q, f, b)
           m == S[k - 1]
           M == {i \in DOMAIN y : y[i].fn = f /\ y[i].block >= b}
<1>1. Started(B, S)
  BY StartsShape
<1>2. BlocksPlaced(q, B, F, nb)
  BY Blocks
<1>3. LinkedAt(q, B, S, Link(q), OriginBlocks(q), y)
  BY LinkedCode
<1>4. nb[f] \in Nat /\ \A c \in 0 .. nb[f] : Pos(q, f, c) \in 2 .. Len(B)
                                           /\ Pos(q, f, c) = Pos(q, f, 0) + c
  BY <1>2, Functions DEF BlocksPlaced
<1>5. /\ Len(B) \in Nat \ {0, 1} /\ S \in [0 .. Len(B) -> Nat]
      /\ \A c \in 1 .. Len(B) : Size(B, c) \in Nat
      /\ \A d \in 0 .. Len(B) : \A c \in 0 .. d : S[c] <= S[d]
  BY <1>1 DEF Started
<1>6. Len(B) \in Nat /\ k \in 2 .. Len(B)
  BY <1>4, <1>5
<1>7. k \in 1 .. Len(B) /\ k - 1 \in 0 .. Len(B)
  BY <1>6
<1>8. m \in Nat /\ 1 \in 1 .. Size(B, k)
  <2>1. m \in Nat /\ Size(B, k) \in Nat
    BY <1>5, <1>7
  <2> QED BY <2>1
<1>9. m + 1 - 1 = m
  <2> HIDE DEF m
  <2> QED BY <1>8
<1>10. m \in M
  <2>1. m \in DOMAIN y /\ y[m].fn = f /\ y[m].block = b
    BY <1>8, <1>9, LayoutHere DEF Told
  <2> QED BY <2>1
<1>11. ASSUME NEW i \in M
       PROVE  m <= i
  <2>1. i \in 0 .. Link(q).size - 1
    BY <1>3 DEF LinkedAt
  <2>2. y[i].fn = f /\ y[i].block >= b
    OBVIOUS
  <2>3. i \notin 0 .. Link(q).global_len - 1
    <3>1. i \in 0 .. Link(q).global_len - 1 => y[i].fn = 0
      BY LayoutGlobal
    <3> QED BY <3>1, <2>2
  <2>4. PICK g \in 1 .. F : \E c \in 0 .. nb[g] : \E j \in 1 .. Size(B, Pos(q, g, c)) :
          i = S[Pos(q, g, c) - 1] + j - 1
    BY <2>1, <2>3, Whereabouts
  <2>5. PICK c \in 0 .. nb[g] : \E j \in 1 .. Size(B, Pos(q, g, c)) : i = S[Pos(q, g, c) - 1] + j - 1
    BY <2>4
  <2>6. PICK j \in 1 .. Size(B, Pos(q, g, c)) : i = S[Pos(q, g, c) - 1] + j - 1
    BY <2>5
  <2>7. y[i].fn = g /\ y[i].block = c
    BY <2>6, LayoutHere DEF Told
  <2>8. g = f /\ c >= b
    BY <2>2, <2>7
  <2>9. Pos(q, f, c) \in 2 .. Len(B) /\ Pos(q, f, c) = Pos(q, f, 0) + c /\ c \in Nat
    BY <1>4, <2>8
  <2>10. k = Pos(q, f, 0) + b /\ b \in Nat /\ Pos(q, f, 0) \in 2 .. Len(B)
    <3>1. 0 \in 0 .. nb[f]
      BY <1>4
    <3> QED BY <3>1, <1>4
  <2> DEFINE r == Pos(q, f, c)
             h == Pos(q, f, 0)
             N == Len(B)
             z == S[r - 1]
  <2>11. r \in 2 .. N /\ r = h + c /\ c \in Nat /\ k = h + b /\ b \in Nat /\ h \in Nat /\ N \in Nat
         /\ c >= b
    <3>1. N \in Nat /\ h \in 2 .. N
      BY <1>6, <2>10
    <3> QED BY <3>1, <2>8, <2>9, <2>10
  <2> HIDE DEF r, h, N, k
  <2>12. r - 1 \in 0 .. N /\ k - 1 \in 0 .. r - 1
    <3>1. k - 1 \in Nat
      BY <1>7 DEF N
    <3> QED BY <3>1, <2>11
  <2>13. m <= z /\ z \in Nat
    BY <2>12, <1>5 DEF N
  <2>14. i = z + j - 1 /\ j \in Int /\ j >= 1
    <3>1. j \in 1 .. Size(B, r) /\ i = z + j - 1
      BY <2>6, <2>8 DEF r
    <3>2. r \in 1 .. Len(B)
      BY <2>11 DEF N
    <3>3. Size(B, r) \in Nat
      BY <3>2, <1>5
    <3> QED BY <3>1, <3>3
  <2> HIDE DEF m, z
  <2> QED BY <2>13, <2>14, <1>8
<1>12. \A i \in M : i \in Int
  BY <1>3 DEF LinkedAt
<1> HIDE DEF M, m
<1>13. \A x \in M : (\A i \in M : x <= i) => x = m
  BY <1>10, <1>11, <1>12
<1>14. Min(M) = m
  BY <1>10, <1>11, <1>13 DEF Min
<1> QED BY <1>14 DEF StartOf, M, m

-----------------------------------------------------------------------------
(* Where the code of a program leads *)

InstOf(q, w) == IF w.fn = 0 THEN q.globals[w.next] ELSE q.funcs[w.fn].blocks[w.block].insts[w.next]
Leads(q, fn, target, name) == target = StartOf(LayoutOf(q), fn, BlockOf(q, fn, name))
Reaches(q, target, name) ==
  IF name \in DOMAIN BuiltinIndex
    THEN target = BuiltinIndex[name]
    ELSE \E f \in DOMAIN q.funcs : q.funcs[f].name = name /\ target = StartOf(LayoutOf(q), f, 0)

(* The address a block's name stands for is where the block starts.        *)
LEMMA NameLeads ==
  ASSUME NEW q, WellFormedIR(q), NEW f \in 1 .. Len(q.funcs), NEW name,
         \E c \in DOMAIN q.funcs[f].blocks : /\ q.funcs[f].blocks[c].name = name
                                             /\ q.funcs[f].blocks[c].insts # << >>
  PROVE  Leads(q, f, Target(ir2VmInst(q), name, FALSE), name)
<1>1. PICK c \in 1 .. BlockCount(q)[f] : /\ q.funcs[f].blocks[c].name = name
                                         /\ q.funcs[f].blocks[c].insts # << >>
  BY Functions
<1>2. BlockOf(q, f, name) = c
  <2>1. DOMAIN q.funcs[f].blocks = 1 .. BlockCount(q)[f] /\ DOMAIN q.funcs = 1 .. Len(q.funcs)
        /\ BlockCount(q)[f] = Len(q.funcs[f].blocks) /\ BlockCount(q)[f] \in Nat
    BY Functions
  <2>2. \A b \in 1 .. BlockCount(q)[f] : b \in 0 .. Len(q.funcs[f].blocks) /\ b # 0
    BY <2>1
  <2>3. \A b \in 1 .. BlockCount(q)[f] : NameOf(q, f, b) = q.funcs[f].blocks[b].name
    BY <2>2 DEF NameOf
  <2>4. NamesApart(q)
    BY DEF WellFormedIR
  <2>5. \A b \in 1 .. BlockCount(q)[f] : q.funcs[f].blocks[b].name = name => b = c
    BY <1>1, <2>1, <2>2, <2>3, <2>4 DEF NamesApart
  <2>6. c \in DOMAIN q.funcs[f].blocks
    BY <2>1
  <2> QED BY <1>1, <2>1, <2>5, <2>6 DEF BlockOf
<1>3. /\ Target(ir2VmInst(q), name, FALSE) = Starts(q)[Pos(q, f, c) - 1]
      /\ Size(ir2VmInst(q), Pos(q, f, c)) > 0
  BY <1>1, BlockTarget
<1>4. c \in 0 .. BlockCount(q)[f]
  <2>1. BlockCount(q)[f] \in Nat
    BY Functions
  <2> QED BY <2>1
<1>5. StartOf(LayoutOf(q), f, c) = Starts(q)[Pos(q, f, c) - 1]
  BY <1>3, <1>4, StartsThere
<1> QED BY <1>2, <1>3, <1>5 DEF Leads

(* And a function's name stands for its FUNC.                              *)
LEMMA NameReaches ==
  ASSUME NEW q, WellFormedIR(q), NEW name,
         \/ name \in DOMAIN BuiltinIndex
         \/ \E g \in DOMAIN q.funcs : q.funcs[g].name = name
  PROVE  Reaches(q, CallTarget(ir2VmInst(q), name), name)
<1>1. CASE name \in DOMAIN BuiltinIndex
  BY <1>1 DEF Reaches, CallTarget
<1>2. CASE name \notin DOMAIN BuiltinIndex
  <2>1. PICK g \in 1 .. Len(q.funcs) : q.funcs[g].name = name
    BY <1>2, Functions
  <2>2. Target(ir2VmInst(q), name, TRUE) = Starts(q)[Pos(q, g, 0) - 1]
    BY <2>1, FuncTarget
  <2>3. 0 \in 0 .. BlockCount(q)[g] /\ g \in DOMAIN q.funcs
    <3>1. BlockCount(q)[g] \in Nat /\ DOMAIN q.funcs = 1 .. Len(q.funcs)
      BY Functions
    <3> QED BY <3>1
  <2>4. Size(ir2VmInst(q), Pos(q, g, 0)) > 0
    <3>1. Len(q.funcs[g].params) \in Nat
          /\ Size(ir2VmInst(q), Pos(q, g, 0)) = Len(q.funcs[g].params) + 1
      BY HeaderBlock
    <3> QED BY <3>1
  <2>5. StartOf(LayoutOf(q), g, 0) = Starts(q)[Pos(q, g, 0) - 1]
    BY <2>3, <2>4, StartsThere
  <2>6. Target(ir2VmInst(q), name, TRUE) = StartOf(LayoutOf(q), g, 0)
    BY <2>2, <2>5
  <2> QED BY <1>2, <2>1, <2>3, <2>6 DEF Reaches, CallTarget
<1> QED BY <1>1, <1>2

(* Every jump and call of the linked code leads where its IR instruction   *)
(* says.                                                                   *)
Resolved(q, p, i) ==
  LET w == LayoutOf(q)[i]
      x == InstOf(q, w)
  IN /\ OpAt(p, i) = "JMP" => Leads(q, w.fn, p.code[i].target, x.to)
     /\ OpAt(p, i) = "JIF" => /\ Leads(q, w.fn, p.code[i].target1, x.yes)
                              /\ Leads(q, w.fn, p.code[i].target2, x.no)
     /\ OpAt(p, i) = "CALL" => Reaches(q, p.code[i].target, Called(x).call)

(* The linked code is resolved at every address. *)
LEMMA LinkResolves ==
  ASSUME NEW q, WellFormedIR(q), NEW p, p = Link(q), NEW i \in DOMAIN p.code
  PROVE  Resolved(q, p, i)
<1> DEFINE B == ir2VmInst(q)
           S == Starts(q)
           F == Len(q.funcs)
           nb == BlockCount(q)
           y == LayoutOf(q)
<1>1. i \in 0 .. p.size - 1
  <2>1. LinkedAt(q, B, S, p, OriginBlocks(q), y)
    BY LinkedCode
  <2> QED BY <2>1 DEF LinkedAt
<1>2. CASE i \in 0 .. p.global_len - 1
  <2>1. OpAt(p, i) \notin {"JMP", "JIF", "CALL"}
    BY <1>2, GlobalCode DEF Transfers
  <2> QED BY <2>1 DEF Resolved
<1>3. CASE i \notin 0 .. p.global_len - 1
  <2>1. PICK f \in 1 .. F : \E b \in 0 .. nb[f] : \E j \in 1 .. Size(B, Pos(q, f, b)) :
          i = S[Pos(q, f, b) - 1] + j - 1
    BY <1>1, <1>3, Whereabouts
  <2>2. PICK b \in 0 .. nb[f] : \E j \in 1 .. Size(B, Pos(q, f, b)) : i = S[Pos(q, f, b) - 1] + j - 1
    BY <2>1
  <2>3. PICK j \in 1 .. Size(B, Pos(q, f, b)) : i = S[Pos(q, f, b) - 1] + j - 1
    BY <2>2
  <2>4. CASE b = 0
    <3> DEFINE h == HeadAt(q)[f]
               n == ParamCount(q)[f]
    <3>1. i \in h .. HeadAt(q)[f + 1] - 1 /\ i <= h + n
      BY <2>3, <2>4, Within
    <3>2. OpAt(p, h) = "FUNC" /\ \A m \in h + 1 .. h + n : OpAt(p, m) = "PARAM"
      BY HeaderCode
    <3>3. h \in Nat /\ n \in Nat /\ HeadAt(q)[f + 1] \in Nat
      <4>1. Arranged(p, F, HeadAt(q), ParamCount(q))
        BY LinkArranged
      <4> QED BY <4>1, ArrangedNumbers
    <3> HIDE DEF h, n
    <3>4. i = h \/ i \in h + 1 .. h + n
      BY <3>1, <3>3
    <3>5. OpAt(p, i) \in {"FUNC", "PARAM"}
      BY <3>2, <3>4
    <3> QED BY <3>5 DEF Resolved
  <2>5. CASE b # 0
    <3> DEFINE insts == q.funcs[f].blocks[b].insts
    <3>1. b \in 1 .. nb[f] /\ f # 0
      BY <2>5, Functions
    <3>2. PICK n, l : From(insts, j, n, l) /\ Coded(q, B, S, p, f, b, i, n)
      BY <3>1, <2>3, BodyCode
    <3> DEFINE x == insts[n]
    <3>3. y[i].fn = f /\ y[i].block = b /\ y[i].next = n
      <4>1. Told(q, y[i], f, b, j)
        BY <2>3, LayoutHere
      <4> QED BY <2>5, <4>1, <3>2 DEF Told
    <3>4. InstOf(q, y[i]) = x
      BY <3>1, <3>3 DEF InstOf
    <3>5. TargetsOK(q.funcs[f], x) /\ CallOK(q, x)
      BY <3>1, <3>2, InstHere DEF From
    <3> HIDE DEF x
    <3>6. /\ OpAt(p, i) = "JMP" => x.tag = "JMP" /\ p.code[i].target = Target(B, x.to, FALSE)
          /\ OpAt(p, i) = "JIF" => /\ x.tag = "BRANCH"
                                   /\ p.code[i].target1 = Target(B, x.yes, FALSE)
                                   /\ p.code[i].target2 = Target(B, x.no, FALSE)
          /\ OpAt(p, i) = "CALL" => /\ HasCall(x)
                                    /\ p.code[i].target = CallTarget(B, Called(x).call)
      BY <3>2 DEF Coded, OpAt, x
    <3>7. OpAt(p, i) = "JMP" => Leads(q, f, p.code[i].target, x.to)
      BY <3>5, <3>6, NameLeads DEF TargetsOK
    <3>8. OpAt(p, i) = "JIF" => /\ Leads(q, f, p.code[i].target1, x.yes)
                                /\ Leads(q, f, p.code[i].target2, x.no)
      BY <3>5, <3>6, NameLeads DEF TargetsOK
    <3>9. OpAt(p, i) = "CALL" => Reaches(q, p.code[i].target, Called(x).call)
      BY <3>5, <3>6, NameReaches DEF CallOK
    <3> QED BY <3>3, <3>4, <3>7, <3>8, <3>9 DEF Resolved
  <2> QED BY <2>4, <2>5
<1> QED BY <1>2, <1>3

(* The entry points, by the layout.                                        *)
MainOf(q) == CHOOSE f \in DOMAIN q.funcs : q.funcs[f].name = ENTRY_FUNC
OwnedBy(layout, fn) == {i \in DOMAIN layout : layout[i].fn = fn}

(* The entry points are those of the layout. *)
LEMMA LinkEnters ==
  ASSUME NEW q, WellFormedIR(q), NEW p, p = Link(q)
  PROVE  /\ p.entry = StartOf(LayoutOf(q), MainOf(q), 0)
         /\ p.entry_end = Max(OwnedBy(LayoutOf(q), MainOf(q)))
         /\ p.global_len = Cardinality(OwnedBy(LayoutOf(q), 0))
<1> DEFINE B == ir2VmInst(q)
           S == Starts(q)
           F == Len(q.funcs)
           nb == BlockCount(q)
           y == LayoutOf(q)
           main == MainOf(q)
<1>1. PICK f \in 1 .. F : q.funcs[f].name = ENTRY_FUNC
  BY Functions DEF WellFormedIR
<1>2. p.entry = HeadAt(q)[f] /\ p.entry_end = HeadAt(q)[f + 1] - 1 /\ main = f
  BY <1>1, EntryAt DEF MainOf
<1>3. Bounds(q, B, S, F, nb, HeadAt(q), ParamCount(q))
  BY BoundsHold
<1>4. LinkedAt(q, B, S, p, OriginBlocks(q), y)
  BY LinkedCode
<1>5. nb[f] \in Nat \ {0} /\ 0 \in 0 .. nb[f] /\ nb[f] \in 1 .. nb[f] /\ nb[f] \in 0 .. nb[f]
  <2>1. nb[f] \in Nat \ {0}
    BY Functions
  <2> QED BY <2>1
<1>6. Arranged(p, F, HeadAt(q), ParamCount(q))
  BY LinkArranged
<1>7. ASSUME NEW i \in DOMAIN y
      PROVE  \/ i \in 0 .. p.global_len - 1 /\ y[i].fn = 0
             \/ \E g \in 1 .. F : y[i].fn = g /\ i \in HeadAt(q)[g] .. HeadAt(q)[g + 1] - 1
  <2>1. i \in 0 .. p.size - 1
    BY <1>4 DEF LinkedAt
  <2>2. CASE i \in 0 .. p.global_len - 1
    BY <2>2, LayoutGlobal
  <2>3. CASE i \notin 0 .. p.global_len - 1
    <3>1. PICK g \in 1 .. F : \E b \in 0 .. nb[g] : \E j \in 1 .. Size(B, Pos(q, g, b)) :
            i = S[Pos(q, g, b) - 1] + j - 1
      BY <2>1, <2>3, Whereabouts
    <3>2. y[i].fn = g
      BY <3>1, LayoutHere DEF Told
    <3>3. i \in HeadAt(q)[g] .. HeadAt(q)[g + 1] - 1
      BY <3>1, Within
    <3> QED BY <3>2, <3>3
  <2> QED BY <2>2, <2>3
<1>8. p.entry = StartOf(y, main, 0)
  <2>1. Len(q.funcs[f].params) \in Nat /\ Size(B, Pos(q, f, 0)) = Len(q.funcs[f].params) + 1
    BY HeaderBlock
  <2>2. Size(B, Pos(q, f, 0)) > 0
    BY <2>1
  <2>3. StartOf(y, f, 0) = S[Pos(q, f, 0) - 1]
    BY <1>5, <2>2, StartsThere
  <2>4. HeadAt(q)[f] = S[Pos(q, f, 0) - 1]
    BY <1>3 DEF Bounds
  <2> QED BY <1>2, <2>3, <2>4
<1>9. p.entry_end = Max(OwnedBy(y, main))
  <2> DEFINE M == {i \in DOMAIN y : y[i].fn = f}
             e == HeadAt(q)[f + 1] - 1
             k == Pos(q, f, nb[f])
             a == S[k - 1]
             c == Size(B, k)
  <2>1. e \in Int /\ HeadAt(q)[f + 1] \in Nat
    BY <1>6, ArrangedNumbers
  <2>2. e \in M
    <3>1. c > 0
      <4>1. q.funcs[f].blocks[nb[f]].insts # << >>
        BY LastBlock
      <4> QED BY <4>1, <1>5, BlockTarget
    <3>2. a \in Nat /\ c \in Nat /\ HeadAt(q)[f + 1] = S[k] /\ S[k] = a + c
      BY <1>3, <1>5 DEF Bounds
    <3> HIDE DEF a, c
    <3>3. c \in 1 .. c /\ e = a + c - 1
      BY <3>1, <3>2
    <3> HIDE DEF e, k
    <3>4. e \in DOMAIN y /\ y[e].fn = f
      BY <3>3, <1>5, LayoutHere DEF a, c, k, Told
    <3> QED BY <3>4
  <2>3. ASSUME NEW i \in M
        PROVE  i <= e /\ i \in Int
    <3>1. y[i].fn = f /\ i \in DOMAIN y /\ f # 0
      BY Functions
    <3>2. i \in HeadAt(q)[f] .. HeadAt(q)[f + 1] - 1
      BY <3>1, <1>7
    <3>3. HeadAt(q)[f] \in Nat
      BY <1>6, ArrangedNumbers
    <3> QED BY <3>2, <3>3, <2>1
  <2> HIDE DEF M, e
  <2>4. \A x \in M : (\A i \in M : x >= i) => x = e
    BY <2>1, <2>2, <2>3
  <2>5. Max(M) = e
    BY <2>1, <2>2, <2>3, <2>4 DEF Max
  <2>6. OwnedBy(y, f) = M
    BY DEF OwnedBy, M
  <2> QED BY <1>2, <2>5, <2>6 DEF e
<1>10. p.global_len = Cardinality(OwnedBy(y, 0))
  <2> DEFINE M == {i \in DOMAIN y : y[i].fn = 0}
             n == p.global_len
  <2>1. n \in Nat
    BY <1>1, <1>6, ArrangedNumbers
  <2>2. M = 0 .. n - 1
    <3>1. \A i \in M : i \in 0 .. n - 1
      BY <1>7
    <3>2. \A i \in 0 .. n - 1 : i \in M
      BY LayoutGlobal
    <3> QED BY <3>1, <3>2
  <2> HIDE DEF M, n
  <2>3. Cardinality(0 .. n - 1) = IF 0 > n - 1 THEN 0 ELSE (n - 1) - 0 + 1
    BY <2>1, FS_Interval
  <2>4. Cardinality(M) = n
    BY <2>1, <2>2, <2>3
  <2>5. OwnedBy(y, 0) = M
    BY DEF OwnedBy, M
  <2> QED BY <2>4, <2>5 DEF n
<1> QED BY <1>8, <1>9, <1>10

-----------------------------------------------------------------------------
(* The relocation step *)

IInv == ir \in IRs /\ (Done => linked = Link(ir))

(* The linked program is the relocated one. *)
LEMMA Inductive == Spec => []IInv
<1>1. Init => IInv
  BY DEF Init, IInv, Done
<1>2. IInv /\ [Next]_vars => IInv'
  BY DEF IInv, Next, vars, Relocate, Terminated, Done
<1> QED BY <1>1, <1>2, PTL DEF Spec

(* So the facts about Link hold of it. *)
LEMMA LinkedIs == IInv /\ Done => WellFormedIR(ir) /\ linked = Link(ir)
BY ProgramsWellFormed DEF IInv

(* LinkedWell, for every set of well-formed programs: the virtual machine  *)
(* can rely on what the bytecode generator links.                          *)
THEOREM LinkedWellHolds == Spec => []LinkedWell
<1>1. IInv => LinkedWell
  BY LinkedIs, LinkWell DEF LinkedWell
<1> QED BY <1>1, Inductive, PTL

(* JumpsResolved, for every set of well-formed programs: every JMP and JIF *)
(* leads to the blocks it names.                                           *)
THEOREM JumpsAreResolved == Spec => []JumpsResolved
<1>1. IInv => JumpsResolved
  <2> SUFFICES ASSUME IInv, Done PROVE JumpsResolved
    BY DEF JumpsResolved
  <2>1. WellFormedIR(ir) /\ linked = Link(ir)
    BY LinkedIs
  <2>2. \A i \in DOMAIN linked.code : Resolved(ir, linked, i)
    BY <2>1, LinkResolves
  <2> QED BY <2>2 DEF JumpsResolved, Resolved, Leads, InstOf, BlockOf, Source, BlockIn
<1> QED BY <1>1, Inductive, PTL

(* CallsResolved, for every set of well-formed programs: every call leads  *)
(* to its function or builtin.                                             *)
THEOREM CallsAreResolved == Spec => []CallsResolved
<1>1. IInv => CallsResolved
  <2> SUFFICES ASSUME IInv, Done PROVE CallsResolved
    BY DEF CallsResolved
  <2>1. WellFormedIR(ir) /\ linked = Link(ir)
    BY LinkedIs
  <2>2. \A i \in DOMAIN linked.code : Resolved(ir, linked, i)
    BY <2>1, LinkResolves
  <2> QED BY <2>2 DEF CallsResolved, Resolved, Reaches, InstOf, Source
<1> QED BY <1>1, Inductive, PTL

(* EntryPoints, for every set of well-formed programs: main and the        *)
(* initialisers begin and end where the layout says.                       *)
THEOREM EntryPointsHold == Spec => []EntryPoints
<1>1. IInv => EntryPoints
  <2> SUFFICES ASSUME IInv, Done PROVE EntryPoints
    BY DEF EntryPoints
  <2>1. WellFormedIR(ir) /\ linked = Link(ir)
    BY LinkedIs
  <2>2. /\ linked.entry = StartOf(LayoutOf(ir), MainOf(ir), 0)
        /\ linked.entry_end = Max(OwnedBy(LayoutOf(ir), MainOf(ir)))
        /\ linked.global_len = Cardinality(OwnedBy(LayoutOf(ir), 0))
    BY <2>1, LinkEnters
  <2> QED BY <2>2 DEF EntryPoints, MainOf, OwnedBy
<1> QED BY <1>1, Inductive, PTL
=============================================================================
