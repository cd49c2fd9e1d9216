------------------------- MODULE BytecodeFileProofs -------------------------
(* What the writer writes the reader reads, for every program whose values *)
(* are of the kinds its opcodes say. From the cells up: what readX takes   *)
(* at the place where writeX wrote is what was written, or nothing where   *)
(* the file ends in it; first for a value, then for a list, an array       *)
(* access, a field, the fields of an instruction and the instruction. The  *)
(* invariant then says where the writer has been and where the reader is.  *)
EXTENDS BytecodeFile, VectorLemmas, TLAPS

(* The cells w are in the file from cell k on, as far as the file goes. *)
At(w, k) == \A j \in 1 .. Len(w) : k + j - 1 \in DOMAIN file => file[k + j - 1] = w[j]

(* What is read at cell k is v and takes n cells, or the file ends in it. *)
Reads(S, v, k, n) == S = IF k + n - 1 <= Len(file) THEN {Got(v, k + n)} ELSE {}

(* Only the end counts. *)
LEMMA ReadsSame ==
  ASSUME NEW S, NEW v, NEW k \in Nat, NEW n \in Nat, NEW l \in Nat, NEW m \in Nat,
         k + n = l + m, Reads(S, v, k, n)
  PROVE  Reads(S, v, l, m)
<1> DEFINE e == k + n
           d == l + m
<1>1. S = IF e - 1 <= Len(file) THEN {Got(v, e)} ELSE {}
  BY DEF Reads
<1>2. e = d
  OBVIOUS
<1> HIDE DEF e, d
<1>3. S = IF d - 1 <= Len(file) THEN {Got(v, d)} ELSE {}
  BY <1>1, <1>2
<1> QED BY <1>3 DEF Reads, d

(* The reader may be at any cell, or behind the last. *)
Places == 1 .. Len(file) + 1

(* What stands at a place part by part. *)
LEMMA ConcatAt ==
  ASSUME NEW u, IsVector(u), NEW w, IsVector(w), NEW k \in Nat, At(u \o w, k)
  PROVE  At(u, k) /\ At(w, k + Len(u))
<1>1. /\ Len(u) \in Nat /\ Len(w) \in Nat /\ Len(u \o w) = Len(u) + Len(w)
      /\ \A j \in 1 .. Len(u) : (u \o w)[j] = u[j]
      /\ \A j \in 1 .. Len(w) : (u \o w)[Len(u) + j] = w[j]
  BY VectorConcat, VectorShape
<1> DEFINE t == u \o w
<1> HIDE DEF t
<1>2. \A j \in 1 .. Len(t) : k + j - 1 \in DOMAIN file => file[k + j - 1] = t[j]
  BY DEF At, t
<1>3. At(u, k)
  BY <1>1, <1>2 DEF At, t
<1>4. ASSUME NEW j \in 1 .. Len(w), (k + Len(u)) + j - 1 \in DOMAIN file
      PROVE  file[(k + Len(u)) + j - 1] = w[j]
  <2>1. Len(u) + j \in 1 .. Len(t) /\ k + (Len(u) + j) - 1 = (k + Len(u)) + j - 1
    BY <1>1 DEF t
  <2>2. file[k + (Len(u) + j) - 1] = t[Len(u) + j]
    BY <2>1, <1>2, <1>4
  <2> QED BY <2>1, <2>2, <1>1 DEF t
<1> QED BY <1>3, <1>4 DEF At

(* Two sequences of one length with the same elements are one. *)
LEMMA VectorsEqual ==
  ASSUME NEW s, NEW t, IsVector(s), IsVector(t), Len(s) = Len(t),
         \A k \in 1 .. Len(s) : s[k] = t[k]
  PROVE  s = t
<1>1. s = [k \in 1 .. Len(s) |-> s[k]] /\ t = [k \in 1 .. Len(s) |-> t[k]]
  BY VectorShape
<1> QED BY <1>1

(* A sequence of one. *)
LEMMA OneVector ==
  ASSUME NEW x
  PROVE  IsVector(<<x>>) /\ Len(<<x>>) = 1 /\ <<x>>[1] = x
BY Vector DEF IsVector

(* A sequence of two is one after the other. *)
LEMMA TwoVector ==
  ASSUME NEW x, NEW y
  PROVE  IsVector(<<x, y>>) /\ Len(<<x, y>>) = 2 /\ <<x>> \o <<y>> = <<x, y>>
<1>1. IsVector(<<x, y>>) /\ Len(<<x, y>>) = 2 /\ <<x, y>>[1] = x /\ <<x, y>>[2] = y
  BY DEF IsVector
<1> DEFINE s == <<x>> \o <<y>>
<1>2. IsVector(s) /\ Len(s) = 2 /\ s[1] = x /\ s[2] = y
  <2>1. /\ IsVector(<<x>>) /\ Len(<<x>>) = 1 /\ <<x>>[1] = x
        /\ IsVector(<<y>>) /\ Len(<<y>>) = 1 /\ <<y>>[1] = y
    BY OneVector
  <2> DEFINE u == <<x>>
             w == <<y>>
  <2> HIDE DEF u, w
  <2>2. /\ IsVector(u \o w) /\ Len(u \o w) = Len(u) + Len(w)
        /\ \A k \in 1 .. Len(u) : (u \o w)[k] = u[k]
        /\ \A k \in 1 .. Len(w) : (u \o w)[Len(u) + k] = w[k]
    <3>1. IsVector(u) /\ IsVector(w)
      BY <2>1 DEF u, w
    <3> QED BY <3>1, VectorConcat
  <2>3. Len(u) = 1 /\ u[1] = x /\ Len(w) = 1 /\ w[1] = y
    BY <2>1 DEF u, w
  <2>4. Len(u \o w) = 2 /\ (u \o w)[1] = x /\ (u \o w)[2] = y
    BY <2>2, <2>3
  <2> QED BY <2>2, <2>4 DEF u, w
<1> HIDE DEF s
<1>3. s = <<x, y>>
  <2> DEFINE t == <<x, y>>
  <2>1. IsVector(t) /\ Len(t) = 2 /\ t[1] = x /\ t[2] = y
    BY <1>1
  <2> HIDE DEF t
  <2>2. s = t
    BY <1>2, <2>1, VectorsEqual
  <2> QED BY <2>2 DEF t
<1> QED BY <1>1, <1>3 DEF s

(* A sequence of three. *)
LEMMA ThreeVector ==
  ASSUME NEW x, NEW y, NEW z
  PROVE  <<x>> \o <<y>> \o <<z>> = <<x, y, z>>
<1> DEFINE u == <<x, y>>
           w == <<z>>
           s == u \o w
           t == <<x, y, z>>
<1>1. IsVector(u) /\ Len(u) = 2 /\ u[1] = x /\ u[2] = y /\ u = <<x>> \o <<y>>
  BY TwoVector
<1>2. IsVector(w) /\ Len(w) = 1 /\ w[1] = z
  BY OneVector
<1>3. IsVector(t) /\ Len(t) = 3 /\ t[1] = x /\ t[2] = y /\ t[3] = z
  BY DEF IsVector
<1> HIDE DEF u, w, s, t
<1>4. /\ IsVector(s) /\ Len(s) = Len(u) + Len(w)
      /\ \A k \in 1 .. Len(u) : s[k] = u[k]
      /\ \A k \in 1 .. Len(w) : s[Len(u) + k] = w[k]
  <2>1. IsVector(u) /\ IsVector(w)
    BY <1>1, <1>2
  <2> QED BY <2>1, VectorConcat DEF s
<1>5. Len(s) = 3 /\ s[1] = x /\ s[2] = y /\ s[3] = z
  BY <1>1, <1>2, <1>4
<1>6. s = t
  BY <1>3, <1>4, <1>5, VectorsEqual
<1> QED BY <1>1, <1>6 DEF s, t, w

(* A cell of the kind that is wanted is read. *)
LEMMA CellRead ==
  ASSUME IsVector(file), NEW kind, NEW v, IsA(v, kind), NEW k \in Places, At(<<v>>, k)
  PROVE  Reads(Cell(k, kind), v[kind], k, 1)
<1>1. Len(file) \in Nat /\ DOMAIN file = 1 .. Len(file)
  BY VectorShape
<1>2. k \in DOMAIN file => file[k] = v
  BY <1>1 DEF At, Places
<1>3. k \in DOMAIN file <=> k + 1 - 1 <= Len(file)
  BY <1>1 DEF Places
<1>4. CASE k \in DOMAIN file
  <2>1. Cell(k, kind) = {Got(v[kind], k + 1)}
    BY <1>2, <1>4 DEF Cell, IsA
  <2> QED BY <2>1, <1>3, <1>4 DEF Reads
<1>5. CASE k \notin DOMAIN file
  BY <1>3, <1>5 DEF Cell, Reads
<1> QED BY <1>4, <1>5

(* A boxed value is read. *)
LEMMA BoxedRead ==
  ASSUME IsVector(file), NEW kind, NEW v, IsA(v, kind), NEW k \in Places, At(<<v>>, k)
  PROVE  Reads(Boxed(k, kind), v, k, 1)
<1>1. Reads(Cell(k, kind), v[kind], k, 1)
  BY CellRead
<1>2. v = [f \in {kind} |-> v[kind]]
  BY DEF IsA
<1> DEFINE box(x) == [f \in {kind} |-> x]
<1>3. Boxed(k, kind) = {Got(box(r.val), r.next) : r \in Cell(k, kind)}
  BY DEF Boxed
<1>4. v = box(v[kind])
  BY <1>2
<1> HIDE DEF box
<1>5. CASE k + 1 - 1 <= Len(file)
  <2>1. Cell(k, kind) = {Got(v[kind], k + 1)}
    BY <1>1, <1>5 DEF Reads
  <2>2. Boxed(k, kind) = {Got(box(v[kind]), k + 1)}
    BY <2>1, <1>3 DEF Got
  <2> QED BY <2>2, <1>4, <1>5 DEF Reads
<1>6. CASE ~ (k + 1 - 1 <= Len(file))
  BY <1>1, <1>3, <1>6 DEF Reads
<1> QED BY <1>5, <1>6

(* A byte, an integer, a name, an opcode on its own. *)
LEMMA Bare ==
  ASSUME NEW x
  PROVE  /\ IsA(Byte(x), "byte") /\ Byte(x).byte = x
         /\ IsA(Long(x), "int") /\ Long(x).int = x
         /\ IsA(String(x), "str") /\ String(x).str = x
         /\ IsA(Opcode(x), "opcode") /\ Opcode(x).opcode = x
BY DEF IsA, Byte, Long, String, Opcode

(* The tag tells the kinds of value apart. *)
KindOf == [t \in 0 .. 2 |-> IF t = 0 THEN "int" ELSE IF t = 1 THEN "double" ELSE "str"]

(* The tag of a value says its kind. *)
LEMMA Tags ==
  ASSUME NEW v, IsScalar(v)
  PROVE  Tag(v) \in 0 .. 2 /\ IsA(v, KindOf[Tag(v)]) /\ ~IsNone(v)
BY DEF IsScalar, IsA, Tag, KindOf, IsInt, IsDouble, IsStr, IsNone

(* A missing value has a tag of its own. *)
LEMMA NoneTag == IsNone(None) /\ Tag(None) = 3
BY DEF IsNone, None, Tag, IsInt, IsDouble, IsStr

(* A tag, and what the tag says. *)
LEMMA TaggedStep ==
  ASSUME NEW k, NEW tags, NEW t \in 0 .. 3, t \in tags, NEW n, Cell(k, "byte") = {Got(t, n)}
  PROVE  readTagged(k, tags) = IF t = 3 THEN {Got(None, n)} ELSE Boxed(n, KindOf[t])
<1> DEFINE S(r) == CASE r.val \notin tags -> {}
                     [] r.val = 0 -> Boxed(r.next, "int")
                     [] r.val = 1 -> Boxed(r.next, "double")
                     [] r.val = 2 -> Boxed(r.next, "str")
                     [] r.val = 3 -> {Got(None, r.next)}
<1>1. readTagged(k, tags) = UNION {S(r) : r \in Cell(k, "byte")}
  BY DEF readTagged
<1>2. Got(t, n).val = t /\ Got(t, n).next = n
  BY DEF Got
<1> DEFINE g == Got(t, n)
<1> HIDE DEF g
<1>3. S(g) = IF t = 3 THEN {Got(None, n)} ELSE Boxed(n, KindOf[t])
  <2>1. g.val = t /\ g.next = n
    BY <1>2 DEF g
  <2>2. CASE t = 0
    <3>1. KindOf[0] = "int"
      BY DEF KindOf
    <3> QED BY <3>1, <2>1, <2>2
  <2>3. CASE t = 1
    <3>1. KindOf[1] = "double"
      BY DEF KindOf
    <3> QED BY <3>1, <2>1, <2>3
  <2>4. CASE t = 2
    <3>1. KindOf[2] = "str"
      BY DEF KindOf
    <3> QED BY <3>1, <2>1, <2>4
  <2>5. CASE t = 3
    BY <2>1, <2>5
  <2>6. t = 0 \/ t = 1 \/ t = 2 \/ t = 3
    OBVIOUS
  <2> HIDE DEF S
  <2> QED BY <2>2, <2>3, <2>4, <2>5, <2>6
<1> HIDE DEF S
<1>4. Cell(k, "byte") = {g}
  BY DEF g
<1> QED BY <1>1, <1>3, <1>4

(* A value behind its tag is read. *)
LEMMA ConstRead ==
  ASSUME IsVector(file), NEW v, IsScalar(v), NEW tags, Tag(v) \in tags,
         NEW k \in Places, At(writeConst(v), k)
  PROVE  Reads(readTagged(k, tags), v, k, 2) /\ Len(writeConst(v)) = 2 /\ IsVector(writeConst(v))
<1> DEFINE t == Tag(v)
<1>1. t \in 0 .. 2 /\ IsA(v, KindOf[t])
  BY Tags
<1> HIDE DEF t
<1>2. Len(file) \in Nat /\ k \in Nat
  BY VectorShape DEF Places
<1>3. /\ Len(writeConst(v)) = 2 /\ IsVector(writeConst(v))
      /\ writeConst(v) = <<Byte(t)>> \o <<v>>
  <2>1. writeConst(v) = <<Byte(t), v>>
    BY DEF writeConst, t
  <2> QED BY <2>1, TwoVector
<1>4. At(<<Byte(t)>>, k) /\ At(<<v>>, k + 1)
  <2>1. /\ IsVector(<<Byte(t)>>) /\ Len(<<Byte(t)>>) = 1 /\ IsVector(<<v>>)
        /\ At(<<Byte(t)>> \o <<v>>, k)
    BY <1>3, OneVector
  <2> DEFINE u == <<Byte(t)>>
             w == <<v>>
  <2> HIDE DEF u, w
  <2>2. IsVector(u) /\ Len(u) = 1 /\ IsVector(w) /\ At(u \o w, k)
    BY <2>1 DEF u, w
  <2>3. At(u, k) /\ At(w, k + Len(u))
    BY <2>2, <1>2, ConcatAt
  <2> QED BY <2>2, <2>3 DEF u, w
<1>5. Reads(Cell(k, "byte"), t, k, 1)
  <2>1. IsA(Byte(t), "byte") /\ Byte(t)["byte"] = t
    BY Bare
  <2> QED BY <2>1, <1>4, CellRead
<1>6. CASE k <= Len(file)
  <2>1. Cell(k, "byte") = {Got(t, k + 1)} /\ k + 1 \in Places
    BY <1>2, <1>5, <1>6 DEF Reads, Places
  <2>2. readTagged(k, tags) = Boxed(k + 1, KindOf[t])
    <3>1. t \in 0 .. 3 /\ t # 3 /\ t \in tags
      BY <1>1 DEF t
    <3> QED BY <3>1, <2>1, TaggedStep
  <2>3. Reads(Boxed(k + 1, KindOf[t]), v, k + 1, 1)
    BY <2>1, <1>1, <1>4, BoxedRead
  <2>4. (k + 1) + 1 - 1 = k + 2 - 1 /\ (k + 1) + 1 = k + 2
    BY <1>2
  <2> QED BY <2>2, <2>3, <2>4, <1>3 DEF Reads
<1>7. CASE ~ (k <= Len(file))
  <2>1. Cell(k, "byte") = {} /\ ~ (k + 2 - 1 <= Len(file))
    BY <1>2, <1>5, <1>7 DEF Reads
  <2> QED BY <2>1, <1>3 DEF Reads, readTagged
<1> QED BY <1>6, <1>7

(* An element of an array: a value, or none. *)
LEMMA ElemRead ==
  ASSUME IsVector(file), NEW v, v = None \/ IsScalar(v), NEW tags, Tag(v) \in tags,
         NEW k \in Places, At(writeElem(v), k)
  PROVE  Reads(readTagged(k, tags), v, k, Len(writeElem(v)))
<1>1. CASE IsScalar(v)
  <2>1. writeElem(v) = writeConst(v)
    BY <1>1, Tags DEF writeElem
  <2> QED BY <2>1, <1>1, ConstRead
<1>2. CASE v = None
  <2>1. writeElem(v) = <<Byte(3)>> /\ Len(writeElem(v)) = 1 /\ 3 \in tags
    BY <1>2, NoneTag, OneVector DEF writeElem
  <2>2. Reads(Cell(k, "byte"), 3, k, 1)
    <3>1. IsA(Byte(3), "byte") /\ Byte(3)["byte"] = 3
      BY Bare
    <3> QED BY <3>1, <2>1, CellRead
  <2>3. CASE k + 1 - 1 <= Len(file)
    <3>1. Cell(k, "byte") = {Got(3, k + 1)}
      BY <2>2, <2>3 DEF Reads
    <3>2. readTagged(k, tags) = {Got(None, k + 1)}
      BY <3>1, <2>1, TaggedStep
    <3> QED BY <3>2, <2>1, <2>3, <1>2 DEF Reads
  <2>4. CASE ~ (k + 1 - 1 <= Len(file))
    <3>1. Cell(k, "byte") = {}
      BY <2>2, <2>4 DEF Reads
    <3> QED BY <3>1, <2>1, <2>4 DEF Reads, readTagged
  <2> QED BY <2>3, <2>4
<1> QED BY <1>1, <1>2

(* An element takes its tag, and one cell more unless it is None. *)
LEMMA ElemShape ==
  ASSUME NEW v
  PROVE  IsVector(writeElem(v)) /\ Len(writeElem(v)) \in 1 .. 2
<1>1. CASE IsNone(v)
  <2>1. writeElem(v) = <<Byte(Tag(v))>>
    BY <1>1 DEF writeElem
  <2> QED BY <2>1, OneVector
<1>2. CASE ~IsNone(v)
  <2>1. writeElem(v) = <<Byte(Tag(v)), v>>
    BY <1>2 DEF writeElem, writeConst
  <2>2. IsVector(writeElem(v)) /\ Len(writeElem(v)) = 2
    BY <2>1, TwoVector
  <2> QED BY <2>2
<1> QED BY <1>1, <1>2

(* The beginning of a vector. *)
Begin(s, n) == [j \in 1 .. n |-> s[j]]

(* A beginning grows by the next element. *)
LEMMA BeginShape ==
  ASSUME NEW s, IsVector(s)
  PROVE  /\ Begin(s, 0) = << >> /\ Begin(s, Len(s)) = s
         /\ \A n \in 1 .. Len(s) : Append(Begin(s, n - 1), s[n]) = Begin(s, n)
<1>1. Len(s) \in Nat /\ s = [j \in 1 .. Len(s) |-> s[j]]
  BY VectorShape
<1>2. Begin(s, 0) = << >>
  <2>1. IsVector(Begin(s, 0)) /\ Len(Begin(s, 0)) = 0
    <3> DEFINE b == Begin(s, 0)
    <3>1. b = [j \in 1 .. 0 |-> b[j]]
      BY DEF Begin
    <3> HIDE DEF b
    <3>2. IsVector(b) /\ Len(b) = 0
      BY <3>1, Vector
    <3> QED BY <3>2 DEF b
  <2> DEFINE b == Begin(s, 0)
             e == << >>
  <2>2. IsVector(e) /\ Len(e) = 0
    BY DEF IsVector
  <2> HIDE DEF e, b
  <2>3. b = e
    BY <2>1, <2>2, VectorsEqual DEF b
  <2> QED BY <2>3 DEF b, e
<1>3. ASSUME NEW n \in 1 .. Len(s)
      PROVE  Append(Begin(s, n - 1), s[n]) = Begin(s, n)
  <2>1. ASSUME NEW m \in Nat
        PROVE  IsVector(Begin(s, m)) /\ Len(Begin(s, m)) = m /\ \A j \in 1 .. m : Begin(s, m)[j] = s[j]
    <3> DEFINE b == Begin(s, m)
    <3>1. b = [j \in 1 .. m |-> b[j]] /\ \A j \in 1 .. m : b[j] = s[j]
      BY DEF Begin
    <3> HIDE DEF b
    <3>2. IsVector(b) /\ Len(b) = m
      BY <3>1, Vector
    <3> QED BY <3>1, <3>2 DEF b
  <2>2. n \in Nat /\ n - 1 \in Nat
    BY <1>1
  <2> DEFINE c == Begin(s, n)
             b == Begin(s, n - 1)
             d == Append(b, s[n])
  <2>3. /\ IsVector(b) /\ Len(b) = n - 1 /\ \A j \in 1 .. n - 1 : b[j] = s[j]
        /\ IsVector(c) /\ Len(c) = n /\ \A j \in 1 .. n : c[j] = s[j]
    BY <2>1, <2>2
  <2> HIDE DEF b, c
  <2>4. /\ IsVector(d) /\ Len(d) = Len(b) + 1 /\ \A j \in 1 .. Len(b) : d[j] = b[j]
        /\ d[Len(b) + 1] = s[n]
    BY <2>3, VectorAppend
  <2> HIDE DEF d
  <2>5. Len(d) = n /\ d[n] = s[n] /\ \A j \in 1 .. n - 1 : d[j] = s[j]
    BY <2>2, <2>3, <2>4
  <2>6. \A j \in 1 .. Len(d) : d[j] = c[j]
    BY <2>2, <2>3, <2>5
  <2>7. d = c
    BY <2>3, <2>4, <2>5, <2>6, VectorsEqual
  <2> QED BY <2>7 DEF b, c, d
<1> QED BY <1>1, <1>2, <1>3 DEF Begin

(* The vectors of ss are in the file one behind the other. *)
LEMMA FlattenAt ==
  ASSUME NEW ss, Nested(ss), NEW k \in Nat, At(FlattenSeq(ss), k), NEW n \in 1 .. Len(ss)
  PROVE  At(ss[n], k + Offsets(ss)[n - 1])
<1> DEFINE w == FlattenSeq(ss)
           o == Offsets(ss)
<1>1. /\ Len(ss) \in Nat /\ Len(ss[n]) \in Nat
      /\ o \in [0 .. Len(ss) -> Nat]
      /\ o[n] = o[n - 1] + Len(ss[n])
  BY OffsetsShape, VectorShape DEF Nested
<1>2. Len(w) = o[Len(ss)] /\ \A j \in 1 .. Len(ss[n]) : w[o[n - 1] + j] = ss[n][j]
  BY FlattenPlaces
<1>3. o[n] <= o[Len(ss)]
  <2>1. n \in 0 .. Len(ss) /\ Len(ss) \in 0 .. Len(ss) /\ n \in 0 .. Len(ss)
    BY <1>1
  <2> QED BY <2>1, OffsetsGrow
<1>4. o[n] \in Nat /\ o[n - 1] \in Nat /\ o[Len(ss)] \in Nat
  <2>1. n \in 0 .. Len(ss) /\ Len(ss) \in 0 .. Len(ss) /\ n - 1 \in 0 .. Len(ss)
    BY <1>1
  <2> HIDE DEF o
  <2> QED BY <2>1, <1>1
<1>5. \A j \in 1 .. Len(w) : k + j - 1 \in DOMAIN file => file[k + j - 1] = w[j]
  BY DEF At
<1> HIDE DEF w, o
<1>6. ASSUME NEW j \in 1 .. Len(ss[n]), (k + o[n - 1]) + j - 1 \in DOMAIN file
      PROVE  file[(k + o[n - 1]) + j - 1] = ss[n][j]
  <2> DEFINE x == o[n - 1] + j
  <2>1. x \in 1 .. Len(w) /\ k + x - 1 = (k + o[n - 1]) + j - 1
    BY <1>1, <1>2, <1>3, <1>4
  <2>2. w[x] = ss[n][j]
    BY <1>2
  <2> HIDE DEF x
  <2>3. file[k + x - 1] = w[x]
    BY <2>1, <1>5, <1>6
  <2> QED BY <2>1, <2>2, <2>3
<1>7. At(ss[n], k + o[n - 1])
  BY <1>6 DEF At
<1> QED BY <1>7 DEF o

(* What the reader takes for the elements of an array. *)
ElemCells(s) == [k \in DOMAIN s |-> writeElem(s[k])]

IsList(s, tags) ==
  IsVector(s) /\ \A k \in 1 .. Len(s) : (s[k] = None \/ IsScalar(s[k])) /\ Tag(s[k]) \in tags

(* The cells of a list, element by element. *)
LEMMA ElemCellsShape ==
  ASSUME NEW s, IsVector(s)
  PROVE  /\ Nested(ElemCells(s)) /\ Len(ElemCells(s)) = Len(s)
         /\ \A k \in 1 .. Len(s) : ElemCells(s)[k] = writeElem(s[k])
<1> DEFINE cs == ElemCells(s)
<1>1. Len(s) \in Nat /\ DOMAIN s = 1 .. Len(s)
  BY VectorShape
<1>2. cs = [k \in 1 .. Len(s) |-> cs[k]] /\ \A k \in 1 .. Len(s) : cs[k] = writeElem(s[k])
  BY <1>1 DEF ElemCells
<1> HIDE DEF cs
<1>3. IsVector(cs) /\ Len(cs) = Len(s)
  BY <1>1, <1>2, Vector
<1>4. \A k \in 1 .. Len(cs) : IsVector(cs[k])
  BY <1>2, <1>3, ElemShape
<1> QED BY <1>2, <1>3, <1>4 DEF Nested, cs

(* One turn of readList's loop, on what the turns before it read. *)
ElemsStep(S, tags) ==
  UNION {{Got(Append(l.val, v.val), v.next) : v \in readTagged(l.next, tags)} : l \in S}

(* The loop over a list, where the file has the element and where it ends. *)
LEMMA ElemsStepOne ==
  ASSUME NEW tags, NEW b, NEW k, NEW v, NEW n
  PROVE  /\ readTagged(k, tags) = {Got(v, n)} => ElemsStep({Got(b, k)}, tags) = {Got(Append(b, v), n)}
         /\ readTagged(k, tags) = {} => ElemsStep({Got(b, k)}, tags) = {}
         /\ ElemsStep({}, tags) = {}
<1>1. ElemsStep({}, tags) = {}
  BY DEF ElemsStep
<1> DEFINE g == Got(b, k)
           T == {Got(Append(b, r.val), r.next) : r \in readTagged(k, tags)}
<1>2. g.val = b /\ g.next = k
  BY DEF Got
<1> HIDE DEF g
<1>3. ElemsStep({g}, tags) = {Got(Append(g.val, r.val), r.next) : r \in readTagged(g.next, tags)}
  BY DEF ElemsStep
<1>4. ElemsStep({g}, tags) = T
  BY <1>2, <1>3
<1>5. ASSUME readTagged(k, tags) = {Got(v, n)}
      PROVE  T = {Got(Append(b, v), n)}
  <2> DEFINE x == Got(v, n)
  <2>1. x.val = v /\ x.next = n
    BY DEF Got
  <2> HIDE DEF x
  <2>2. T = {Got(Append(b, x.val), x.next)}
    BY <1>5 DEF x
  <2> QED BY <2>1, <2>2
<1>6. readTagged(k, tags) = {} => T = {}
  OBVIOUS
<1> HIDE DEF T
<1> QED BY <1>1, <1>4, <1>5, <1>6 DEF g

(* What has been read after n elements. *)
ElemsEnd(s, first, n) == first + Offsets(ElemCells(s))[n]

ElemsRead(s, first, n) ==
  IF ElemsEnd(s, first, n) - 1 <= Len(file)
    THEN {Got(Begin(s, n), ElemsEnd(s, first, n))} ELSE {}

(* Every turn of the loop reads the element that was written there. *)
LEMMA ElemsReadStep ==
  ASSUME IsVector(file), NEW s, NEW tags, IsList(s, tags), NEW first \in Places,
         At(FlattenSeq(ElemCells(s)), first), NEW n \in 1 .. Len(s)
  PROVE  ElemsRead(s, first, n) = ElemsStep(ElemsRead(s, first, n - 1), tags)
<1> DEFINE cs == ElemCells(s)
           o == Offsets(cs)
           k == first + o[n - 1]
           L == Len(cs[n])
<1>1. IsVector(s) /\ Len(s) \in Nat /\ Len(file) \in Nat /\ first \in Nat
  BY VectorShape DEF IsList, Places
<1>2. Nested(cs) /\ Len(cs) = Len(s) /\ cs[n] = writeElem(s[n])
  BY <1>1, ElemCellsShape
<1> HIDE DEF cs
<1>3. o \in [0 .. Len(s) -> Nat] /\ o[n] = o[n - 1] + L
  BY <1>2, OffsetsShape
<1>4. At(cs[n], k)
  BY <1>1, <1>2, FlattenAt DEF cs
<1>5. L \in Nat
  BY <1>2, ElemShape
<1>6. n \in 0 .. Len(s) /\ n - 1 \in 0 .. Len(s)
  BY <1>1
<1>7. o[n] \in Nat /\ o[n - 1] \in Nat
  <2> HIDE DEF o
  <2> QED BY <1>3, <1>6
<1> HIDE DEF o, L
<1>8. k \in Nat /\ k + L = first + o[n]
  BY <1>1, <1>3, <1>5, <1>7
<1>9. /\ ElemsRead(s, first, n - 1) = IF k - 1 <= Len(file) THEN {Got(Begin(s, n - 1), k)} ELSE {}
      /\ ElemsRead(s, first, n) = IF k + L - 1 <= Len(file) THEN {Got(Begin(s, n), k + L)} ELSE {}
  <2>1. ElemsEnd(s, first, n - 1) = k /\ ElemsEnd(s, first, n) = first + o[n]
    BY DEF ElemsEnd, o, cs
  <2>2. ElemsEnd(s, first, n) = k + L
    BY <2>1, <1>8
  <2> HIDE DEF k
  <2>3. ElemsRead(s, first, n - 1) = IF k - 1 <= Len(file) THEN {Got(Begin(s, n - 1), k)} ELSE {}
    BY <2>1 DEF ElemsRead
  <2>4. ElemsRead(s, first, n) = IF k + L - 1 <= Len(file) THEN {Got(Begin(s, n), k + L)} ELSE {}
    <3> DEFINE e == k + L
    <3>1. ElemsEnd(s, first, n) = e
      BY <2>2
    <3> HIDE DEF e
    <3>2. ElemsRead(s, first, n) = IF e - 1 <= Len(file) THEN {Got(Begin(s, n), e)} ELSE {}
      BY <3>1 DEF ElemsRead
    <3> QED BY <3>2, <1>1, <1>5, <1>8 DEF e
  <2> QED BY <2>3, <2>4
<1>10. k # 0
  BY <1>1, <1>7 DEF Places
<1> HIDE DEF k
<1>11. CASE k - 1 <= Len(file)
  <2>1. k \in Places
    BY <1>8, <1>10, <1>11, <1>1 DEF Places
  <2>2. Reads(readTagged(k, tags), s[n], k, L)
    BY <2>1, <1>2, <1>4, ElemRead DEF IsList, L
  <2>3. Append(Begin(s, n - 1), s[n]) = Begin(s, n)
    BY <1>1, BeginShape
  <2>4. CASE k + L - 1 <= Len(file)
    <3>1. readTagged(k, tags) = {Got(s[n], k + L)}
      BY <2>2, <2>4 DEF Reads
    <3>2. ElemsStep({Got(Begin(s, n - 1), k)}, tags) = {Got(Append(Begin(s, n - 1), s[n]), k + L)}
      BY <3>1, ElemsStepOne
    <3> QED BY <3>2, <2>3, <2>4, <1>9, <1>11
  <2>5. CASE ~ (k + L - 1 <= Len(file))
    <3>1. readTagged(k, tags) = {}
      BY <2>2, <2>5 DEF Reads
    <3>2. ElemsStep({Got(Begin(s, n - 1), k)}, tags) = {}
      BY <3>1, ElemsStepOne
    <3> QED BY <3>2, <2>5, <1>9, <1>11
  <2> QED BY <2>4, <2>5
<1>12. CASE ~ (k - 1 <= Len(file))
  <2>1. ~ (k + L - 1 <= Len(file))
    BY <1>12, <1>1, <1>5, <1>8
  <2>2. ElemsStep({}, tags) = {}
    BY ElemsStepOne
  <2> QED BY <2>1, <2>2, <1>9, <1>12
<1> QED BY <1>11, <1>12

(* The loop of readList follows its recursion. *)
LEMMA ElemsLoop ==
  ASSUME IsVector(file), NEW s, NEW tags, IsList(s, tags), NEW first \in Places,
         At(FlattenSeq(ElemCells(s)), first)
  PROVE  readElems(Len(s), first, tags)[Len(s)] = ElemsRead(s, first, Len(s))
<1> DEFINE N == Len(s)
           g == [n \in 0 .. N |-> ElemsRead(s, first, n)]
           u == readElems(N, first, tags)
<1>1. IsVector(s) /\ N \in Nat /\ Len(file) \in Nat /\ first \in Nat
  BY VectorShape DEF IsList, Places
<1>2. ElemsRead(s, first, 0) = {Got(<< >>, first)}
  <2>1. Offsets(ElemCells(s))[0] = 0
    <3> DEFINE cs == ElemCells(s)
    <3>1. Nested(cs)
      BY <1>1, ElemCellsShape
    <3> HIDE DEF cs
    <3>2. Offsets(cs)[0] = 0
      BY <3>1, OffsetsShape
    <3> QED BY <3>2 DEF cs
  <2>2. Begin(s, 0) = << >>
    BY <1>1, BeginShape
  <2>3. first + 0 = first /\ first - 1 <= Len(file)
    BY <1>1 DEF Places
  <2> QED BY <2>1, <2>2, <2>3 DEF ElemsRead, ElemsEnd
<1>3. ASSUME NEW n \in 1 .. N
      PROVE  ElemsRead(s, first, n) = ElemsStep(ElemsRead(s, first, n - 1), tags)
  BY <1>3, ElemsReadStep
<1>4. ASSUME NEW n \in 0 .. N
      PROVE  g[n] = IF n = 0 THEN {Got(<< >>, first)} ELSE ElemsStep(g[n - 1], tags)
  <2>1. CASE n = 0
    BY <2>1, <1>2
  <2>2. CASE n # 0
    <3>1. n \in 1 .. N /\ n - 1 \in 0 .. N
      BY <2>2, <1>1
    <3> QED BY <3>1, <1>3, <2>2
  <2> QED BY <2>1, <2>2
<1>5. g = [n \in 0 .. N |-> g[n]]
  OBVIOUS
<1> HIDE DEF g, N
<1>6. g = [n \in 0 .. N |-> IF n = 0 THEN {Got(<< >>, first)} ELSE ElemsStep(g[n - 1], tags)]
  BY <1>4, <1>5
<1>7. u = [n \in 0 .. N |-> IF n = 0 THEN {Got(<< >>, first)} ELSE ElemsStep(u[n - 1], tags)]
  BY <1>6 DEF readElems, ElemsStep
<1> HIDE DEF u
<1>8. \A n \in 0 .. N : u[n] = IF n = 0 THEN {Got(<< >>, first)} ELSE ElemsStep(u[n - 1], tags)
  BY <1>7
<1> DEFINE S == {n \in Nat : n \in 0 .. N => u[n] = g[n]}
<1>9. 0 \in S
  BY <1>1, <1>4, <1>8
<1>10. ASSUME NEW n \in Nat, n \in S
       PROVE  n + 1 \in S
  <2> SUFFICES ASSUME n + 1 \in 0 .. N
               PROVE  u[n + 1] = g[n + 1]
    OBVIOUS
  <2>1. n \in 0 .. N /\ n + 1 # 0 /\ (n + 1) - 1 = n
    BY <1>1
  <2>2. u[n] = g[n]
    BY <2>1, <1>10
  <2>3. u[n + 1] = ElemsStep(u[n], tags) /\ g[n + 1] = ElemsStep(g[n], tags)
    BY <2>1, <1>4, <1>8
  <2> QED BY <2>2, <2>3
<1>11. N \in S
  <2> HIDE DEF S
  <2> QED BY <1>1, <1>9, <1>10, Induction
<1>12. u[N] = g[N]
  BY <1>1, <1>11
<1> QED BY <1>1, <1>12 DEF g, u, N

(* An array is read back. *)
LEMMA ListRead ==
  ASSUME IsVector(file), NEW s, NEW tags, IsList(s, tags), NEW k \in Places, At(writeList(s), k)
  PROVE  /\ IsVector(writeList(s))
         /\ Reads(readList(k, tags), s, k, Len(writeList(s)))
<1> DEFINE N == Len(s)
           c == <<Long(N)>>
           w == FlattenSeq(ElemCells(s))
<1>1. /\ IsVector(s) /\ N \in Nat /\ Len(file) \in Nat /\ k \in Nat
      /\ IsVector(w) /\ Len(w) \in Nat
      /\ IsVector(c) /\ Len(c) = 1
  <2>1. Nested(ElemCells(s))
    BY ElemCellsShape DEF IsList
  <2>2. IsVector(FlattenSeq(ElemCells(s)))
    BY <2>1, FlattenPlaces
  <2> QED BY <2>2, OneVector, VectorShape DEF IsList, Places
<1>2. writeList(s) = c \o w
  BY DEF writeList, ElemCells
<1> HIDE DEF c, w
<1>3. IsVector(writeList(s)) /\ Len(writeList(s)) = 1 + Len(w)
  <2>1. IsVector(c \o w) /\ Len(c \o w) = Len(c) + Len(w)
    BY <1>1, VectorConcat
  <2> QED BY <2>1, <1>1, <1>2
<1>4. At(c, k) /\ At(w, k + 1)
  BY <1>1, <1>2, ConcatAt
<1>5. Reads(Cell(k, "int"), N, k, 1)
  <2>1. IsA(Long(N), "int") /\ Long(N)["int"] = N
    BY Bare
  <2> HIDE DEF N
  <2> QED BY <2>1, <1>4, CellRead DEF c
<1>6. CASE k <= Len(file)
  <2>1. Cell(k, "int") = {Got(N, k + 1)} /\ k + 1 \in Places
    BY <1>1, <1>5, <1>6 DEF Reads, Places
  <2> DEFINE g == Got(N, k + 1)
  <2>2. g.val = N /\ g.next = k + 1
    BY DEF Got
  <2> HIDE DEF g
  <2>3. readList(k, tags) = readElems(g.val, g.next, tags)[g.val]
    BY <2>1 DEF readList, g
  <2>4. readList(k, tags) = ElemsRead(s, k + 1, N)
    <3> DEFINE first == k + 1
    <3>1. first \in Places /\ At(FlattenSeq(ElemCells(s)), first)
      BY <2>1, <1>4 DEF w
    <3> HIDE DEF first
    <3>2. readElems(N, first, tags)[N] = ElemsRead(s, first, N)
      BY <3>1, ElemsLoop
    <3> QED BY <3>2, <2>2, <2>3 DEF first
  <2>5. ElemsEnd(s, k + 1, N) = (k + 1) + Len(w)
    <3> DEFINE cs == ElemCells(s)
    <3>1. Nested(cs) /\ Len(cs) = N
      BY <1>1, ElemCellsShape
    <3> HIDE DEF cs
    <3>2. Len(FlattenSeq(cs)) = Offsets(cs)[N]
      BY <3>1, FlattenPlaces
    <3> QED BY <3>2 DEF ElemsEnd, w, cs
  <2>6. Begin(s, N) = s
    BY <1>1, BeginShape
  <2> DEFINE e == k + Len(writeList(s))
  <2>7. e = (k + 1) + Len(w) /\ e \in Nat
    BY <1>1, <1>3
  <2> HIDE DEF e
  <2>8. ElemsEnd(s, k + 1, N) = e
    BY <2>5, <2>7
  <2>9. readList(k, tags) = IF e - 1 <= Len(file) THEN {Got(s, e)} ELSE {}
    BY <2>4, <2>6, <2>8 DEF ElemsRead
  <2> QED BY <2>9, <1>3, <2>7, <1>1 DEF Reads, e
<1>7. CASE ~ (k <= Len(file))
  <2>1. Cell(k, "int") = {} /\ ~ (k + Len(writeList(s)) - 1 <= Len(file))
    BY <1>1, <1>3, <1>5, <1>7 DEF Reads
  <2> QED BY <2>1, <1>3 DEF Reads, readList
<1> QED BY <1>6, <1>7

(* The list that a subscript is written as. *)
Boxes(idx) == [k \in DOMAIN idx |-> IF "const" \in DOMAIN idx[k] THEN Int64(idx[k].const)
                                    ELSE Str(idx[k].var)]

Unboxed(s) == [j \in DOMAIN s |-> IF IsInt(s[j]) THEN [const |-> s[j].int] ELSE [var |-> s[j].str]]

(* Boxing the constants and names of an index loses nothing. *)
LEMMA BoxesShape ==
  ASSUME NEW idx, IsArrIdx(idx)
  PROVE  IsList(Boxes(idx), {0, 2}) /\ Unboxed(Boxes(idx)) = idx
<1> DEFINE s == Boxes(idx)
           N == Len(idx)
<1>1. N \in Nat /\ DOMAIN idx = 1 .. N /\ idx = [k \in 1 .. N |-> idx[k]]
  BY VectorShape DEF IsArrIdx
<1>2. s = [k \in 1 .. N |-> s[k]]
  BY <1>1 DEF Boxes
<1>3. ASSUME NEW k \in 1 .. N
      PROVE  /\ IsScalar(s[k]) /\ Tag(s[k]) \in {0, 2}
             /\ (IF IsInt(s[k]) THEN [const |-> s[k].int] ELSE [var |-> s[k].str]) = idx[k]
  <2>1. CASE IsA(idx[k], "const")
    <3>1. s[k] = Int64(idx[k].const)
      BY <1>1, <2>1 DEF Boxes, IsA
    <3> DEFINE v == Int64(idx[k].const)
    <3>2. IsA(v, "int") /\ v.int = idx[k].const
      BY DEF IsA, Int64
    <3>3. idx[k] = [const |-> idx[k].const]
      BY <2>1 DEF IsA
    <3> HIDE DEF v
    <3>4. IsScalar(v) /\ Tag(v) = 0 /\ IsInt(v)
      BY <3>2 DEF IsScalar, IsA, Tag, IsInt
    <3> QED BY <3>1, <3>2, <3>3, <3>4 DEF v
  <2>2. CASE IsA(idx[k], "var")
    <3>1. s[k] = Str(idx[k].var)
      BY <1>1, <2>2 DEF Boxes, IsA
    <3> DEFINE v == Str(idx[k].var)
    <3>2. IsA(v, "str") /\ v.str = idx[k].var
      BY DEF IsA, Str
    <3>3. idx[k] = [var |-> idx[k].var]
      BY <2>2 DEF IsA
    <3> HIDE DEF v
    <3>4. IsScalar(v) /\ Tag(v) = 2 /\ ~IsInt(v)
      BY <3>2 DEF IsScalar, IsA, Tag, IsInt, IsStr, IsDouble
    <3> QED BY <3>1, <3>2, <3>3, <3>4 DEF v
  <2> QED BY <2>1, <2>2, <1>1 DEF IsArrIdx
<1> HIDE DEF s
<1>4. IsVector(s) /\ Len(s) = N /\ DOMAIN s = 1 .. N
  BY <1>1, <1>2, Vector
<1>5. IsList(s, {0, 2})
  BY <1>3, <1>4 DEF IsList
<1>6. Unboxed(s) = idx
  BY <1>1, <1>3, <1>4 DEF Unboxed
<1> QED BY <1>5, <1>6 DEF s

(* A subscript is read back. *)
LEMMA ArrIdxRead ==
  ASSUME IsVector(file), NEW idx, IsArrIdx(idx), NEW k \in Places, At(writeArrIdx(idx), k)
  PROVE  /\ IsVector(writeArrIdx(idx))
         /\ Reads(readArrIdx(k), idx, k, Len(writeArrIdx(idx)))
<1> DEFINE s == Boxes(idx)
           w == writeList(s)
           S == readList(k, {0, 2})
<1>1. writeArrIdx(idx) = w
  BY DEF writeArrIdx, Boxes
<1>2. IsList(s, {0, 2}) /\ Unboxed(s) = idx
  BY BoxesShape
<1> HIDE DEF s
<1>3. IsVector(w) /\ Reads(S, s, k, Len(w))
  BY <1>1, <1>2, ListRead
<1>4. readArrIdx(k) = {Got(Unboxed(l.val), l.next) : l \in S}
  BY DEF readArrIdx, Unboxed
<1> HIDE DEF w, S
<1> DEFINE e == k + Len(w)
<1>7. e \in Nat /\ e = k + Len(w) /\ k \in Nat /\ Len(w) \in Nat /\ Len(file) \in Nat
  BY <1>3, VectorShape DEF Places
<1>5. CASE e - 1 <= Len(file)
  <2> DEFINE g == Got(s, e)
  <2>1. S = {g}
    BY <1>3, <1>5, <1>7 DEF Reads
  <2>2. g.val = s /\ g.next = e
    BY DEF Got
  <2> HIDE DEF g
  <2>3. readArrIdx(k) = {Got(Unboxed(g.val), g.next)}
    BY <2>1, <1>4
  <2> QED BY <2>2, <2>3, <1>1, <1>2, <1>3, <1>5, <1>7 DEF Reads
<1>6. CASE ~ (e - 1 <= Len(file))
  <2>1. S = {}
    BY <1>3, <1>6, <1>7 DEF Reads
  <2> QED BY <2>1, <1>1, <1>3, <1>4, <1>6 DEF Reads
<1> QED BY <1>5, <1>6

-----------------------------------------------------------------------------
(* Fields *)

(* The cells that a field of a kind takes. *)
FieldCells(x, kind) ==
  CASE kind = "byte" -> <<Byte(x)>>
    [] kind = "int" -> <<Long(x)>>
    [] kind = "str" -> <<String(x)>>
    [] kind = "argtype" -> <<Byte(IF x = "MAP" THEN 0 ELSE 1)>>
    [] kind \in {"Int64", "Double", "Str"} -> <<x>>
    [] kind = "tagged" -> writeConst(x)
    [] kind = "array" -> writeList(x.arr)
    [] kind = "idx" -> writeArrIdx(x)

(* The kinds of field that are written as they are read. *)
Kinds == {"byte", "int", "str", "argtype", "Int64", "Double", "Str", "tagged", "array", "idx"}

FieldFits(x, kind) ==
  /\ kind \in Kinds
  /\ kind = "argtype" => x \in {"MAP", "RAW"}
  /\ kind = "Int64" => IsA(x, "int")
  /\ kind = "Double" => IsA(x, "double")
  /\ kind = "Str" => IsA(x, "str")
  /\ kind = "tagged" => IsScalar(x)
  /\ kind = "array" => IsArray(x)
  /\ kind = "idx" => IsArrIdx(x)

IsRead(x, kind, k) ==
  /\ IsVector(FieldCells(x, kind))
  /\ Reads(readField(k, kind), x, k, Len(FieldCells(x, kind)))

(* A field without a tag is read as it was written. *)
LEMMA BareField ==
  ASSUME IsVector(file), NEW k \in Places, NEW x, NEW kind \in {"byte", "int", "str"},
         At(FieldCells(x, kind), k)
  PROVE  IsRead(x, kind, k)
<1>1. readField(k, kind) = Cell(k, kind)
  BY DEF readField
<1>2. PICK v : IsA(v, kind) /\ v[kind] = x /\ FieldCells(x, kind) = <<v>>
  <2>1. CASE kind = "byte"
    BY <2>1, Bare DEF FieldCells
  <2>2. CASE kind = "int"
    BY <2>2, Bare DEF FieldCells
  <2>3. CASE kind = "str"
    BY <2>3, Bare DEF FieldCells
  <2> QED BY <2>1, <2>2, <2>3
<1>3. Reads(Cell(k, kind), x, k, 1)
  BY <1>2, CellRead
<1>4. IsVector(<<v>>) /\ Len(<<v>>) = 1
  BY OneVector
<1> QED BY <1>1, <1>2, <1>3, <1>4 DEF IsRead

(* A field whose opcode says the kind of value. *)
LEMMA BoxedField ==
  ASSUME IsVector(file), NEW k \in Places, NEW x, NEW kind \in {"Int64", "Double", "Str"},
         FieldFits(x, kind), At(FieldCells(x, kind), k)
  PROVE  IsRead(x, kind, k)
<1>1. PICK c : IsA(x, c) /\ readField(k, kind) = Boxed(k, c)
  <2>1. CASE kind = "Int64"
    BY <2>1 DEF readField, FieldFits
  <2>2. CASE kind = "Double"
    BY <2>2 DEF readField, FieldFits
  <2>3. CASE kind = "Str"
    BY <2>3 DEF readField, FieldFits
  <2> QED BY <2>1, <2>2, <2>3
<1>2. FieldCells(x, kind) = <<x>>
  BY DEF FieldCells
<1>3. Reads(Boxed(k, c), x, k, 1)
  BY <1>1, <1>2, BoxedRead
<1>4. IsVector(<<x>>) /\ Len(<<x>>) = 1
  BY OneVector
<1> QED BY <1>1, <1>2, <1>3, <1>4 DEF IsRead

(* The kind of an argument, one byte. *)
LEMMA ArgField ==
  ASSUME IsVector(file), NEW k \in Places, NEW x \in {"MAP", "RAW"},
         At(FieldCells(x, "argtype"), k)
  PROVE  IsRead(x, "argtype", k)
<1> DEFINE b == IF x = "MAP" THEN 0 ELSE 1
           type(n) == IF n = 0 THEN "MAP" ELSE "RAW"
<1>1. readField(k, "argtype") = {Got(type(r.val), r.next) : r \in Cell(k, "byte")}
  BY DEF readField
<1>2. FieldCells(x, "argtype") = <<Byte(b)>>
  BY DEF FieldCells
<1>3. type(b) = x
  OBVIOUS
<1> HIDE DEF b, type
<1>4. Reads(Cell(k, "byte"), b, k, 1)
  <2>1. IsA(Byte(b), "byte") /\ Byte(b)["byte"] = b
    BY Bare
  <2> QED BY <1>2, <2>1, CellRead
<1>5. IsVector(<<Byte(b)>>) /\ Len(<<Byte(b)>>) = 1
  BY OneVector
<1>6. Len(file) \in Nat /\ k \in Nat
  BY VectorShape DEF Places
<1>7. Reads(readField(k, "argtype"), x, k, 1)
  <2>1. CASE k + 1 - 1 <= Len(file)
    <3> DEFINE g == Got(b, k + 1)
    <3>1. Cell(k, "byte") = {g}
      BY <1>4, <2>1 DEF Reads
    <3>2. g.val = b /\ g.next = k + 1
      BY DEF Got
    <3> HIDE DEF g
    <3>3. readField(k, "argtype") = {Got(type(g.val), g.next)}
      BY <1>1, <3>1
    <3> QED BY <3>2, <3>3, <1>3, <1>6, <2>1 DEF Reads
  <2>2. CASE ~ (k + 1 - 1 <= Len(file))
    <3>1. Cell(k, "byte") = {}
      BY <1>4, <1>6, <2>2 DEF Reads
    <3> QED BY <3>1, <1>1, <1>6, <2>2 DEF Reads
  <2> QED BY <2>1, <2>2
<1> QED BY <1>2, <1>5, <1>7 DEF IsRead

(* A field behind a tag. *)
LEMMA TaggedField ==
  ASSUME IsVector(file), NEW k \in Places, NEW x, IsScalar(x), At(FieldCells(x, "tagged"), k)
  PROVE  IsRead(x, "tagged", k)
<1>1. readField(k, "tagged") = readTagged(k, AnyTag) /\ FieldCells(x, "tagged") = writeConst(x)
  BY DEF readField, FieldCells
<1>2. Tag(x) \in AnyTag
  BY Tags DEF AnyTag
<1> QED BY <1>1, <1>2, ConstRead DEF IsRead

(* An array. *)
LEMMA ArrayField ==
  ASSUME IsVector(file), NEW k \in Places, NEW x, IsArray(x), At(FieldCells(x, "array"), k)
  PROVE  IsRead(x, "array", k)
<1> DEFINE s == x.arr
           w == writeList(s)
           S == readList(k, AnyTag)
           e == k + Len(w)
<1>1. readField(k, "array") = {Got(Arr(l.val), l.next) : l \in S} /\ FieldCells(x, "array") = w
  BY DEF readField, FieldCells
<1>2. IsList(s, AnyTag)
  <2>1. IsVector(s) /\ DOMAIN s = 1 .. Len(s)
    BY VectorShape DEF IsArray
  <2>2. ASSUME NEW n \in 1 .. Len(s)
        PROVE  (s[n] = None \/ IsScalar(s[n])) /\ Tag(s[n]) \in AnyTag
    <3>1. s[n] = None \/ IsScalar(s[n])
      BY <2>1 DEF IsArray
    <3>2. s[n] = None => Tag(s[n]) \in AnyTag
      BY NoneTag DEF AnyTag
    <3>3. IsScalar(s[n]) => Tag(s[n]) \in AnyTag
      BY Tags DEF AnyTag
    <3> QED BY <3>1, <3>2, <3>3
  <2> QED BY <2>1, <2>2 DEF IsList
<1>3. Arr(s) = x
  BY DEF IsArray, IsA, Arr
<1> HIDE DEF s
<1>4. IsVector(w) /\ Reads(S, s, k, Len(w))
  BY <1>1, <1>2, ListRead
<1> HIDE DEF w, S
<1>5. e \in Nat /\ e = k + Len(w) /\ k \in Nat /\ Len(w) \in Nat /\ Len(file) \in Nat
  BY <1>4, VectorShape DEF Places
<1>6. CASE e - 1 <= Len(file)
  <2> DEFINE g == Got(s, e)
  <2>1. S = {g}
    BY <1>4, <1>5, <1>6 DEF Reads
  <2>2. g.val = s /\ g.next = e
    BY DEF Got
  <2> HIDE DEF g
  <2>3. readField(k, "array") = {Got(Arr(g.val), g.next)}
    BY <2>1, <1>1
  <2> QED BY <2>2, <2>3, <1>1, <1>3, <1>4, <1>5, <1>6 DEF Reads, IsRead
<1>7. CASE ~ (e - 1 <= Len(file))
  <2>1. S = {}
    BY <1>4, <1>5, <1>7 DEF Reads
  <2> QED BY <2>1, <1>1, <1>4, <1>5, <1>7 DEF Reads, IsRead
<1> QED BY <1>6, <1>7

(* The index of an array access. *)
LEMMA ArrIdxField ==
  ASSUME IsVector(file), NEW k \in Places, NEW x, IsArrIdx(x), At(FieldCells(x, "idx"), k)
  PROVE  IsRead(x, "idx", k)
<1>1. readField(k, "idx") = readArrIdx(k) /\ FieldCells(x, "idx") = writeArrIdx(x)
  BY DEF readField, FieldCells
<1> QED BY <1>1, ArrIdxRead DEF IsRead

(* A field of any kind that the reader and the writer agree on. *)
LEMMA FieldRead ==
  ASSUME IsVector(file), NEW k \in Places, NEW x, NEW kind, FieldFits(x, kind),
         At(FieldCells(x, kind), k)
  PROVE  IsRead(x, kind, k)
<1>1. CASE kind \in {"byte", "int", "str"}
  BY <1>1, BareField
<1>2. CASE kind \in {"Int64", "Double", "Str"}
  BY <1>2, BoxedField
<1>3. CASE kind = "argtype"
  BY <1>3, ArgField DEF FieldFits
<1>4. CASE kind = "tagged"
  BY <1>4, TaggedField DEF FieldFits
<1>5. CASE kind = "array"
  BY <1>5, ArrayField DEF FieldFits
<1>6. CASE kind = "idx"
  BY <1>6, ArrIdxField DEF FieldFits
<1> QED BY <1>1, <1>2, <1>3, <1>4, <1>5, <1>6 DEF FieldFits, Kinds

(* What is written for a field is a vector. *)
LEMMA ListShape ==
  ASSUME NEW s, IsVector(s)
  PROVE  IsVector(writeList(s))
<1> DEFINE c == <<Long(Len(s))>>
           w == FlattenSeq(ElemCells(s))
<1>1. IsVector(w)
  <2>1. Nested(ElemCells(s))
    BY ElemCellsShape
  <2> QED BY <2>1, FlattenPlaces
<1>2. IsVector(c)
  BY OneVector
<1>3. writeList(s) = c \o w
  BY DEF writeList, ElemCells
<1> HIDE DEF c, w
<1> QED BY <1>1, <1>2, <1>3, VectorConcat

(* The cells of an index. *)
LEMMA ArrIdxShape ==
  ASSUME NEW idx, IsVector(idx)
  PROVE  IsVector(writeArrIdx(idx))
<1> DEFINE s == Boxes(idx)
<1>1. writeArrIdx(idx) = writeList(s)
  BY DEF writeArrIdx, Boxes
<1>2. s = [k \in 1 .. Len(idx) |-> s[k]] /\ Len(idx) \in Nat
  BY VectorShape DEF Boxes
<1> HIDE DEF s
<1>3. IsVector(s)
  BY <1>2, Vector
<1> QED BY <1>1, <1>3, ListShape

(* The cells of any field. *)
LEMMA FieldShape ==
  ASSUME NEW x, NEW kind, FieldFits(x, kind)
  PROVE  IsVector(FieldCells(x, kind))
<1>1. CASE kind = "byte"
  BY <1>1, OneVector DEF FieldCells
<1>2. CASE kind = "int"
  BY <1>2, OneVector DEF FieldCells
<1>3. CASE kind = "str"
  BY <1>3, OneVector DEF FieldCells
<1>4. CASE kind = "argtype"
  BY <1>4, OneVector DEF FieldCells
<1>5. CASE kind \in {"Int64", "Double", "Str"}
  BY <1>5, OneVector DEF FieldCells
<1>6. CASE kind = "tagged"
  <2>1. FieldCells(x, kind) = <<Byte(Tag(x)), x>>
    BY <1>6 DEF FieldCells, writeConst
  <2> QED BY <2>1, TwoVector
<1>7. CASE kind = "array"
  <2>1. FieldCells(x, kind) = writeList(x.arr) /\ IsVector(x.arr)
    BY <1>7 DEF FieldCells, FieldFits, IsArray
  <2> QED BY <2>1, ListShape
<1>8. CASE kind = "idx"
  <2>1. FieldCells(x, kind) = writeArrIdx(x) /\ IsVector(x)
    BY <1>8 DEF FieldCells, FieldFits, IsArrIdx
  <2> QED BY <2>1, ArrIdxShape
<1> QED BY <1>1, <1>2, <1>3, <1>4, <1>5, <1>6, <1>7, <1>8 DEF FieldFits, Kinds

-----------------------------------------------------------------------------
(* Instructions *)

(* The cells of an instruction, field by field. *)
Parts(i, layout) == [n \in 1 .. Len(layout) |-> FieldCells(i[layout[n].name], layout[n].kind)]

(* The fields of the layout that come first, and the opcode. *)
Names(layout, n) == {"op"} \cup {layout[m].name : m \in 1 .. n}
FirstFields(i, layout, n) == [f \in Names(layout, n) |-> i[f]]

LayoutFits(i, layout) ==
  IsVector(layout) /\ \A n \in 1 .. Len(layout) : FieldFits(i[layout[n].name], layout[n].kind)

(* The cells of the fields, one by one. *)
LEMMA PartsShape ==
  ASSUME NEW i, NEW layout, LayoutFits(i, layout)
  PROVE  /\ Nested(Parts(i, layout)) /\ Len(Parts(i, layout)) = Len(layout)
         /\ \A n \in 1 .. Len(layout) :
              Parts(i, layout)[n] = FieldCells(i[layout[n].name], layout[n].kind)
<1> DEFINE cs == Parts(i, layout)
<1>1. Len(layout) \in Nat
  BY VectorShape DEF LayoutFits
<1>2. /\ cs = [n \in 1 .. Len(layout) |-> cs[n]]
      /\ \A n \in 1 .. Len(layout) : cs[n] = FieldCells(i[layout[n].name], layout[n].kind)
  BY DEF Parts
<1> HIDE DEF cs
<1>3. IsVector(cs) /\ Len(cs) = Len(layout)
  BY <1>1, <1>2, Vector
<1>4. \A n \in 1 .. Len(cs) : IsVector(cs[n])
  BY <1>2, <1>3, FieldShape DEF LayoutFits
<1> QED BY <1>2, <1>3, <1>4 DEF Nested, cs

(* Assigning the next field. *)
LEMMA FirstFieldsStep ==
  ASSUME NEW i, NEW layout, NEW n \in Nat \ {0}
  PROVE  WithField(FirstFields(i, layout, n - 1), layout[n].name, i[layout[n].name])
           = FirstFields(i, layout, n)
<1> DEFINE A == Names(layout, n - 1)
           B == Names(layout, n)
           x == layout[n].name
<1>1. B = {x} \cup A
  BY DEF Names
<1> HIDE DEF A, B, x
<1> DEFINE r == [f \in A |-> i[f]]
<1>2. DOMAIN r = A /\ \A f \in A : r[f] = i[f]
  OBVIOUS
<1>3. WithField(r, x, i[x]) = [f \in B |-> IF f = x THEN i[x] ELSE r[f]]
  BY <1>1, <1>2 DEF WithField
<1> HIDE DEF r
<1>4. \A f \in B : (IF f = x THEN i[x] ELSE r[f]) = i[f]
  BY <1>1, <1>2
<1>5. WithField(r, x, i[x]) = [f \in B |-> i[f]]
  BY <1>3, <1>4
<1> QED BY <1>5 DEF FirstFields, A, B, x, r

(* One turn of the reader of an instruction. *)
PartsStep(S, name, kind) ==
  UNION {{Got(WithField(b.val, name, v.val), v.next) : v \in readField(b.next, kind)} : b \in S}

(* The loop over the fields, where the file has the field and where it ends. *)
LEMMA PartsStepOne ==
  ASSUME NEW name, NEW kind, NEW b, NEW k, NEW v, NEW n
  PROVE  /\ readField(k, kind) = {Got(v, n)}
              => PartsStep({Got(b, k)}, name, kind) = {Got(WithField(b, name, v), n)}
         /\ readField(k, kind) = {} => PartsStep({Got(b, k)}, name, kind) = {}
         /\ PartsStep({}, name, kind) = {}
<1>1. PartsStep({}, name, kind) = {}
  BY DEF PartsStep
<1> DEFINE g == Got(b, k)
           T == {Got(WithField(b, name, r.val), r.next) : r \in readField(k, kind)}
<1>2. g.val = b /\ g.next = k
  BY DEF Got
<1> HIDE DEF g
<1>3. PartsStep({g}, name, kind)
        = {Got(WithField(g.val, name, r.val), r.next) : r \in readField(g.next, kind)}
  BY DEF PartsStep
<1>4. PartsStep({g}, name, kind) = T
  BY <1>2, <1>3
<1>5. ASSUME readField(k, kind) = {Got(v, n)}
      PROVE  T = {Got(WithField(b, name, v), n)}
  <2> DEFINE x == Got(v, n)
  <2>1. x.val = v /\ x.next = n
    BY DEF Got
  <2> HIDE DEF x
  <2>2. T = {Got(WithField(b, name, x.val), x.next)}
    BY <1>5 DEF x
  <2> QED BY <2>1, <2>2
<1>6. readField(k, kind) = {} => T = {}
  OBVIOUS
<1> HIDE DEF T
<1> QED BY <1>1, <1>4, <1>5, <1>6 DEF g

(* What has been read after n fields. *)
PartsEnd(i, layout, first, n) == first + Offsets(Parts(i, layout))[n]

PartsRead(i, layout, first, n) ==
  IF PartsEnd(i, layout, first, n) - 1 <= Len(file)
    THEN {Got(FirstFields(i, layout, n), PartsEnd(i, layout, first, n))} ELSE {}

(* Every turn of the loop reads the field that was written there. *)
LEMMA PartsReadStep ==
  ASSUME IsVector(file), NEW i, NEW layout, LayoutFits(i, layout), NEW first \in Places,
         At(FlattenSeq(Parts(i, layout)), first), NEW n \in 1 .. Len(layout)
  PROVE  PartsRead(i, layout, first, n)
           = PartsStep(PartsRead(i, layout, first, n - 1), layout[n].name, layout[n].kind)
<1> DEFINE cs == Parts(i, layout)
           o == Offsets(cs)
           k == first + o[n - 1]
           L == Len(cs[n])
           name == layout[n].name
           kind == layout[n].kind
           r == FirstFields(i, layout, n - 1)
           q == FirstFields(i, layout, n)
<1>1. Len(layout) \in Nat /\ Len(file) \in Nat /\ first \in Nat
  BY VectorShape DEF LayoutFits, Places
<1>2. Nested(cs) /\ Len(cs) = Len(layout) /\ cs[n] = FieldCells(i[name], kind)
  BY PartsShape
<1>3. FieldFits(i[name], kind)
  BY DEF LayoutFits
<1>4. WithField(r, name, i[name]) = q
  <2>1. n \in Nat \ {0}
    BY <1>1
  <2> QED BY <2>1, FirstFieldsStep
<1> HIDE DEF cs, name, kind, r, q
<1>5. o \in [0 .. Len(layout) -> Nat] /\ o[n] = o[n - 1] + L
  BY <1>2, OffsetsShape
<1>6. At(cs[n], k)
  BY <1>1, <1>2, FlattenAt DEF cs
<1>7. L \in Nat
  BY <1>2, <1>1, VectorShape DEF Nested
<1>8. n \in 0 .. Len(layout) /\ n - 1 \in 0 .. Len(layout)
  BY <1>1
<1>9. o[n] \in Nat /\ o[n - 1] \in Nat
  <2> HIDE DEF o
  <2> QED BY <1>5, <1>8
<1> HIDE DEF o, L
<1> DEFINE e == first + o[n]
<1>10. k \in Nat /\ k + L = e /\ e \in Nat /\ k # 0
  BY <1>1, <1>5, <1>7, <1>9 DEF Places
<1>11. /\ PartsRead(i, layout, first, n - 1) = IF k - 1 <= Len(file) THEN {Got(r, k)} ELSE {}
       /\ PartsRead(i, layout, first, n) = IF e - 1 <= Len(file) THEN {Got(q, e)} ELSE {}
  <2>1. PartsEnd(i, layout, first, n - 1) = k /\ PartsEnd(i, layout, first, n) = e
    BY DEF PartsEnd, o, cs
  <2> HIDE DEF k, e
  <2> QED BY <2>1 DEF PartsRead, r, q
<1> HIDE DEF k, e
<1>12. CASE k - 1 <= Len(file)
  <2>1. k \in Places
    BY <1>10, <1>12, <1>1 DEF Places
  <2>2. Reads(readField(k, kind), i[name], k, L)
    BY <2>1, <1>2, <1>3, <1>6, FieldRead DEF IsRead, L
  <2>3. CASE e - 1 <= Len(file)
    <3>1. readField(k, kind) = {Got(i[name], e)}
      BY <2>2, <2>3, <1>1, <1>7, <1>10 DEF Reads
    <3>2. PartsStep({Got(r, k)}, name, kind) = {Got(WithField(r, name, i[name]), e)}
      BY <3>1, PartsStepOne
    <3> QED BY <3>2, <2>3, <1>4, <1>11, <1>12 DEF name, kind
  <2>4. CASE ~ (e - 1 <= Len(file))
    <3>1. readField(k, kind) = {}
      BY <2>2, <2>4, <1>1, <1>7, <1>10 DEF Reads
    <3>2. PartsStep({Got(r, k)}, name, kind) = {}
      BY <3>1, PartsStepOne
    <3> QED BY <3>2, <2>4, <1>11, <1>12 DEF name, kind
  <2> QED BY <2>3, <2>4
<1>13. CASE ~ (k - 1 <= Len(file))
  <2>1. ~ (e - 1 <= Len(file))
    BY <1>13, <1>1, <1>7, <1>10
  <2>2. PartsStep({}, name, kind) = {}
    BY PartsStepOne
  <2> QED BY <2>1, <2>2, <1>11, <1>13 DEF name, kind
<1> QED BY <1>12, <1>13

(* Reading the fields follows the recursion of readParts. *)
LEMMA PartsLoop ==
  ASSUME IsVector(file), NEW i, NEW layout, LayoutFits(i, layout), NEW first \in Places,
         At(FlattenSeq(Parts(i, layout)), first)
  PROVE  readParts(i.op, layout, first)[Len(layout)] = PartsRead(i, layout, first, Len(layout))
<1> DEFINE N == Len(layout)
           base == {Got([op |-> i.op], first)}
           Turn(S, n) == PartsStep(S, layout[n].name, layout[n].kind)
           g == [n \in 0 .. N |-> PartsRead(i, layout, first, n)]
           u == readParts(i.op, layout, first)
<1>1. N \in Nat /\ Len(file) \in Nat /\ first \in Nat
  BY VectorShape DEF LayoutFits, Places
<1>2. PartsRead(i, layout, first, 0) = base
  <2>1. Offsets(Parts(i, layout))[0] = 0
    <3> DEFINE cs == Parts(i, layout)
    <3>1. Nested(cs)
      BY PartsShape
    <3> HIDE DEF cs
    <3>2. Offsets(cs)[0] = 0
      BY <3>1, OffsetsShape
    <3> QED BY <3>2 DEF cs
  <2>2. FirstFields(i, layout, 0) = [op |-> i.op]
    <3>1. Names(layout, 0) = {"op"}
      BY DEF Names
    <3> QED BY <3>1 DEF FirstFields
  <2>3. first + 0 = first /\ first - 1 <= Len(file)
    BY <1>1 DEF Places
  <2> QED BY <2>1, <2>2, <2>3 DEF PartsRead, PartsEnd
<1>3. ASSUME NEW n \in 1 .. N
      PROVE  PartsRead(i, layout, first, n) = Turn(PartsRead(i, layout, first, n - 1), n)
  BY <1>3, PartsReadStep
<1> HIDE DEF Turn
<1>4. ASSUME NEW n \in 0 .. N
      PROVE  g[n] = IF n = 0 THEN base ELSE Turn(g[n - 1], n)
  <2>1. CASE n = 0
    BY <2>1, <1>2
  <2>2. CASE n # 0
    <3>1. n \in 1 .. N /\ n - 1 \in 0 .. N
      BY <2>2, <1>1
    <3> HIDE DEF base
    <3> QED BY <3>1, <1>3, <2>2
  <2> QED BY <2>1, <2>2
<1>5. g = [n \in 0 .. N |-> g[n]]
  OBVIOUS
<1> HIDE DEF g, N, base
<1>6. g = [n \in 0 .. N |-> IF n = 0 THEN base ELSE Turn(g[n - 1], n)]
  BY <1>4, <1>5
<1>7. u = [n \in 0 .. N |-> IF n = 0 THEN base ELSE Turn(u[n - 1], n)]
  BY <1>6 DEF readParts, PartsStep, Turn, base, N
<1> HIDE DEF u
<1>8. \A n \in 0 .. N : u[n] = IF n = 0 THEN base ELSE Turn(u[n - 1], n)
  BY <1>7
<1> DEFINE S == {n \in Nat : n \in 0 .. N => u[n] = g[n]}
<1>9. 0 \in S
  BY <1>1, <1>4, <1>8
<1>10. ASSUME NEW n \in Nat, n \in S
       PROVE  n + 1 \in S
  <2> SUFFICES ASSUME n + 1 \in 0 .. N
               PROVE  u[n + 1] = g[n + 1]
    OBVIOUS
  <2>1. n \in 0 .. N /\ n + 1 # 0 /\ (n + 1) - 1 = n
    BY <1>1
  <2>2. u[n] = g[n]
    BY <2>1, <1>10
  <2>3. u[n + 1] = Turn(u[n], n + 1) /\ g[n + 1] = Turn(g[n], n + 1)
    BY <2>1, <1>4, <1>8
  <2> QED BY <2>2, <2>3
<1>11. N \in S
  <2> HIDE DEF S
  <2> QED BY <1>1, <1>9, <1>10, Induction
<1>12. u[N] = g[N]
  BY <1>1, <1>11
<1> QED BY <1>1, <1>12 DEF g, u, N

(* An instruction whose layout is known is read field by field. *)
LEMMA FieldsRead ==
  ASSUME IsVector(file), NEW i, NEW layout, LayoutFits(i, layout), NEW k \in Places,
         Layout(i.op, IF k \in DOMAIN file THEN file[k] ELSE Byte(255)) = layout,
         At(FlattenSeq(Parts(i, layout)), k)
  PROVE  Reads(readFields(i.op, k), FirstFields(i, layout, Len(layout)), k,
               Len(FlattenSeq(Parts(i, layout))))
<1> DEFINE N == Len(layout)
           cs == Parts(i, layout)
           L == Len(FlattenSeq(cs))
<1>1. readFields(i.op, k) = readParts(i.op, layout, k)[N]
  BY DEF readFields
<1>2. readParts(i.op, layout, k)[N] = PartsRead(i, layout, k, N)
  BY PartsLoop
<1>3. Nested(cs) /\ Len(cs) = N
  BY PartsShape
<1>4. Len(file) \in Nat /\ k \in Nat /\ N \in Nat
  BY VectorShape DEF Places, LayoutFits
<1> HIDE DEF cs
<1>5. IsVector(FlattenSeq(cs)) /\ L = Offsets(cs)[N]
  BY <1>3, FlattenPlaces
<1>6. PartsEnd(i, layout, k, N) = k + L /\ L \in Nat
  BY <1>5, VectorShape DEF PartsEnd, cs
<1> DEFINE e == k + L
<1> HIDE DEF L
<1>7. e \in Nat
  BY <1>4, <1>6
<1> HIDE DEF e
<1>8. PartsRead(i, layout, k, N)
        = IF e - 1 <= Len(file) THEN {Got(FirstFields(i, layout, N), e)} ELSE {}
  BY <1>6 DEF PartsRead, e
<1> QED BY <1>1, <1>2, <1>4, <1>6, <1>7, <1>8 DEF Reads, e, L, cs

(* Writer and reader agree on an instruction: its fields are written in    *)
(* the order in which the layout takes them, and those are all it has.     *)
Agree(i, layout) ==
  /\ LayoutFits(i, layout)
  /\ Fields(i) = FlattenSeq(Parts(i, layout))
  /\ {"op"} \cup FieldsOf(i) = Names(layout, Len(layout))

(* FlattenSeq of up to three vectors. *)
LEMMA FlattenShort ==
  ASSUME NEW ss, Nested(ss)
  PROVE  /\ Len(ss) = 0 => FlattenSeq(ss) = << >>
         /\ Len(ss) = 1 => FlattenSeq(ss) = ss[1]
         /\ Len(ss) = 2 => FlattenSeq(ss) = ss[1] \o ss[2]
         /\ Len(ss) = 3 => FlattenSeq(ss) = ss[1] \o ss[2] \o ss[3]
<1>1. CASE Len(ss) = 0
  <2>1. FlattenSeq(ss) = ss
    BY <1>1 DEF FlattenSeq
  <2>2. IsVector(ss) /\ IsVector(<< >>) /\ Len(<< >>) = 0
    BY DEF Nested, IsVector
  <2> DEFINE e == << >>
  <2> HIDE DEF e
  <2>3. ss = e
    BY <2>2, <1>1, VectorsEqual DEF e
  <2> QED BY <2>1, <2>3, <1>1 DEF e
<1>2. CASE Len(ss) # 0
  <2>1. PICK f : /\ FlattenSeq(ss) = f[Len(ss)] /\ f[1] = ss[1]
                 /\ \A k \in 2 .. Len(ss) : f[k] = f[k - 1] \o ss[k]
    BY <1>2, FlattenSteps
  <2>2. ASSUME NEW k \in 2 .. Len(ss), NEW j, j = k - 1
        PROVE  f[k] = f[j] \o ss[k]
    BY <2>1, <2>2
  <2>3. Len(ss) = 2 => f[2] = f[1] \o ss[2]
    BY <2>2
  <2>4. Len(ss) = 3 => f[2] = f[1] \o ss[2] /\ f[3] = f[2] \o ss[3]
    BY <2>2
  <2> QED BY <1>2, <2>1, <2>3, <2>4
<1> QED BY <1>1, <1>2

(* Instructions without fields, and with one, two or three. *)
LEMMA Agree0 ==
  ASSUME NEW i, FieldsOf(i) = {}, Fields(i) = << >>
  PROVE  Agree(i, << >>)
<1> DEFINE layout == << >>
<1>1. IsVector(layout) /\ Len(layout) = 0
  BY DEF IsVector
<1> HIDE DEF layout
<1>2. LayoutFits(i, layout)
  BY <1>1 DEF LayoutFits
<1>3. Nested(Parts(i, layout)) /\ Len(Parts(i, layout)) = 0
  BY <1>1, <1>2, PartsShape
<1>4. FlattenSeq(Parts(i, layout)) = << >>
  BY <1>3, FlattenShort
<1>5. Names(layout, 0) = {"op"}
  BY DEF Names
<1> QED BY <1>1, <1>2, <1>4, <1>5 DEF Agree, layout

(* Writer and reader agree on one field ... *)
LEMMA Agree1 ==
  ASSUME NEW i, NEW a, NEW ka, FieldFits(i[a], ka),
         FieldsOf(i) = {a}, Fields(i) = FieldCells(i[a], ka)
  PROVE  Agree(i, <<F(a, ka)>>)
<1> DEFINE layout == <<F(a, ka)>>
           cs == Parts(i, layout)
<1>1. IsVector(layout) /\ Len(layout) = 1 /\ layout[1] = F(a, ka)
  BY OneVector
<1>2. layout[1].name = a /\ layout[1].kind = ka
  BY <1>1 DEF F
<1> HIDE DEF layout
<1>3. LayoutFits(i, layout)
  BY <1>1, <1>2 DEF LayoutFits
<1>4. Nested(cs) /\ Len(cs) = 1 /\ cs[1] = FieldCells(i[a], ka)
  BY <1>1, <1>2, <1>3, PartsShape
<1>5. FlattenSeq(cs) = Fields(i)
  <2> HIDE DEF cs
  <2> QED BY <1>4, FlattenShort
<1>6. Names(layout, 1) = {"op", a}
  BY <1>2 DEF Names
<1> QED BY <1>1, <1>3, <1>5, <1>6 DEF Agree, layout

(* ... on two ... *)
LEMMA Agree2 ==
  ASSUME NEW i, NEW a, NEW ka, FieldFits(i[a], ka), NEW b, NEW kb, FieldFits(i[b], kb),
         FieldsOf(i) = {a, b}, Fields(i) = FieldCells(i[a], ka) \o FieldCells(i[b], kb)
  PROVE  Agree(i, <<F(a, ka), F(b, kb)>>)
<1> DEFINE layout == <<F(a, ka), F(b, kb)>>
           cs == Parts(i, layout)
<1>1. IsVector(layout) /\ Len(layout) = 2 /\ layout[1] = F(a, ka) /\ layout[2] = F(b, kb)
  BY TwoVector
<1>2. layout[1].name = a /\ layout[1].kind = ka /\ layout[2].name = b /\ layout[2].kind = kb
  BY <1>1 DEF F
<1> HIDE DEF layout
<1>3. LayoutFits(i, layout)
  <2>1. ASSUME NEW n \in 1 .. 2
        PROVE  FieldFits(i[layout[n].name], layout[n].kind)
    <3>1. n = 1 \/ n = 2
      OBVIOUS
    <3> QED BY <3>1, <1>2
  <2> QED BY <2>1, <1>1 DEF LayoutFits
<1>4. /\ Nested(cs) /\ Len(cs) = 2
      /\ cs[1] = FieldCells(i[a], ka) /\ cs[2] = FieldCells(i[b], kb)
  BY <1>1, <1>2, <1>3, PartsShape
<1>5. FlattenSeq(cs) = Fields(i)
  <2> HIDE DEF cs
  <2> QED BY <1>4, FlattenShort
<1>6. Names(layout, 2) = {"op", a, b}
  <2>1. {layout[m].name : m \in 1 .. 2} = {layout[1].name, layout[2].name}
    <3>1. 1 .. 2 = {1, 2}
      OBVIOUS
    <3> QED BY <3>1
  <2> QED BY <2>1, <1>2 DEF Names
<1> QED BY <1>1, <1>3, <1>5, <1>6 DEF Agree, layout

(* ... and on three. *)
LEMMA Agree3 ==
  ASSUME NEW i, NEW a, NEW ka, FieldFits(i[a], ka), NEW b, NEW kb, FieldFits(i[b], kb),
         NEW c, NEW kc, FieldFits(i[c], kc), FieldsOf(i) = {a, b, c},
         Fields(i) = FieldCells(i[a], ka) \o FieldCells(i[b], kb) \o FieldCells(i[c], kc)
  PROVE  Agree(i, <<F(a, ka), F(b, kb), F(c, kc)>>)
<1> DEFINE layout == <<F(a, ka), F(b, kb), F(c, kc)>>
           cs == Parts(i, layout)
<1>1. /\ IsVector(layout) /\ Len(layout) = 3
      /\ layout[1] = F(a, ka) /\ layout[2] = F(b, kb) /\ layout[3] = F(c, kc)
  BY DEF IsVector
<1>2. /\ layout[1].name = a /\ layout[1].kind = ka /\ layout[2].name = b /\ layout[2].kind = kb
      /\ layout[3].name = c /\ layout[3].kind = kc
  BY <1>1 DEF F
<1> HIDE DEF layout
<1>3. LayoutFits(i, layout)
  <2>1. ASSUME NEW n \in 1 .. 3
        PROVE  FieldFits(i[layout[n].name], layout[n].kind)
    <3>1. n = 1 \/ n = 2 \/ n = 3
      OBVIOUS
    <3> QED BY <3>1, <1>2
  <2> QED BY <2>1, <1>1 DEF LayoutFits
<1>4. /\ Nested(cs) /\ Len(cs) = 3 /\ cs[1] = FieldCells(i[a], ka)
      /\ cs[2] = FieldCells(i[b], kb) /\ cs[3] = FieldCells(i[c], kc)
  BY <1>1, <1>2, <1>3, PartsShape
<1>5. FlattenSeq(cs) = Fields(i)
  <2> HIDE DEF cs
  <2> QED BY <1>4, FlattenShort
<1>6. Names(layout, 3) = {"op", a, b, c}
  <2>1. {layout[m].name : m \in 1 .. 3} = {layout[1].name, layout[2].name, layout[3].name}
    <3>1. 1 .. 3 = {1, 2, 3}
      OBVIOUS
    <3> QED BY <3>1
  <2> QED BY <2>1, <1>2 DEF Names
<1> QED BY <1>1, <1>3, <1>5, <1>6 DEF Agree, layout

(* The fields of each family of opcodes. *)
LEMMA FieldsOfFamily ==
  ASSUME NEW i
  PROVE  /\ i.op \in BinaryOps => FieldsOf(i) = {"r1", "r2"}
         /\ i.op = "ARG" /\ i.type = "MAP" => FieldsOf(i) = {"type", "name", "idx"}
         /\ i.op = "ARG" /\ i.type # "MAP" => FieldsOf(i) = {"type", "val"}
         /\ i.op \in DOMAIN Loads => FieldsOf(i) = Loads[i.op]
         /\ i.op \in DOMAIN Stores => FieldsOf(i) = Stores[i.op]
         /\ i.op \in DOMAIN Calls => FieldsOf(i) = Calls[i.op]
         /\ i.op \in DOMAIN Jumps => FieldsOf(i) = Jumps[i.op]
<1>1. CASE i.op \in BinaryOps
  <2>1. /\ i.op # "ARG" /\ i.op \notin DOMAIN Loads /\ i.op \notin DOMAIN Stores
        /\ i.op \notin DOMAIN Calls /\ i.op \notin DOMAIN Jumps /\ i.op \notin UnaryOps
    BY <1>1 DEF BinaryOps, UnaryOps, Loads, Stores, Calls, Jumps
  <2>2. FieldsOf(i) = {"r1", "r2"}
    BY <1>1, <2>1, Zenon DEF FieldsOf
  <2> QED BY <2>1, <2>2
<1>2. CASE i.op = "ARG"
  <2>1. /\ i.op \notin BinaryOps /\ i.op \notin DOMAIN Loads /\ i.op \notin DOMAIN Stores
        /\ i.op \notin DOMAIN Calls /\ i.op \notin DOMAIN Jumps /\ i.op \notin UnaryOps
    BY <1>2 DEF BinaryOps, UnaryOps, Loads, Stores, Calls, Jumps
  <2>2. FieldsOf(i) = {"type"} \cup IF i.type = "MAP" THEN {"name", "idx"} ELSE {"val"}
    BY <1>2, <2>1, Zenon DEF FieldsOf
  <2> QED BY <2>1, <2>2
<1>3. CASE i.op \in DOMAIN Loads
  <2>1. /\ i.op \notin BinaryOps /\ i.op # "ARG" /\ i.op \notin DOMAIN Stores
        /\ i.op \notin DOMAIN Calls /\ i.op \notin DOMAIN Jumps /\ i.op \notin UnaryOps
    BY <1>3 DEF BinaryOps, UnaryOps, Loads, Stores, Calls, Jumps
  <2>2. FieldsOf(i) = Loads[i.op]
    BY <1>3, <2>1, Zenon DEF FieldsOf
  <2> QED BY <2>1, <2>2
<1>4. CASE i.op \in DOMAIN Stores
  <2>1. /\ i.op \notin BinaryOps /\ i.op # "ARG" /\ i.op \notin DOMAIN Loads
        /\ i.op \notin DOMAIN Calls /\ i.op \notin DOMAIN Jumps /\ i.op \notin UnaryOps
    BY <1>4 DEF BinaryOps, UnaryOps, Loads, Stores, Calls, Jumps
  <2>2. FieldsOf(i) = Stores[i.op]
    BY <1>4, <2>1, Zenon DEF FieldsOf
  <2> QED BY <2>1, <2>2
<1>5. CASE i.op \in DOMAIN Calls
  <2>1. /\ i.op \notin BinaryOps /\ i.op # "ARG" /\ i.op \notin DOMAIN Loads
        /\ i.op \notin DOMAIN Stores /\ i.op \notin DOMAIN Jumps /\ i.op \notin UnaryOps
    BY <1>5 DEF BinaryOps, UnaryOps, Loads, Stores, Calls, Jumps
  <2>2. FieldsOf(i) = Calls[i.op]
    BY <1>5, <2>1, Zenon DEF FieldsOf
  <2> QED BY <2>1, <2>2
<1>6. CASE i.op \in DOMAIN Jumps
  <2>1. /\ i.op \notin BinaryOps /\ i.op # "ARG" /\ i.op \notin DOMAIN Loads
        /\ i.op \notin DOMAIN Stores /\ i.op \notin DOMAIN Calls /\ i.op \notin UnaryOps
    BY <1>6 DEF BinaryOps, UnaryOps, Loads, Stores, Calls, Jumps
  <2>2. FieldsOf(i) = Jumps[i.op]
    BY <1>6, <2>1, Zenon DEF FieldsOf
  <2> QED BY <2>1, <2>2
<1> QED BY <1>1, <1>2, <1>3, <1>4, <1>5, <1>6

(* The first byte of an ARG says what it passes. *)
Announces(i, first) ==
  i.op = "ARG" => IF i.type = "MAP" THEN first = Byte(0) ELSE first # Byte(0)

(* The reader takes the fields the writer wrote, in its order, whatever the opcode. *)
LEMMA Agreement ==
  ASSUME NEW i, ReadsBack(i), NEW first, Announces(i, first)
  PROVE  Agree(i, Layout(i.op, first))
<1>1. CASE i.op \in BinaryOps
  <2>1. FieldsOf(i) = {"r1", "r2"}
    BY <1>1, FieldsOfFamily
  <2>2. Layout(i.op, first) = <<F("r1", "byte"), F("r2", "byte")>>
    BY <1>1 DEF Layout, BinaryOps, UnaryOps
  <2>3. Fields(i) = <<Byte(i.r1), Byte(i.r2)>>
    BY <1>1 DEF Fields, BinaryOps, UnaryOps
  <2>4. FieldFits(i.r1, "byte") /\ FieldFits(i.r2, "byte")
    BY <1>1, <2>1 DEF FieldFits, Kinds, ReadsBack
  <2>5. Fields(i) = FieldCells(i.r1, "byte") \o FieldCells(i.r2, "byte")
    BY <2>3, TwoVector DEF FieldCells
  <2> QED BY <2>1, <2>2, <2>4, <2>5, Agree2
<1>2. CASE i.op = "LOADI"
  <2>1. FieldsOf(i) = {"reg", "val"}
    BY <1>2, FieldsOfFamily DEF Loads
  <2>2. Layout(i.op, first) = <<F("reg", "byte"), F("val", "Int64")>>
    BY <1>2 DEF Layout, BinaryOps, UnaryOps
  <2>3. Fields(i) = <<Byte(i.reg), i.val>>
    BY <1>2 DEF Fields, BinaryOps, UnaryOps
  <2>4. FieldFits(i.reg, "byte") /\ FieldFits(i.val, "Int64")
    BY <1>2, <2>1 DEF FieldFits, Kinds, ReadsBack
  <2>5. Fields(i) = FieldCells(i.reg, "byte") \o FieldCells(i.val, "Int64")
    BY <2>3, TwoVector DEF FieldCells
  <2> QED BY <2>1, <2>2, <2>4, <2>5, Agree2
<1>3. CASE i.op = "LOADD"
  <2>1. FieldsOf(i) = {"reg", "val"}
    BY <1>3, FieldsOfFamily DEF Loads
  <2>2. Layout(i.op, first) = <<F("reg", "byte"), F("val", "Double")>>
    BY <1>3 DEF Layout, BinaryOps, UnaryOps
  <2>3. Fields(i) = <<Byte(i.reg), i.val>>
    BY <1>3 DEF Fields, BinaryOps, UnaryOps
  <2>4. FieldFits(i.reg, "byte") /\ FieldFits(i.val, "Double")
    BY <1>3, <2>1 DEF FieldFits, Kinds, ReadsBack
  <2>5. Fields(i) = FieldCells(i.reg, "byte") \o FieldCells(i.val, "Double")
    BY <2>3, TwoVector DEF FieldCells
  <2> QED BY <2>1, <2>2, <2>4, <2>5, Agree2
<1>4. CASE i.op = "LOADS"
  <2>1. FieldsOf(i) = {"reg", "val"}
    BY <1>4, FieldsOfFamily DEF Loads
  <2>2. Layout(i.op, first) = <<F("reg", "byte"), F("val", "Str")>>
    BY <1>4 DEF Layout, BinaryOps, UnaryOps
  <2>3. Fields(i) = <<Byte(i.reg), i.val>>
    BY <1>4 DEF Fields, BinaryOps, UnaryOps
  <2>4. FieldFits(i.reg, "byte") /\ FieldFits(i.val, "Str")
    BY <1>4, <2>1 DEF FieldFits, Kinds, ReadsBack
  <2>5. Fields(i) = FieldCells(i.reg, "byte") \o FieldCells(i.val, "Str")
    BY <2>3, TwoVector DEF FieldCells
  <2> QED BY <2>1, <2>2, <2>4, <2>5, Agree2
<1>5. CASE i.op = "LOADA"
  <2>1. FieldsOf(i) = {"reg", "val"}
    BY <1>5, FieldsOfFamily DEF Loads
  <2>2. Layout(i.op, first) = <<F("reg", "byte"), F("val", "array")>>
    BY <1>5 DEF Layout, BinaryOps, UnaryOps
  <2>3. Fields(i) = <<Byte(i.reg)>> \o writeList(i.val.arr)
    BY <1>5 DEF Fields, BinaryOps, UnaryOps
  <2>4. FieldFits(i.reg, "byte") /\ FieldFits(i.val, "array")
    BY <1>5, <2>1 DEF FieldFits, Kinds, ReadsBack
  <2>5. Fields(i) = FieldCells(i.reg, "byte") \o FieldCells(i.val, "array")
    BY <2>3 DEF FieldCells
  <2> QED BY <2>1, <2>2, <2>4, <2>5, Agree2
<1>6. CASE i.op = "LOADX"
  <2>1. FieldsOf(i) = {"reg", "name", "idx"}
    BY <1>6, FieldsOfFamily DEF Loads
  <2>2. Layout(i.op, first) = <<F("reg", "byte"), F("name", "str"), F("idx", "idx")>>
    BY <1>6 DEF Layout, BinaryOps, UnaryOps
  <2>3. Fields(i) = <<Byte(i.reg), String(i.name)>> \o writeArrIdx(i.idx)
    BY <1>6 DEF Fields, BinaryOps, UnaryOps
  <2>4. FieldFits(i.reg, "byte") /\ FieldFits(i.name, "str") /\ FieldFits(i.idx, "idx")
    BY <1>6, <2>1 DEF FieldFits, Kinds, ReadsBack
  <2>5. Fields(i) = FieldCells(i.reg, "byte") \o FieldCells(i.name, "str") \o FieldCells(i.idx, "idx")
    BY <2>3, TwoVector DEF FieldCells
  <2> QED BY <2>1, <2>2, <2>4, <2>5, Agree3
<1>7. CASE i.op = "LOADXA"
  <2>1. FieldsOf(i) = {"reg", "index", "name"}
    BY <1>7, FieldsOfFamily DEF Loads
  <2>2. Layout(i.op, first) = <<F("reg", "byte"), F("index", "int"), F("name", "str")>>
    BY <1>7 DEF Layout, BinaryOps, UnaryOps
  <2>3. Fields(i) = <<Byte(i.reg), Long(i.index), String(i.name)>>
    BY <1>7 DEF Fields, BinaryOps, UnaryOps
  <2>4. FieldFits(i.reg, "byte") /\ FieldFits(i.index, "int") /\ FieldFits(i.name, "str")
    BY <1>7, <2>1 DEF FieldFits, Kinds, ReadsBack
  <2>5. Fields(i) = FieldCells(i.reg, "byte") \o FieldCells(i.index, "int") \o FieldCells(i.name, "str")
    BY <2>3, ThreeVector DEF FieldCells
  <2> QED BY <2>1, <2>2, <2>4, <2>5, Agree3
<1>8. CASE i.op = "STOREI"
  <2>1. FieldsOf(i) = {"name", "val"}
    BY <1>8, FieldsOfFamily DEF Stores
  <2>2. Layout(i.op, first) = <<F("name", "str"), F("val", "Int64")>>
    BY <1>8 DEF Layout, BinaryOps, UnaryOps
  <2>3. Fields(i) = <<String(i.name), i.val>>
    BY <1>8 DEF Fields, BinaryOps, UnaryOps
  <2>4. FieldFits(i.name, "str") /\ FieldFits(i.val, "Int64")
    BY <1>8, <2>1 DEF FieldFits, Kinds, ReadsBack
  <2>5. Fields(i) = FieldCells(i.name, "str") \o FieldCells(i.val, "Int64")
    BY <2>3, TwoVector DEF FieldCells
  <2> QED BY <2>1, <2>2, <2>4, <2>5, Agree2
<1>9. CASE i.op = "STORED"
  <2>1. FieldsOf(i) = {"name", "val"}
    BY <1>9, FieldsOfFamily DEF Stores
  <2>2. Layout(i.op, first) = <<F("name", "str"), F("val", "Double")>>
    BY <1>9 DEF Layout, BinaryOps, UnaryOps
  <2>3. Fields(i) = <<String(i.name), i.val>>
    BY <1>9 DEF Fields, BinaryOps, UnaryOps
  <2>4. FieldFits(i.name, "str") /\ FieldFits(i.val, "Double")
    BY <1>9, <2>1 DEF FieldFits, Kinds, ReadsBack
  <2>5. Fields(i) = FieldCells(i.name, "str") \o FieldCells(i.val, "Double")
    BY <2>3, TwoVector DEF FieldCells
  <2> QED BY <2>1, <2>2, <2>4, <2>5, Agree2
<1>10. CASE i.op = "STORES"
  <2>1. FieldsOf(i) = {"name", "val"}
    BY <1>10, FieldsOfFamily DEF Stores
  <2>2. Layout(i.op, first) = <<F("name", "str"), F("val", "Str")>>
    BY <1>10 DEF Layout, BinaryOps, UnaryOps
  <2>3. Fields(i) = <<String(i.name), i.val>>
    BY <1>10 DEF Fields, BinaryOps, UnaryOps
  <2>4. FieldFits(i.name, "str") /\ FieldFits(i.val, "Str")
    BY <1>10, <2>1 DEF FieldFits, Kinds, ReadsBack
  <2>5. Fields(i) = FieldCells(i.name, "str") \o FieldCells(i.val, "Str")
    BY <2>3, TwoVector DEF FieldCells
  <2> QED BY <2>1, <2>2, <2>4, <2>5, Agree2
<1>11. CASE i.op = "STOREA"
  <2>1. FieldsOf(i) = {"name", "idx", "val"}
    BY <1>11, FieldsOfFamily DEF Stores
  <2>2. Layout(i.op, first) = <<F("name", "str"), F("idx", "idx"), F("val", "tagged")>>
    BY <1>11 DEF Layout, BinaryOps, UnaryOps
  <2>3. Fields(i) = <<String(i.name)>> \o writeArrIdx(i.idx) \o writeConst(i.val)
    BY <1>11 DEF Fields, BinaryOps, UnaryOps
  <2>4. FieldFits(i.name, "str") /\ FieldFits(i.idx, "idx") /\ FieldFits(i.val, "tagged")
    BY <1>11, <2>1 DEF FieldFits, Kinds, ReadsBack
  <2>5. Fields(i) = FieldCells(i.name, "str") \o FieldCells(i.idx, "idx") \o FieldCells(i.val, "tagged")
    BY <2>3 DEF FieldCells
  <2> QED BY <2>1, <2>2, <2>4, <2>5, Agree3
<1>12. CASE i.op = "STOREX"
  <2>1. FieldsOf(i) = {"name", "idx", "reg"}
    BY <1>12, FieldsOfFamily DEF Stores
  <2>2. Layout(i.op, first) = <<F("name", "str"), F("idx", "idx"), F("reg", "byte")>>
    BY <1>12 DEF Layout, BinaryOps, UnaryOps
  <2>3. Fields(i) = <<String(i.name)>> \o writeArrIdx(i.idx) \o <<Byte(i.reg)>>
    BY <1>12 DEF Fields, BinaryOps, UnaryOps, writeStoreX
  <2>4. FieldFits(i.name, "str") /\ FieldFits(i.idx, "idx") /\ FieldFits(i.reg, "byte")
    BY <1>12, <2>1 DEF FieldFits, Kinds, ReadsBack
  <2>5. Fields(i) = FieldCells(i.name, "str") \o FieldCells(i.idx, "idx") \o FieldCells(i.reg, "byte")
    BY <2>3 DEF FieldCells
  <2> QED BY <2>1, <2>2, <2>4, <2>5, Agree3
<1>13. CASE i.op = "CALL"
  <2>1. FieldsOf(i) = {"target"}
    BY <1>13, FieldsOfFamily DEF Calls
  <2>2. Layout(i.op, first) = <<F("target", "int")>>
    BY <1>13 DEF Layout, BinaryOps, UnaryOps
  <2>3. Fields(i) = <<Long(i.target)>>
    BY <1>13 DEF Fields, BinaryOps, UnaryOps
  <2>4. FieldFits(i.target, "int")
    BY <1>13, <2>1 DEF FieldFits, Kinds, ReadsBack
  <2>5. Fields(i) = FieldCells(i.target, "int")
    BY <2>3 DEF FieldCells
  <2> QED BY <2>1, <2>2, <2>4, <2>5, Agree1
<1>14. CASE i.op = "FUNC"
  <2>1. FieldsOf(i) = {"params"}
    BY <1>14, FieldsOfFamily DEF Calls
  <2>2. Layout(i.op, first) = <<F("params", "byte")>>
    BY <1>14 DEF Layout, BinaryOps, UnaryOps
  <2>3. Fields(i) = <<Byte(i.params)>>
    BY <1>14 DEF Fields, BinaryOps, UnaryOps
  <2>4. FieldFits(i.params, "byte")
    BY <1>14, <2>1 DEF FieldFits, Kinds, ReadsBack
  <2>5. Fields(i) = FieldCells(i.params, "byte")
    BY <2>3 DEF FieldCells
  <2> QED BY <2>1, <2>2, <2>4, <2>5, Agree1
<1>15. CASE i.op = "PARAM"
  <2>1. FieldsOf(i) = {"name"}
    BY <1>15, FieldsOfFamily DEF Calls
  <2>2. Layout(i.op, first) = <<F("name", "str")>>
    BY <1>15 DEF Layout, BinaryOps, UnaryOps
  <2>3. Fields(i) = <<String(i.name)>>
    BY <1>15 DEF Fields, BinaryOps, UnaryOps
  <2>4. FieldFits(i.name, "str")
    BY <1>15, <2>1 DEF FieldFits, Kinds, ReadsBack
  <2>5. Fields(i) = FieldCells(i.name, "str")
    BY <2>3 DEF FieldCells
  <2> QED BY <2>1, <2>2, <2>4, <2>5, Agree1
<1>16. CASE i.op = "JMP"
  <2>1. FieldsOf(i) = {"target"}
    BY <1>16, FieldsOfFamily DEF Jumps
  <2>2. Layout(i.op, first) = <<F("target", "int")>>
    BY <1>16 DEF Layout, BinaryOps, UnaryOps
  <2>3. Fields(i) = <<Long(i.target)>>
    BY <1>16 DEF Fields, BinaryOps, UnaryOps
  <2>4. FieldFits(i.target, "int")
    BY <1>16, <2>1 DEF FieldFits, Kinds, ReadsBack
  <2>5. Fields(i) = FieldCells(i.target, "int")
    BY <2>3 DEF FieldCells
  <2> QED BY <2>1, <2>2, <2>4, <2>5, Agree1
<1>17. CASE i.op = "JIF"
  <2>1. FieldsOf(i) = {"target1", "target2"}
    BY <1>17, FieldsOfFamily DEF Jumps
  <2>2. Layout(i.op, first) = <<F("target1", "int"), F("target2", "int")>>
    BY <1>17 DEF Layout, BinaryOps, UnaryOps
  <2>3. Fields(i) = <<Long(i.target1), Long(i.target2)>>
    BY <1>17 DEF Fields, BinaryOps, UnaryOps
  <2>4. FieldFits(i.target1, "int") /\ FieldFits(i.target2, "int")
    BY <1>17, <2>1 DEF FieldFits, Kinds, ReadsBack
  <2>5. Fields(i) = FieldCells(i.target1, "int") \o FieldCells(i.target2, "int")
    BY <2>3, TwoVector DEF FieldCells
  <2> QED BY <2>1, <2>2, <2>4, <2>5, Agree2
<1>18. CASE i.op = "RET"
  <2>1. FieldsOf(i) = {}
    BY <1>18, FieldsOfFamily DEF Calls
  <2>2. Layout(i.op, first) = << >>
    BY <1>18 DEF Layout, BinaryOps, UnaryOps
  <2>3. Fields(i) = << >>
    BY <1>18 DEF Fields, BinaryOps, UnaryOps
  <2> QED BY <2>1, <2>2, <2>3, Agree0
<1>19. CASE i.op = "ARG" /\ i.type = "MAP"
  <2>1. FieldsOf(i) = {"type", "name", "idx"}
    BY <1>19, FieldsOfFamily
  <2>2. Layout(i.op, first) = <<F("type", "argtype"), F("name", "str"), F("idx", "idx")>>
    BY <1>19 DEF Layout, BinaryOps, UnaryOps, Announces
  <2>3. Fields(i) = <<Byte(0), String(i.name)>> \o writeArrIdx(i.idx)
    BY <1>19 DEF Fields, BinaryOps, UnaryOps, writeArg
  <2>4. FieldFits(i.type, "argtype") /\ FieldFits(i.name, "str") /\ FieldFits(i.idx, "idx")
    BY <1>19, <2>1 DEF FieldFits, Kinds, ReadsBack
  <2>5. Fields(i) = FieldCells(i.type, "argtype") \o FieldCells(i.name, "str") \o FieldCells(i.idx, "idx")
    BY <1>19, <2>3, TwoVector DEF FieldCells
  <2> QED BY <2>1, <2>2, <2>4, <2>5, Agree3
<1>20. CASE i.op = "ARG" /\ i.type = "RAW"
  <2>1. FieldsOf(i) = {"type", "val"}
    BY <1>20, FieldsOfFamily
  <2>2. Layout(i.op, first) = <<F("type", "argtype"), F("val", "tagged")>>
    BY <1>20 DEF Layout, BinaryOps, UnaryOps, Announces
  <2>3. Fields(i) = <<Byte(1)>> \o writeConst(i.val)
    BY <1>20 DEF Fields, BinaryOps, UnaryOps, writeArg
  <2>4. FieldFits(i.type, "argtype") /\ FieldFits(i.val, "tagged")
    BY <1>20, <2>1 DEF FieldFits, Kinds, ReadsBack
  <2>5. Fields(i) = FieldCells(i.type, "argtype") \o FieldCells(i.val, "tagged")
    BY <1>20, <2>3 DEF FieldCells
  <2> QED BY <2>1, <2>2, <2>4, <2>5, Agree2
<1>21. i.op \in Opcodes \ UnaryOps /\ (i.op = "ARG" => i.type = "MAP" \/ i.type = "RAW")
  BY DEF ReadsBack, WellTyped
<1> QED BY <1>1, <1>2, <1>3, <1>4, <1>5, <1>6, <1>7, <1>8, <1>9, <1>10, <1>11, <1>12, <1>13, <1>14, <1>15, <1>16, <1>17, <1>18, <1>19, <1>20, <1>21 DEF Opcodes, Loads, Stores, Calls, Jumps

(* The cells of an instruction: its opcode, and its fields. *)
LEMMA FieldsShape ==
  ASSUME NEW i, ReadsBack(i)
  PROVE  IsVector(Fields(i))
<1> DEFINE first == IF i.type = "MAP" THEN Byte(0) ELSE Byte(1)
           layout == Layout(i.op, first)
           cs == Parts(i, layout)
<1>1. Announces(i, first)
  BY DEF Announces, Byte
<1>2. Agree(i, layout)
  <2> HIDE DEF first
  <2> QED BY <1>1, Agreement
<1> HIDE DEF layout
<1>3. Nested(cs) /\ Fields(i) = FlattenSeq(cs)
  BY <1>2, PartsShape DEF Agree
<1> HIDE DEF cs
<1> QED BY <1>3, FlattenPlaces

(* An instruction is its opcode and then its fields: never without a cell. *)
LEMMA CellsShape ==
  ASSUME NEW i, ReadsBack(i)
  PROVE  /\ IsVector(Cells(i)) /\ Len(Fields(i)) \in Nat /\ Len(Cells(i)) = 1 + Len(Fields(i))
         /\ Len(Cells(i)) \in Nat \ {0}
         /\ \A k \in Nat : At(Cells(i), k) => At(<<Opcode(i.op)>>, k) /\ At(Fields(i), k + 1)
<1> DEFINE c == <<Opcode(i.op)>>
           w == Fields(i)
<1>1. IsVector(w)
  BY FieldsShape
<1>2. IsVector(c) /\ Len(c) = 1
  BY OneVector
<1>3. Cells(i) = c \o w
  BY DEF Cells
<1> HIDE DEF c, w
<1>4. Len(w) \in Nat
  BY <1>1, VectorShape
<1>5. IsVector(c \o w) /\ Len(c \o w) = Len(c) + Len(w)
  BY <1>1, <1>2, VectorConcat
<1>6. ASSUME NEW k \in Nat, At(c \o w, k)
      PROVE  At(c, k) /\ At(w, k + 1)
  BY <1>1, <1>2, <1>6, ConcatAt
<1> QED BY <1>2, <1>3, <1>4, <1>5, <1>6 DEF c, w

(* All fields are what is kept of the instruction. *)
LEMMA AllFields ==
  ASSUME NEW i, NEW layout, Agree(i, layout)
  PROVE  FirstFields(i, layout, Len(layout)) = Kept(i)
BY DEF Agree, FirstFields, Kept

(* The fields behind the opcode are read. *)
LEMMA FieldsOfInst ==
  ASSUME IsVector(file), NEW i, ReadsBack(i), NEW k \in Places, At(Fields(i), k),
         k \in DOMAIN file => Announces(i, file[k])
  PROVE  IF k \in DOMAIN file THEN Reads(readFields(i.op, k), Kept(i), k, Len(Fields(i)))
         ELSE Announces(i, Byte(255))
                => Reads(readFields(i.op, k), Kept(i), k, Len(Fields(i)))
<1> DEFINE first == IF k \in DOMAIN file THEN file[k] ELSE Byte(255)
           layout == Layout(i.op, first)
<1> SUFFICES ASSUME Announces(i, first)
             PROVE  Reads(readFields(i.op, k), Kept(i), k, Len(Fields(i)))
  OBVIOUS
<1>1. Agree(i, layout)
  <2> HIDE DEF first
  <2> QED BY Agreement
<1> DEFINE lay == layout
<1>2. lay = Layout(i.op, IF k \in DOMAIN file THEN file[k] ELSE Byte(255)) /\ Agree(i, lay)
  BY <1>1
<1> HIDE DEF lay
<1>3. Reads(readFields(i.op, k), FirstFields(i, lay, Len(lay)), k, Len(FlattenSeq(Parts(i, lay))))
  BY <1>2, FieldsRead DEF Agree
<1>4. FirstFields(i, lay, Len(lay)) = Kept(i) /\ FlattenSeq(Parts(i, lay)) = Fields(i)
  BY <1>2, AllFields DEF Agree
<1> QED BY <1>3, <1>4

(* An ARG whose first byte is missing is not read. *)
LEMMA ArgMissing ==
  ASSUME IsVector(file), NEW k \in Places, k \notin DOMAIN file
  PROVE  readFields("ARG", k) = {}
<1> DEFINE i == [op |-> "ARG", type |-> "RAW", val |-> Int64(0)]
<1>1. i.op = "ARG" /\ i.type = "RAW" /\ i.val = Int64(0) /\ DOMAIN i = {"op", "type", "val"}
  OBVIOUS
<1> HIDE DEF i
<1>2. IsScalar(i.val)
  BY <1>1 DEF IsScalar, IsA, Int64
<1>3. FieldsOf(i) = {"type", "val"}
  BY <1>1, FieldsOfFamily
<1>4. WellTyped(i)
  BY <1>1, <1>3 DEF WellTyped, Opcodes
<1>5. ReadsBack(i)
  BY <1>1, <1>2, <1>3, <1>4 DEF ReadsBack, UnaryOps
<1>6. Len(Fields(i)) = 3
  <2>1. Fields(i) = <<Byte(1)>> \o writeConst(i.val)
    BY <1>1 DEF Fields, BinaryOps, UnaryOps, writeArg
  <2>2. Fields(i) = <<Byte(1)>> \o <<Byte(Tag(i.val)), i.val>>
    BY <2>1 DEF writeConst
  <2> DEFINE u == <<Byte(1)>>
             w == <<Byte(Tag(i.val)), i.val>>
  <2>3. IsVector(u) /\ Len(u) = 1
    BY OneVector
  <2>4. IsVector(w) /\ Len(w) = 2
    BY TwoVector
  <2> HIDE DEF u, w
  <2>5. Len(u \o w) = Len(u) + Len(w)
    BY <2>3, <2>4, VectorConcat
  <2> QED BY <2>2, <2>3, <2>4, <2>5 DEF u, w
<1>7. Len(file) \in Nat /\ DOMAIN file = 1 .. Len(file) /\ k = Len(file) + 1
  BY VectorShape DEF Places
<1>8. At(Fields(i), k)
  BY <1>7, <1>6 DEF At
<1>9. Announces(i, Byte(255))
  BY <1>1 DEF Announces, Byte
<1>10. Reads(readFields(i.op, k), Kept(i), k, Len(Fields(i)))
  BY <1>5, <1>8, <1>9, FieldsOfInst
<1> QED BY <1>1, <1>6, <1>7, <1>10 DEF Reads

(* An ARG begins with the byte that announces it. *)
LEMMA ArgFirst ==
  ASSUME NEW i, ReadsBack(i), i.op = "ARG"
  PROVE  Len(Fields(i)) >= 1 /\ Announces(i, Fields(i)[1])
<1> DEFINE b == IF i.type = "MAP" THEN 0 ELSE 1
<1>1. \E u, w : /\ IsVector(u) /\ Len(u) \in 1 .. 2 /\ u[1] = Byte(b)
                /\ IsVector(w) /\ Fields(i) = u \o w
  <2>1. CASE i.type = "MAP"
    <3> DEFINE u == <<Byte(0), String(i.name)>>
               w == writeArrIdx(i.idx)
    <3>1. Fields(i) = u \o w
      BY <2>1 DEF Fields, BinaryOps, UnaryOps, writeArg
    <3>2. IsVector(u) /\ Len(u) = 2 /\ u[1] = Byte(b)
      BY <2>1, TwoVector
    <3>3. IsVector(w)
      <4>1. FieldsOf(i) = {"type", "name", "idx"}
        BY <2>1, FieldsOfFamily
      <4>2. IsVector(i.idx)
        BY <4>1 DEF ReadsBack, IsArrIdx
      <4> QED BY <4>2, ArrIdxShape
    <3>4. Len(u) \in 1 .. 2
      BY <3>2
    <3> HIDE DEF u, w, b
    <3> QED BY <3>1, <3>2, <3>3, <3>4
  <2>2. CASE i.type = "RAW"
    <3> DEFINE u == <<Byte(1)>>
               w == writeConst(i.val)
    <3>1. Fields(i) = u \o w
      BY <2>2 DEF Fields, BinaryOps, UnaryOps, writeArg
    <3>2. IsVector(u) /\ Len(u) = 1 /\ u[1] = Byte(b)
      BY <2>2, OneVector
    <3>3. IsVector(w)
      BY TwoVector DEF writeConst
    <3>4. Len(u) \in 1 .. 2
      BY <3>2
    <3> HIDE DEF u, w, b
    <3> QED BY <3>1, <3>2, <3>3, <3>4
  <2> QED BY <2>1, <2>2 DEF ReadsBack
<1>2. PICK u, w : /\ IsVector(u) /\ Len(u) \in 1 .. 2 /\ u[1] = Byte(b)
                  /\ IsVector(w) /\ Fields(i) = u \o w
  BY <1>1
<1>3. /\ Len(u \o w) = Len(u) + Len(w)
      /\ \A k \in 1 .. Len(u) : (u \o w)[k] = u[k]
  BY <1>2, VectorConcat
<1>4. Len(w) \in Nat
  BY <1>2, VectorShape
<1>5. Len(Fields(i)) >= 1 /\ Fields(i)[1] = Byte(b)
  BY <1>2, <1>3, <1>4
<1>6. Announces(i, Byte(b))
  BY DEF Announces, Byte
<1> HIDE DEF b
<1> QED BY <1>5, <1>6

(* An instruction that was written is read, and nothing else. *)
LEMMA InstRead ==
  ASSUME IsVector(file), NEW i, ReadsBack(i), NEW k \in Places, At(Cells(i), k)
  PROVE  Reads(readInst(k), Kept(i), k, Len(Cells(i)))
<1> DEFINE L == Len(Fields(i))
           op == i.op
           S == readFields(op, k + 1)
<1>1. Len(file) \in Nat /\ DOMAIN file = 1 .. Len(file) /\ k \in Nat
  BY VectorShape DEF Places
<1>2. L \in Nat /\ Len(Cells(i)) = 1 + L /\ At(<<Opcode(op)>>, k) /\ At(Fields(i), k + 1)
  BY <1>1, CellsShape
<1>3. Reads(Cell(k, "opcode"), op, k, 1)
  <2>1. IsA(Opcode(op), "opcode") /\ Opcode(op)["opcode"] = op
    BY Bare
  <2> QED BY <2>1, <1>2, CellRead
<1>4. CASE k <= Len(file)
  <2> DEFINE g == Got(op, k + 1)
  <2>1. Cell(k, "opcode") = {g}
    BY <1>1, <1>3, <1>4 DEF Reads
  <2>2. g.val = op /\ g.next = k + 1
    BY DEF Got
  <2> HIDE DEF g
  <2>3. readInst(k) = readFields(g.val, g.next)
    BY <2>1 DEF readInst
  <2>4. readInst(k) = S
    BY <2>2, <2>3
  <2>5. k + 1 \in Places
    BY <1>1, <1>4 DEF Places
  <2>6. Reads(S, Kept(i), k + 1, L)
    <3> DEFINE n == k + 1
    <3>1. n \in Places /\ At(Fields(i), n)
      BY <1>2, <2>5
    <3>2. n = k + 1 /\ n \in Nat
      BY <1>1
    <3> HIDE DEF n, L
    <3>3. CASE n \in DOMAIN file
      <4>1. Announces(i, file[n])
        <5>1. CASE op = "ARG"
          <6>1. Len(Fields(i)) >= 1 /\ Announces(i, Fields(i)[1])
            BY <5>1, ArgFirst
          <6>2. file[n] = Fields(i)[1]
            <7>1. 1 \in 1 .. Len(Fields(i)) /\ n + 1 - 1 = n
              BY <6>1, <1>2, <3>2 DEF L
            <7> QED BY <7>1, <3>1, <3>3 DEF At
          <6> QED BY <6>1, <6>2
        <5>2. CASE op # "ARG"
          BY <5>2 DEF Announces
        <5> QED BY <5>1, <5>2
      <4>2. Reads(readFields(i.op, n), Kept(i), n, Len(Fields(i)))
        BY <3>1, <3>3, <4>1, FieldsOfInst
      <4> QED BY <4>2 DEF n, L
    <3>4. CASE n \notin DOMAIN file
      <4>1. CASE Announces(i, Byte(255))
        <5>1. Reads(readFields(i.op, n), Kept(i), n, Len(Fields(i)))
          BY <3>1, <3>4, <4>1, FieldsOfInst
        <5> QED BY <5>1 DEF n, L
      <4>2. CASE ~Announces(i, Byte(255))
        <5>1. op = "ARG"
          BY <4>2 DEF Announces
        <5>2. readFields("ARG", n) = {}
          BY <3>1, <3>4, ArgMissing
        <5>3. L >= 1
          BY <5>1, ArgFirst DEF L
        <5>4. ~ (n + L - 1 <= Len(file))
          BY <3>1, <3>2, <3>4, <5>3, <1>1, <1>2 DEF Places
        <5>5. Reads(readFields(op, n), Kept(i), n, L)
          BY <5>1, <5>2, <5>4 DEF Reads
        <5> QED BY <5>5 DEF n
      <4> QED BY <4>1, <4>2
    <3> QED BY <3>3, <3>4
  <2> HIDE DEF L, S
  <2> DEFINE m == Len(Cells(i))
  <2>7. k + 1 \in Nat /\ m \in Nat /\ (k + 1) + L = k + m
    BY <1>1, <1>2
  <2> HIDE DEF m
  <2>8. Reads(S, Kept(i), k, m)
    BY <2>6, <2>7, <1>1, <1>2, ReadsSame
  <2> QED BY <2>4, <2>8 DEF m
<1>5. CASE ~ (k <= Len(file))
  <2>1. Cell(k, "opcode") = {}
    BY <1>1, <1>3, <1>5 DEF Reads
  <2>2. ~ (k + Len(Cells(i)) - 1 <= Len(file))
    BY <1>1, <1>2, <1>5
  <2>3. readInst(k) = {}
    BY <2>1 DEF readInst
  <2> QED BY <2>2, <2>3 DEF Reads
<1> QED BY <1>4, <1>5

-----------------------------------------------------------------------------
(* The inductive invariant *)

HeaderOf(p) == [entry |-> p.entry, entry_end |-> p.entry_end, global_len |-> p.global_len]

(* Where the writer starts the instruction behind the first m. *)
Start(m) == IF m = 0 THEN HeaderCells + 1 ELSE starts[m] + Len(Cells(prog.code[m - 1]))

(* How far the two have come. *)
Stages ==
  /\ phase \in Phases
  /\ cut \in BOOLEAN
  /\ written \in 0 .. prog.size

(* The file has what was written, where it was written, as far as it goes; *)
(* only the cut can have taken something.                                  *)
Contents ==
  /\ IsVector(file) /\ IsVector(starts) /\ Len(starts) = written
  /\ At(writeHeader(prog), 1)
  /\ \A m \in 1 .. written :
       /\ starts[m] \in Nat \ {0} /\ starts[m] = Start(m - 1)
       /\ At(Cells(prog.code[m - 1]), starts[m])
  /\ Len(file) + 1 <= Start(written)
  /\ ~cut => \A m \in 0 .. written : Start(m) <= Len(file) + 1
  /\ phase = "writing" => ~cut
  /\ ~cut /\ phase # "writing" => written = prog.size

(* The instructions of the file that end in it are in front of the reader. *)
WholeOnesLoaded == \A m \in 1 .. written : Start(m) <= Len(file) + 1 => m <= Len(loaded)

(* The reader has the instructions in front of its place. *)
Progress ==
  /\ at \in 1 .. Len(file) + 1
  /\ IsVector(loaded) /\ Len(loaded) <= written
  /\ \A m \in 1 .. Len(loaded) : loaded[m] = Kept(prog.code[m - 1])
  /\ header = << >> \/ header = HeaderOf(prog)
  /\ phase \in {"writing", "closed"} => at = 1 /\ header = << >> /\ loaded = << >>
  /\ phase \in {"reading", "loaded", "astray"} => at = Start(Len(loaded)) /\ header = HeaderOf(prog)
  /\ phase = "loaded" => at = Len(file) + 1
  /\ phase \in {"astray", "misloaded", "exited"} => cut
  /\ phase \in {"astray", "misloaded"} => WholeOnesLoaded

(* The inductive invariant. *)
IInv == Writable(prog) => Stages /\ Contents /\ Progress

(* The cells of the header, and where they are. *)
LEMMA HeaderShape ==
  /\ HeaderCells = 5
  /\ IsVector(writeHeader(prog)) /\ Len(writeHeader(prog)) = 5
  /\ DOMAIN HeaderKinds = 1 .. 5
  /\ \A k \in 1 .. 5 : IsA(writeHeader(prog)[k], HeaderKinds[k])
  /\ writeHeader(prog)[1].byte = 194
  /\ writeHeader(prog)[3].int = prog.entry /\ writeHeader(prog)[4].int = prog.entry_end
  /\ writeHeader(prog)[5].int = prog.global_len
<1> DEFINE w == writeHeader(prog)
<1>1. /\ HeaderKinds[1] = "byte" /\ HeaderKinds[2] = "byte" /\ HeaderKinds[3] = "int"
      /\ HeaderKinds[4] = "int" /\ HeaderKinds[5] = "int"
      /\ Len(HeaderKinds) = 5 /\ DOMAIN HeaderKinds = 1 .. 5
  BY DEF HeaderKinds
<1>2. /\ w[1] = Byte(194) /\ w[2] = Byte(1) /\ w[3] = Long(prog.entry)
      /\ w[4] = Long(prog.entry_end) /\ w[5] = Long(prog.global_len)
      /\ IsVector(w) /\ Len(w) = 5
  BY DEF writeHeader, IsVector
<1> HIDE DEF w
<1>3. ASSUME NEW k \in 1 .. 5
      PROVE  IsA(w[k], HeaderKinds[k])
  <2>1. k = 1 \/ k = 2 \/ k = 3 \/ k = 4 \/ k = 5
    OBVIOUS
  <2> QED BY <2>1, <1>1, <1>2, Bare
<1> QED BY <1>1, <1>2, <1>3, Bare DEF HeaderCells, w

(* A file holds a header if it was not cut inside of it, and it is the one *)
(* that was written.                                                       *)
LEMMA HeaderRead ==
  ASSUME IsVector(file), At(writeHeader(prog), 1)
  PROVE  /\ HasHeader <=> 5 <= Len(file)
         /\ 5 <= Len(file) => /\ file[3].int = prog.entry /\ file[4].int = prog.entry_end
                              /\ file[5].int = prog.global_len
<1> DEFINE w == writeHeader(prog)
<1>1. Len(file) \in Nat /\ DOMAIN file = 1 .. Len(file)
  BY VectorShape
<1>2. /\ Len(w) = 5 /\ DOMAIN HeaderKinds = 1 .. 5
      /\ \A k \in 1 .. 5 : IsA(w[k], HeaderKinds[k])
      /\ w[1].byte = 194 /\ w[3].int = prog.entry /\ w[4].int = prog.entry_end
      /\ w[5].int = prog.global_len
  BY HeaderShape
<1>3. \A k \in 1 .. 5 : k \in DOMAIN file => file[k] = w[k]
  <2>1. \A j \in 1 .. Len(w) : 1 + j - 1 \in DOMAIN file => file[1 + j - 1] = w[j]
    BY DEF At
  <2>2. ASSUME NEW k \in 1 .. 5, k \in DOMAIN file
        PROVE  file[k] = w[k]
    <3>1. 1 + k - 1 = k
      BY <2>2
    <3> QED BY <2>1, <2>2, <3>1, <1>2
  <2> QED BY <2>2
<1> HIDE DEF w
<1>4. CASE 5 <= Len(file)
  <2>1. \A k \in 1 .. 5 : k \in DOMAIN file /\ file[k] = w[k]
    BY <1>1, <1>3, <1>4
  <2>2. \A k \in 1 .. 5 : Cell(k, HeaderKinds[k]) # {}
    BY <2>1, <1>2 DEF Cell, IsA
  <2>3. Signed
    <3>1. file[1].byte = 194
      BY <2>1, <1>2
    <3>2. IsA(w[1], "byte") /\ 1 \in DOMAIN file /\ file[1] = w[1]
      BY <2>1, <1>2 DEF HeaderKinds
    <3>3. Cell(1, "byte") = {Got(194, 2)}
      BY <3>1, <3>2 DEF Cell, IsA
    <3>4. Got(194, 2).val = 194
      BY DEF Got
    <3> QED BY <3>3, <3>4 DEF Signed
  <2>4. HasHeader
    BY <2>2, <2>3, <1>2 DEF HasHeader
  <2> QED BY <2>1, <2>4, <1>2, <1>4
<1>5. CASE ~ (5 <= Len(file))
  <2>1. Cell(5, HeaderKinds[5]) = {}
    BY <1>1, <1>5 DEF Cell
  <2>2. 5 \in DOMAIN HeaderKinds
    BY <1>2
  <2>3. ~HasHeader
    BY <2>1, <2>2 DEF HasHeader
  <2> QED BY <2>3, <1>5
<1> QED BY <1>4, <1>5

(* What is read back is an instruction again. *)
LEMMA KeptTyped ==
  ASSUME NEW i, ReadsBack(i)
  PROVE  WellTyped(Kept(i))
<1> DEFINE r == Kept(i)
<1>1. r.op = i.op /\ DOMAIN r = {"op"} \cup FieldsOf(i) /\ \A f \in FieldsOf(i) : r[f] = i[f]
  BY DEF Kept
<1> HIDE DEF r
<1>2. i.op \in Opcodes \ UnaryOps
  BY DEF ReadsBack, WellTyped
<1>3. FieldsOf(r) = FieldsOf(i) /\ "op" \notin FieldsOf(i)
  <2>1. CASE i.op \in BinaryOps
    BY <1>1, <2>1, FieldsOfFamily
  <2>2. CASE i.op = "ARG"
    <3>1. "type" \in FieldsOf(i)
      BY <2>2, FieldsOfFamily
    <3>2. r.type = i.type
      BY <3>1, <1>1
    <3> QED BY <3>2, <1>1, <2>2, FieldsOfFamily
  <2>3. CASE i.op \in DOMAIN Loads
    <3>1. FieldsOf(r) = Loads[i.op] /\ FieldsOf(i) = Loads[i.op]
      BY <1>1, <2>3, FieldsOfFamily
    <3>2. "op" \notin Loads[i.op]
      BY <2>3 DEF Loads
    <3> QED BY <3>1, <3>2
  <2>4. CASE i.op \in DOMAIN Stores
    <3>1. FieldsOf(r) = Stores[i.op] /\ FieldsOf(i) = Stores[i.op]
      BY <1>1, <2>4, FieldsOfFamily
    <3>2. "op" \notin Stores[i.op]
      BY <2>4 DEF Stores
    <3> QED BY <3>1, <3>2
  <2>5. CASE i.op \in DOMAIN Calls
    <3>1. FieldsOf(r) = Calls[i.op] /\ FieldsOf(i) = Calls[i.op]
      BY <1>1, <2>5, FieldsOfFamily
    <3>2. "op" \notin Calls[i.op]
      BY <2>5 DEF Calls
    <3> QED BY <3>1, <3>2
  <2>6. CASE i.op \in DOMAIN Jumps
    <3>1. FieldsOf(r) = Jumps[i.op] /\ FieldsOf(i) = Jumps[i.op]
      BY <1>1, <2>6, FieldsOfFamily
    <3>2. "op" \notin Jumps[i.op]
      BY <2>6 DEF Jumps
    <3> QED BY <3>1, <3>2
  <2>7. i.op \in Opcodes
    BY <1>2
  <2> QED BY <1>2, <2>7, <2>1, <2>2, <2>3, <2>4, <2>5, <2>6 DEF Opcodes
<1>4. DOMAIN r \ {"op"} = FieldsOf(r)
  BY <1>1, <1>3
<1> QED BY <1>1, <1>2, <1>4 DEF WellTyped, r

-----------------------------------------------------------------------------
(* Every step keeps the invariant *)

(* It holds of the header alone. *)
LEMMA InitInv ==
  ASSUME Init
  PROVE  IInv
<1> SUFFICES ASSUME Writable(prog)
             PROVE  Stages /\ Contents /\ Progress
  BY DEF IInv
<1>1. prog.size \in Nat
  BY DEF Writable
<1>2. IsVector(<< >>) /\ Len(<< >>) = 0
  BY DEF IsVector
<1>3. IsVector(file) /\ Len(file) = 5 /\ HeaderCells = 5
  BY HeaderShape DEF Init
<1>4. At(writeHeader(prog), 1)
  <2>1. \A j \in 1 .. Len(writeHeader(prog)) : 1 + j - 1 = j
    BY HeaderShape
  <2> QED BY <2>1 DEF Init, At
<1>5. Start(0) = 6
  BY <1>3 DEF Start
<1>6. Stages
  <2>1. phase = "writing" /\ cut = FALSE /\ written = 0
    BY DEF Init
  <2>2. 0 \in 0 .. prog.size
    BY <1>1
  <2> QED BY <2>1, <2>2 DEF Stages, Phases
<1>7. Contents
  BY <1>2, <1>3, <1>4, <1>5 DEF Contents, Init
<1>8. Progress
  BY <1>2, <1>3 DEF Progress, Init
<1> QED BY <1>6, <1>7, <1>8

(* The cells w are in the file f from cell k on, as far as f goes. *)
AtIn(f, w, k) == \A j \in 1 .. Len(w) : k + j - 1 \in DOMAIN f => f[k + j - 1] = w[j]

(* What is in a file as a whole stays in it when more is written. *)
LEMMA AtGrows ==
  ASSUME NEW f, IsVector(f), NEW w, Len(w) \in Nat, NEW k \in Nat \ {0}, AtIn(f, w, k),
         k + Len(w) <= Len(f) + 1, NEW v, IsVector(v)
  PROVE  AtIn(f \o v, w, k)
<1>1. Len(f) \in Nat /\ DOMAIN f = 1 .. Len(f)
  BY VectorShape
<1>2. \A j \in 1 .. Len(f) : (f \o v)[j] = f[j]
  BY VectorConcat
<1> DEFINE g == f \o v
<1> HIDE DEF g
<1>3. ASSUME NEW j \in 1 .. Len(w)
      PROVE  g[k + j - 1] = w[j]
  <2> DEFINE n == k + j - 1
  <2>1. n \in 1 .. Len(f)
    BY <1>1
  <2>2. f[n] = w[j]
    BY <2>1, <1>1 DEF AtIn
  <2> HIDE DEF n
  <2>3. g[n] = w[j]
    BY <2>1, <2>2, <1>2 DEF g
  <2> QED BY <2>3 DEF n
<1> QED BY <1>3 DEF AtIn, g

(* What is written last is there. *)
LEMMA AtLast ==
  ASSUME NEW f, IsVector(f), NEW v, IsVector(v)
  PROVE  AtIn(f \o v, v, Len(f) + 1)
<1>1. Len(f) \in Nat /\ \A j \in 1 .. Len(v) : (f \o v)[Len(f) + j] = v[j]
  BY VectorConcat, VectorShape
<1> DEFINE g == f \o v
<1> HIDE DEF g
<1>2. ASSUME NEW j \in 1 .. Len(v)
      PROVE  g[(Len(f) + 1) + j - 1] = v[j]
  <2>1. (Len(f) + 1) + j - 1 = Len(f) + j
    BY <1>1
  <2> QED BY <2>1, <1>1 DEF g
<1> QED BY <1>2 DEF AtIn, g

(* What is in a file is in what is left of it. *)
LEMMA AtShort ==
  ASSUME NEW f, IsVector(f), NEW w, NEW k, AtIn(f, w, k), NEW n \in 0 .. Len(f)
  PROVE  /\ IsVector(SubSeq(f, 1, n)) /\ Len(SubSeq(f, 1, n)) = n
         /\ AtIn(SubSeq(f, 1, n), w, k)
<1> DEFINE g == SubSeq(f, 1, n)
<1>1. Len(f) \in Nat /\ DOMAIN f = 1 .. Len(f) /\ n \in Nat
  BY VectorShape
<1>2. g = [j \in 1 .. n |-> g[j]] /\ \A j \in 1 .. n : g[j] = f[j]
  <2>1. f \in Seq({f[j] : j \in DOMAIN f})
    BY DEF IsVector
  <2> DEFINE S == {f[j] : j \in DOMAIN f}
  <2> HIDE DEF S
  <2> QED BY <2>1, <1>1 DEF S
<1> HIDE DEF g
<1>3. IsVector(g) /\ Len(g) = n /\ DOMAIN g = 1 .. n
  BY <1>1, <1>2, Vector
<1>4. AtIn(g, w, k)
  <2>1. ASSUME NEW j \in 1 .. Len(w), k + j - 1 \in DOMAIN g
        PROVE  g[k + j - 1] = w[j]
    <3> DEFINE m == k + j - 1
    <3>1. m \in 1 .. n /\ m \in DOMAIN f
      BY <2>1, <1>1, <1>3
    <3>2. f[m] = w[j]
      BY <3>1 DEF AtIn
    <3> HIDE DEF m
    <3>3. g[m] = w[j]
      BY <3>1, <3>2, <1>2
    <3> QED BY <3>3 DEF m
  <2> QED BY <2>1 DEF AtIn
<1> QED BY <1>3, <1>4 DEF g

(* Instructions start at cells. *)
LEMMA StartShape ==
  ASSUME Writable(prog), Stages, Contents, NEW m \in 0 .. written
  PROVE  Start(m) \in Nat
<1>1. written \in 0 .. prog.size /\ prog.size \in Nat
  BY DEF Stages, Writable
<1>2. CASE m = 0
  BY <1>2, HeaderShape DEF Start
<1>3. CASE m # 0
  <2>1. starts[m] \in Nat
    BY <1>3, <1>1 DEF Contents
  <2>2. ReadsBack(prog.code[m - 1])
    BY <1>3, <1>1 DEF Writable
  <2>3. Len(Cells(prog.code[m - 1])) \in Nat
    BY <2>2, CellsShape
  <2> QED BY <2>1, <2>3, <1>3 DEF Start
<1> QED BY <1>2, <1>3

(* Every instruction takes cells, so that a later one starts further on. *)
LEMMA StartGrows ==
  ASSUME Writable(prog), Stages, Contents,
         NEW m \in 0 .. written, NEW n \in 0 .. written, m < n
  PROVE  Start(m) < Start(n)
<1>1. written \in 0 .. prog.size /\ prog.size \in Nat /\ written \in Nat
  BY DEF Stages, Writable
<1>2. ASSUME NEW j \in 1 .. written
      PROVE  Start(j - 1) < Start(j)
  <2>1. Start(j) = starts[j] + Len(Cells(prog.code[j - 1]))
    <3>1. j # 0
      OBVIOUS
    <3> QED BY <3>1 DEF Start
  <2>5. starts[j] = Start(j - 1)
    BY DEF Contents
  <2>2. ReadsBack(prog.code[j - 1])
    BY <1>1 DEF Writable
  <2>3. Len(Cells(prog.code[j - 1])) \in Nat \ {0}
    BY <2>2, CellsShape
  <2>4. Start(j - 1) \in Nat
    <3>1. j - 1 \in 0 .. written
      BY <1>1
    <3> QED BY <3>1, StartShape
  <2> QED BY <2>1, <2>3, <2>4, <2>5
<1> DEFINE S == {d \in Nat : m + d + 1 <= written => Start(m) < Start(m + d + 1)}
<1>3. 0 \in S
  <2>1. m + 0 + 1 = m + 1 /\ m + 0 + 1 - 1 = m /\ m \in Nat
    BY <1>1
  <2>2. m + 1 <= written => m + 1 \in 1 .. written /\ m + 1 - 1 = m
    BY <1>1
  <2>3. m + 1 <= written => Start(m) < Start(m + 1)
    BY <2>2, <1>2
  <2> QED BY <2>1, <2>3
<1>4. ASSUME NEW d \in Nat, d \in S
      PROVE  d + 1 \in S
  <2> SUFFICES ASSUME m + (d + 1) + 1 <= written
               PROVE  Start(m) < Start(m + (d + 1) + 1)
    OBVIOUS
  <2> DEFINE j == m + (d + 1) + 1
             i == m + d + 1
  <2>1. j \in 1 .. written /\ j - 1 = i /\ i <= written /\ i \in 0 .. written
    BY <1>1
  <2>2. Start(m) < Start(i)
    BY <2>1, <1>4
  <2> HIDE DEF i, j
  <2>3. Start(i) < Start(j)
    BY <2>1, <1>2
  <2>4. Start(m) \in Nat /\ Start(i) \in Nat /\ Start(j) \in Nat
    BY <2>1, <1>1, StartShape
  <2>5. Start(m) < Start(j)
    BY <2>2, <2>3, <2>4
  <2> QED BY <2>5 DEF j
<1>5. n - m - 1 \in S
  <2> HIDE DEF S
  <2>1. Nat \subseteq S
    BY <1>3, <1>4, Induction
  <2>2. n - m - 1 \in Nat
    BY <1>1
  <2> QED BY <2>1, <2>2
<1>6. m + (n - m - 1) + 1 = n /\ n <= written
  BY <1>1
<1> QED BY <1>5, <1>6

(* What ends in the file ends in front of a place where an instruction     *)
(* starts or would start.                                                  *)
LEMMA StartBefore ==
  ASSUME Writable(prog), Stages, Contents,
         NEW m \in 0 .. written, NEW n \in 0 .. written, Start(m) < Start(n)
  PROVE  m < n
<1>1. written \in Nat /\ m \in Nat /\ n \in Nat
  BY DEF Stages, Writable
<1>2. Start(m) \in Nat /\ Start(n) \in Nat
  BY StartShape
<1>3. m = n => FALSE
  BY <1>2
<1>4. n < m => FALSE
  <2>1. n < m => Start(n) < Start(m)
    BY StartGrows
  <2> QED BY <2>1, <1>2
<1> QED BY <1>1, <1>3, <1>4

(* writeInst appends the cells of one instruction. *)
LEMMA WriteInstInv ==
  ASSUME Writable(prog), Stages, Contents, Progress, WriteInst
  PROVE  Stages' /\ Contents' /\ Progress'
<1> DEFINE i == prog.code[written]
           c == Cells(i)
           l == Len(file) + 1
<1>1. /\ phase = "writing" /\ ~cut /\ written \in Nat /\ written < prog.size /\ prog.size \in Nat
      /\ file' = file \o c /\ starts' = Append(starts, l) /\ written' = written + 1
      /\ prog' = prog /\ phase' = phase /\ cut' = cut /\ at' = at /\ header' = header
      /\ loaded' = loaded
  BY DEF WriteInst, Contents, Stages, Writable
<1>2. ReadsBack(i)
  BY <1>1 DEF Writable
<1>3. IsVector(c) /\ Len(c) \in Nat /\ Len(c) >= 1
  <2> HIDE DEF i
  <2>1. IsVector(Cells(i)) /\ Len(Fields(i)) \in Nat /\ Len(Cells(i)) = 1 + Len(Fields(i))
    BY <1>2, CellsShape
  <2> QED BY <2>1
<1>4. IsVector(file) /\ Len(file) \in Nat /\ IsVector(starts) /\ Len(starts) = written
  BY VectorShape DEF Contents
<1> HIDE DEF c
<1>5. /\ IsVector(file') /\ Len(file') = Len(file) + Len(c) /\ Len(file') \in Nat
  <2>1. IsVector(file \o c) /\ Len(file \o c) = Len(file) + Len(c)
    BY <1>3, <1>4, VectorConcat
  <2> QED BY <2>1, <1>1, <1>3, <1>4
<1>6. /\ IsVector(starts') /\ Len(starts') = written + 1
      /\ \A m \in 1 .. written : starts'[m] = starts[m]
      /\ starts'[written + 1] = l
  <2>1. /\ IsVector(Append(starts, l)) /\ Len(Append(starts, l)) = Len(starts) + 1
        /\ \A k \in 1 .. Len(starts) : Append(starts, l)[k] = starts[k]
        /\ Append(starts, l)[Len(starts) + 1] = l
    BY <1>4, VectorAppend
  <2> QED BY <2>1, <1>1, <1>4
<1>0. PICK n : n = written
  OBVIOUS
<1>7. \A m \in 0 .. n : Start(m)' = Start(m)
  <2>1. ASSUME NEW m \in 0 .. n
        PROVE  Start(m)' = Start(m)
    <3>1. CASE m = 0
      BY <3>1 DEF Start
    <3>2. CASE m # 0
      <4>1. starts'[m] = starts[m]
        BY <3>2, <1>0, <1>1, <1>6
      <4> QED BY <4>1, <1>1, <3>2 DEF Start
    <3> QED BY <3>1, <3>2
  <2> QED BY <2>1
<1>8. Start(written) = l
  <2>1. Start(written) <= Len(file) + 1 /\ Len(file) + 1 <= Start(written)
    BY <1>1 DEF Contents
  <2>2. Start(written) \in Nat
    BY <1>1, StartShape
  <2> QED BY <2>1, <2>2, <1>4
<1>9. Start(written)' = Len(file') + 1
  <2>1. Start(written)' = starts'[written + 1] + Len(c)
    <3>1. written' # 0 /\ written' - 1 = written
      BY <1>1
    <3> QED BY <3>1, <1>1 DEF Start, c
  <2> QED BY <2>1, <1>3, <1>4, <1>5, <1>6
<1>10. HeaderCells = 5 /\ Start(0) = 6 /\ Len(writeHeader(prog)) = 5
  BY HeaderShape DEF Start
<1>11. AtIn(file', writeHeader(prog), 1)
  <2>1. AtIn(file, writeHeader(prog), 1)
    BY DEF Contents, At, AtIn
  <2>2. 6 <= Len(file) + 1
    BY <1>1, <1>10 DEF Contents
  <2> DEFINE w == writeHeader(prog)
  <2>4. Len(w) \in Nat /\ 1 + Len(w) <= Len(file) + 1
    BY <2>2, <1>4, <1>10
  <2> HIDE DEF w
  <2>5. AtIn(file \o c, w, 1)
    BY <2>1, <2>4, <1>3, <1>4, AtGrows DEF w
  <2>3. AtIn(file \o c, writeHeader(prog), 1)
    BY <2>5 DEF w
  <2> QED BY <2>3, <1>1
<1>12. ASSUME NEW m \in 1 .. written
       PROVE  /\ starts'[m] \in Nat \ {0} /\ starts'[m] = Start(m - 1)
              /\ AtIn(file', Cells(prog.code[m - 1]), starts'[m])
  <2> DEFINE w == Cells(prog.code[m - 1])
  <2>1. starts[m] \in Nat \ {0} /\ starts[m] = Start(m - 1) /\ AtIn(file, w, starts[m])
    BY DEF Contents, At, AtIn
  <2>2. ReadsBack(prog.code[m - 1])
    BY <1>1 DEF Writable
  <2>3. Len(w) \in Nat
    BY <2>2, CellsShape
  <2>4. Start(m) <= Len(file) + 1 /\ Start(m) = starts[m] + Len(w)
    BY <1>1 DEF Contents, Start
  <2> HIDE DEF w
  <2>6. AtIn(file \o c, w, starts[m])
    BY <2>1, <2>3, <2>4, <1>3, <1>4, AtGrows
  <2>7. starts'[m] = starts[m]
    BY <1>6
  <2> QED BY <2>1, <2>6, <2>7, <1>1 DEF w
<1>13. AtIn(file', c, l)
  <2>1. AtIn(file \o c, c, Len(file) + 1)
    BY <1>3, <1>4, AtLast
  <2> QED BY <2>1, <1>1
<1>14. Stages'
  BY <1>1 DEF Stages
<1>15. Contents'
  <2>1. At(writeHeader(prog), 1)'
    <3>1. writeHeader(prog)' = writeHeader(prog)
      BY <1>1 DEF writeHeader
    <3> QED BY <1>11, <3>1 DEF At, AtIn
  <2>2. ASSUME NEW m \in 1 .. written + 1
        PROVE  /\ starts'[m] \in Nat \ {0} /\ starts'[m] = Start(m - 1)'
               /\ At(Cells(prog.code[m - 1]), starts[m])'
    <3>1. CASE m \in 1 .. written
      <4>1. /\ starts'[m] \in Nat \ {0} /\ starts'[m] = Start(m - 1)
            /\ AtIn(file', Cells(prog.code[m - 1]), starts'[m])
        BY <3>1, <1>12
      <4>2. Start(m - 1)' = Start(m - 1)
        <5>1. m - 1 \in 0 .. written
          BY <3>1, <1>1
        <5> QED BY <5>1, <1>0, <1>7
      <4> QED BY <4>1, <4>2, <1>1 DEF At, AtIn
    <3>2. CASE m = written + 1
      <4>1. m - 1 = n /\ n \in 0 .. n
        BY <3>2, <1>0, <1>1
      <4>2. Start(m - 1)' = Start(m - 1)
        BY <4>1, <1>7
      <4>3. Start(m - 1) = l
        BY <4>1, <1>0, <1>8
      <4>4. starts'[m] = l /\ l \in Nat \ {0}
        BY <3>2, <1>4, <1>6
      <4>5. Cells(prog'.code[m - 1]) = c
        BY <4>1, <1>0, <1>1 DEF c
      <4>6. At(Cells(prog.code[m - 1]), starts[m])'
        BY <4>4, <4>5, <1>13 DEF At, AtIn
      <4> QED BY <4>2, <4>3, <4>4, <4>6
    <3>3. m \in 1 .. written \/ m = written + 1
      BY <1>1
    <3> QED BY <3>1, <3>2, <3>3
  <2>3. \A m \in 0 .. written' : Start(m)' <= Len(file') + 1
    <3>1. ASSUME NEW m \in 0 .. written'
          PROVE  Start(m)' <= Len(file') + 1
      <4>1. CASE m \in 0 .. written
        <5>1. Start(m)' = Start(m) /\ Start(m) <= Len(file) + 1
          BY <4>1, <1>0, <1>1, <1>7 DEF Contents
        <5>2. Start(m) \in Nat
          BY <4>1, StartShape
        <5> QED BY <5>1, <5>2, <1>3, <1>4, <1>5
      <4>2. CASE m = written'
        BY <4>2, <1>9, <1>5
      <4> QED BY <4>1, <4>2, <1>1
    <3> QED BY <3>1
  <2> QED BY <2>1, <2>2, <2>3, <1>1, <1>5, <1>6, <1>9 DEF Contents
<1>16. Progress'
  BY <1>1, <1>4, <1>5 DEF Progress
<1> QED BY <1>14, <1>15, <1>16

(* A step that leaves what was written alone. *)
LEMMA ContentsStay ==
  ASSUME Contents, UNCHANGED <<prog, file, starts, written, cut>>,
         phase' # "writing", ~cut => written = prog.size
  PROVE  Contents' /\ \A m : Start(m)' = Start(m)
<1>1. ASSUME NEW m
      PROVE  Start(m)' = Start(m)
  BY DEF Start
<1>2. Contents'
  BY <1>1 DEF Contents, At, writeHeader
<1> QED BY <1>1, <1>2

(* Closing changes no cell. *)
LEMMA CloseInv ==
  ASSUME Writable(prog), Stages, Contents, Progress, Close
  PROVE  Stages' /\ Contents' /\ Progress'
<1>1. /\ UNCHANGED <<prog, file, starts, written, cut, at, header, loaded>>
      /\ phase = "writing" /\ phase' = "closed" /\ written = prog.size
  BY DEF Close
<1>2. Contents'
  BY <1>1, ContentsStay
<1>3. Stages'
  BY <1>1 DEF Stages, Phases
<1>4. Progress'
  BY <1>1 DEF Progress
<1> QED BY <1>2, <1>3, <1>4

(* A file cut short still begins as it would have. *)
LEMMA DieInv ==
  ASSUME Writable(prog), Stages, Contents, Progress, Die
  PROVE  Stages' /\ Contents' /\ Progress'
<1>1. PICK n \in 0 .. Len(file) : file' = SubSeq(file, 1, n)
  BY DEF Die
<1>2. /\ UNCHANGED <<prog, starts, written, at, header, loaded>>
      /\ phase = "writing" /\ phase' = "closed" /\ cut' = TRUE
  BY DEF Die
<1>3. IsVector(file) /\ Len(file) \in Nat
  BY VectorShape DEF Contents
<1>4. /\ IsVector(file') /\ Len(file') = n
      /\ \A w, k : AtIn(file, w, k) => AtIn(file', w, k)
  <2>1. ASSUME NEW w, NEW k, AtIn(file, w, k)
        PROVE  AtIn(file', w, k)
    BY <2>1, <1>1, <1>3, AtShort
  <2>2. AtIn(file, << >>, 1)
    BY DEF AtIn
  <2>3. IsVector(file') /\ Len(file') = n
    BY <2>2, <1>1, <1>3, AtShort
  <2> QED BY <2>1, <2>3
<1>5. Stages'
  BY <1>2 DEF Stages, Phases
<1>6. Contents'
  <2>1. At(writeHeader(prog), 1)'
    <3>1. AtIn(file', writeHeader(prog), 1)
      BY <1>4 DEF Contents, At, AtIn
    <3>2. writeHeader(prog)' = writeHeader(prog)
      BY <1>2 DEF writeHeader
    <3> QED BY <3>1, <3>2 DEF At, AtIn
  <2>2. ASSUME NEW m
        PROVE  Start(m)' = Start(m)
    BY <1>2 DEF Start
  <2>3. ASSUME NEW m \in 1 .. written
        PROVE  /\ starts'[m] \in Nat \ {0} /\ starts'[m] = Start(m - 1)'
               /\ At(Cells(prog.code[m - 1]), starts[m])'
    <3>1. /\ starts[m] \in Nat \ {0} /\ starts[m] = Start(m - 1)
          /\ AtIn(file, Cells(prog.code[m - 1]), starts[m])
      BY DEF Contents, At, AtIn
    <3>2. AtIn(file', Cells(prog.code[m - 1]), starts[m])
      BY <3>1, <1>4
    <3> QED BY <3>1, <3>2, <2>2, <1>2 DEF At, AtIn
  <2>4. Len(file') + 1 <= Start(written)
    <3>1. Start(written) \in Nat /\ Len(file) + 1 <= Start(written)
      <4>1. written \in 0 .. written
        BY DEF Stages, Writable
      <4> QED BY <4>1, StartShape DEF Contents
    <3> QED BY <3>1, <1>1, <1>3, <1>4
  <2>5. Start(written)' = Start(written)
    BY <1>2 DEF Start
  <2> QED BY <2>1, <2>3, <2>4, <2>5, <1>2, <1>4 DEF Contents
<1>7. Progress'
  <2>1. at' \in 1 .. Len(file') + 1
    BY <1>1, <1>2, <1>3, <1>4 DEF Progress
  <2> QED BY <2>1, <1>2 DEF Progress
<1> QED BY <1>5, <1>6, <1>7

(* The header is read, and the first instruction stands behind it. *)
LEMMA ReadHeaderInv ==
  ASSUME Writable(prog), Stages, Contents, Progress, ReadHeader
  PROVE  Stages' /\ Contents' /\ Progress'
<1>1. /\ UNCHANGED <<prog, file, starts, written, cut, loaded>>
      /\ phase = "closed" /\ loaded = << >> /\ header = << >> /\ at = 1
      /\ ~cut => written = prog.size
  BY DEF ReadHeader, Progress, Contents
<1>2. IsVector(file) /\ Len(file) \in Nat /\ At(writeHeader(prog), 1)
  BY VectorShape DEF Contents
<1>3. /\ HasHeader <=> 5 <= Len(file)
      /\ 5 <= Len(file) => /\ file[3].int = prog.entry /\ file[4].int = prog.entry_end
                           /\ file[5].int = prog.global_len
  BY <1>2, HeaderRead
<1>4. Start(0) = 6 /\ HeaderCells = 5
  BY HeaderShape DEF Start
<1>5. Len(loaded) = 0
  BY <1>1
<1>6. header' = HeaderOf(prog) /\ at' = 6 /\ phase' = "reading" /\ 5 <= Len(file)
  BY <1>3, <1>4 DEF ReadHeader, HeaderOf
<1>7. Contents' /\ Start(0)' = Start(0)
  BY <1>6, <1>1, ContentsStay
<1>8. Stages'
  BY <1>6, <1>1 DEF Stages, Phases
<1>9. HeaderOf(prog)' = HeaderOf(prog)
  BY <1>1 DEF HeaderOf
<1>10. at' \in 1 .. Len(file') + 1
  BY <1>6, <1>1, <1>2
<1>11. at' = Start(Len(loaded))'
  BY <1>6, <1>7, <1>1, <1>4, <1>5
<1>12. Progress'
  BY <1>6, <1>9, <1>10, <1>11, <1>1 DEF Progress
<1> QED BY <1>7, <1>8, <1>12

(* Only a file that was cut has no header, and then no instruction. *)
LEMMA ReadTornHeaderInv ==
  ASSUME Writable(prog), Stages, Contents, Progress, ReadTornHeader
  PROVE  Stages' /\ Contents' /\ Progress'
<1>1. /\ UNCHANGED <<prog, file, written, starts, cut, at, header, loaded>>
      /\ phase = "closed" /\ phase' \in {"misloaded", "exited"} /\ ~HasHeader
      /\ ~cut => written = prog.size
  BY DEF ReadTornHeader, Contents
<1>2. /\ IsVector(file) /\ Len(file) \in Nat /\ At(writeHeader(prog), 1)
      /\ written \in Nat
  BY VectorShape DEF Contents, Stages, Writable
<1>3. Len(file) < 5
  BY <1>1, <1>2, HeaderRead
<1>4. Start(0) = 6
  BY HeaderShape DEF Start
<1>5. cut
  <2>1. 0 \in 0 .. written
    BY <1>2
  <2>2. ~cut => Start(0) <= Len(file) + 1
    BY <2>1 DEF Contents
  <2> QED BY <2>2, <1>2, <1>3, <1>4
<1>6. WholeOnesLoaded
  <2>1. ASSUME NEW m \in 1 .. written
        PROVE  ~ (Start(m) <= Len(file) + 1)
    <3>1. m \in 0 .. written /\ 0 \in 0 .. written /\ 0 < m
      BY <1>2
    <3>2. Start(0) < Start(m) /\ Start(m) \in Nat
      BY <3>1, StartGrows, StartShape
    <3> QED BY <3>2, <1>2, <1>3, <1>4
  <2> QED BY <2>1 DEF WholeOnesLoaded
<1>7. Contents' /\ \A m : Start(m)' = Start(m)
  BY <1>1, ContentsStay
<1>8. Stages'
  BY <1>1 DEF Stages, Phases
<1>9. Progress'
  <2>1. HeaderOf(prog)' = HeaderOf(prog)
    BY <1>1 DEF HeaderOf
  <2>2. WholeOnesLoaded'
    BY <1>1, <1>6, <1>7 DEF WholeOnesLoaded
  <2> QED BY <2>1, <2>2, <1>1, <1>5 DEF Progress
<1> QED BY <1>7, <1>8, <1>9

(* The instruction the reader is at: the next that was written. *)
NextInst == prog.code[Len(loaded)]

(* Where the reader stands there is an instruction of the program, or its beginning. *)
LEMMA AtInst ==
  ASSUME Writable(prog), Stages, Contents, Progress, phase = "reading", ~AtEnd
  PROVE  /\ Len(loaded) \in Nat /\ Len(loaded) < written
         /\ ReadsBack(NextInst)
         /\ Start(Len(loaded) + 1) = at + Len(Cells(NextInst))
         /\ Reads(readInst(at), Kept(NextInst), at, Len(Cells(NextInst)))
<1>1. /\ IsVector(loaded) /\ Len(loaded) \in Nat /\ Len(loaded) <= written
      /\ at \in Nat /\ at <= Len(file) /\ at = Start(Len(loaded))
      /\ IsVector(file) /\ Len(file) \in Nat /\ at \in Places
      /\ written \in 0 .. prog.size /\ prog.size \in Nat
  BY VectorShape DEF Progress, Contents, Stages, Writable, AtEnd, Places
<1>2. Len(loaded) < written
  <2>1. ASSUME Len(loaded) = written
        PROVE  FALSE
    BY <2>1, <1>1 DEF Contents
  <2> QED BY <2>1, <1>1
<1> DEFINE l == Len(loaded)
           m == l + 1
<1>3. m \in 1 .. written /\ m - 1 = l /\ m # 0 /\ l \in 0 .. prog.size - 1
  BY <1>1, <1>2
<1>4. ReadsBack(NextInst)
  BY <1>3 DEF Writable, NextInst
<1>5. starts[m] = at /\ At(Cells(NextInst), at) /\ Start(m) = starts[m] + Len(Cells(NextInst))
  <2>1. starts[m] = Start(m - 1) /\ At(Cells(prog.code[m - 1]), starts[m])
    BY <1>3 DEF Contents
  <2>2. Start(m) = starts[m] + Len(Cells(prog.code[m - 1]))
    BY <1>3 DEF Start
  <2>3. prog.code[m - 1] = NextInst
    BY <1>3 DEF NextInst
  <2>4. Start(m - 1) = at
    BY <1>1, <1>3
  <2> HIDE DEF m
  <2> QED BY <2>1, <2>2, <2>3, <2>4
<1>6. Reads(readInst(at), Kept(NextInst), at, Len(Cells(NextInst)))
  BY <1>1, <1>4, <1>5, InstRead
<1> QED BY <1>1, <1>2, <1>4, <1>5, <1>6

(* The reader takes one instruction and stands behind it. *)
LEMMA ReadInstInv ==
  ASSUME Writable(prog), Stages, Contents, Progress, ReadInst
  PROVE  Stages' /\ Contents' /\ Progress'
<1> DEFINE i == NextInst
           n == Len(Cells(i))
           e == at + n
           l == Len(loaded)
<1>1. /\ UNCHANGED <<prog, file, written, starts, phase, cut, header>>
      /\ phase = "reading" /\ ~AtEnd
      /\ ~cut => written = prog.size
  BY DEF ReadInst, Contents
<1>2. /\ l \in Nat /\ l < written /\ ReadsBack(i)
      /\ Start(l + 1) = e /\ Reads(readInst(at), Kept(i), at, n)
  BY <1>1, AtInst
<1>3. n \in Nat \ {0} /\ at \in Nat /\ Len(file) \in Nat /\ e \in Nat /\ e # 0
  <2>1. n \in Nat \ {0}
    BY <1>2, CellsShape
  <2>2. at \in Nat /\ Len(file) \in Nat
    BY VectorShape DEF Progress, Contents
  <2> HIDE DEF n
  <2> QED BY <2>1, <2>2
<1> HIDE DEF i, n
<1>4. PICK r \in readInst(at) : loaded' = Append(loaded, r.val) /\ at' = r.next
  BY DEF ReadInst
<1>5. e - 1 <= Len(file) /\ r = Got(Kept(i), e)
  BY <1>2, <1>3, <1>4 DEF Reads
<1>6. loaded' = Append(loaded, Kept(i)) /\ at' = e
  BY <1>4, <1>5 DEF Got
<1> HIDE DEF e
<1>7. IsVector(loaded)
  BY DEF Progress
<1>8. /\ IsVector(loaded') /\ Len(loaded') = l + 1
      /\ \A m \in 1 .. l : loaded'[m] = loaded[m]
      /\ loaded'[l + 1] = Kept(i)
  BY <1>6, <1>7, VectorAppend
<1>9. Contents' /\ \A m : Start(m)' = Start(m)
  BY <1>1, ContentsStay
<1>10. Stages'
  BY <1>1 DEF Stages
<1>11. ASSUME NEW m \in 1 .. l + 1
       PROVE  loaded'[m] = Kept(prog'.code[m - 1])
  <2>1. CASE m \in 1 .. l
    <3>1. loaded[m] = Kept(prog.code[m - 1])
      BY <2>1 DEF Progress
    <3> QED BY <3>1, <2>1, <1>1, <1>8
  <2>2. CASE m = l + 1
    <3>1. m - 1 = l
      BY <2>2, <1>2
    <3>2. prog.code[m - 1] = i
      BY <3>1 DEF i, NextInst
    <3> QED BY <3>2, <2>2, <1>1, <1>8
  <2>3. m \in 1 .. l \/ m = l + 1
    BY <1>2
  <2> QED BY <2>1, <2>2, <2>3
<1>12. Start(Len(loaded))' = e
  <2>1. PICK m : m = l + 1
    OBVIOUS
  <2>2. Start(m)' = e
    <3>1. Start(m)' = Start(m)
      BY <1>9
    <3> QED BY <3>1, <2>1, <1>2
  <2>3. Len(loaded)' = m
    BY <2>1, <1>8
  <2>4. Start(Len(loaded))' = Start(m)'
    BY <2>3 DEF Start
  <2> QED BY <2>2, <2>4
<1>13. at' \in 1 .. Len(file') + 1
  BY <1>1, <1>3, <1>5, <1>6
<1>14. Len(loaded') <= written'
  <2>1. written \in Nat
    BY DEF Stages, Writable
  <2> QED BY <2>1, <1>1, <1>2, <1>8
<1>15. header' = HeaderOf(prog)'
  BY <1>1 DEF Progress, HeaderOf
<1>16. Progress'
  BY <1>1, <1>6, <1>8, <1>11, <1>12, <1>13, <1>14, <1>15 DEF Progress
<1> QED BY <1>9, <1>10, <1>16

(* Only a file that was cut has no instruction where the reader stands,    *)
(* and then it is the one that the file ends in.                           *)
LEMMA GoAstrayInv ==
  ASSUME Writable(prog), Stages, Contents, Progress, GoAstray
  PROVE  Stages' /\ Contents' /\ Progress'
<1>1. /\ UNCHANGED <<prog, file, written, starts, cut, at, header, loaded>>
      /\ phase = "reading" /\ ~AtEnd /\ readInst(at) = {} /\ phase' = "astray"
      /\ ~cut => written = prog.size
  BY DEF GoAstray, Contents
<1> DEFINE n == Len(Cells(NextInst))
           l == Len(loaded)
<1>2. /\ l \in Nat /\ l < written /\ ReadsBack(NextInst)
      /\ Start(l + 1) = at + n /\ Reads(readInst(at), Kept(NextInst), at, n)
  BY <1>1, AtInst
<1>3. n \in Nat \ {0} /\ at \in Nat /\ Len(file) \in Nat
  <2>1. n \in Nat \ {0}
    BY <1>2, CellsShape
  <2>2. at \in Nat /\ Len(file) \in Nat
    BY VectorShape DEF Progress, Contents
  <2> HIDE DEF n
  <2> QED BY <2>1, <2>2
<1> HIDE DEF n
<1>4. ~ (at + n - 1 <= Len(file))
  BY <1>1, <1>2 DEF Reads
<1>5. cut
  <2>1. ASSUME ~cut
        PROVE  FALSE
    <3>1. l + 1 \in 0 .. written
      BY <1>2 DEF Stages, Writable
    <3>2. Start(l + 1) <= Len(file) + 1
      BY <2>1, <3>1 DEF Contents
    <3> QED BY <3>2, <1>2, <1>3, <1>4
  <2> QED BY <2>1
<1>6. WholeOnesLoaded
  <2>1. ASSUME NEW m \in 1 .. written, Start(m) <= Len(file) + 1
        PROVE  m <= l
    <3>1. written \in Nat /\ l + 1 \in 0 .. written /\ m \in 0 .. written
      BY <1>2 DEF Stages, Writable
    <3>2. Start(m) \in Nat
      BY <3>1, StartShape
    <3>3. Start(m) < Start(l + 1)
      BY <2>1, <3>2, <1>2, <1>3, <1>4
    <3>4. m < l + 1
      BY <3>1, <3>3, StartBefore
    <3> QED BY <3>1, <3>4, <1>2
  <2> QED BY <2>1 DEF WholeOnesLoaded
<1>7. Contents' /\ \A m : Start(m)' = Start(m)
  BY <1>1, ContentsStay
<1>8. Stages'
  BY <1>1 DEF Stages, Phases
<1>9. Progress'
  <2>1. HeaderOf(prog)' = HeaderOf(prog)
    BY <1>1 DEF HeaderOf
  <2>2. WholeOnesLoaded'
    BY <1>1, <1>6, <1>7 DEF WholeOnesLoaded
  <2>3. Start(Len(loaded))' = Start(Len(loaded))
    BY <1>1 DEF Start
  <2> QED BY <2>1, <2>2, <2>3, <1>1, <1>5 DEF Progress
<1> QED BY <1>7, <1>8, <1>9

(* What was loaded in front of the cut stays. *)
LEMMA EndAstrayInv ==
  ASSUME Writable(prog), Stages, Contents, Progress, EndAstray
  PROVE  Stages' /\ Contents' /\ Progress'
<1>1. /\ UNCHANGED <<prog, file, written, starts, cut, at, header, loaded>>
      /\ phase = "astray" /\ phase' \in {"misloaded", "exited"}
      /\ ~cut => written = prog.size
  BY DEF EndAstray, Contents
<1>2. Contents' /\ \A m : Start(m)' = Start(m)
  BY <1>1, ContentsStay
<1>3. Stages'
  BY <1>1 DEF Stages, Phases
<1>4. Progress'
  <2>1. HeaderOf(prog)' = HeaderOf(prog)
    BY <1>1 DEF HeaderOf
  <2>2. WholeOnesLoaded'
    BY <1>1, <1>2 DEF Progress, WholeOnesLoaded
  <2> QED BY <2>1, <2>2, <1>1 DEF Progress
<1> QED BY <1>2, <1>3, <1>4

(* At the end of the file the reader stops. *)
LEMMA FinishInv ==
  ASSUME Writable(prog), Stages, Contents, Progress, Finish
  PROVE  Stages' /\ Contents' /\ Progress'
<1>1. /\ UNCHANGED <<prog, file, written, starts, cut, at, header, loaded>>
      /\ phase = "reading" /\ AtEnd /\ phase' = "loaded"
      /\ ~cut => written = prog.size
  BY DEF Finish, Contents
<1>2. Contents' /\ \A m : Start(m)' = Start(m)
  BY <1>1, ContentsStay
<1>3. Stages'
  BY <1>1 DEF Stages, Phases
<1>4. HeaderOf(prog)' = HeaderOf(prog)
  BY <1>1 DEF HeaderOf
<1>5. at = Len(file) + 1
  <2>1. Len(file) \in Nat /\ at \in 1 .. Len(file) + 1
    BY VectorShape DEF Progress, Contents
  <2> QED BY <2>1, <1>1 DEF AtEnd
<1>6. Start(Len(loaded))' = Start(Len(loaded))
  BY <1>1 DEF Start
<1>7. Progress'
  BY <1>1, <1>4, <1>5, <1>6 DEF Progress
<1> QED BY <1>2, <1>3, <1>7

(* Nothing happens. *)
LEMMA StayInv ==
  ASSUME IInv, UNCHANGED vars
  PROVE  IInv'
BY DEF IInv, Writable, Stages, Contents, Progress, WholeOnesLoaded, At, Start, writeHeader, HeaderOf, vars

(* Every step keeps the invariant. *)
LEMMA NextInv ==
  ASSUME IInv, [Next]_vars
  PROVE  IInv'
<1>1. prog' = prog
  BY DEF Next, vars, WriteInst, Close, Die, ReadHeader,
     ReadTornHeader, ReadInst, GoAstray, EndAstray, Finish, Done
<1>2. CASE UNCHANGED vars
  BY <1>2, StayInv
<1>3. CASE ~Writable(prog)
  BY <1>1, <1>3 DEF IInv
<1>4. CASE Writable(prog) /\ Next
  <2>1. Stages /\ Contents /\ Progress
    BY <1>4 DEF IInv
  <2>2. CASE WriteInst
    BY <1>4, <2>1, <2>2, WriteInstInv DEF IInv
  <2>3. CASE Close
    BY <1>4, <2>1, <2>3, CloseInv DEF IInv
  <2>4. CASE Die
    BY <1>4, <2>1, <2>4, DieInv DEF IInv
  <2>5. CASE ReadHeader
    BY <1>4, <2>1, <2>5, ReadHeaderInv DEF IInv
  <2>6. CASE ReadInst
    BY <1>4, <2>1, <2>6, ReadInstInv DEF IInv
  <2>7. CASE GoAstray
    BY <1>4, <2>1, <2>7, GoAstrayInv DEF IInv
  <2>10. CASE ReadTornHeader
    BY <1>4, <2>1, <2>10, ReadTornHeaderInv DEF IInv
  <2>11. CASE EndAstray
    BY <1>4, <2>1, <2>11, EndAstrayInv DEF IInv
  <2>8. CASE Finish
    BY <1>4, <2>1, <2>8, FinishInv DEF IInv
  <2>9. CASE Done
    BY <2>9, StayInv DEF Done
  <2> QED BY <1>4, <2>2, <2>3, <2>4, <2>5, <2>6, <2>7, <2>8, <2>9, <2>10, <2>11 DEF Next
<1> QED BY <1>2, <1>3, <1>4

-----------------------------------------------------------------------------
(* What it says about the properties *)

(* What the invariant says of the types ... *)
LEMMA InvTypes ==
  ASSUME IInv, Writable(prog)
  PROVE  TypeOK
<1>1. Stages /\ Contents /\ Progress
  BY DEF IInv
<1>2. \A k \in DOMAIN loaded : WellTyped(loaded[k])
  <2>1. /\ DOMAIN loaded = 1 .. Len(loaded) /\ Len(loaded) <= written /\ Len(loaded) \in Nat
        /\ written \in 0 .. prog.size /\ prog.size \in Nat
    BY <1>1, VectorShape DEF Progress, Stages, Writable
  <2>2. ASSUME NEW k \in 1 .. Len(loaded)
        PROVE  WellTyped(loaded[k])
    <3>1. loaded[k] = Kept(prog.code[k - 1])
      BY <1>1 DEF Progress
    <3>2. k - 1 \in 0 .. prog.size - 1
      BY <2>1
    <3>3. ReadsBack(prog.code[k - 1])
      BY <3>2 DEF Writable
    <3> QED BY <3>1, <3>3, KeptTyped
  <2> QED BY <2>1, <2>2
<1>3. header = << >> \/ DOMAIN header = {"entry", "entry_end", "global_len"}
  BY <1>1 DEF Progress, HeaderOf
<1> QED BY <1>1, <1>2, <1>3 DEF TypeOK, Stages, Contents, Progress

(* ... of the place of the reader ... *)
LEMMA InvAligned ==
  ASSUME IInv, Writable(prog)
  PROVE  Aligned
<1>1. Stages /\ Contents /\ Progress
  BY DEF IInv
<1> SUFFICES ASSUME phase \in {"reading", "loaded", "astray"}
             PROVE  /\ Len(loaded) <= written
                    /\ \A k \in DOMAIN loaded : loaded[k] = Kept(prog.code[k - 1])
                    /\ at = IF Len(loaded) < written THEN starts[Len(loaded) + 1]
                            ELSE Len(file) + 1
  BY DEF Aligned
<1>2. /\ DOMAIN loaded = 1 .. Len(loaded) /\ Len(loaded) \in Nat /\ Len(loaded) <= written
      /\ written \in 0 .. prog.size /\ prog.size \in Nat
      /\ at = Start(Len(loaded)) /\ Len(file) \in Nat /\ at \in 1 .. Len(file) + 1
  BY <1>1, VectorShape DEF Progress, Stages, Contents, Writable
<1>3. \A k \in DOMAIN loaded : loaded[k] = Kept(prog.code[k - 1])
  BY <1>1, <1>2 DEF Progress
<1>4. CASE Len(loaded) < written
  <2> DEFINE m == Len(loaded) + 1
  <2>1. m \in 1 .. written /\ m - 1 = Len(loaded)
    BY <1>2, <1>4
  <2>2. starts[m] = Start(m - 1)
    BY <2>1, <1>1 DEF Contents
  <2> QED BY <2>1, <2>2, <1>2, <1>3, <1>4
<1>5. CASE ~ (Len(loaded) < written)
  <2>1. Len(loaded) = written
    <3>1. Len(loaded) \in Nat /\ written \in Nat /\ Len(loaded) <= written
      BY <1>2
    <3> DEFINE l == Len(loaded)
    <3> HIDE DEF l
    <3>2. l \in Nat /\ l <= written /\ ~ (l < written)
      BY <3>1, <1>5 DEF l
    <3>3. l = written
      BY <3>1, <3>2
    <3> QED BY <3>3 DEF l
  <2>2. Len(file) + 1 <= at
    BY <2>1, <1>1, <1>2 DEF Contents
  <2>3. at = Len(file) + 1
    BY <2>2, <1>2
  <2> QED BY <2>3, <1>2, <1>3, <1>5
<1> QED BY <1>4, <1>5

(* ... and of what was read. *)
LEMMA InvRoundTrip ==
  ASSUME IInv, Writable(prog)
  PROVE  RoundTrip
<1>1. Stages /\ Contents /\ Progress
  BY DEF IInv
<1>2. phase \in {"astray", "misloaded", "exited"} => cut
  BY <1>1 DEF Progress
<1>3. ASSUME phase = "loaded", ~cut
      PROVE  /\ header = [entry |-> prog.entry, entry_end |-> prog.entry_end,
                          global_len |-> prog.global_len]
             /\ Len(loaded) = prog.size
  <2>1. header = HeaderOf(prog) /\ at = Len(file) + 1 /\ at = Start(Len(loaded))
        /\ written = prog.size
    BY <1>1, <1>3 DEF Progress, Contents
  <2>2. Len(loaded) \in Nat /\ Len(loaded) <= written /\ written \in Nat /\ Len(file) \in Nat
    BY <1>1, <2>1, VectorShape DEF Progress, Contents, Writable
  <2>3. ~ (Len(loaded) < written)
    <3> SUFFICES ASSUME Len(loaded) < written
                 PROVE  FALSE
      OBVIOUS
    <3> DEFINE m == Len(loaded) + 1
               c == Cells(prog.code[m - 1])
    <3>1. m \in 1 .. written /\ m \in 0 .. written /\ m - 1 = Len(loaded) /\ m # 0
          /\ m - 1 \in 0 .. prog.size - 1
      BY <2>1, <2>2
    <3>2. starts[m] = at /\ Start(m) = starts[m] + Len(c) /\ Start(m) <= Len(file) + 1
      BY <3>1, <2>1, <1>1, <1>3 DEF Contents, Start
    <3>3. ReadsBack(prog.code[m - 1])
      BY <3>1 DEF Writable
    <3>4. Len(c) \in Nat \ {0}
      BY <3>3, CellsShape
    <3> HIDE DEF c, m
    <3> QED BY <3>2, <3>4, <2>1, <2>2
  <2> QED BY <2>1, <2>2, <2>3 DEF HeaderOf
<1> QED BY <1>2, <1>3 DEF RoundTrip

(* Nothing but the end is lost. *)
LEMMA InvOnlyTheCut ==
  ASSUME IInv, Writable(prog)
  PROVE  OnlyTheCutIsLost
<1>1. Stages /\ Contents /\ Progress
  BY DEF IInv
<1>2. /\ DOMAIN loaded = 1 .. Len(loaded) /\ Len(loaded) \in Nat /\ Len(loaded) <= written
      /\ written \in Nat /\ Len(file) \in Nat
  BY <1>1, VectorShape DEF Progress, Contents, Stages, Writable
<1>3. SUFFICES ASSUME phase \in {"loaded", "astray", "misloaded"}, NEW k \in 1 .. written,
                      starts[k] + Len(Cells(prog.code[k - 1])) <= Len(file) + 1
               PROVE  k \in DOMAIN loaded /\ loaded[k] = Kept(prog.code[k - 1])
  BY DEF OnlyTheCutIsLost
<1>4. Start(k) <= Len(file) + 1
  BY <1>2, <1>3 DEF Start
<1>5. k <= Len(loaded)
  <2>1. CASE phase \in {"astray", "misloaded"}
    BY <2>1, <1>1, <1>4 DEF Progress, WholeOnesLoaded
  <2>2. CASE phase = "loaded"
    <3> DEFINE l == Len(loaded)
    <3>1. Start(l) = Len(file) + 1 /\ l \in 0 .. written /\ k \in 0 .. written
      BY <2>2, <1>1, <1>2 DEF Progress
    <3>2. l < k => Start(l) < Start(k)
      BY <3>1, <1>1, StartGrows
    <3>3. Start(k) \in Nat
      BY <3>1, <1>1, StartShape
    <3> QED BY <3>1, <3>2, <3>3, <1>2, <1>4
  <2> QED BY <2>1, <2>2, <1>3
<1>6. k \in 1 .. Len(loaded)
  BY <1>2, <1>5
<1> QED BY <1>1, <1>2, <1>6 DEF Progress

-----------------------------------------------------------------------------
(* Theorems *)

(* So it holds in every reachable state. *)
LEMMA Invariance == Spec => []IInv
<1>1. Init => IInv
  BY InitInv
<1>2. IInv /\ [Next]_vars => IInv'
  BY NextInv
<1> QED BY <1>1, <1>2, PTL DEF Spec

(* The reader of a program that reads back only ever has instructions of   *)
(* the right form, at a place in the file (readInsts).                     *)
THEOREM ReadsTyped == Spec => [](Writable(prog) => TypeOK)
<1>1. IInv => (Writable(prog) => TypeOK)
  BY InvTypes
<1> QED BY <1>1, Invariance, PTL

(* writeX and readX of every opcode agree: the reader starts every         *)
(* instruction where the writer did, in a file that was cut off, too.      *)
THEOREM ReaderKeepsItsPlace == Spec => [](Writable(prog) => Aligned)
<1>1. IInv => (Writable(prog) => Aligned)
  BY InvAligned
<1> QED BY <1>1, Invariance, PTL

(* A file that was written to its end loads as the program it was written  *)
(* from, of any size, and only a file that was cut off leads it astray.    *)
THEOREM FilesRoundTrip == Spec => [](Writable(prog) => RoundTrip)
<1>1. IInv => (Writable(prog) => RoundTrip)
  BY InvRoundTrip
<1> QED BY <1>1, Invariance, PTL

(* Each instruction that a file has as a whole is loaded as it was         *)
(* written, wherever the file was cut off and however the reader comes to  *)
(* its end: what is not of the file comes from the one it is cut off in.   *)
THEOREM NothingElseIsLost == Spec => [](Writable(prog) => OnlyTheCutIsLost)
<1>1. IInv => (Writable(prog) => OnlyTheCutIsLost)
  BY InvOnlyTheCut
<1> QED BY <1>1, Invariance, PTL
=============================================================================
