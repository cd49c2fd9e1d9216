------------------------------ MODULE VMProofs ------------------------------
(***************************************************************************)
(* Proofs about the virtual machine: its frames stay well typed and its    *)
(* calling convention holds, for every set of well-linked programs.        *)
(***************************************************************************)
EXTENDS VM, VectorLemmas, TLAPS

-----------------------------------------------------------------------------
(* Well-linked programs *)

(* An instruction has one head. *)
LEMMA OneHead ==
  ASSUME NEW p, WellFormed(p), NEW i \in Int, NEW f, NEW g, Heads(p, f, i), Heads(p, g, i)
  PROVE  f = g
<1>1. f \in Int /\ g \in Int /\ f <= i /\ g <= i
  BY DEF WellFormed, Heads
<1>2. CASE f < g
  <2>1. g \in f + 1 .. i
    BY <1>1, <1>2
  <2> QED BY <2>1 DEF Heads
<1>3. CASE g < f
  <2>1. f \in g + 1 .. i
    BY <1>1, <1>3
  <2> QED BY <2>1 DEF Heads
<1> QED BY <1>1, <1>2, <1>3

LEMMA HeadIsFuncOf ==
  ASSUME NEW p, WellFormed(p), NEW i \in Int, NEW f, Heads(p, f, i)
  PROVE  FuncOf(p, i) = f /\ f \in DOMAIN p.code
<1>1. f \in DOMAIN p.code
  BY DEF Heads
<1>2. Heads(p, FuncOf(p, i), i)
  BY <1>1 DEF FuncOf
<1> QED BY <1>1, <1>2, OneHead

(* Every instruction behind the global initialisers has a head, a FUNC     *)
(* with a definite number of PARAMs.                                       *)
LEMMA FuncOfHeads ==
  ASSUME NEW p, WellLinked(p), NEW i \in p.global_len .. p.size - 1
  PROVE  LET f == FuncOf(p, i)
         IN /\ i \in DOMAIN p.code /\ i \in Int
            /\ Heads(p, f, i) /\ f \in p.global_len .. p.size - 1
            /\ Arity(p, f) \in Nat /\ Takes(p, f, Arity(p, f))
<1>1. /\ WellFormed(p) /\ p.size \in Nat /\ p.global_len \in Nat
      /\ DOMAIN p.code = 0 .. p.size - 1
      /\ i \in DOMAIN p.code /\ i \in Int /\ i >= p.global_len
  BY DEF WellLinked, WellFormed
<1>2. PICK f \in DOMAIN p.code : Heads(p, f, i) /\ f >= p.global_len
  BY <1>1 DEF WellLinked, FunctionsOK
<1>3. FuncOf(p, i) = f
  BY <1>1, <1>2, HeadIsFuncOf
<1>4. OpAt(p, f) = "FUNC"
  BY <1>2 DEF Heads
<1>5. PICK k \in 0 .. p.size : Takes(p, f, k)
  BY <1>1, <1>2, <1>4 DEF WellLinked, FunctionsOK
<1>6. Arity(p, f) \in 0 .. p.size /\ Takes(p, f, Arity(p, f))
  BY <1>5 DEF Arity
<1> QED BY <1>1, <1>2, <1>3, <1>6

(* Only FUNC and the PARAMs stand in a function's header. *)
LEMMA Header ==
  ASSUME NEW p, WellLinked(p), NEW i \in p.global_len .. p.size - 1
  PROVE  LET f == FuncOf(p, i)
             k == Arity(p, f)
         IN /\ OpAt(p, i) = "FUNC" => i = f
            /\ OpAt(p, i) = "PARAM" => i \in f + 1 .. f + k
            /\ OpAt(p, i) \notin {"FUNC", "PARAM"} => i > f + k
<1> DEFINE f == FuncOf(p, i)
           k == Arity(p, f)
<1>1. /\ i \in DOMAIN p.code /\ i \in Int /\ i >= p.global_len
      /\ Heads(p, f, i) /\ f \in Int /\ f <= i /\ OpAt(p, f) = "FUNC"
      /\ k \in Nat /\ Takes(p, f, k)
  <2>1. /\ i \in DOMAIN p.code /\ i \in Int
        /\ Heads(p, f, i) /\ f \in p.global_len .. p.size - 1
        /\ k \in Nat /\ Takes(p, f, k)
    BY FuncOfHeads
  <2>2. p.size \in Nat /\ p.global_len \in Int
    BY DEF WellLinked, WellFormed
  <2> HIDE DEF f, k
  <2> QED BY <2>1, <2>2 DEF Heads
<1>2. OpAt(p, i) = "FUNC" => i = f
  <2>1. i # f => i \in f + 1 .. i
    BY <1>1
  <2> QED BY <1>1, <2>1 DEF Heads
<1>3. OpAt(p, i) = "PARAM" => i <= f + k
  BY <1>1 DEF WellLinked, FunctionsOK
<1>4. OpAt(p, i) \notin {"FUNC", "PARAM"} => i > f + k
  <2>1. i # f /\ i <= f + k => i \in f + 1 .. f + k
    BY <1>1
  <2> QED BY <1>1, <2>1 DEF Takes
<1>5. OpAt(p, i) = "PARAM" => i # f
  BY <1>1
<1> QED BY <1>1, <1>2, <1>3, <1>4, <1>5

(* ArgsTaken with the head named. *)
LEMMA ArgsTakenIs ==
  ASSUME NEW p, NEW i, NEW f, FuncOf(p, i) = f
  PROVE  ArgsTaken(p, i) = IF i <= f + 1 THEN 0
                           ELSE IF i <= f + Arity(p, f) THEN i - f - 1 ELSE Arity(p, f)
BY DEF ArgsTaken

(* The next instruction, if it is no FUNC, is of the same function; the    *)
(* arguments taken change only across a PARAM.                             *)
LEMMA Advance ==
  ASSUME NEW p, WellLinked(p), NEW i \in p.global_len .. p.size - 1,
         i + 1 \in DOMAIN p.code, OpAt(p, i + 1) # "FUNC"
  PROVE  /\ i + 1 \in p.global_len .. p.size - 1
         /\ FuncOf(p, i + 1) = FuncOf(p, i)
         /\ OpAt(p, i) # "PARAM" => ArgsTaken(p, i + 1) = ArgsTaken(p, i)
         /\ OpAt(p, i) = "PARAM" =>
              /\ ArgsTaken(p, i) = i - FuncOf(p, i) - 1
              /\ ArgsTaken(p, i + 1) = i - FuncOf(p, i)
<1> DEFINE f == FuncOf(p, i)
           k == Arity(p, f)
<1>1. /\ i \in DOMAIN p.code /\ i \in Int /\ i >= p.global_len
      /\ p.size \in Nat /\ p.global_len \in Nat /\ DOMAIN p.code = 0 .. p.size - 1
      /\ Heads(p, f, i) /\ f \in Int /\ f <= i /\ k \in Nat
  BY FuncOfHeads DEF Heads, WellLinked, WellFormed
<1>2. i + 1 \in p.global_len .. p.size - 1
  BY <1>1
<1>3. Heads(p, f, i + 1)
  <2>1. \A j \in f + 1 .. i + 1 : j \in f + 1 .. i \/ j = i + 1
    BY <1>1
  <2> QED BY <1>1, <2>1 DEF Heads
<1>4. FuncOf(p, i + 1) = f
  BY <1>1, <1>3, HeadIsFuncOf DEF WellLinked
<1>5. /\ OpAt(p, i) = "FUNC" => i = f
      /\ OpAt(p, i) = "PARAM" => i \in f + 1 .. f + k
      /\ OpAt(p, i) \notin {"FUNC", "PARAM"} => i > f + k
  BY Header
<1> HIDE DEF f, k
<1>6. /\ ArgsTaken(p, i) = IF i <= f + 1 THEN 0 ELSE IF i <= f + k THEN i - f - 1 ELSE k
      /\ ArgsTaken(p, i + 1) = IF i <= f THEN 0
                               ELSE IF i + 1 <= f + k THEN i - f ELSE k
  <2>1. FuncOf(p, i) = f /\ k = Arity(p, f)
    BY DEF f, k
  <2>2. ArgsTaken(p, i) = IF i <= f + 1 THEN 0 ELSE IF i <= f + k THEN i - f - 1 ELSE k
    BY <2>1, ArgsTakenIs, Zenon
  <2> DEFINE n == i + 1
  <2>3. FuncOf(p, n) = f
    BY <1>4
  <2>4. n \in Int /\ n = i + 1
    BY <1>1
  <2> HIDE DEF n
  <2>5. ArgsTaken(p, n) = IF n <= f + 1 THEN 0 ELSE IF n <= f + k THEN n - f - 1 ELSE k
    BY <2>1, <2>3, ArgsTakenIs, Zenon
  <2> QED BY <1>1, <2>2, <2>4, <2>5
<1>7. OpAt(p, i) # "PARAM" => ArgsTaken(p, i + 1) = ArgsTaken(p, i)
  BY <1>1, <1>5, <1>6
<1>8. OpAt(p, i) = "PARAM" => ArgsTaken(p, i) = i - f - 1 /\ ArgsTaken(p, i + 1) = i - f
  BY <1>1, <1>5, <1>6
<1> QED BY <1>2, <1>4, <1>7, <1>8 DEF f

(* In the body of a function all its arguments are taken. *)
LEMMA InBodyOf ==
  ASSUME NEW p, WellLinked(p), NEW i \in p.global_len .. p.size - 1,
         NEW f, f = FuncOf(p, i), f + Arity(p, f) < i
  PROVE  ArgsTaken(p, i) = Arity(p, f)
<1>1. i \in Int /\ f \in Int /\ Arity(p, f) \in Nat
  BY FuncOfHeads DEF WellLinked, WellFormed
<1> QED BY <1>1 DEF ArgsTaken

-----------------------------------------------------------------------------
(* The vector of frames *)

(* gs has the frames of fs, with the same saved pcs. *)
SameCalls(fs, gs) ==
  /\ FramesOK(gs) /\ Len(gs) = Len(fs)
  /\ \A k \in 1 .. Len(fs) : gs[k].pc = fs[k].pc

(* One element replaced, one frame's symbols replaced; named so that the   *)
(* facts about them can be instantiated.                                   *)
Replace(fs, k, x) == [fs EXCEPT ![k] = x]
WithSymbols(fs, k, v) == [fs EXCEPT ![k].symbols = v]

LEMMA SetFrame ==
  ASSUME NEW fs, FramesOK(fs), NEW k \in 1 .. Len(fs), NEW x,
         x = [symbols |-> x.symbols, pc |-> x.pc], x.pc \in Int
  PROVE  /\ FramesOK(Replace(fs, k, x)) /\ Len(Replace(fs, k, x)) = Len(fs)
         /\ \A j \in 1 .. Len(fs) : Replace(fs, k, x)[j] = IF j = k THEN x ELSE fs[j]
<1> DEFINE gs == [fs EXCEPT ![k] = x]
<1>1. IsVector(fs) /\ Len(fs) >= 1 /\ Len(fs) \in Nat /\ DOMAIN fs = 1 .. Len(fs)
  BY VectorShape DEF FramesOK
<1>2. IsVector(gs) /\ Len(gs) = Len(fs)
  BY <1>1, VectorExcept
<1>3. \A j \in 1 .. Len(fs) : gs[j] = IF j = k THEN x ELSE fs[j]
  BY <1>1
<1> HIDE DEF gs
<1>4. \A j \in 1 .. Len(fs) :
        gs[j].pc \in Int /\ gs[j] = [symbols |-> gs[j].symbols, pc |-> gs[j].pc]
  BY <1>3 DEF FramesOK
<1>5. FramesOK(gs)
  BY <1>1, <1>2, <1>4 DEF FramesOK
<1>6. Replace(fs, k, x) = gs
  BY DEF Replace, gs
<1> QED BY <1>2, <1>3, <1>5, <1>6

LEMMA SetSymbols ==
  ASSUME NEW fs, FramesOK(fs), NEW k \in 1 .. Len(fs), NEW v
  PROVE  LET gs == WithSymbols(fs, k, v)
         IN /\ SameCalls(fs, gs)
            /\ \A j \in 1 .. Len(fs) : gs[j].symbols = IF j = k THEN v ELSE fs[j].symbols
<1> DEFINE x == [symbols |-> v, pc |-> fs[k].pc]
           gs == WithSymbols(fs, k, v)
<1>1. fs[k] = [symbols |-> fs[k].symbols, pc |-> fs[k].pc] /\ fs[k].pc \in Int
  BY DEF FramesOK
<1>2. [fs[k] EXCEPT !.symbols = v] = x
  BY <1>1
<1>3. gs = Replace(fs, k, x)
  BY <1>2 DEF Replace, WithSymbols
<1>4. x = [symbols |-> x.symbols, pc |-> x.pc] /\ x.symbols = v /\ x.pc = fs[k].pc
  OBVIOUS
<1> HIDE DEF x, gs
<1>5. /\ FramesOK(gs) /\ Len(gs) = Len(fs)
      /\ \A j \in 1 .. Len(fs) : gs[j] = IF j = k THEN x ELSE fs[j]
  BY <1>1, <1>3, <1>4, SetFrame
<1>6. /\ SameCalls(fs, gs)
      /\ \A j \in 1 .. Len(fs) : gs[j].symbols = IF j = k THEN v ELSE fs[j].symbols
  BY <1>4, <1>5 DEF SameCalls
<1> QED BY <1>6 DEF gs

LEMMA DeclareKeeps ==
  ASSUME FramesOK(frame), NEW names
  PROVE  /\ SameCalls(frame, Declare(names))
         /\ \A k \in 1 .. Top - 1 : Declare(names)[k].symbols = frame[k].symbols
<1> DEFINE old == frame[Top].symbols
           new == [n \in DOMAIN old \cup Created(names) |->
                     IF n \in Created(names) THEN None ELSE old[n]]
           gs  == WithSymbols(frame, Top, new)
<1>1. Top \in 1 .. Len(frame) /\ Top \in Nat /\ Top = Len(frame)
  BY VectorShape DEF FramesOK, Top
<1>2. Declare(names) = gs
  BY DEF Declare, WithSymbols
<1> HIDE DEF new
<1>3. /\ SameCalls(frame, gs)
      /\ \A j \in 1 .. Len(frame) : gs[j].symbols = IF j = Top THEN new ELSE frame[j].symbols
  BY <1>1, SetSymbols
<1> HIDE DEF gs
<1> QED BY <1>1, <1>2, <1>3

LEMMA HomeIsFrame ==
  ASSUME FramesOK(frame), NEW name
  PROVE  Home(name) \in {1, Top} /\ Home(name) \in 1 .. Len(frame)
BY VectorShape DEF Home, FramesOK, Top

LEMMA AssignKeeps ==
  ASSUME FramesOK(frame), NEW name, NEW idx, NEW v
  PROVE  /\ SameCalls(frame, Assign(name, idx, v))
         /\ \A k \in 2 .. Top - 1 : Assign(name, idx, v)[k].symbols = frame[k].symbols
<1> DEFINE ds == Declare(Touched(name, idx))
           h  == Home(name)
           bs == Bind(ds[h].symbols, name, v)
           gs == WithSymbols(ds, h, bs)
<1>1. SameCalls(frame, ds) /\ \A k \in 1 .. Top - 1 : ds[k].symbols = frame[k].symbols
  BY DeclareKeeps
<1>2. FramesOK(ds) /\ Len(ds) = Len(frame) /\ Len(frame) \in Nat
  BY <1>1, VectorShape DEF SameCalls, FramesOK
<1>3. h \in {1, Top} /\ h \in 1 .. Len(ds)
  BY <1>2, HomeIsFrame
<1>4. gs = Assign(name, idx, v)
  BY DEF Assign, WithSymbols
<1> HIDE DEF ds, h, bs
<1>5. /\ SameCalls(ds, gs)
      /\ \A j \in 1 .. Len(ds) : gs[j].symbols = IF j = h THEN bs ELSE ds[j].symbols
  BY <1>2, <1>3, SetSymbols
<1> HIDE DEF gs
<1>6. SameCalls(frame, gs)
  BY <1>1, <1>2, <1>5 DEF SameCalls
<1>7. \A k \in 2 .. Top - 1 : gs[k].symbols = frame[k].symbols
  BY <1>1, <1>2, <1>3, <1>5 DEF Top
<1> QED BY <1>4, <1>6, <1>7

(* A new frame on top, and the top frame gone. *)
LEMMA PushKeeps ==
  ASSUME NEW fs, FramesOK(fs), NEW x, x = [symbols |-> x.symbols, pc |-> x.pc], x.pc \in Int
  PROVE  /\ FramesOK(Append(fs, x)) /\ Len(Append(fs, x)) = Len(fs) + 1
         /\ \A k \in 1 .. Len(fs) : Append(fs, x)[k] = fs[k]
         /\ Append(fs, x)[Len(fs) + 1] = x
<1> DEFINE gs == Append(fs, x)
<1>1. IsVector(fs) /\ Len(fs) >= 1 /\ Len(fs) \in Nat
  BY VectorShape DEF FramesOK
<1>2. /\ IsVector(gs) /\ Len(gs) = Len(fs) + 1
      /\ \A k \in 1 .. Len(fs) : gs[k] = fs[k]
      /\ gs[Len(fs) + 1] = x
  BY <1>1, VectorAppend
<1> HIDE DEF gs
<1>3. \A k \in 1 .. Len(gs) : k \in 1 .. Len(fs) \/ k = Len(fs) + 1
  BY <1>1, <1>2
<1>4. \A k \in 1 .. Len(gs) :
        gs[k].pc \in Int /\ gs[k] = [symbols |-> gs[k].symbols, pc |-> gs[k].pc]
  BY <1>2, <1>3 DEF FramesOK
<1>5. FramesOK(gs)
  BY <1>1, <1>2, <1>4 DEF FramesOK
<1> QED BY <1>2, <1>5 DEF gs

LEMMA PopKeeps ==
  ASSUME NEW fs, FramesOK(fs), Len(fs) > 1
  PROVE  LET gs == SubSeq(fs, 1, Len(fs) - 1)
         IN /\ FramesOK(gs) /\ Len(gs) = Len(fs) - 1
            /\ \A k \in 1 .. Len(fs) - 1 : gs[k] = fs[k]
<1> DEFINE gs == SubSeq(fs, 1, Len(fs) - 1)
<1>1. IsVector(fs) /\ Len(fs) >= 1 /\ Len(fs) \in Nat
  BY VectorShape DEF FramesOK
<1>2. /\ IsVector(gs) /\ Len(gs) = Len(fs) - 1
      /\ \A k \in 1 .. Len(fs) - 1 : gs[k] = fs[k]
  BY <1>1, VectorPop
<1> HIDE DEF gs
<1>3. FramesOK(gs)
  BY <1>1, <1>2 DEF FramesOK
<1> QED BY <1>2, <1>3 DEF gs

-----------------------------------------------------------------------------
(* What the handlers do to the vector of frames *)

(* CALL: the caller's frame saves its pc and a fresh frame goes on top. *)
LEMMA CallFrames ==
  ASSUME TypeOK, Call
  PROVE  /\ FramesOK(frame') /\ Len(frame') = Top + 1 /\ Top \in Nat
         /\ \A k \in 1 .. Top - 1 : frame'[k] = frame[k]
         /\ frame'[Top].pc = pc /\ frame'[Top].symbols = frame[Top].symbols
         /\ frame'[Top + 1] = NewFrame
<1> DEFINE x == [symbols |-> frame[Top].symbols, pc |-> pc]
           gs == Replace(frame, Top, x)
<1>1. FramesOK(frame) /\ Top \in Nat /\ Top \in 1 .. Len(frame) /\ Top = Len(frame)
      /\ pc \in Int
  BY VectorShape DEF TypeOK, FramesOK, Top
<1>2. frame[Top] = [symbols |-> frame[Top].symbols, pc |-> frame[Top].pc]
  BY <1>1 DEF FramesOK
<1>3. [frame[Top] EXCEPT !.pc = pc] = x
  BY <1>2
<1>4. [frame EXCEPT ![Top].pc = pc] = gs
  BY <1>3 DEF Replace
<1>5. frame' = Append(gs, NewFrame)
  BY <1>4 DEF Call
<1>6. x = [symbols |-> x.symbols, pc |-> x.pc] /\ x.pc = pc /\ x.symbols = frame[Top].symbols
  OBVIOUS
<1> HIDE DEF x, gs
<1>7. /\ FramesOK(gs) /\ Len(gs) = Top
      /\ \A j \in 1 .. Top : gs[j] = IF j = Top THEN x ELSE frame[j]
  BY <1>1, <1>6, SetFrame DEF gs
<1>8. NewFrame = [symbols |-> NewFrame.symbols, pc |-> NewFrame.pc] /\ NewFrame.pc \in Int
  BY DEF NewFrame
<1>9. /\ FramesOK(frame') /\ Len(frame') = Top + 1
      /\ \A k \in 1 .. Top : frame'[k] = gs[k]
      /\ frame'[Top + 1] = NewFrame
  BY <1>5, <1>7, <1>8, PushKeeps
<1> QED BY <1>1, <1>6, <1>7, <1>9

(* The value PARAM copies, and the caller's variables after it did. *)
TakenValue ==
  LET a == prog.code[ParamArgAt]
      caller == frame[Top - 1]
  IN IF a.type = "RAW" THEN a.val
     ELSE IF a.type = "MAP" /\ a.name \in DOMAIN caller.symbols THEN caller.symbols[a.name] ELSE None
CallerSeen ==
  LET a == prog.code[ParamArgAt]
      caller == frame[Top - 1]
  IN IF a.type = "MAP" THEN Bind(caller.symbols, a.name, TakenValue) ELSE caller.symbols

(* PARAM: the caller's saved pc moves on by one, no other does. *)
LEMMA ParamFrames ==
  ASSUME TypeOK, Param
  PROVE  /\ FramesOK(frame') /\ Len(frame') = Top /\ Top \in Nat /\ Top > 1
         /\ \A k \in 1 .. Top : k # Top - 1 => frame'[k].pc = frame[k].pc
         /\ frame'[Top - 1].pc = frame[Top - 1].pc + 1
         /\ \A k \in 1 .. Top - 2 : frame'[k] = frame[k]
         /\ \A name \in DOMAIN frame[Top - 1].symbols :
              /\ name \in DOMAIN frame'[Top - 1].symbols
              /\ frame'[Top - 1].symbols[name] = frame[Top - 1].symbols[name]
         /\ frame'[Top - 1].symbols = CallerSeen
         /\ frame'[Top].symbols = Bind(frame[Top].symbols, Inst.name, TakenValue)
<1> DEFINE a == prog.code[ParamArgAt]
           caller == frame[Top - 1]
           known == a.type = "MAP" /\ a.name \in DOMAIN caller.symbols
           v == IF a.type = "RAW" THEN a.val
                ELSE IF known THEN caller.symbols[a.name] ELSE None
           seen == IF a.type = "MAP" THEN Bind(caller.symbols, a.name, v)
                                     ELSE caller.symbols
           x == [symbols |-> seen, pc |-> ParamArgAt]
           gs == Replace(frame, Top - 1, x)
           bs == Bind(frame[Top].symbols, Inst.name, v)
<1>1. FramesOK(frame) /\ Top \in Nat /\ Top = Len(frame) /\ pc \in Int
  BY VectorShape DEF TypeOK, FramesOK, Top
<1>2. Top # 1 /\ ParamArgAt \in DOMAIN prog.code /\ prog.code[ParamArgAt].op = "ARG"
  <2>1. Inst.op = "PARAM" /\ ~Fault(Inst)
    BY DEF Param, Fetch
  <2> QED BY <2>1 DEF Fault, ArithOps, LogicOps, CompareOps, UnaryOps
<1>3. Top - 1 \in 1 .. Len(frame) /\ Top \in 1 .. Len(frame) /\ Top > 1
  BY <1>1, <1>2 DEF FramesOK
<1>4. frame[Top - 1].pc \in Int /\ ParamArgAt = frame[Top - 1].pc + 1
  BY <1>1, <1>3 DEF FramesOK, ParamArgAt
<1>5. frame' = WithSymbols(gs, Top, bs)
  <2>1. frame' = [frame EXCEPT ![Top - 1] = x, ![Top].symbols = bs]
    BY Zenon DEF Param
  <2> HIDE DEF x, bs
  <2> QED BY <2>1 DEF Replace, WithSymbols
<1>6. x = [symbols |-> x.symbols, pc |-> x.pc] /\ x.pc = ParamArgAt /\ x.symbols = seen
  OBVIOUS
<1>6a. seen = CallerSeen /\ bs = Bind(frame[Top].symbols, Inst.name, TakenValue)
  BY DEF CallerSeen, TakenValue
<1> HIDE DEF x, gs, bs
<1>7. /\ FramesOK(gs) /\ Len(gs) = Len(frame)
      /\ \A j \in 1 .. Len(frame) : gs[j] = IF j = Top - 1 THEN x ELSE frame[j]
  <2>1. x.pc \in Int
    BY <1>4, <1>6
  <2> DEFINE n == Top - 1
  <2>2. n \in 1 .. Len(frame)
    BY <1>3
  <2> HIDE DEF n
  <2>3. /\ FramesOK(Replace(frame, n, x)) /\ Len(Replace(frame, n, x)) = Len(frame)
        /\ \A j \in 1 .. Len(frame) : Replace(frame, n, x)[j] = IF j = n THEN x ELSE frame[j]
    BY <1>1, <1>6, <2>1, <2>2, SetFrame
  <2> QED BY <2>3 DEF gs, n
<1>8. /\ SameCalls(gs, frame')
      /\ \A j \in 1 .. Len(gs) : frame'[j].symbols = IF j = Top THEN bs ELSE gs[j].symbols
  BY <1>1, <1>3, <1>5, <1>7, SetSymbols
<1>9. FramesOK(frame') /\ Len(frame') = Top
  BY <1>1, <1>7, <1>8 DEF SameCalls
<1>10. \A k \in 1 .. Top : k # Top - 1 => frame'[k].pc = frame[k].pc
  BY <1>1, <1>7, <1>8 DEF SameCalls
<1>11. frame'[Top - 1].pc = frame[Top - 1].pc + 1
  BY <1>1, <1>3, <1>4, <1>6, <1>7, <1>8 DEF SameCalls
<1>12. ASSUME NEW k \in 1 .. Top - 2 PROVE frame'[k] = frame[k]
  <2>1. k \in 1 .. Top /\ k # Top - 1 /\ k # Top
    BY <1>1
  <2>2. frame'[k].pc = frame[k].pc /\ frame'[k].symbols = frame[k].symbols
    BY <1>1, <1>7, <1>8, <1>10, <2>1
  <2>3. frame[k] = [symbols |-> frame[k].symbols, pc |-> frame[k].pc]
    BY <1>1, <2>1 DEF FramesOK
  <2>4. frame'[k] = [symbols |-> frame'[k].symbols, pc |-> frame'[k].pc]
    BY <1>9, <2>1 DEF FramesOK
  <2> QED BY <2>2, <2>3, <2>4
<1>13. ASSUME NEW name \in DOMAIN frame[Top - 1].symbols
       PROVE  /\ name \in DOMAIN frame'[Top - 1].symbols
              /\ frame'[Top - 1].symbols[name] = frame[Top - 1].symbols[name]
  <2>1. frame'[Top - 1].symbols = seen
    BY <1>1, <1>3, <1>6, <1>7, <1>8
  <2>2. CASE a.type = "MAP"
    <3>1. seen = Bind(caller.symbols, a.name, v)
      BY <2>2
    <3>2. name = a.name => v = caller.symbols[name]
      BY <2>2
    <3> HIDE DEF v, seen
    <3> QED BY <2>1, <3>1, <3>2 DEF Bind
  <2>3. CASE a.type # "MAP"
    BY <2>1, <2>3
  <2> QED BY <2>2, <2>3
<1>14. frame'[Top - 1].symbols = CallerSeen
  BY <1>1, <1>3, <1>6, <1>7, <1>8, <1>6a
<1>15. frame'[Top].symbols = Bind(frame[Top].symbols, Inst.name, TakenValue)
  BY <1>1, <1>3, <1>7, <1>8, <1>6a
<1> QED BY <1>1, <1>3, <1>9, <1>10, <1>11, <1>12, <1>13, <1>14, <1>15

(* RET: the top frame is gone. *)
LEMMA RetFrames ==
  ASSUME TypeOK, Ret
  PROVE  /\ FramesOK(frame') /\ Len(frame') = Top - 1 /\ Top \in Nat /\ Top > 1
         /\ \A k \in 1 .. Top - 1 : frame'[k] = frame[k]
<1>1. FramesOK(frame) /\ Top \in Nat /\ Top = Len(frame) /\ Top >= 1
  BY VectorShape DEF TypeOK, FramesOK, Top
<1>2. Top # 1
  <2>1. Inst.op = "RET" /\ ~Fault(Inst)
    BY DEF Ret, Fetch
  <2> QED BY <2>1 DEF Fault, ArithOps, LogicOps, CompareOps, UnaryOps
<1>3. frame' = SubSeq(frame, 1, Len(frame) - 1)
  BY <1>1 DEF Ret
<1> QED BY <1>1, <1>2, <1>3, PopKeeps

(* The handlers that go on in the same frame. *)
Straight ==
  \/ Binary \/ Unary \/ Load \/ LoadX \/ LoadXA
  \/ Store \/ StoreA \/ StoreX \/ Pass
Builtins == CallPrint \/ CallRead \/ CallConvert \/ CallLength

LEMMA BuiltinArgKeeps ==
  ASSUME FramesOK(frame)
  PROVE  /\ SameCalls(frame, BuiltinArgFrames)
         /\ \A k \in 2 .. Top - 1 : BuiltinArgFrames[k].symbols = frame[k].symbols
<1>1. Top \in Nat /\ SameCalls(frame, frame)
  BY VectorShape DEF SameCalls, FramesOK, Top
<1> QED BY <1>1, DeclareKeeps DEF BuiltinArgFrames

(* They keep the saved pcs, and the variables of the suspended frames. *)
LEMMA StraightFrames ==
  ASSUME TypeOK, Straight \/ Builtins
  PROVE  /\ SameCalls(frame, frame')
         /\ \A k \in 2 .. Top - 1 : frame'[k].symbols = frame[k].symbols
<1> DEFINE Goal == /\ SameCalls(frame, frame')
                   /\ \A k \in 2 .. Top - 1 : frame'[k].symbols = frame[k].symbols
<1>1. FramesOK(frame) /\ Top \in Nat /\ Top = Len(frame) /\ Top \in 1 .. Len(frame)
  BY VectorShape DEF TypeOK, FramesOK, Top
<1>2. SameCalls(frame, frame)
  BY <1>1 DEF SameCalls
<1>3. CASE UNCHANGED frame
  BY <1>2, <1>3
<1>4. ASSUME NEW names, frame' = Declare(names) PROVE Goal
  BY <1>1, <1>4, DeclareKeeps
<1>5. ASSUME NEW name, NEW idx, NEW v, frame' = Assign(name, idx, v) PROVE Goal
  BY <1>1, <1>5, AssignKeeps
<1>6. CASE frame' = BuiltinArgFrames
  BY <1>1, <1>6, BuiltinArgKeeps
<1>7. CASE Store
  <2> DEFINE v == Bind(frame[Top].symbols, Inst.name, Inst.val)
  <2>1. frame' = WithSymbols(frame, Top, v)
    BY <1>7 DEF Store, WithSymbols
  <2> HIDE DEF v
  <2>2. /\ SameCalls(frame, frame')
        /\ \A j \in 1 .. Len(frame) :
             frame'[j].symbols = IF j = Top THEN v ELSE frame[j].symbols
    BY <1>1, <2>1, SetSymbols
  <2> QED BY <1>1, <2>2
<1>8. CASE Binary \/ Unary \/ Load \/ Pass
  BY <1>3, <1>8 DEF Binary, Unary, Load, Pass
<1>9. CASE LoadX
  BY <1>4, <1>9 DEF LoadX
<1>10. CASE LoadXA
  BY <1>4, <1>10 DEF LoadXA
<1>11. CASE StoreA
  BY <1>5, <1>11 DEF StoreA
<1>12. CASE StoreX
  BY <1>5, <1>12 DEF StoreX
<1>13. CASE CallPrint \/ CallRead \/ CallLength
  BY <1>6, <1>13 DEF CallPrint, CallRead, CallLength
<1>14. CASE CallConvert
  <2>1. CASE TheArg.type = "MAP"
    BY <1>5, <1>14, <2>1 DEF CallConvert
  <2>2. CASE TheArg.type # "MAP"
    BY <1>3, <1>14, <2>2 DEF CallConvert
  <2> QED BY <2>1, <2>2
<1> QED BY <1>7, <1>8, <1>9, <1>10, <1>11, <1>12, <1>13, <1>14 DEF Straight, Builtins

-----------------------------------------------------------------------------
(* Types *)

LEMMA TypeInit == Init => TypeOK
<1> SUFFICES ASSUME Init PROVE TypeOK
  OBVIOUS
<1>1. frame = <<NewFrame>>
  BY DEF Init
<1>2. IsVector(frame) /\ Len(frame) = 1
  <2> DEFINE f == NewFrame
  <2>1. <<f>> = [k \in 1 .. 1 |-> <<f>>[k]]
    OBVIOUS
  <2> HIDE DEF f
  <2>2. IsVector(<<f>>) /\ Len(<<f>>) = 1
    BY <2>1, Vector
  <2> QED BY <1>1, <2>2 DEF f
<1>3. \A k \in 1 .. 1 : frame[k] = NewFrame
  BY <1>1
<1>4. FramesOK(frame)
  BY <1>2, <1>3 DEF FramesOK, NewFrame
<1> QED BY <1>4 DEF Init, TypeOK

(* What a fetch establishes. *)
LEMMA FetchIsLinked ==
  ASSUME TypeOK, NEW ops, Fetch(ops)
  PROVE  /\ WellLinked(prog) /\ pc \in DOMAIN prog.code /\ pc \in Nat
         /\ OpAt(prog, pc) = Inst.op /\ OpAt(prog, pc) \in ops
         /\ prog.size \in Nat /\ prog.global_len \in Nat
         /\ DOMAIN prog.code = 0 .. prog.size - 1
         /\ pc < prog.global_len => OpAt(prog, pc) \notin Transfers \cup {"FUNC", "PARAM"}
BY ProgramsLinked
   DEF TypeOK, Fetch, Fetched, OpAt, Inst, WellLinked, WellFormed, GlobalsOK

LEMMA TypeStep == TypeOK /\ [Next]_vars => TypeOK'
<1> SUFFICES ASSUME TypeOK, [Next]_vars PROVE TypeOK'
  OBVIOUS
<1>1. CASE UNCHANGED vars \/ Terminated \/ Halt \/ Abort
  BY <1>1 DEF vars, Terminated, Halt, Abort, TypeOK
<1>2. CASE StartMain
  <2>1. WellLinked(prog)
    BY ProgramsLinked DEF TypeOK
  <2>2. prog.entry \in Int
    BY <2>1 DEF WellLinked, WellFormed
  <2>3. NewFrame = [symbols |-> NewFrame.symbols, pc |-> NewFrame.pc] /\ NewFrame.pc \in Int
    BY DEF NewFrame
  <2>4. FramesOK(Append(frame, NewFrame))
    BY <2>3, PushKeeps DEF TypeOK
  <2> QED BY <1>2, <2>2, <2>4 DEF StartMain, TypeOK
<1>3. CASE Straight \/ Builtins
  <2>1. FramesOK(frame')
    BY <1>3, StraightFrames DEF SameCalls
  <2>2. DOMAIN reg' = Reg
    BY <1>3 DEF Straight, Builtins, TypeOK, Binary, Unary, Load, LoadX, LoadXA, Store,
         StoreA, StoreX, Pass, CallPrint, CallRead, CallConvert, CallLength
  <2>3. pc' \in {pc + 1, pc + 2} /\ UNCHANGED <<prog, mode, status>>
    BY <1>3, Zenon DEF Straight, Builtins, Binary, Unary, Load, LoadX, LoadXA, Store,
         StoreA, StoreX, Pass, CallPrint, CallRead, CallConvert, CallLength, Step, CallBuiltin
  <2> QED BY <2>1, <2>2, <2>3 DEF TypeOK
<1>4. CASE Call
  <2>1. WellLinked(prog) /\ pc \in DOMAIN prog.code /\ OpAt(prog, pc) = "CALL"
        /\ DOMAIN prog.code = 0 .. prog.size - 1 /\ prog.size \in Nat
    BY <1>4, FetchIsLinked DEF Call
  <2>2. prog.code[pc].target \in DOMAIN prog.code
    BY <1>4, <2>1 DEF WellLinked, CallsOK, Call, Inst
  <2>3. pc' \in Int
    BY <1>4, <2>1, <2>2 DEF Call, Inst
  <2> QED BY <1>4, <2>3, CallFrames DEF Call, TypeOK
<1>5. CASE Param
  <2>1. FramesOK(frame')
    BY <1>5, ParamFrames
  <2>2. pc' = pc + 1 /\ UNCHANGED <<prog, reg, mode, status>>
    BY <1>5 DEF Param, Step
  <2> QED BY <2>1, <2>2 DEF TypeOK
<1>6. CASE Ret
  <2>1. FramesOK(frame') /\ Top \in Nat /\ Top > 1 /\ Top = Len(frame)
    BY <1>6, RetFrames DEF Top
  <2>2. frame[Top - 1].pc \in Int
    <3>1. Top - 1 \in 1 .. Len(frame)
      BY <2>1
    <3> QED BY <3>1 DEF TypeOK, FramesOK
  <2>3. pc' \in Int
    BY <1>6, <2>2 DEF Ret, TypeOK
  <2> QED BY <1>6, <2>1, <2>3 DEF Ret, TypeOK
<1>7. CASE Jmp \/ Jif
  <2>1. WellLinked(prog) /\ pc \in DOMAIN prog.code /\ OpAt(prog, pc) \in {"JMP", "JIF"}
        /\ OpAt(prog, pc) = Inst.op
        /\ DOMAIN prog.code = 0 .. prog.size - 1 /\ prog.size \in Nat
        /\ ~(pc < prog.global_len) /\ pc \in Nat /\ prog.global_len \in Nat
    BY <1>7, FetchIsLinked DEF Jmp, Jif, Transfers
  <2>2. pc' \in DOMAIN prog.code
    <3>1. CASE Jmp
      BY <2>1, <3>1 DEF Jmp, Fetch, WellLinked, FlowOK, Body, Inst
    <3>2. CASE Jif
      BY <2>1, <3>2 DEF Jif, Fetch, WellLinked, FlowOK, Body, Inst
    <3> QED BY <1>7, <3>1, <3>2
  <2>3. pc' \in Int /\ UNCHANGED <<prog, frame, mode, status>> /\ DOMAIN reg' = DOMAIN reg
    <3>1. pc' \in Int
      BY <2>1, <2>2
    <3>2. UNCHANGED <<prog, frame, mode, status>> /\ DOMAIN reg' = DOMAIN reg
      BY <1>7 DEF Jmp, Jif
    <3> QED BY <3>1, <3>2
  <2> QED BY <2>3 DEF TypeOK
<1> QED BY <1>1, <1>2, <1>3, <1>4, <1>5, <1>6, <1>7 DEF Next, Straight, Builtins

(* The machine stays in its types: the vector of frames is never empty, a  *)
(* RET never pops the globals, and pc is an index, whatever the programs.  *)
THEOREM TypeCorrect == Spec => []TypeOK
<1> QED BY TypeInit, TypeStep, PTL DEF Spec

-----------------------------------------------------------------------------
(* The calling convention *)

(* Instructions i and j are of one function and past as many of its PARAMs. *)
SamePlace(p, i, j) == FuncOf(p, j) = FuncOf(p, i) /\ ArgsTaken(p, j) = ArgsTaken(p, i)

(* Frames whose calls and places are those of fs are linked if fs is. *)
LEMMA LinkedMove ==
  ASSUME NEW p, NEW fs, NEW gs, NEW i, NEW j, Linked(p, fs, i),
         Len(fs) \in Nat, Len(gs) \in 2 .. Len(fs),
         j \in p.global_len .. p.size - 1,
         \A k \in 2 .. Len(gs) - 1 : gs[k].pc = fs[k].pc,
         \A k \in 2 .. Len(gs) : SamePlace(p, Spot(fs, i, k), Spot(gs, j, k))
  PROVE  Linked(p, gs, j)
<1>1. FuncOf(p, Spot(gs, j, 2)) = p.entry
  <2>1. 2 \in 2 .. Len(gs)
    OBVIOUS
  <2> QED BY <2>1 DEF Linked, SamePlace
<1>2. ASSUME NEW k \in 2 .. Len(gs) - 1
      PROVE  \E c \in DOMAIN p.code : Serves(p, gs, j, k, c)
  <2>1. k \in 2 .. Len(fs) - 1 /\ k + 1 \in 2 .. Len(gs) /\ k \in Int
    OBVIOUS
  <2>2. PICK c \in DOMAIN p.code : Serves(p, fs, i, k, c)
    BY <2>1 DEF Linked
  <2>3. SamePlace(p, Spot(fs, i, k + 1), Spot(gs, j, k + 1)) /\ gs[k].pc = fs[k].pc
    BY <2>1
  <2>4. Serves(p, gs, j, k, c)
    BY <2>2, <2>3 DEF Serves, SamePlace
  <2> QED BY <2>4
<1> QED BY <1>1, <1>2 DEF Linked

(* The topmost frame moves within its function. *)
LEMMA LinkedStep ==
  ASSUME NEW p, NEW fs, NEW gs, NEW i, NEW j, Linked(p, fs, i), FramesOK(fs),
         SameCalls(fs, gs), j \in p.global_len .. p.size - 1, SamePlace(p, i, j)
  PROVE  Linked(p, gs, j)
<1>1. Len(gs) = Len(fs) /\ Len(fs) \in Nat /\ Len(fs) >= 2
  BY VectorShape DEF SameCalls, FramesOK, Linked
<1>2. \A k \in 2 .. Len(gs) - 1 : gs[k].pc = fs[k].pc
  BY <1>1 DEF SameCalls
<1>3. ASSUME NEW k \in 2 .. Len(gs)
      PROVE  SamePlace(p, Spot(fs, i, k), Spot(gs, j, k))
  <2>1. gs[k].pc = fs[k].pc
    BY <1>1 DEF SameCalls
  <2> QED BY <1>1, <2>1 DEF Spot, SamePlace
<1> QED BY <1>1, <1>2, <1>3, LinkedMove

(* A function begins at its FUNC, with no argument taken. *)
LEMMA AtHead ==
  ASSUME NEW p, WellLinked(p), NEW f \in DOMAIN p.code, OpAt(p, f) = "FUNC"
  PROVE  FuncOf(p, f) = f /\ ArgsTaken(p, f) = 0
<1>1. WellFormed(p) /\ f \in Int
  BY DEF WellLinked, WellFormed
<1>2. Heads(p, f, f)
  BY <1>1 DEF Heads
<1>3. FuncOf(p, f) = f
  BY <1>1, <1>2, HeadIsFuncOf
<1> QED BY <1>1, <1>3 DEF ArgsTaken

(* CALL *)
LEMMA LinkedCall ==
  ASSUME NEW p, WellLinked(p), NEW fs, NEW gs, NEW i, FramesOK(fs),
         Linked(p, fs, i), OpAt(p, i) = "CALL", p.code[i].target >= 0,
         Len(gs) = Len(fs) + 1,
         \A k \in 1 .. Len(fs) - 1 : gs[k].pc = fs[k].pc,
         gs[Len(fs)].pc = i
  PROVE  Linked(p, gs, p.code[i].target)
<1> DEFINE f == p.code[i].target
           n == Len(fs)
<1>1. /\ n \in Nat /\ n >= 2 /\ i \in p.global_len .. p.size - 1
      /\ p.size \in Nat /\ p.global_len \in Nat /\ DOMAIN p.code = 0 .. p.size - 1
  BY VectorShape DEF FramesOK, Linked, WellLinked, WellFormed
<1>2. i \in DOMAIN p.code /\ i >= p.global_len /\ i \in Int
  BY <1>1
<1>3. f \in DOMAIN p.code /\ f >= p.global_len /\ OpAt(p, f) = "FUNC"
  BY <1>2 DEF WellLinked, CallsOK
<1>4. f \in p.global_len .. p.size - 1 /\ FuncOf(p, f) = f /\ ArgsTaken(p, f) = 0
  BY <1>1, <1>3, AtHead
<1> HIDE DEF f
<1>5. \A k \in 2 .. n : Spot(gs, f, k) = Spot(fs, i, k)
  BY <1>1 DEF Spot
<1>6. FuncOf(p, Spot(gs, f, 2)) = p.entry
  BY <1>1, <1>5 DEF Linked
<1>7. ASSUME NEW k \in 2 .. n - 1
      PROVE  \E c \in DOMAIN p.code : Serves(p, gs, f, k, c)
  <2>1. PICK c \in DOMAIN p.code : Serves(p, fs, i, k, c)
    BY DEF Linked
  <2>2. Spot(gs, f, k + 1) = Spot(fs, i, k + 1) /\ gs[k].pc = fs[k].pc
    BY <1>1, <1>5
  <2>3. Serves(p, gs, f, k, c)
    BY <2>1, <2>2 DEF Serves
  <2> QED BY <2>3
<1>8. Serves(p, gs, f, n, i)
  <2>1. Spot(gs, f, n + 1) = f
    BY <1>1 DEF Spot
  <2> QED BY <1>1, <1>2, <1>4, <2>1 DEF Serves, f
<1>9. \A k \in 2 .. Len(gs) - 1 : k \in 2 .. n - 1 \/ k = n
  BY <1>1
<1>10. \A k \in 2 .. Len(gs) - 1 : \E c \in DOMAIN p.code : Serves(p, gs, f, k, c)
  BY <1>2, <1>7, <1>8, <1>9
<1>11. Linked(p, gs, f)
  BY <1>1, <1>4, <1>6, <1>10 DEF Linked
<1> QED BY <1>11 DEF f

(* While a function that has m arguments still to take, or is about to     *)
(* return, its caller's saved pc stands before the next ARG, or before the *)
(* instruction the call resumes at.                                        *)
LEMMA CallerNext ==
  ASSUME NEW p, WellLinked(p), NEW c \in DOMAIN p.code, c >= p.global_len,
         OpAt(p, c) = "CALL", NEW f, f = p.code[c].target, f >= 0,
         NEW a \in 0 .. Arity(p, f), NEW x, x = c + a
  PROVE  /\ x \in p.global_len .. p.size - 1
         /\ x + 1 \in p.global_len .. p.size - 1 /\ SamePlace(p, x, x + 1)
<1>1. /\ p.size \in Nat /\ p.global_len \in Nat /\ DOMAIN p.code = 0 .. p.size - 1
      /\ c \in Nat
  BY DEF WellLinked, WellFormed
<1>2. /\ f \in DOMAIN p.code /\ f >= p.global_len /\ OpAt(p, f) = "FUNC"
      /\ c + Arity(p, f) + 1 \in DOMAIN p.code
      /\ \A j \in c + 1 .. c + Arity(p, f) : OpAt(p, j) = "ARG"
      /\ OpAt(p, c + Arity(p, f) + 1) # "FUNC"
  BY DEF WellLinked, CallsOK
<1>3. FuncOf(p, f) = f /\ f \in p.global_len .. p.size - 1
  BY <1>1, <1>2, AtHead
<1>4. Arity(p, f) \in Nat
  BY <1>3, FuncOfHeads
<1>5. x \in p.global_len .. p.size - 1 /\ x + 1 \in DOMAIN p.code /\ x \in Int
  BY <1>1, <1>2, <1>4
<1>6. OpAt(p, x) # "PARAM"
  <2>1. x = c \/ x \in c + 1 .. c + Arity(p, f)
    BY <1>1, <1>4
  <2> QED BY <1>2, <2>1
<1>7. OpAt(p, x + 1) # "FUNC"
  <2> DEFINE y == x + 1
  <2>1. y = c + Arity(p, f) + 1 \/ y \in c + 1 .. c + Arity(p, f)
    BY <1>1, <1>4
  <2> HIDE DEF y
  <2>2. OpAt(p, y) # "FUNC"
    BY <1>2, <2>1
  <2> QED BY <2>2 DEF y
<1> QED BY <1>5, <1>6, <1>7, Advance DEF SamePlace

(* Only main runs in the second frame, and main has no PARAM. *)
LEMMA NotMain ==
  ASSUME NEW p, WellLinked(p), NEW fs, NEW i, FramesOK(fs), Linked(p, fs, i),
         \/ OpAt(p, i) = "PARAM"
         \/ OpAt(p, i) = "RET" /\ NoReturnInMain(p) /\ i # p.entry_end
  PROVE  Len(fs) \in Nat /\ Len(fs) >= 3
<1> DEFINE n == Len(fs)
<1>1. n \in Nat /\ n >= 2 /\ i \in p.global_len .. p.size - 1
  BY VectorShape DEF FramesOK, Linked
<1>2. n = 2 => FuncOf(p, i) = p.entry
  BY DEF Linked, Spot
<1> HIDE DEF n
<1>3. FuncOf(p, i) # p.entry
  <2>1. CASE OpAt(p, i) = "PARAM"
    <3>1. i \in FuncOf(p, i) + 1 .. FuncOf(p, i) + Arity(p, FuncOf(p, i))
      BY <1>1, <2>1, Header
    <3>2. Arity(p, p.entry) = 0 /\ p.entry \in Int
      BY DEF WellLinked, WellFormed
    <3> QED BY <3>1, <3>2
  <2>2. CASE OpAt(p, i) = "RET" /\ NoReturnInMain(p) /\ i # p.entry_end
    <3>1. i \in DOMAIN p.code /\ i >= p.global_len
      BY <1>1 DEF WellLinked, WellFormed
    <3> QED BY <2>2, <3>1 DEF NoReturnInMain
  <2> QED BY <2>1, <2>2
<1>4. n # 2
  BY <1>2, <1>3
<1>5. n >= 3
  BY ONLY <1>1, <1>4
<1> QED BY <1>1, <1>5 DEF n

(* PARAM *)
LEMMA LinkedParam ==
  ASSUME NEW p, WellLinked(p), NEW fs, NEW gs, NEW i, FramesOK(fs),
         Linked(p, fs, i), OpAt(p, i) = "PARAM", Len(gs) = Len(fs),
         \A k \in 1 .. Len(fs) : k # Len(fs) - 1 => gs[k].pc = fs[k].pc,
         gs[Len(fs) - 1].pc = fs[Len(fs) - 1].pc + 1
  PROVE  Linked(p, gs, i + 1)
<1> DEFINE n == Len(fs)
           f == FuncOf(p, i)
<1>1. n \in Nat /\ n >= 3 /\ i \in p.global_len .. p.size - 1
  BY NotMain DEF Linked
<1>2. i \in DOMAIN p.code /\ i >= p.global_len /\ i \in Int
      /\ p.size \in Nat /\ p.global_len \in Nat /\ f \in Int /\ Arity(p, f) \in Nat
  BY <1>1, FuncOfHeads DEF WellLinked, WellFormed
<1>3. i \in f + 1 .. f + Arity(p, f)
  BY <1>1, Header
<1>4. i + 1 \in DOMAIN p.code /\ OpAt(p, i + 1) # "FUNC"
  BY <1>2 DEF WellLinked, FlowOK, Transfers
<1>5. /\ i + 1 \in p.global_len .. p.size - 1 /\ FuncOf(p, i + 1) = f
      /\ ArgsTaken(p, i) = i - f - 1 /\ ArgsTaken(p, i + 1) = i - f
  BY <1>1, <1>4, Advance
<1> HIDE DEF f
<1>6. PICK c \in DOMAIN p.code : Serves(p, fs, i, n - 1, c)
  <2>1. n - 1 \in 2 .. Len(fs) - 1
    BY <1>1
  <2> QED BY <2>1 DEF Linked
<1> DEFINE x == fs[n - 1].pc
           j == i + 1
<1>7. /\ c >= p.global_len /\ OpAt(p, c) = "CALL" /\ p.code[c].target >= 0
      /\ p.code[c].target = f /\ x = c + (i - f - 1)
  <2>1. Spot(fs, i, n - 1 + 1) = i
    BY <1>1 DEF Spot
  <2> QED BY <1>5, <1>6, <2>1 DEF Serves, f
<1>8. SamePlace(p, x, x + 1)
  <2>1. i - f - 1 \in 0 .. Arity(p, f)
    BY <1>2, <1>3
  <2> HIDE DEF x
  <2> QED BY <1>7, <2>1, CallerNext
<1>9. ASSUME NEW k \in 2 .. n - 1
      PROVE  SamePlace(p, Spot(fs, i, k), Spot(gs, j, k))
  <2>1. CASE k = n - 1
    <3>1. Spot(fs, i, k) = x /\ Spot(gs, j, k) = x + 1
      BY <1>1, <2>1 DEF Spot
    <3> HIDE DEF x
    <3> QED BY <1>8, <3>1
  <2>2. CASE k # n - 1
    BY <1>1, <2>2 DEF Spot, SamePlace
  <2> QED BY <2>1, <2>2
<1> HIDE DEF x, j
<1>10. FuncOf(p, Spot(gs, j, 2)) = p.entry
  <2>1. 2 \in 2 .. n - 1
    BY <1>1
  <2> QED BY <1>9, <2>1 DEF Linked, SamePlace
<1>11. ASSUME NEW k \in 2 .. n - 2
       PROVE  \E d \in DOMAIN p.code : Serves(p, gs, j, k, d)
  <2>1. k \in 2 .. Len(fs) - 1 /\ k + 1 \in 2 .. n - 1 /\ gs[k].pc = fs[k].pc
    BY <1>1
  <2>2. PICK d \in DOMAIN p.code : Serves(p, fs, i, k, d)
    BY <2>1 DEF Linked
  <2>3. SamePlace(p, Spot(fs, i, k + 1), Spot(gs, j, k + 1))
    BY <1>9, <2>1
  <2>4. Serves(p, gs, j, k, d)
    BY <2>1, <2>2, <2>3 DEF Serves, SamePlace
  <2> QED BY <2>4
<1>12. Serves(p, gs, j, n - 1, c)
  <2>1. Spot(gs, j, n - 1 + 1) = j
    BY <1>1 DEF Spot
  <2>2. FuncOf(p, j) = f /\ ArgsTaken(p, j) = i - f
    BY <1>5 DEF j
  <2>3. gs[n - 1].pc = c + (i - f)
    BY <1>1, <1>2, <1>7 DEF x, WellLinked, WellFormed
  <2> QED BY <1>7, <2>1, <2>2, <2>3 DEF Serves
<1>13. \A k \in 2 .. Len(gs) - 1 : k \in 2 .. n - 2 \/ k = n - 1
  BY <1>1
<1>14. \A k \in 2 .. Len(gs) - 1 : \E d \in DOMAIN p.code : Serves(p, gs, j, k, d)
  BY <1>11, <1>12, <1>13
<1>15. Linked(p, gs, j)
  BY <1>1, <1>5, <1>10, <1>14 DEF Linked, j
<1> QED BY <1>15 DEF j

(* RET *)
LEMMA LinkedRet ==
  ASSUME NEW p, WellLinked(p), NoReturnInMain(p), NEW fs, NEW gs, NEW i, FramesOK(fs),
         Linked(p, fs, i), OpAt(p, i) = "RET", i # p.entry_end,
         Len(gs) = Len(fs) - 1, \A k \in 1 .. Len(fs) - 1 : gs[k] = fs[k]
  PROVE  Len(fs) >= 3 /\ Linked(p, gs, fs[Len(fs) - 1].pc + 1)
<1> DEFINE n == Len(fs)
           f == FuncOf(p, i)
           x == fs[n - 1].pc
           j == x + 1
<1>1. n \in Nat /\ n >= 3 /\ i \in p.global_len .. p.size - 1
  BY NotMain DEF Linked
<1>2. f + Arity(p, f) < i
  BY <1>1, Header
<1>3. ArgsTaken(p, i) = Arity(p, f) /\ Arity(p, f) \in Nat
  BY <1>1, <1>2, InBodyOf, FuncOfHeads
<1> HIDE DEF f
<1>4. PICK c \in DOMAIN p.code : Serves(p, fs, i, n - 1, c)
  <2>1. n - 1 \in 2 .. Len(fs) - 1
    BY <1>1
  <2> QED BY <2>1 DEF Linked
<1>5. /\ c >= p.global_len /\ OpAt(p, c) = "CALL" /\ p.code[c].target >= 0
      /\ p.code[c].target = f /\ x = c + Arity(p, f)
  <2>1. Spot(fs, i, n - 1 + 1) = i
    BY <1>1 DEF Spot
  <2> QED BY <1>3, <1>4, <2>1 DEF Serves, f
<1> HIDE DEF x
<1>6. SamePlace(p, x, j) /\ j \in p.global_len .. p.size - 1
  <2>1. Arity(p, f) \in 0 .. Arity(p, f)
    BY <1>3
  <2> QED BY <1>5, <2>1, CallerNext
<1> HIDE DEF j
<1>7. \A k \in 2 .. Len(gs) - 1 : gs[k].pc = fs[k].pc
  BY <1>1
<1>8. ASSUME NEW k \in 2 .. Len(gs)
      PROVE  SamePlace(p, Spot(fs, i, k), Spot(gs, j, k))
  <2>1. CASE k = n - 1
    <3>1. Spot(fs, i, k) = x /\ Spot(gs, j, k) = j
      BY <1>1, <2>1 DEF Spot, x
    <3> QED BY <1>6, <3>1
  <2>2. CASE k # n - 1
    BY <1>1, <2>2 DEF Spot, SamePlace
  <2> QED BY <2>1, <2>2
<1>9. Linked(p, gs, j)
  BY <1>1, <1>6, <1>7, <1>8, LinkedMove
<1> QED BY <1>1, <1>9 DEF j, x

-----------------------------------------------------------------------------
(* The calling convention is kept *)

(* Where the machine is when the convention holds. *)
LEMMA AtPlace ==
  ASSUME TypeOK, CallProtocol, NoReturnInMain(prog), NEW ops, Fetch(ops)
  PROVE  \/ mode = "INIT" /\ Top = 1 /\ pc \in 0 .. prog.global_len - 1
         \/ mode = "MAIN" /\ Linked(prog, frame, pc) /\ pc >= prog.global_len
<1>1. prog.size \in Nat /\ prog.global_len \in Nat
  BY FetchIsLinked
<1>2. ~(pc = prog.global_len /\ mode = "INIT")
  BY DEF Fetch, Fetched, AtMain
<1>3. CASE mode = "INIT" /\ Top = 1 /\ pc \in 0 .. prog.global_len
  <2>1. pc # prog.global_len
    BY <1>2, <1>3
  <2> QED BY <1>1, <1>3, <2>1
<1>4. CASE mode = "MAIN" /\ Linked(prog, frame, pc)
  BY <1>1, <1>4 DEF Linked
<1> QED BY <1>3, <1>4 DEF CallProtocol

(* A transfer, a PARAM, a FUNC or a call of a user function is met in MAIN. *)
LEMMA InMain ==
  ASSUME TypeOK, CallProtocol, NoReturnInMain(prog), NEW ops, Fetch(ops),
         \/ OpAt(prog, pc) \in Transfers \cup {"FUNC", "PARAM"}
         \/ OpAt(prog, pc) = "CALL" /\ prog.code[pc].target >= 0
  PROVE  mode = "MAIN" /\ Linked(prog, frame, pc) /\ pc \in prog.global_len .. prog.size - 1
<1>1. prog.size \in Nat /\ prog.global_len \in Nat /\ WellLinked(prog)
      /\ pc \in DOMAIN prog.code /\ DOMAIN prog.code = 0 .. prog.size - 1
  BY FetchIsLinked
<1>2. ASSUME pc \in 0 .. prog.global_len - 1 PROVE FALSE
  <2>1. OpAt(prog, pc) \notin Transfers \cup {"FUNC", "PARAM"}
    BY <1>1, <1>2 DEF WellLinked, GlobalsOK
  <2>2. OpAt(prog, pc) = "CALL" /\ prog.code[pc].target >= 0
    BY <2>1
  <2>3. prog.code[pc].target < 0 /\ prog.code[pc].target \in DOMAIN prog.code
    BY <1>1, <1>2, <2>2 DEF WellLinked, GlobalsOK, CallsOK
  <2>4. prog.code[pc].target \in Int
    BY <1>1, <2>3
  <2> QED BY <2>2, <2>3, <2>4
<1> QED BY <1>1, <1>2, AtPlace

(* An instruction that transfers nothing is followed by one of its function *)
(* or, in the initialisers, of the initialisers.                            *)
LEMMA NextPlace ==
  ASSUME NEW p, WellLinked(p), NEW i \in p.global_len .. p.size - 1,
         OpAt(p, i) \notin Transfers, OpAt(p, i) # "PARAM"
  PROVE  i + 1 \in p.global_len .. p.size - 1 /\ SamePlace(p, i, i + 1)
<1>1. i \in DOMAIN p.code /\ i >= p.global_len
  BY DEF WellLinked, WellFormed
<1>2. i + 1 \in DOMAIN p.code /\ OpAt(p, i + 1) # "FUNC"
  BY <1>1 DEF WellLinked, FlowOK
<1> QED BY <1>2, Advance DEF SamePlace

LEMMA CallStep ==
  ASSUME TypeOK, CallProtocol, NoReturnInMain(prog), Call
  PROVE  mode = "MAIN" /\ Linked(prog, frame', pc')
<1>1. WellLinked(prog) /\ OpAt(prog, pc) = "CALL" /\ Fetch({"CALL"})
      /\ prog.code[pc].target >= 0 /\ pc' = prog.code[pc].target
  BY FetchIsLinked DEF Call, Inst
<1>2. mode = "MAIN" /\ Linked(prog, frame, pc)
  BY <1>1, InMain
<1>3. /\ FramesOK(frame') /\ Len(frame') = Len(frame) + 1
      /\ \A k \in 1 .. Len(frame) - 1 : frame'[k].pc = frame[k].pc
      /\ frame'[Len(frame)].pc = pc
  BY CallFrames DEF Top
<1>4. FramesOK(frame)
  BY DEF TypeOK
<1> DEFINE gs == frame'
<1> HIDE DEF gs
<1>5. Linked(prog, gs, prog.code[pc].target)
  BY <1>1, <1>2, <1>3, <1>4, LinkedCall DEF gs
<1> QED BY <1>1, <1>2, <1>5 DEF gs

LEMMA ParamStep ==
  ASSUME TypeOK, CallProtocol, NoReturnInMain(prog), Param
  PROVE  mode = "MAIN" /\ Linked(prog, frame', pc')
<1>1. WellLinked(prog) /\ OpAt(prog, pc) = "PARAM" /\ Fetch({"PARAM"}) /\ pc' = pc + 1
  BY FetchIsLinked DEF Param, Step
<1>2. mode = "MAIN" /\ Linked(prog, frame, pc)
  BY <1>1, InMain
<1>3. FramesOK(frame) /\ Len(frame) = Top
  BY DEF TypeOK, Top
<1> DEFINE gs == frame'
<1>4. /\ Len(gs) = Top
      /\ \A k \in 1 .. Top : k # Top - 1 => gs[k].pc = frame[k].pc
      /\ gs[Top - 1].pc = frame[Top - 1].pc + 1
  BY ParamFrames
<1> HIDE DEF gs
<1>5. Linked(prog, gs, pc + 1)
  BY <1>1, <1>2, <1>3, <1>4, LinkedParam DEF Top
<1> QED BY <1>1, <1>2, <1>5 DEF gs

LEMMA RetStep ==
  ASSUME TypeOK, CallProtocol, NoReturnInMain(prog), Ret
  PROVE  mode = "MAIN" /\ Linked(prog, frame', pc')
<1>1. WellLinked(prog) /\ OpAt(prog, pc) = "RET" /\ Fetch({"RET"}) /\ pc # prog.entry_end
  BY FetchIsLinked DEF Ret, Fetch, Fetched
<1>2. mode = "MAIN" /\ Linked(prog, frame, pc)
  BY <1>1, InMain DEF Transfers
<1>3. FramesOK(frame) /\ Len(frame) = Top
  BY DEF TypeOK, Top
<1> DEFINE gs == frame'
<1>4. Len(gs) = Top - 1 /\ \A k \in 1 .. Top - 1 : gs[k] = frame[k]
  BY RetFrames
<1> HIDE DEF gs
<1>5. Len(frame) >= 3 /\ Linked(prog, gs, frame[Len(frame) - 1].pc + 1)
  BY <1>1, <1>2, <1>3, <1>4, LinkedRet
<1>6. Top > 2
  BY <1>3, <1>5, RetFrames
<1>7. pc' = frame[Len(frame) - 1].pc + 1
  BY <1>3, <1>6 DEF Ret
<1> QED BY <1>2, <1>5, <1>7 DEF gs

(* A jump lands in the body of the function it is in. *)
LEMMA JumpStep ==
  ASSUME TypeOK, CallProtocol, NoReturnInMain(prog), Jmp \/ Jif
  PROVE  mode = "MAIN" /\ Linked(prog, frame', pc')
<1> DEFINE f == FuncOf(prog, pc)
<1>1. WellLinked(prog) /\ OpAt(prog, pc) \in {"JMP", "JIF"} /\ OpAt(prog, pc) = Inst.op
      /\ Fetch({"JMP", "JIF"})
  BY FetchIsLinked DEF Jmp, Jif, Fetch
<1>2. mode = "MAIN" /\ Linked(prog, frame, pc) /\ pc \in prog.global_len .. prog.size - 1
  BY <1>1, InMain DEF Transfers
<1>3. pc \in DOMAIN prog.code /\ pc >= prog.global_len /\ prog.global_len \in Nat
      /\ prog.size \in Nat /\ DOMAIN prog.code = 0 .. prog.size - 1
      /\ f \in prog.global_len .. prog.size - 1 /\ Arity(prog, f) \in Nat
  BY <1>1, <1>2, FuncOfHeads DEF WellLinked, WellFormed
<1>4. f + Arity(prog, f) < pc
  BY <1>1, <1>2, Header
<1> HIDE DEF f
<1>5. Body(prog, f, pc')
  <2>1. CASE Jmp
    BY <1>1, <1>3, <2>1 DEF Jmp, Fetch, WellLinked, FlowOK, Inst, f
  <2>2. CASE Jif
    BY <1>1, <1>3, <2>2 DEF Jif, Fetch, WellLinked, FlowOK, Inst, f
  <2> QED BY <2>1, <2>2
<1> DEFINE j == pc'
<1>6. /\ j \in DOMAIN prog.code /\ Heads(prog, f, j) /\ f + Arity(prog, f) < j
  BY <1>5 DEF Body
<1> HIDE DEF j
<1>7. j \in prog.global_len .. prog.size - 1
  BY <1>3, <1>6 DEF Heads
<1>8. FuncOf(prog, j) = f
  <2>1. WellFormed(prog) /\ j \in Int
    BY <1>1, <1>3, <1>6 DEF WellLinked
  <2> QED BY <1>6, <2>1, HeadIsFuncOf
<1>9. ArgsTaken(prog, j) = Arity(prog, f) /\ ArgsTaken(prog, pc) = Arity(prog, f)
  BY <1>1, <1>2, <1>4, <1>6, <1>7, <1>8, InBodyOf DEF f
<1>10. SamePlace(prog, pc, j)
  BY <1>8, <1>9 DEF SamePlace, f
<1>11. frame' = frame /\ FramesOK(frame) /\ SameCalls(frame, frame)
  BY DEF Jmp, Jif, TypeOK, SameCalls
<1>12. Linked(prog, frame, j)
  BY <1>2, <1>7, <1>10, <1>11, LinkedStep
<1> QED BY <1>2, <1>11, <1>12 DEF j

(* The handlers that stay in their frame, and the calls of a builtin. *)
LEMMA StraightPlace ==
  ASSUME TypeOK, Straight \/ Builtins
  PROVE  /\ \E ops : Fetch(ops) /\ UNCHANGED <<prog, mode>>
         /\ OpAt(prog, pc) \notin Transfers /\ OpAt(prog, pc) # "PARAM"
         /\ pc' = pc + 1 \/ (pc' = pc + 2 /\ HasArg)
<1> DEFINE Ops == ArithOps \cup CompareOps \cup LogicOps \cup UnaryOps \cup LoadConst
                  \cup {"LOADX", "LOADXA", "STOREX", "STOREA", "FUNC", "ARG", "CALL"}
                  \cup StoreConst
<1>1. Fetch(Ops) /\ UNCHANGED <<prog, mode>> /\ (pc' = pc + 1 \/ (pc' = pc + 2 /\ HasArg))
  <2>1. CASE Straight
    BY <2>1 DEF Straight, Fetch, Step, Binary, Unary, Load, LoadX, LoadXA, Store, StoreA,
         StoreX, Pass
  <2>2. CASE Builtins
    BY <2>2 DEF Builtins, Fetch, CallBuiltin, CallPrint, CallRead, CallConvert, CallLength
  <2> QED BY <2>1, <2>2
<1>2. Ops \cap (Transfers \cup {"PARAM"}) = {}
  BY DEF Transfers, ArithOps, CompareOps, LogicOps, UnaryOps, LoadConst, StoreConst
<1> HIDE DEF Ops
<1>3. OpAt(prog, pc) \in Ops
  BY <1>1, FetchIsLinked
<1>4. OpAt(prog, pc) \notin Transfers /\ OpAt(prog, pc) # "PARAM"
  BY <1>2, <1>3
<1> QED BY <1>1, <1>4

LEMMA StraightStep ==
  ASSUME TypeOK, CallProtocol, NoReturnInMain(prog), Straight \/ Builtins
  PROVE  \/ mode' = "INIT" /\ Top' = 1 /\ pc' \in 0 .. prog.global_len
         \/ mode' = "MAIN" /\ Linked(prog, frame', pc')
<1>1. PICK ops : Fetch(ops) /\ UNCHANGED <<prog, mode>>
  BY StraightPlace
<1>2. /\ OpAt(prog, pc) \notin Transfers /\ OpAt(prog, pc) # "PARAM"
      /\ pc' = pc + 1 \/ (pc' = pc + 2 /\ OpAt(prog, pc + 1) = "ARG")
  BY StraightPlace DEF HasArg, OpAt
<1>3. WellLinked(prog) /\ prog.global_len \in Nat
      /\ OpAt(prog, prog.global_len) = "FUNC"
  BY <1>1, FetchIsLinked DEF WellLinked, WellFormed
<1>4. FramesOK(frame) /\ SameCalls(frame, frame')
  BY StraightFrames DEF TypeOK
<1>5. CASE mode = "INIT" /\ Top = 1 /\ pc \in 0 .. prog.global_len - 1
  <2>1. Top' = 1
    BY <1>4, <1>5 DEF SameCalls, Top
  <2>2. CASE pc' = pc + 1
    BY <1>1, <1>3, <1>5, <2>1, <2>2
  <2>3. CASE pc' = pc + 2 /\ OpAt(prog, pc + 1) = "ARG"
    <3>1. pc + 1 # prog.global_len
      BY <1>3, <2>3
    <3> QED BY <1>1, <1>3, <1>5, <2>1, <2>3, <3>1
  <2> QED BY <1>2, <2>2, <2>3
<1>6. CASE mode = "MAIN" /\ Linked(prog, frame, pc)
  <2> DEFINE i == pc + 1
             j == pc'
             gs == frame'
  <2>1. pc \in prog.global_len .. prog.size - 1
    BY <1>6 DEF Linked
  <2>2. i \in prog.global_len .. prog.size - 1 /\ SamePlace(prog, pc, i)
    BY <1>2, <1>3, <2>1, NextPlace
  <2>3. j \in prog.global_len .. prog.size - 1 /\ SamePlace(prog, pc, j)
    <3>1. CASE pc' = pc + 1
      BY <2>2, <3>1
    <3>2. CASE pc' = pc + 2 /\ OpAt(prog, pc + 1) = "ARG"
      <4> DEFINE n == i + 1
      <4>1. OpAt(prog, i) \notin Transfers /\ OpAt(prog, i) # "PARAM"
        BY <3>2 DEF Transfers
      <4> HIDE DEF i
      <4>2. n \in prog.global_len .. prog.size - 1 /\ SamePlace(prog, i, n)
        BY <1>3, <2>2, <4>1, NextPlace
      <4>3. SamePlace(prog, pc, n)
        BY <2>2, <4>2 DEF SamePlace
      <4>4. pc' = n
        BY <2>1, <1>3, <3>2 DEF i, WellLinked, WellFormed
      <4> QED BY <4>2, <4>3, <4>4
    <3> QED BY <1>2, <3>1, <3>2
  <2> HIDE DEF j, gs
  <2>4. Linked(prog, gs, j)
    BY <1>4, <1>6, <2>3, LinkedStep DEF gs
  <2> QED BY <1>1, <1>6, <2>4 DEF j, gs
<1> QED BY <1>1, <1>5, <1>6, AtPlace

LEMMA StartStep ==
  ASSUME TypeOK, CallProtocol, NoReturnInMain(prog), StartMain
  PROVE  mode' = "MAIN" /\ Linked(prog, frame', pc')
<1>1. WellLinked(prog)
  BY ProgramsLinked DEF TypeOK
<1>2. /\ prog.size \in Nat /\ prog.global_len \in Nat /\ DOMAIN prog.code = 0 .. prog.size - 1
      /\ prog.entry \in prog.global_len .. prog.size - 1 /\ OpAt(prog, prog.entry) = "FUNC"
  BY <1>1 DEF WellLinked, WellFormed
<1>3. mode = "INIT" /\ Len(frame) = 1 /\ pc' = prog.entry
  BY DEF StartMain, AtMain, CallProtocol, Top
<1>4. NewFrame = [symbols |-> NewFrame.symbols, pc |-> NewFrame.pc] /\ NewFrame.pc \in Int
  BY DEF NewFrame
<1>5. Len(frame') = 2
  <2>1. FramesOK(frame) /\ frame' = Append(frame, NewFrame)
    BY DEF StartMain, TypeOK
  <2>2. Len(Append(frame, NewFrame)) = Len(frame) + 1
    BY <1>4, <2>1, PushKeeps
  <2> QED BY <1>3, <2>1, <2>2
<1>6. FuncOf(prog, prog.entry) = prog.entry
  BY <1>1, <1>2, AtHead
<1>7. FuncOf(prog, Spot(frame', pc', 2)) = prog.entry
  BY <1>3, <1>5, <1>6 DEF Spot
<1>8. Linked(prog, frame', pc')
  BY <1>2, <1>3, <1>5, <1>7 DEF Linked
<1> QED BY <1>8 DEF StartMain

LEMMA ProtocolInit == Init => CallProtocol
<1> SUFFICES ASSUME Init PROVE mode = "INIT" /\ Top = 1 /\ pc \in 0 .. prog.global_len
  BY DEF CallProtocol
<1>1. prog.global_len \in Nat
  BY ProgramsLinked DEF Init, WellLinked, WellFormed
<1> QED BY <1>1 DEF Init, Top

LEMMA CallProtocolStep == TypeOK /\ CallProtocol /\ [Next]_vars => CallProtocol'
<1> SUFFICES ASSUME TypeOK, CallProtocol, [Next]_vars, NoReturnInMain(prog)'
             PROVE  \/ mode' = "INIT" /\ Top' = 1 /\ pc' \in 0 .. prog'.global_len
                    \/ mode' = "MAIN" /\ Linked(prog', frame', pc')
  BY DEF CallProtocol
<1>1. prog' = prog
  BY DEF vars, Next, StartMain, Halt, Abort, Binary, Unary, Load, LoadX, LoadXA, Store,
     StoreA, StoreX, Pass, Call, CallPrint, CallRead, CallConvert, CallLength, CallBuiltin,
     Param, Ret, Jmp, Jif, Terminated, Step
<1>2. NoReturnInMain(prog)
  BY <1>1
<1>3. CASE UNCHANGED vars \/ Terminated \/ Halt \/ Abort
  <2>1. UNCHANGED <<mode, frame, pc>>
    BY <1>3 DEF vars, Terminated, Halt, Abort
  <2> QED BY <1>1, <1>2, <2>1 DEF CallProtocol, Top
<1>4. CASE StartMain
  BY <1>1, <1>2, <1>4, StartStep
<1>5. CASE Straight \/ Builtins
  BY <1>1, <1>2, <1>5, StraightStep
<1>6. CASE Call
  BY <1>1, <1>2, <1>6, CallStep DEF Call
<1>7. CASE Param
  BY <1>1, <1>2, <1>7, ParamStep DEF Param, Step
<1>8. CASE Ret
  BY <1>1, <1>2, <1>8, RetStep DEF Ret
<1>9. CASE Jmp \/ Jif
  BY <1>1, <1>2, <1>9, JumpStep DEF Jmp, Jif
<1> QED BY <1>3, <1>4, <1>5, <1>6, <1>7, <1>8, <1>9 DEF Next, Straight, Builtins

(* call(), param() and ret() keep their convention in every well-linked    *)
(* program whose main has no early return, at any depth of recursion: a    *)
(* PARAM takes the ARG of its own position of the call that made its frame *)
(* and RET resumes behind the last ARG of that call.                       *)
THEOREM CallProtocolHolds == Spec => []CallProtocol
<1>1. Init => TypeOK /\ CallProtocol
  BY TypeInit, ProtocolInit
<1>2. TypeOK /\ CallProtocol /\ [Next]_vars => (TypeOK /\ CallProtocol)'
  BY TypeStep, CallProtocolStep
<1> QED BY <1>1, <1>2, PTL DEF Spec

-----------------------------------------------------------------------------
(* Suspended frames *)

(* No step touches the variables of a suspended call, in any program: a    *)
(* step writes the running frame and the globals, and PARAM only adds an   *)
(* empty variable to its caller.                                           *)
THEOREM FramesIsolated == Spec => FrameIsolation
<1> DEFINE Isolated ==
      \A k \in 2 .. Top - 1 :
        \A name \in DOMAIN frame[k].symbols :
          /\ k \in DOMAIN frame'
          /\ name \in DOMAIN frame'[k].symbols
          /\ frame'[k].symbols[name] = frame[k].symbols[name]
<1>1. TypeOK /\ [Next]_vars => [Isolated]_vars
  <2> SUFFICES ASSUME TypeOK, Next,
                      NEW k \in 2 .. Top - 1, NEW name \in DOMAIN frame[k].symbols
               PROVE  /\ k \in DOMAIN frame'
                      /\ name \in DOMAIN frame'[k].symbols
                      /\ frame'[k].symbols[name] = frame[k].symbols[name]
    OBVIOUS
  <2>1. FramesOK(frame) /\ Top \in Nat /\ Top = Len(frame) /\ DOMAIN frame = 1 .. Top
        /\ k \in DOMAIN frame /\ k \in Int
    BY VectorShape DEF TypeOK, FramesOK, Top
  <2>2. ASSUME FramesOK(frame'), Len(frame') >= Top - 1, frame'[k].symbols = frame[k].symbols
        PROVE  /\ k \in DOMAIN frame'
               /\ name \in DOMAIN frame'[k].symbols
               /\ frame'[k].symbols[name] = frame[k].symbols[name]
    BY <2>1, <2>2, VectorShape DEF FramesOK
  <2>3. CASE frame' = frame
    BY <2>1, <2>3
  <2>4. CASE StartMain
    <3>1. FramesOK(frame) /\ frame' = Append(frame, NewFrame)
      BY <2>1, <2>4 DEF StartMain
    <3>2. NewFrame = [symbols |-> NewFrame.symbols, pc |-> NewFrame.pc] /\ NewFrame.pc \in Int
      BY DEF NewFrame
    <3>3. /\ FramesOK(frame') /\ Len(frame') = Len(frame) + 1
          /\ \A j \in 1 .. Len(frame) : frame'[j] = frame[j]
      BY <3>1, <3>2, PushKeeps
    <3> QED BY <2>1, <2>2, <3>3
  <2>5. CASE Straight \/ Builtins
    BY <2>1, <2>2, <2>5, StraightFrames DEF SameCalls
  <2>6. CASE Call
    BY <2>1, <2>2, <2>6, CallFrames
  <2>7. CASE Ret
    BY <2>1, <2>2, <2>7, RetFrames
  <2>8. CASE Param
    <3>1. DOMAIN frame' = 1 .. Top
      BY <2>8, ParamFrames, VectorShape DEF FramesOK
    <3>2. CASE k = Top - 1
      BY <2>1, <2>8, <3>1, <3>2, ParamFrames
    <3>3. CASE k \in 1 .. Top - 2
      BY <2>1, <2>8, <3>1, <3>3, ParamFrames
    <3> QED BY <2>1, <3>2, <3>3
  <2> QED BY <2>3, <2>4, <2>5, <2>6, <2>7, <2>8
          DEF Next, Halt, Abort, Jmp, Jif, Terminated, vars, Straight, Builtins
<1> QED BY <1>1, TypeCorrect, PTL DEF Spec, FrameIsolation

-----------------------------------------------------------------------------
(* The table of the globals *)

(* The names in frame[0], and those an access made in frame[0] can add. *)
Table(fs) == DOMAIN fs[1].symbols
Own(names) == IF Top = 1 THEN names ELSE {}
Reached == Mentioned(Inst) \cup (IF HasArg THEN Mentioned(TheArg) ELSE {})

LEMMA DeclareTable ==
  ASSUME FramesOK(frame), NEW names
  PROVE  Table(Declare(names)) \subseteq Table(frame) \cup Own(names)
<1>1. Top \in Nat /\ Top >= 1 /\ Top = Len(frame) /\ Top \in 1 .. Len(frame)
  BY VectorShape DEF FramesOK, Top
<1>2. CASE Top > 1
  <2>1. 1 \in 1 .. Top - 1
    BY <1>1, <1>2
  <2> QED BY <2>1, DeclareKeeps DEF Table
<1>3. CASE Top = 1
  <2> DEFINE old == frame[Top].symbols
             new == [n \in DOMAIN old \cup Created(names) |->
                       IF n \in Created(names) THEN None ELSE old[n]]
             gs  == WithSymbols(frame, Top, new)
  <2>1. Declare(names) = gs /\ DOMAIN new \subseteq DOMAIN old \cup names
    BY DEF Declare, WithSymbols, Created
  <2> HIDE DEF new
  <2>2. \A j \in 1 .. Len(frame) : gs[j].symbols = IF j = Top THEN new ELSE frame[j].symbols
    BY <1>1, SetSymbols
  <2> HIDE DEF gs
  <2> QED BY <1>1, <1>3, <2>1, <2>2 DEF Table, Own
<1> QED BY <1>1, <1>2, <1>3

(* A variable found in frame[0] is in its table already. *)
LEMMA AssignTable ==
  ASSUME FramesOK(frame), NEW name, NEW idx, NEW v
  PROVE  Table(Assign(name, idx, v)) \subseteq Table(frame) \cup Own(Touched(name, idx))
<1> DEFINE names == Touched(name, idx)
           ds == Declare(names)
           h  == Home(name)
           bs == Bind(ds[h].symbols, name, v)
           gs == WithSymbols(ds, h, bs)
<1>1. /\ Top \in Nat /\ Top >= 1 /\ Top = Len(frame)
      /\ FramesOK(ds) /\ Len(ds) = Len(frame) /\ 1 \in 1 .. Len(ds)
  BY DeclareKeeps, VectorShape DEF SameCalls, FramesOK, Top
<1>2. Table(ds) \subseteq Table(frame) \cup Own(names)
  BY DeclareTable
<1>3. h \in {1, Top} /\ h \in 1 .. Len(ds)
  BY <1>1, HomeIsFrame
<1>4. gs = Assign(name, idx, v) /\ DOMAIN bs = DOMAIN ds[h].symbols \cup {name}
  BY DEF Assign, WithSymbols, Bind
<1>5. h = 1 => name \in Table(frame) \cup Own(names)
  <2>1. name \in names
    BY DEF Touched
  <2>2. CASE Top = 1
    BY <2>1, <2>2 DEF Own
  <2>3. CASE Top # 1
    BY <2>3 DEF Home, Table
  <2> QED BY <2>2, <2>3
<1> HIDE DEF ds, h, bs, names
<1>6. \A j \in 1 .. Len(ds) : gs[j].symbols = IF j = h THEN bs ELSE ds[j].symbols
  BY <1>1, <1>3, SetSymbols
<1> HIDE DEF gs
<1>7. Table(gs) \subseteq Table(ds) \cup (IF h = 1 THEN {name} ELSE {})
  BY <1>1, <1>4, <1>6 DEF Table
<1> QED BY <1>2, <1>4, <1>5, <1>7 DEF names

LEMMA BuiltinArgTable ==
  ASSUME FramesOK(frame)
  PROVE  Table(BuiltinArgFrames) \subseteq Table(frame) \cup Own(Reached)
<1>1. CASE HasArg /\ TheArg.type = "MAP"
  <2> DEFINE names == Touched(TheArg.name, TheArg.idx)
  <2>1. BuiltinArgFrames = Declare(names) /\ names \subseteq Reached
    BY <1>1 DEF BuiltinArgFrames, Reached, Mentioned, HasArg, TheArg
  <2> HIDE DEF names
  <2> QED BY <2>1, DeclareTable DEF Own
<1>2. CASE ~(HasArg /\ TheArg.type = "MAP")
  BY <1>2 DEF BuiltinArgFrames
<1> QED BY <1>1, <1>2

LEMMA StraightTable ==
  ASSUME TypeOK, Straight \/ Builtins
  PROVE  Table(frame') \subseteq Table(frame) \cup Own(Reached)
<1> DEFINE Goal == Table(frame') \subseteq Table(frame) \cup Own(Reached)
<1>1. FramesOK(frame) /\ Top \in Nat /\ Top = Len(frame) /\ Top \in 1 .. Len(frame)
  BY VectorShape DEF TypeOK, FramesOK, Top
<1>2. CASE UNCHANGED frame
  BY <1>2
<1>3. ASSUME NEW names, frame' = Declare(names), names \subseteq Reached PROVE Goal
  BY <1>1, <1>3, DeclareTable DEF Own
<1>4. ASSUME NEW name, NEW idx, NEW v, frame' = Assign(name, idx, v),
             Touched(name, idx) \subseteq Reached
      PROVE  Goal
  BY <1>1, <1>4, AssignTable DEF Own
<1>5. CASE frame' = BuiltinArgFrames
  BY <1>1, <1>5, BuiltinArgTable
<1>6. CASE Store
  <2> DEFINE v == Bind(frame[Top].symbols, Inst.name, Inst.val)
  <2>1. frame' = WithSymbols(frame, Top, v) /\ Inst.op \in StoreConst
    BY <1>6 DEF Store, WithSymbols, Fetch
  <2>2. DOMAIN v = DOMAIN frame[Top].symbols \cup {Inst.name} /\ Inst.name \in Reached
    BY <2>1 DEF Bind, Reached, Mentioned, StoreConst
  <2> HIDE DEF v
  <2>3. \A j \in 1 .. Len(frame) :
          frame'[j].symbols = IF j = Top THEN v ELSE frame[j].symbols
    BY <1>1, <2>1, SetSymbols
  <2> QED BY <1>1, <2>2, <2>3 DEF Table, Own
<1>7. CASE Binary \/ Unary \/ Load \/ Pass
  BY <1>2, <1>7 DEF Binary, Unary, Load, Pass
<1>8. CASE LoadX
  <2>1. Touched(Inst.name, Inst.idx) \subseteq Reached
    BY <1>8 DEF LoadX, Fetch, Reached, Mentioned
  <2> QED BY <1>3, <1>8, <2>1 DEF LoadX
<1>9. CASE LoadXA
  <2>1. {Inst.name} \subseteq Reached
    BY <1>9 DEF LoadXA, Fetch, Reached, Mentioned
  <2> QED BY <1>3, <1>9, <2>1 DEF LoadXA
<1>10. CASE StoreA
  <2>1. Touched(Inst.name, Inst.idx) \subseteq Reached
    BY <1>10 DEF StoreA, Fetch, Reached, Mentioned
  <2> QED BY <1>4, <1>10, <2>1 DEF StoreA
<1>11. CASE StoreX
  <2>1. Touched(Inst.name, Inst.idx) \subseteq Reached
    BY <1>11 DEF StoreX, Fetch, Reached, Mentioned
  <2> QED BY <1>4, <1>11, <2>1 DEF StoreX
<1>12. CASE CallPrint \/ CallRead \/ CallLength
  BY <1>5, <1>12 DEF CallPrint, CallRead, CallLength
<1>13. CASE CallConvert
  <2>1. CASE TheArg.type = "MAP"
    <3>1. HasArg
      BY <1>13 DEF CallConvert, CallBuiltin, Fetch, Fault, BuiltinFault, ToInt, ToStr,
         ArithOps, LogicOps, CompareOps, UnaryOps
    <3>2. Touched(TheArg.name, TheArg.idx) \subseteq Reached
      BY <2>1, <3>1 DEF Reached, Mentioned, HasArg, TheArg
    <3> QED BY <1>4, <1>13, <2>1, <3>2 DEF CallConvert
  <2>2. CASE TheArg.type # "MAP"
    BY <1>2, <1>13, <2>2 DEF CallConvert
  <2> QED BY <2>1, <2>2
<1> QED BY <1>6, <1>7, <1>8, <1>9, <1>10, <1>11, <1>12, <1>13 DEF Straight, Builtins

(* In the initialisers every name reached is one of theirs; elsewhere the  *)
(* running frame is not frame[0].                                          *)
LEMMA OwnIsGlobal ==
  ASSUME TypeOK, CallProtocol, NoReturnInMain(prog), Straight \/ Builtins
  PROVE  Own(Reached) \subseteq GlobalNames(prog)
<1>1. PICK ops : Fetch(ops)
  BY StraightPlace
<1>2. /\ WellLinked(prog) /\ prog.global_len \in Nat
      /\ OpAt(prog, prog.global_len) = "FUNC"
  BY <1>1, FetchIsLinked DEF WellLinked, WellFormed
<1>3. CASE mode = "INIT" /\ Top = 1 /\ pc \in 0 .. prog.global_len - 1
  <2>1. Mentioned(Inst) \subseteq GlobalNames(prog)
    BY <1>3 DEF GlobalNames, Inst
  <2>2. ASSUME HasArg PROVE Mentioned(TheArg) \subseteq GlobalNames(prog)
    <3>1. pc + 1 # prog.global_len
      BY <1>2, <2>2 DEF HasArg, OpAt
    <3>2. pc + 1 \in 0 .. prog.global_len - 1
      BY <1>2, <1>3, <3>1
    <3> QED BY <3>2 DEF GlobalNames, TheArg
  <2> QED BY <2>1, <2>2 DEF Own, Reached
<1>4. CASE mode = "MAIN" /\ Linked(prog, frame, pc)
  <2>1. Len(frame) >= 2 /\ Len(frame) \in Nat
    BY <1>4, VectorShape DEF Linked, TypeOK, FramesOK
  <2>2. Top # 1
    BY <2>1 DEF Top
  <2> QED BY <2>2 DEF Own
<1> QED BY <1>1, <1>3, <1>4, AtPlace

Kept == NoReturnInMain(prog) => GlobalTable

LEMMA KeptStep == TypeOK /\ CallProtocol /\ Kept /\ [Next]_vars => Kept'
<1> SUFFICES ASSUME TypeOK, CallProtocol, Kept, [Next]_vars, NoReturnInMain(prog)'
             PROVE  GlobalTable'
  BY DEF Kept
<1>1. prog' = prog
  BY DEF vars, Next, StartMain, Halt, Abort, Binary, Unary, Load, LoadX, LoadXA, Store,
     StoreA, StoreX, Pass, Call, CallPrint, CallRead, CallConvert, CallLength, CallBuiltin,
     Param, Ret, Jmp, Jif, Terminated, Step
<1>2. NoReturnInMain(prog) /\ Table(frame) \subseteq GlobalNames(prog)
  BY <1>1 DEF Kept, GlobalTable, Table
<1>3. SUFFICES Table(frame') \subseteq GlobalNames(prog)
  BY <1>1 DEF GlobalTable, Table
<1>4. FramesOK(frame) /\ Top \in Nat /\ Top >= 1 /\ Top = Len(frame)
  BY VectorShape DEF TypeOK, FramesOK, Top
<1>5. CASE UNCHANGED frame
  BY <1>2, <1>5
<1>6. ASSUME frame'[1] = frame[1] PROVE Table(frame') \subseteq GlobalNames(prog)
  BY <1>2, <1>6 DEF Table
<1>7. CASE StartMain
  <2>1. NewFrame = [symbols |-> NewFrame.symbols, pc |-> NewFrame.pc] /\ NewFrame.pc \in Int
    BY DEF NewFrame
  <2>2. frame' = Append(frame, NewFrame)
    BY <1>7 DEF StartMain
  <2>3. \A k \in 1 .. Len(frame) : frame'[k] = frame[k]
    BY <1>4, <2>1, <2>2, PushKeeps
  <2> QED BY <1>4, <1>6, <2>3
<1>8. CASE Straight \/ Builtins
  BY <1>2, <1>8, StraightTable, OwnIsGlobal
<1>9. CASE Call
  <2>1. CASE Top = 1
    BY <1>2, <1>9, <2>1, CallFrames DEF Table
  <2>2. CASE Top > 1
    BY <1>4, <1>6, <1>9, <2>2, CallFrames
  <2> QED BY <1>4, <2>1, <2>2
<1>10. CASE Param
  <2>1. WellLinked(prog) /\ OpAt(prog, pc) = "PARAM" /\ Fetch({"PARAM"})
    BY <1>10, FetchIsLinked DEF Param
  <2>2. Linked(prog, frame, pc)
    BY <1>2, <2>1, InMain
  <2>3. Len(frame) >= 3
    BY <1>4, <2>1, <2>2, NotMain
  <2> QED BY <1>4, <1>6, <1>10, <2>3, ParamFrames
<1>11. CASE Ret
  <2>1. Top > 1 /\ \A k \in 1 .. Top - 1 : frame'[k] = frame[k]
    BY <1>11, RetFrames
  <2> QED BY <1>4, <1>6, <2>1
<1> QED BY <1>5, <1>7, <1>8, <1>9, <1>10, <1>11
        DEF Next, Halt, Abort, Jmp, Jif, Terminated, vars, Straight, Builtins

(* fetch()'s "frame[0] is global var decl table": in every well-linked     *)
(* program whose main has no early return, no name but those of the        *)
(* initialisers is ever entered in frame[0].                               *)
THEOREM GlobalTableKept == Spec => [](NoReturnInMain(prog) => GlobalTable)
<1>1. Init => TypeOK /\ CallProtocol /\ Kept
  <2>1. Init => Kept
    BY DEF Init, Kept, GlobalTable, NewFrame
  <2> QED BY <2>1, TypeInit, ProtocolInit
<1>2. TypeOK /\ CallProtocol /\ Kept /\ [Next]_vars => (TypeOK /\ CallProtocol /\ Kept)'
  BY TypeStep, CallProtocolStep, KeptStep
<1>3. Kept => (NoReturnInMain(prog) => GlobalTable)
  BY DEF Kept
<1> QED BY <1>1, <1>2, <1>3, PTL DEF Spec
=============================================================================
