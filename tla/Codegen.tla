------------------------------ MODULE Codegen -------------------------------
(***************************************************************************)
(* The bytecode generator, compiler/bytecode/bytecode_generator.cpp: IR to *)
(* blocks of VM instructions, then relocation into one linked program in   *)
(* the form module VM executes.                                            *)
(***************************************************************************)
EXTENDS IR, CYXValue, Vectors, Integers, Sequences, SequencesExt

(* The funcs_table entries the constructor makes for the builtins. *)
BuiltinIndex == [print |-> -1, println |-> -2, read |-> -3, int |-> -4,
                 string |-> -6, len |-> -7]

-----------------------------------------------------------------------------
(* What the generator relies on in an IR program *)

(* A name stands for one function (b = 0) or block of the whole program. *)
NameOf(ir, fn, b) == IF b = 0 THEN ir.funcs[fn].name ELSE ir.funcs[fn].blocks[b].name
NamesApart(ir) ==
  \A f, g \in DOMAIN ir.funcs :
    \A b \in 0 .. Len(ir.funcs[f].blocks), c \in 0 .. Len(ir.funcs[g].blocks) :
      NameOf(ir, f, b) = NameOf(ir, g, c) => f = g /\ b = c

Kinds == {"binary", "const", "var", "array", "call"}
SourceOK(src) == /\ \E kind \in Kinds : DOMAIN src \cap Kinds = {kind}
                 /\ "array" \in DOMAIN src => IsVector(src.array)
                 /\ "call" \in DOMAIN src => IsVector(src.args)

InstOK(i) == \/ i.tag = "ASSIGN" /\ SourceOK(i.src)
             \/ i.tag = "CALL" /\ IsVector(i.args)
             \/ i.tag \in {"RETURN", "JMP", "BRANCH"}

(* A jump leads to a block of its function that is not empty. *)
TargetsOK(f, i) ==
  LET leads(name) == \E c \in DOMAIN f.blocks : f.blocks[c].name = name /\ f.blocks[c].insts # << >>
  IN /\ i.tag = "JMP" => leads(i.to)
     /\ i.tag = "BRANCH" => leads(i.yes) /\ leads(i.no)

(* A call names a builtin, or a function with as many parameters. *)
Called(i) == IF i.tag = "CALL" THEN i ELSE i.src
HasCall(i) == IF i.tag = "ASSIGN" THEN IsCall(i.src) ELSE i.tag = "CALL"
CallOK(ir, i) ==
  HasCall(i) =>
    \/ Called(i).call \in DOMAIN BuiltinIndex
    \/ \E g \in DOMAIN ir.funcs : /\ ir.funcs[g].name = Called(i).call
                                  /\ Len(ir.funcs[g].params) = Len(Called(i).args)

(* No block runs out of its function. *)
FunctionOK(ir, f) ==
  /\ f.name \notin DOMAIN BuiltinIndex
  /\ IsVector(f.params) /\ IsVector(f.blocks) /\ f.blocks # << >>
  /\ \A b \in DOMAIN f.blocks :
       /\ IsVector(f.blocks[b].insts)
       /\ \A k \in DOMAIN f.blocks[b].insts :
            LET i == f.blocks[b].insts[k] IN InstOK(i) /\ TargetsOK(f, i) /\ CallOK(ir, i)
  /\ LET last == f.blocks[Len(f.blocks)].insts
     IN last # << >> /\ last[Len(last)].tag \in {"RETURN", "JMP", "BRANCH"}

(* Calls in global initialisers are not resolved, see fixBlock. *)
GlobalOK(i) == i.tag = "ASSIGN" /\ SourceOK(i.src) /\ ~IsCall(i.src)

WellFormedIR(ir) ==
  /\ IsVector(ir.globals) /\ \A k \in DOMAIN ir.globals : GlobalOK(ir.globals[k])
  /\ IsVector(ir.funcs) /\ \A f \in DOMAIN ir.funcs : FunctionOK(ir, ir.funcs[f])
  /\ \E f \in DOMAIN ir.funcs : ir.funcs[f].name = ENTRY_FUNC /\ ir.funcs[f].params = << >>
  /\ NamesApart(ir)

-----------------------------------------------------------------------------
(* Instruction selection *)

genLoadX(r, v) == [op |-> "LOADX", reg |-> r, name |-> v.var, idx |-> v.idx]
genStoreX(v, r) == [op |-> "STOREX", reg |-> r, name |-> v.var, idx |-> v.idx]

genLoadConst(r, c) ==
  IF IsInt(c) THEN <<[op |-> "LOADI", reg |-> r, val |-> c]>>
  ELSE IF IsStr(c) THEN <<[op |-> "LOADS", reg |-> r, val |-> c]>>
  ELSE << >>

genOperand(r, x) == IF IsVar(x) THEN <<genLoadX(r, x)>>
                    ELSE IF IsConst(x) THEN genLoadConst(r, x.const)
                    ELSE << >>

(* The opcodes that have a VM instruction with two operands. *)
Selected == {"ADD", "SUB", "MUL", "DIV", "MOD", "BAND", "BXOR", "BOR", "SHL", "SHR",
             "LAND", "LOR", "EQ", "NE", "LE", "LT", "GE", "GT"}

(* A unary operation has no left side: ~a works in register 1, and any     *)
(* other on a variable generates nothing at all.                           *)
genBinary(b) ==
  LET unary == b.lhs = NoOperand /\ IsVar(b.rhs)
      operation == IF b.binary \in Selected
                     THEN <<[op |-> b.binary, r1 |-> 1, r2 |-> 2]>> ELSE << >>
  IN IF unary /\ b.binary = "BNOT"
       THEN <<genLoadX(1, b.rhs), [op |-> "BNOT", reg |-> 1, type |-> "MAP", name |-> b.rhs.var]>>
     ELSE IF unary THEN operation
     ELSE genOperand(1, b.lhs) \o genOperand(2, b.rhs) \o operation

genArg(x) == IF IsVar(x)
               THEN [op |-> "ARG", type |-> "MAP", name |-> x.var, idx |-> x.idx]
               ELSE [op |-> "ARG", type |-> "RAW", val |-> x.const]

(* A call instruction carries the callee's name until fixCall; target is   *)
(* -1 until then.                                                          *)
genCall(c) ==
  <<[op |-> "CALL", name |-> c.call, target |-> -1]>>
    \o [k \in DOMAIN c.args |-> genArg(c.args[k])]

(* Wrong: forgets the equality operators. *)
ToStateOrders == {"LE", "LT", "GE", "GT", "LAND", "LOR"}

(* Comparisons and && || leave their result in register 0. *)
ToState == {"LE", "LT", "GE", "GT", "LAND", "LOR", "EQ", "NE"}

genArray(elems) ==
  LET literal == [k \in DOMAIN elems |->
                    IF IsVar(elems[k]) THEN None ELSE elems[k].const]
      fill == [k \in DOMAIN elems |->
                 IF IsVar(elems[k])
                   THEN <<[op |-> "LOADXA", reg |-> 2, name |-> elems[k].var,
                           index |-> k - 1]>>
                   ELSE << >>]
  IN <<[op |-> "LOADA", reg |-> 2, val |-> Arr(literal)]>> \o FlattenSeq(fill)

genStoreConst(v, c) ==
  IF v.idx # << >>
    THEN [op |-> "STOREA", name |-> v.var, idx |-> v.idx, val |-> c]
    ELSE [op |-> IF IsInt(c) THEN "STOREI" ELSE "STORES", name |-> v.var, val |-> c]

genAssign(i) ==
  LET src == i.src
      kind == DOMAIN src
  IN IF "binary" \in kind
       THEN genBinary(src)
              \o <<genStoreX(i.dest, IF src.binary \in ToState THEN 0 ELSE 1)>>
     ELSE IF IsConst(src) THEN <<genStoreConst(i.dest, src.const)>>
     ELSE IF IsVar(src) THEN <<genLoadX(1, src), genStoreX(i.dest, 1)>>
     ELSE IF "array" \in kind THEN genArray(src.array) \o <<genStoreX(i.dest, 2)>>
     ELSE genCall(src) \o <<genStoreX(i.dest, 1)>>

(* Wrong: a return without a value emits nothing. *)
genReturnValueOnly(i) == IF i.ret = NoOperand THEN << >>
                         ELSE genOperand(1, i.ret) \o <<[op |-> "RET"]>>

genReturn(i) == genOperand(1, i.ret) \o <<[op |-> "RET"]>>

genJump(i) == <<[op |-> "JMP", label |-> i.to]>>

(* The condition is loaded without its index list. *)
genBranch(i) ==
  <<[op |-> "LOADX", reg |-> 0, name |-> i.cond.var, idx |-> << >>],
    [op |-> "JIF", label1 |-> i.yes, label2 |-> i.no]>>

genInst(i) == CASE i.tag = "ASSIGN" -> genAssign(i)
                [] i.tag = "CALL"   -> genCall(i)
                [] i.tag = "RETURN" -> genReturn(i)
                [] i.tag = "JMP"    -> genJump(i)
                [] i.tag = "BRANCH" -> genBranch(i)

genFunc(f) == <<[op |-> "FUNC", params |-> Len(f.params)]>>
                \o [k \in DOMAIN f.params |-> [op |-> "PARAM", name |-> f.params[k]]]

genInsts(insts) == FlattenSeq([k \in DOMAIN insts |-> genInst(insts[k])])

-----------------------------------------------------------------------------
(* ir2VmInst: the blocks, in order: the globals, then per function a block *)
(* of its own for FUNC and PARAMs and one block per basic block.           *)

Block(name, insts) == [name |-> name, insts |-> insts]

FuncBlocks(f) ==
  <<Block(f.name, genFunc(f))>>
    \o [k \in DOMAIN f.blocks |-> Block(f.blocks[k].name, genInsts(f.blocks[k].insts))]

ir2VmInst(ir) ==
  <<Block("global_var_decl", genInsts(ir.globals))>>
    \o FlattenSeq([k \in DOMAIN ir.funcs |-> FuncBlocks(ir.funcs[k])])

(* The name of main's last block. *)
EntryEndBlock(ir) ==
  LET main == CHOOSE k \in DOMAIN ir.funcs : ir.funcs[k].name = ENTRY_FUNC
  IN Last(ir.funcs[main].blocks).name

-----------------------------------------------------------------------------
(* Relocation *)

Size(blocks, k) == Len(blocks[k].insts)

Code(blocks) == [k \in DOMAIN blocks |-> blocks[k].insts]

(* Wrong: counts from the first function. *)
OffsetOfFunctions(blocks, k) == Offsets(Code(blocks))[k - 1] - Size(blocks, 1)

(* Wrong: counts the block itself. *)
OffsetBehind(blocks, k) == Offsets(Code(blocks))[k]

(* The index of the first instruction of block k in the linked code. *)
Offset(blocks, k) == Offsets(Code(blocks))[k - 1]

(* collectBlockMap skips the first block and empty ones: their names have  *)
(* no entry, and looking one up in the std::map creates the entry 0.       *)
Mapped(blocks) == {k \in 2 .. Len(blocks) : Size(blocks, k) > 0}
IsFuncBlock(b) == b.insts # << >> /\ b.insts[1].op = "FUNC"

Target(blocks, name, wantFunc) ==
  LET named == {k \in Mapped(blocks) : /\ blocks[k].name = name
                                       /\ IsFuncBlock(blocks[k]) = wantFunc}
  IN IF named = {} THEN 0
     ELSE Offset(blocks, CHOOSE k \in named : \A j \in named : j <= k)

fixJmp(blocks, i) ==
  CASE i.op = "JMP" -> [op |-> "JMP", target |-> Target(blocks, i.label, FALSE)]
    [] i.op = "JIF" -> [op |-> "JIF",
                        target1 |-> Target(blocks, i.label1, FALSE),
                        target2 |-> Target(blocks, i.label2, FALSE)]
    [] OTHER -> i

(* A user function shadows no builtin: their table entries have different  *)
(* names.                                                                  *)
fixCall(blocks, i) ==
  IF i.op # "CALL" THEN i
  ELSE [i EXCEPT !.target = IF i.name \in DOMAIN BuiltinIndex
                              THEN BuiltinIndex[i.name]
                              ELSE Target(blocks, i.name, TRUE)]

(* Both fix-ups start at the second block, so a call in a global's         *)
(* initialiser keeps target -1.                                            *)
fixBlock(blocks, k) ==
  IF k = 1 THEN blocks[1].insts
  ELSE [j \in DOMAIN blocks[k].insts |-> fixCall(blocks, fixJmp(blocks, blocks[k].insts[j]))]

LastNamed(blocks, name) ==
  LET named == {k \in DOMAIN blocks : blocks[k].name = name}
  IN CHOOSE k \in named : \A j \in named : j <= k

(* Wrong: the instruction behind the block. *)
EndPast(blocks, k) == Offset(blocks, k) + Size(blocks, k)

End(blocks, k) == Offset(blocks, k) + Size(blocks, k) - 1

relocation(blocks, entryEndBlock) ==
  LET flat == FlattenSeq([k \in DOMAIN blocks |-> fixBlock(blocks, k)])
  IN [code |-> [i \in 0 .. Len(flat) - 1 |-> flat[i + 1]],
      size |-> Len(flat),
      entry |-> Offset(blocks, LastNamed(blocks, ENTRY_FUNC)),
      entry_end |-> End(blocks, LastNamed(blocks, entryEndBlock)),
      global_len |-> Size(blocks, 1)]

Link(ir) == relocation(ir2VmInst(ir), EntryEndBlock(ir))
=============================================================================
