---------------------------- MODULE BytecodeFile ----------------------------
(***************************************************************************)
(* The bytecode file: compiler/bytecode/bytecode_writer.cpp writes a       *)
(* linked program, core/bytecode_reader.cpp of a later process reads it.   *)
(* The two share no code: they agree on the order, the kind and the tags   *)
(* of the fields of every instruction, or the reader loses its place.      *)
(*                                                                         *)
(* The file is a sequence of cells, one per value written: a byte, an      *)
(* integer, a double, a string or an opcode.  A cell taken for another     *)
(* kind, or missing, leaves a byte, length or count that is anything, and  *)
(* the reader goes on with it: it is then "astray".                        *)
(***************************************************************************)
EXTENDS VMInstruction, CYXValue, Vectors, SequencesExt

CONSTANT Programs    \* the programs that may be written

VARIABLES
  prog,     \* the program of the writer
  file,
  written,  \* how many instructions the writer has written
  starts,   \* history: starts[k] is the index of the first cell of instruction k
  phase,    \* of the two processes, see Phases
  cut,      \* the writer died, and what it had not flushed is lost
  at,       \* the reader's position: the index of the next cell
  header,   \* entry, entry_end and global_var_len of the reader
  loaded    \* vm_insts of the reader, up to where it went astray

vars == <<prog, file, written, starts, phase, cut, at, header, loaded>>

(* "astray": the reader goes on reading with values that are not those of  *)
(* the file; "misloaded": it has come to an end that way, and what it has  *)
(* behind "loaded" is anything; "exited": the reader's process is gone.    *)
Phases == {"writing", "closed", "reading", "loaded", "astray", "misloaded", "exited"}

Byte(n) == [byte |-> n]
Long(n) == [int |-> n]
String(s) == [str |-> s]
Double(d) == [double |-> d]
Opcode(op) == [opcode |-> op]

IsDouble(v) == DOMAIN v = {"double"}

-----------------------------------------------------------------------------
(* BytecodeWriter *)

(* writeIntTag, writeDoubleTag, writeStringTag, writeEmptyTag *)
Tag(v) == IF IsInt(v) THEN 0 ELSE IF IsDouble(v) THEN 1 ELSE IF IsStr(v) THEN 2 ELSE 3

writeConst(v) == <<Byte(Tag(v)), v>>

(* Wrong: no tag for an element without a value. *)
writeElemBare(v) == IF IsNone(v) THEN << >> ELSE writeConst(v)

writeElem(v) == IF IsNone(v) THEN <<Byte(Tag(v))>> ELSE writeConst(v)

(* Wrong: the last element first. *)
writeListBackwards(values) ==
  <<Long(Len(values))>> \o FlattenSeq(Reverse([k \in DOMAIN values |-> writeElem(values[k])]))

writeList(values) ==
  <<Long(Len(values))>> \o FlattenSeq([k \in DOMAIN values |-> writeElem(values[k])])

writeArrIdx(idx) ==
  writeList([k \in DOMAIN idx |-> IF "const" \in DOMAIN idx[k] THEN Int64(idx[k].const)
                                  ELSE Str(idx[k].var)])

writeStoreX(i) == <<String(i.name)>> \o writeArrIdx(i.idx) \o <<Byte(i.reg)>>

writeArg(i) == IF i.type = "MAP" THEN <<Byte(0), String(i.name)>> \o writeArrIdx(i.idx)
               ELSE <<Byte(1)>> \o writeConst(i.val)

writeUnary(i) == <<Byte(i.reg)>> \o IF i.type = "MAP" THEN <<Byte(2), String(i.name)>>
                                   ELSE <<Byte(0), Long(AsInt(i.val))>>

Fields(i) ==
  CASE i.op \in BinaryOps -> <<Byte(i.r1), Byte(i.r2)>>
    [] i.op \in UnaryOps -> writeUnary(i)
    [] i.op \in {"LOADI", "LOADD", "LOADS"} -> <<Byte(i.reg), i.val>>
    [] i.op = "LOADA" -> <<Byte(i.reg)>> \o writeList(i.val.arr)
    [] i.op = "LOADX" -> <<Byte(i.reg), String(i.name)>> \o writeArrIdx(i.idx)
    [] i.op = "LOADXA" -> <<Byte(i.reg), Long(i.index), String(i.name)>>
    [] i.op \in {"STOREI", "STORED", "STORES"} -> <<String(i.name), i.val>>
    [] i.op = "STOREA" -> <<String(i.name)>> \o writeArrIdx(i.idx) \o writeConst(i.val)
    [] i.op = "STOREX" -> writeStoreX(i)
    [] i.op = "CALL" -> <<Long(i.target)>>
    [] i.op = "FUNC" -> <<Byte(i.params)>>
    [] i.op = "ARG" -> writeArg(i)
    [] i.op = "PARAM" -> <<String(i.name)>>
    [] i.op = "RET" -> << >>
    [] i.op = "JMP" -> <<Long(i.target)>>
    [] i.op = "JIF" -> <<Long(i.target1), Long(i.target2)>>

Cells(i) == <<Opcode(i.op)>> \o Fields(i)

(* Wrong: the two ends of main in the other order. *)
writeHeaderSwapped(p) ==
  <<Byte(194), Byte(1), Long(p.entry_end), Long(p.entry), Long(p.global_len)>>

writeHeader(p) == <<Byte(194), Byte(1), Long(p.entry), Long(p.entry_end), Long(p.global_len)>>

-----------------------------------------------------------------------------
(* BytecodeReader: each operator below is the set of what may be read at   *)
(* cell k of the file, with the index of the cell behind it; it has no     *)
(* element when the cells there are of other kinds.                        *)

Got(v, k) == [val |-> v, next |-> k]

Cell(k, kind) == IF k \in DOMAIN file /\ DOMAIN file[k] = {kind}
                   THEN {Got(file[k][kind], k + 1)} ELSE {}

(* A value on its own is boxed; bare integers and strings are not. *)
Boxed(k, kind) == {Got([f \in {kind} |-> r.val], r.next) : r \in Cell(k, kind)}

readTagged(k, tags) ==
  UNION {CASE t.val \notin tags -> {}
           [] t.val = 0 -> Boxed(t.next, "int")
           [] t.val = 1 -> Boxed(t.next, "double")
           [] t.val = 2 -> Boxed(t.next, "str")
           [] t.val = 3 -> {Got(None, t.next)} : t \in Cell(k, "byte")}

(* What the first n of count elements at cell first may be. *)
readElems(count, first, tags) ==
  LET upTo[n \in 0 .. count] ==
        IF n = 0 THEN {Got(<< >>, first)}
        ELSE UNION {{Got(Append(l.val, v.val), v.next) : v \in readTagged(l.next, tags)} :
                      l \in upTo[n - 1]}
  IN upTo

readList(k, tags) ==
  UNION {readElems(r.val, r.next, tags)[r.val] : r \in Cell(k, "int")}

(* A subscript is an integer or a name; any other tag is UNREACHABLE(). *)
readArrIdx(k) ==
  {Got([j \in DOMAIN l.val |-> LET v == l.val[j] IN IF IsInt(v) THEN [const |-> v.int]
                                                    ELSE [var |-> v.str]], l.next) :
     l \in readList(k, {0, 2})}

AnyTag == 0 .. 3

readField(k, kind) ==
  CASE kind \in {"byte", "int", "str"} -> Cell(k, kind)
    [] kind = "argtype" -> {Got(IF r.val = 0 THEN "MAP" ELSE "RAW", r.next) : r \in Cell(k, "byte")}
    [] kind = "unarytype" -> {Got(CASE r.val = 0 -> "RAW" [] r.val = 2 -> "MAP" [] OTHER -> "none", r.next) :
                                r \in Cell(k, "byte")}
    [] kind = "Int64" -> Boxed(k, "int")
    [] kind = "Double" -> Boxed(k, "double")
    [] kind = "Str" -> Boxed(k, "str")
    [] kind = "tagged" -> readTagged(k, AnyTag)
    [] kind = "array" -> {Got(Arr(l.val), l.next) : l \in readList(k, AnyTag)}
    [] kind = "idx" -> readArrIdx(k)

F(name, kind) == [name |-> name, kind |-> kind]

(* What the reader takes, in its order.  A unary has a type in front of    *)
(* its register here, and an ARG's first byte tells the two forms apart.   *)
Layout(op, first) ==
  CASE op \in BinaryOps -> <<F("r1", "byte"), F("r2", "byte")>>
    [] op \in UnaryOps -> <<F("type", "unarytype"), F("reg", "byte")>>
                            \o (CASE first = Byte(0) -> <<F("val", "int")>>
                                  [] first = Byte(2) -> <<F("name", "str")>>
                                  [] OTHER -> << >>)
    [] op = "LOADI" -> <<F("reg", "byte"), F("val", "Int64")>>
    [] op = "LOADD" -> <<F("reg", "byte"), F("val", "Double")>>
    [] op = "LOADS" -> <<F("reg", "byte"), F("val", "Str")>>
    [] op = "LOADA" -> <<F("reg", "byte"), F("val", "array")>>
    [] op = "LOADX" -> <<F("reg", "byte"), F("name", "str"), F("idx", "idx")>>
    [] op = "LOADXA" -> <<F("reg", "byte"), F("index", "int"), F("name", "str")>>
    [] op = "STOREI" -> <<F("name", "str"), F("val", "Int64")>>
    [] op = "STORED" -> <<F("name", "str"), F("val", "Double")>>
    [] op = "STORES" -> <<F("name", "str"), F("val", "Str")>>
    [] op = "STOREA" -> <<F("name", "str"), F("idx", "idx"), F("val", "tagged")>>
    [] op = "STOREX" -> <<F("name", "str"), F("idx", "idx"), F("reg", "byte")>>
    [] op = "CALL" -> <<F("target", "int")>>
    [] op = "FUNC" -> <<F("params", "byte")>>
    [] op = "ARG" -> IF first = Byte(0)
                       THEN <<F("type", "argtype"), F("name", "str"), F("idx", "idx")>>
                       ELSE <<F("type", "argtype"), F("val", "tagged")>>
    [] op = "PARAM" -> <<F("name", "str")>>
    [] op = "RET" -> << >>
    [] op = "JMP" -> <<F("target", "int")>>
    [] op = "JIF" -> <<F("target1", "int"), F("target2", "int")>>

(* The reader assigns one field of the instruction. *)
WithField(i, name, v) == [f \in {name} \cup DOMAIN i |-> IF f = name THEN v ELSE i[f]]

(* What the first n fields of a layout at cell k may be. *)
readParts(op, layout, k) ==
  LET upTo[n \in 0 .. Len(layout)] ==
        IF n = 0 THEN {Got([op |-> op], k)}
        ELSE UNION {{Got(WithField(b.val, layout[n].name, v.val), v.next) :
                       v \in readField(b.next, layout[n].kind)} : b \in upTo[n - 1]}
  IN upTo

readFields(op, k) ==
  LET layout == Layout(op, IF k \in DOMAIN file THEN file[k] ELSE Byte(255))
  IN readParts(op, layout, k)[Len(layout)]

readInst(k) == UNION {readFields(o.val, o.next) : o \in Cell(k, "opcode")}

HeaderKinds == <<"byte", "byte", "int", "int", "int">>

(* magic_number != 0xc2 && version != 0x01: one of the two is enough. *)
Signed == (\E m \in Cell(1, "byte") : m.val = 194) \/ (\E v \in Cell(2, "byte") : v.val = 1)

HasHeader == Signed /\ \A k \in DOMAIN HeaderKinds : Cell(k, HeaderKinds[k]) # {}

(* Wrong: one cell too many. *)
HeaderCellsOneMore == Len(HeaderKinds) + 1

HeaderCells == Len(HeaderKinds)

-----------------------------------------------------------------------------
Init == /\ prog \in Programs
        /\ file = writeHeader(prog)
        /\ written = 0 /\ starts = << >>
        /\ phase = "writing" /\ cut = FALSE
        /\ at = 1 /\ header = << >> /\ loaded = << >>

(* One turn of writeInsts. *)
WriteInst ==
  /\ phase = "writing" /\ written < prog.size
  /\ file' = file \o Cells(prog.code[written])
  /\ starts' = Append(starts, Len(file) + 1)
  /\ written' = written + 1
  /\ UNCHANGED <<prog, phase, cut, at, header, loaded>>

(* writeToFile *)
Close ==
  /\ phase = "writing" /\ written = prog.size
  /\ phase' = "closed"
  /\ UNCHANGED <<prog, file, written, starts, cut, at, header, loaded>>

(* The writing process dies, or the disk is full, which the stream would   *)
(* tell but nobody asks: a part of what was written is in the file.        *)
Die ==
  /\ phase = "writing"
  /\ \E n \in 0 .. Len(file) : file' = SubSeq(file, 1, n)
  /\ phase' = "closed" /\ cut' = TRUE
  /\ UNCHANGED <<prog, written, starts, at, header, loaded>>

ReadHeader ==
  /\ phase = "closed" /\ HasHeader
  /\ header' = [entry |-> file[3].int, entry_end |-> file[4].int, global_len |-> file[5].int]
  /\ at' = HeaderCells + 1
  /\ phase' = "reading"
  /\ UNCHANGED <<prog, file, written, starts, cut, loaded>>

(* A file that ends in the header has no instruction, and entry points     *)
(* that are anything.  LOGE exits if the two bytes that say what it is are *)
(* not there, unless one of them happens to be right.                      *)
ReadTornHeader ==
  /\ phase = "closed" /\ ~HasHeader
  /\ phase' = "misloaded" \/ (~Signed /\ phase' = "exited")
  /\ UNCHANGED <<prog, file, written, starts, cut, at, header, loaded>>

AtEnd == at > Len(file)

(* One turn of readInsts. *)
ReadInst ==
  /\ phase = "reading" /\ ~AtEnd
  /\ \E r \in readInst(at) : loaded' = Append(loaded, r.val) /\ at' = r.next
  /\ UNCHANGED <<prog, file, written, starts, phase, cut, header>>

(* The instruction at hand is torn, or its cells are of other kinds: a     *)
(* readX goes on with an uninitialized value (readByte, readInt).          *)
GoAstray ==
  /\ phase = "reading" /\ ~AtEnd /\ readInst(at) = {}
  /\ phase' = "astray"
  /\ UNCHANGED <<prog, file, written, starts, cut, at, header, loaded>>

(* A count that is anything may keep it in a loop.  It comes out behind    *)
(* the end of the file, where the stream has failed and peek gives EOF, or *)
(* dies of a length, of an index with another tag, or of its memory.       *)
EndAstray ==
  /\ phase = "astray"
  /\ phase' \in {"misloaded", "exited"}
  /\ UNCHANGED <<prog, file, written, starts, cut, at, header, loaded>>

Finish ==
  /\ phase = "reading" /\ AtEnd
  /\ phase' = "loaded"
  /\ UNCHANGED <<prog, file, written, starts, cut, at, header, loaded>>

Done == phase \in {"loaded", "misloaded", "exited"} /\ UNCHANGED vars

Next == \/ WriteInst \/ Close \/ Die
        \/ ReadHeader \/ ReadTornHeader \/ ReadInst \/ GoAstray \/ EndAstray \/ Finish
        \/ Done

Spec == Init /\ [][Next]_vars

-----------------------------------------------------------------------------
(* Properties *)

(* A program that reads back: its values are of the kinds its opcodes say, *)
(* and it has no unary, whose fields the two take in different orders.     *)

IsA(v, kind) == DOMAIN v = {kind} /\ v = [f \in {kind} |-> v[kind]]

IsScalar(v) == \E kind \in {"int", "double", "str"} : IsA(v, kind)

IsArray(v) == /\ IsA(v, "arr") /\ IsVector(v.arr)
              /\ \A k \in DOMAIN v.arr : v.arr[k] = None \/ IsScalar(v.arr[k])

IsArrIdx(idx) == /\ IsVector(idx)
                 /\ \A k \in DOMAIN idx : IsA(idx[k], "const") \/ IsA(idx[k], "var")

ReadsBack(i) ==
  /\ WellTyped(i) /\ i.op \notin UnaryOps
  /\ "idx" \in FieldsOf(i) => IsArrIdx(i.idx)
  /\ i.op \in {"LOADI", "STOREI"} => IsA(i.val, "int")
  /\ i.op \in {"LOADD", "STORED"} => IsA(i.val, "double")
  /\ i.op \in {"LOADS", "STORES"} => IsA(i.val, "str")
  /\ i.op = "LOADA" => IsArray(i.val)
  /\ i.op = "STOREA" => IsScalar(i.val)
  /\ i.op = "ARG" => i.type = "MAP" \/ (i.type = "RAW" /\ IsScalar(i.val))

Writable(p) == p.size \in Nat /\ \A k \in 0 .. p.size - 1 : ReadsBack(p.code[k])

TypeOK ==
  /\ phase \in Phases
  /\ cut \in BOOLEAN
  /\ written \in 0 .. prog.size /\ Len(starts) = written
  /\ at \in 1 .. Len(file) + 1
  /\ \A k \in DOMAIN loaded : WellTyped(loaded[k])
  /\ header = << >> \/ DOMAIN header = {"entry", "entry_end", "global_len"}

(* The name of a callee stays behind: only its address is used. *)
Kept(i) == [f \in {"op"} \cup FieldsOf(i) |-> i[f]]

(* The reader never loses its place: at every instruction it starts where  *)
(* the writer started the instruction of the same number, and what it has  *)
(* read so far are the instructions that were written (writeX and readX    *)
(* of every opcode agree on order, kinds and tags), even when the file was *)
(* cut off.                                                                *)
Aligned ==
  phase \in {"reading", "loaded", "astray"} =>
    /\ Len(loaded) <= written
    /\ \A k \in DOMAIN loaded : loaded[k] = Kept(prog.code[k - 1])
    /\ at = IF Len(loaded) < written THEN starts[Len(loaded) + 1] ELSE Len(file) + 1

(* A file that was written to its end is loaded as the program that was    *)
(* written: same entry points, same instructions, none more, none less     *)
(* (main with -i-bytecode runs what main with -o-bytecode compiled).       *)
RoundTrip ==
  /\ phase \in {"astray", "misloaded", "exited"} => cut
  /\ phase = "loaded" /\ ~cut =>
       /\ header = [entry |-> prog.entry, entry_end |-> prog.entry_end,
                    global_len |-> prog.global_len]
       /\ Len(loaded) = prog.size

(* A cut costs no more than what is behind it: each instruction that is    *)
(* in the file as a whole is loaded as it was written, however the reader  *)
(* comes to its end.  Values that are not of the file can only come from   *)
(* the one instruction, or the header, that the file ends in (readInsts).  *)
OnlyTheCutIsLost ==
  phase \in {"loaded", "astray", "misloaded"} =>
    \A k \in 1 .. written :
      starts[k] + Len(Cells(prog.code[k - 1])) <= Len(file) + 1 =>
        k \in DOMAIN loaded /\ loaded[k] = Kept(prog.code[k - 1])
=============================================================================
