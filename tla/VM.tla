--------------------------------- MODULE VM ---------------------------------
(***************************************************************************)
(* The virtual machine: class CVM::VM of core/vm.cpp.  Every opcode        *)
(* handler of VM::run is an action; an action is one turn of the           *)
(* fetch-dispatch-increment loop.                                          *)
(***************************************************************************)
EXTENDS CYXValue, LinkedProgram, Vectors, Integers, Sequences

CONSTANTS
  Programs,   \* the linked programs that may be loaded
  Inputs      \* the words std::cin may deliver to the builtin read

ASSUME ProgramsLinked == \A p \in Programs : WellLinked(p)

-----------------------------------------------------------------------------
VARIABLES
  prog,       \* vm_insts, entry, entry_end, global_var_init_len
  reg,        \* reg[0..11]; reg[0] is the JIF state, reg[1] the return value
  frame,      \* the vector of Frame; frame[1] holds the globals
  pc,
  mode,       \* "INIT" while globals are initialised, then "MAIN"
  status,     \* "running", "halted", or "aborted" (exit(1), throw, or UB)
  out         \* the values printed so far

vars == <<prog, reg, frame, pc, mode, status, out>>

Reg == 0 .. 11
NewFrame == [symbols |-> << >>, pc |-> -1]

ArithOps   == {"ADD", "SUB", "MUL", "DIV", "MOD", "BAND", "BOR", "BXOR", "SHL", "SHR"}
CompareOps == {"NE", "EQ", "LT", "LE", "GT", "GE"}
LogicOps   == {"LAND", "LOR"}
UnaryOps   == {"LNOT", "BNOT"}
LoadConst  == {"LOADI", "LOADS", "LOADA"}
StoreConst == {"STOREI", "STORES"}

-----------------------------------------------------------------------------
(* Operators on the current state *)

Top == Len(frame)
Inst == prog.code[pc]

(* Wrong: a search through all the frames, newest first. *)
HomeDynamic(name) ==
  LET known == {k \in 1 .. Top : name \in DOMAIN frame[k].symbols}
  IN IF known = {} THEN Top ELSE CHOOSE k \in known : \A j \in known : j <= k

(* findSymbol looks in the current frame, then in frame[0]; a name found   *)
(* in neither is created, empty, in the current frame.                     *)
Home(name) == IF \/ name \in DOMAIN frame[Top].symbols
                 \/ name \notin DOMAIN frame[1].symbols
                THEN Top ELSE 1

Lookup(name) == LET scope == frame[Home(name)].symbols
                IN IF name \in DOMAIN scope THEN scope[name] ELSE None

Bind(scope, name, v) ==
  [n \in DOMAIN scope \cup {name} |-> IF n = name THEN v ELSE scope[n]]

(* The names an access touches: the variable and its index variables. *)
Touched(name, idx) ==
  {name} \cup {idx[k].var : k \in {j \in DOMAIN idx : "var" \in DOMAIN idx[j]}}

(* The frames after findSymbol was called for each of the names. *)
Created(names) == {n \in names : \A k \in {1, Top} : n \notin DOMAIN frame[k].symbols}
Declare(names) ==
  [frame EXCEPT ![Top].symbols =
     [n \in DOMAIN @ \cup Created(names) |-> IF n \in Created(names) THEN None ELSE @[n]]]

(* The frames after v was stored in element idx of name. *)
Assign(name, idx, v) ==
  LET declared == Declare(Touched(name, idx))
  IN [declared EXCEPT ![Home(name)].symbols = Bind(@, name, v)]

(* An index list resolved to positions: a constant, or as<long long> of a  *)
(* variable.                                                               *)
Path(idx) == [k \in DOMAIN idx |-> IF "var" \in DOMAIN idx[k]
                                     THEN AsInt(Lookup(idx[k].var))
                                     ELSE idx[k].const]

Element(name, idx) == Walk(Lookup(name), Path(idx))

BinaryResult(i) ==
  LET a == reg[i.r1]  b == reg[i.r2]
  IN CASE i.op \in ArithOps   -> Arith(i.op, a, b)
       [] i.op \in CompareOps -> Flag(Compare(i.op, a, b))
       [] i.op \in LogicOps   -> Logic(i.op, a, b)

(* callBuildin consumes the next instruction when it is an ARG, and passes *)
(* a null pointer otherwise.                                               *)
HasArg == pc + 1 \in DOMAIN prog.code /\ prog.code[pc + 1].op = "ARG"
TheArg == prog.code[pc + 1]
ArgValue == IF TheArg.type = "MAP" THEN Element(TheArg.name, TheArg.idx)
                                   ELSE TheArg.val
BuiltinArgFrames == IF HasArg /\ TheArg.type = "MAP"
                      THEN Declare(Touched(TheArg.name, TheArg.idx)) ELSE frame

(* buildin_functions_index, without double *)
Printing == {-1, -2}
Read     == -3
ToInt    == -4
ToStr    == -6
Length   == -7
Builtin  == Printing \cup {Read, ToInt, ToStr, Length}

BuiltinFault(f) ==
  \/ f \notin Builtin
  \/ HasArg /\ ArgValue = Bad
  \/ f \in Printing \cup {ToInt, ToStr} /\ ~HasArg
  \/ f = Length /\ HasArg /\ ~IsStr(ArgValue) /\ ~IsArr(ArgValue)

(* The argument PARAM reads: the instruction after the caller's saved pc. *)
ParamArgAt == frame[Top - 1].pc + 1

(* UNREACHABLE(), an exception out of at(), or undefined behaviour: null   *)
(* pointers, an ARG that is no ARG, a RET that pops the last frame.        *)
Fault(i) ==
  CASE i.op \in ArithOps \cup LogicOps \cup CompareOps -> BinaryResult(i) = Bad
    [] i.op \in UnaryOps -> Negate(i.op, reg[i.reg]) = Bad
    [] i.op \in {"LOADX", "STOREX", "STOREA"} -> Element(i.name, i.idx) = Bad
    [] i.op = "LOADXA" -> ~HasElem(reg[i.reg], i.index)
    [] i.op = "CALL" -> i.target < 0 /\ BuiltinFault(i.target)
    [] i.op = "PARAM" -> \/ Top = 1
                         \/ ParamArgAt \notin DOMAIN prog.code
                         \/ prog.code[ParamArgAt].op # "ARG"
    [] i.op = "RET" -> Top = 1
    [] i.op = "JIF" -> ~HasTruth(reg[0])
    [] OTHER -> FALSE

-----------------------------------------------------------------------------
Init ==
  /\ prog \in Programs
  /\ reg = [r \in Reg |-> None]
  /\ frame = <<NewFrame>>
  /\ pc = 0
  /\ mode = "INIT"
  /\ status = "running"
  /\ out = << >>

(* fetch: at the end of the global initialisers the machine enters main,   *)
(* whose frame goes on top of the globals.                                 *)
AtMain == pc = prog.global_len /\ mode = "INIT"

(* Wrong: main runs on the globals' frame. *)
StartMainUnframed ==
  /\ status = "running" /\ AtMain
  /\ pc' = prog.entry
  /\ mode' = "MAIN"
  /\ UNCHANGED <<prog, reg, frame, status, out>>

StartMain ==
  /\ status = "running" /\ AtMain
  /\ pc' = prog.entry
  /\ mode' = "MAIN"
  /\ frame' = Append(frame, NewFrame)
  /\ UNCHANGED <<prog, reg, status, out>>

(* fetch: execution stops before the instruction at entry_end. *)
Halt ==
  /\ status = "running" /\ ~AtMain
  /\ pc = prog.entry_end \/ pc \notin DOMAIN prog.code
  /\ status' = "halted"
  /\ UNCHANGED <<prog, reg, frame, pc, mode, out>>

Fetched ==
  /\ status = "running" /\ ~AtMain
  /\ pc # prog.entry_end /\ pc \in DOMAIN prog.code

Abort ==
  /\ Fetched /\ Fault(Inst)
  /\ status' = "aborted"
  /\ UNCHANGED <<prog, reg, frame, pc, mode, out>>

Fetch(ops) == Fetched /\ Inst.op \in ops /\ ~Fault(Inst)

(* A handler that leaves pc alone is followed by the loop's pc++. *)
Step == pc' = pc + 1 /\ UNCHANGED <<prog, mode, status>>

Binary ==
  /\ Fetch(ArithOps \cup CompareOps \cup LogicOps)
  /\ LET target == IF Inst.op \in ArithOps THEN Inst.r1 ELSE 0
     IN reg' = [reg EXCEPT ![target] = BinaryResult(Inst)]
  /\ Step /\ UNCHANGED <<frame, out>>

Unary ==
  /\ Fetch(UnaryOps)
  /\ reg' = [reg EXCEPT ![Inst.reg] = Negate(Inst.op, @)]
  /\ Step /\ UNCHANGED <<frame, out>>

Load ==
  /\ Fetch(LoadConst)
  /\ reg' = [reg EXCEPT ![Inst.reg] = Inst.val]
  /\ Step /\ UNCHANGED <<frame, out>>

LoadX ==
  /\ Fetch({"LOADX"})
  /\ reg' = [reg EXCEPT ![Inst.reg] = Element(Inst.name, Inst.idx)]
  /\ frame' = Declare(Touched(Inst.name, Inst.idx))
  /\ Step /\ UNCHANGED out

LoadXA ==
  /\ Fetch({"LOADXA"})
  /\ reg' = [reg EXCEPT ![Inst.reg] = Put(@, <<Inst.index>>, Lookup(Inst.name))]
  /\ frame' = Declare({Inst.name})
  /\ Step /\ UNCHANGED out

(* STOREI and STORES always write the current frame; STOREX and STOREA go  *)
(* through findSymbol and so can write a global.                           *)
Store ==
  /\ Fetch(StoreConst)
  /\ frame' = [frame EXCEPT ![Top].symbols = Bind(@, Inst.name, Inst.val)]
  /\ Step /\ UNCHANGED <<reg, out>>

StoreA ==
  /\ Fetch({"STOREA"})
  /\ frame' = Assign(Inst.name, Inst.idx, Put(Lookup(Inst.name), Path(Inst.idx), Inst.val))
  /\ Step /\ UNCHANGED <<reg, out>>

StoreX ==
  /\ Fetch({"STOREX"})
  /\ frame' = Assign(Inst.name, Inst.idx,
                     Put(Lookup(Inst.name), Path(Inst.idx), reg[Inst.reg]))
  /\ Step /\ UNCHANGED <<reg, out>>

(* FUNC and ARG do nothing. *)
Pass ==
  /\ Fetch({"FUNC", "ARG"})
  /\ Step /\ UNCHANGED <<reg, frame, out>>

(* Wrong: the saved pc is that of the first argument already. *)
CallSavesNext ==
  /\ Fetch({"CALL"}) /\ Inst.target >= 0
  /\ frame' = Append([frame EXCEPT ![Top].pc = pc + 1], NewFrame)
  /\ pc' = Inst.target
  /\ UNCHANGED <<prog, reg, mode, status, out>>

Call ==
  /\ Fetch({"CALL"}) /\ Inst.target >= 0
  /\ frame' = Append([frame EXCEPT ![Top].pc = pc], NewFrame)
  /\ pc' = Inst.target
  /\ UNCHANGED <<prog, reg, mode, status, out>>

(* A builtin call skips the argument it consumed. *)
CallBuiltin(fs) ==
  /\ Fetch({"CALL"}) /\ Inst.target \in fs
  /\ pc' = pc + (IF HasArg THEN 2 ELSE 1)
  /\ UNCHANGED <<prog, mode, status>>

CallPrint ==
  /\ CallBuiltin(Printing)
  /\ out' = Append(out, ArgValue)
  /\ frame' = BuiltinArgFrames
  /\ UNCHANGED reg

CallRead ==
  /\ CallBuiltin({Read})
  /\ \E word \in Inputs : reg' = [reg EXCEPT ![1] = Str(word)]
  /\ frame' = BuiltinArgFrames
  /\ UNCHANGED out

(* int and string convert their argument in place and return nothing, so   *)
(* reg[1] keeps what it held.  (A RAW argument is converted inside the     *)
(* instruction, which nothing reads but this same conversion.)             *)
CallConvert ==
  /\ CallBuiltin({ToInt, ToStr})
  /\ LET v == IF Inst.target = ToInt THEN Int64(AsInt(ArgValue))
                                     ELSE Str(AsStr(ArgValue))
     IN frame' = IF TheArg.type = "MAP"
                   THEN Assign(TheArg.name, TheArg.idx,
                               Put(Lookup(TheArg.name), Path(TheArg.idx), v))
                   ELSE frame
  /\ UNCHANGED <<reg, out>>

CallLength ==
  /\ CallBuiltin({Length})
  /\ reg' = [reg EXCEPT ![1] =
               Int64(IF ~HasArg THEN 0
                     ELSE IF IsStr(ArgValue) THEN Len(ArgValue.str)
                     ELSE Len(ArgValue.arr))]
  /\ frame' = BuiltinArgFrames
  /\ UNCHANGED out

(* PARAM advances the caller's saved pc to the next ARG and copies its     *)
(* value.  It reads the caller's frame directly: a name the caller has not *)
(* declared (a global, say) is created there, empty.  Indices are ignored. *)
Param ==
  /\ Fetch({"PARAM"})
  /\ LET a == prog.code[ParamArgAt]
         caller == frame[Top - 1]
         known == a.type = "MAP" /\ a.name \in DOMAIN caller.symbols
         v == IF a.type = "RAW" THEN a.val
              ELSE IF known THEN caller.symbols[a.name] ELSE None
         seen == IF a.type = "MAP" THEN Bind(caller.symbols, a.name, v)
                                   ELSE caller.symbols
     IN frame' = [frame EXCEPT
                    ![Top - 1] = [symbols |-> seen, pc |-> ParamArgAt],
                    ![Top].symbols = Bind(@, Inst.name, v)]
  /\ Step /\ UNCHANGED <<reg, out>>

(* Wrong: RET leaves two frames. *)
RetTwice ==
  /\ Fetch({"RET"})
  /\ frame' = SubSeq(frame, 1, Top - 2)
  /\ pc' = (IF Top > 2 THEN frame[Top - 1].pc ELSE pc) + 1
  /\ UNCHANGED <<prog, reg, mode, status, out>>

(* Wrong: RET resumes at the saved pc. *)
RetToCall ==
  /\ Fetch({"RET"})
  /\ frame' = SubSeq(frame, 1, Top - 1)
  /\ pc' = IF Top > 2 THEN frame[Top - 1].pc ELSE pc + 1
  /\ UNCHANGED <<prog, reg, mode, status, out>>

(* RET resumes the caller after its last ARG.  A RET of main itself only   *)
(* leaves the globals' frame: pc is not restored and execution goes on.    *)
Ret ==
  /\ Fetch({"RET"})
  /\ frame' = SubSeq(frame, 1, Top - 1)
  /\ pc' = (IF Top > 2 THEN frame[Top - 1].pc ELSE pc) + 1
  /\ UNCHANGED <<prog, reg, mode, status, out>>

Jmp ==
  /\ Fetch({"JMP"})
  /\ pc' = Inst.target
  /\ UNCHANGED <<prog, reg, frame, mode, status, out>>

Jif ==
  /\ Fetch({"JIF"})
  /\ pc' = IF Truth(reg[0]) THEN Inst.target1 ELSE Inst.target2
  /\ reg' = [reg EXCEPT ![0] = Flag(FALSE)]
  /\ UNCHANGED <<prog, frame, mode, status, out>>

Terminated == status # "running" /\ UNCHANGED vars

Next ==
  \/ StartMain \/ Halt \/ Abort
  \/ Binary \/ Unary \/ Load \/ LoadX \/ LoadXA
  \/ Store \/ StoreA \/ StoreX \/ Pass
  \/ Call \/ CallPrint \/ CallRead \/ CallConvert \/ CallLength
  \/ Param \/ Ret \/ Jmp \/ Jif
  \/ Terminated

Spec == Init /\ [][Next]_vars

(* VM::run is a single-threaded loop: it keeps taking turns. *)
FairSpec == Spec /\ WF_vars(Next)

-----------------------------------------------------------------------------
(* Properties *)

(* The vector of frames is never empty and every frame has its two fields, *)
(* with an integer for its saved pc; the scalars stay in their types.      *)
FramesOK(fs) ==
  /\ IsVector(fs) /\ Len(fs) >= 1
  /\ \A k \in 1 .. Len(fs) :
       fs[k].pc \in Int /\ fs[k] = [symbols |-> fs[k].symbols, pc |-> fs[k].pc]

TypeOK ==
  /\ prog \in Programs
  /\ DOMAIN reg = Reg
  /\ FramesOK(frame)
  /\ pc \in Int
  /\ mode \in {"INIT", "MAIN"}
  /\ status \in {"running", "halted", "aborted"}

(* Where frame k of fs executes when i is the current instruction: the     *)
(* topmost frame at i, every other one at its saved pc.                    *)
Spot(fs, i, k) == IF k = Len(fs) THEN i ELSE fs[k].pc

(* The number of PARAMs of its function that instruction i comes after.    *)
ArgsTaken(p, i) ==
  LET f == FuncOf(p, i)
  IN IF i <= f + 1 THEN 0
     ELSE IF i <= f + Arity(p, f) THEN i - f - 1 ELSE Arity(p, f)

(* The call that frame k + 1 serves is at c: it calls the function frame   *)
(* k + 1 is executing, and frame k's saved pc has moved past c by exactly  *)
(* the arguments that function has taken so far.                           *)
Serves(p, fs, i, k, c) ==
  LET callee == Spot(fs, i, k + 1)
  IN /\ c \in DOMAIN p.code /\ c >= p.global_len
     /\ OpAt(p, c) = "CALL" /\ p.code[c].target >= 0
     /\ p.code[c].target = FuncOf(p, callee)
     /\ fs[k].pc = c + ArgsTaken(p, callee)

(* Above the globals' frame lies main's, and every frame above that serves *)
(* a call of the frame below it.                                           *)
Linked(p, fs, i) ==
  /\ Len(fs) >= 2
  /\ i \in p.global_len .. p.size - 1
  /\ FuncOf(p, Spot(fs, i, 2)) = p.entry
  /\ \A k \in 2 .. Len(fs) - 1 : \E c \in DOMAIN p.code : Serves(p, fs, i, k, c)

(* The calling convention of call(), param() and ret(), kept by the saved  *)
(* pc of each frame: whatever the nesting and recursion, a PARAM reads the *)
(* ARG of its own position of the very call that made its frame, and RET   *)
(* resumes behind the last ARG of that call.  Globals are initialised with *)
(* their frame alone, and main's frame stays until the program stops.      *)
CallProtocol ==
  NoReturnInMain(prog) =>
    \/ mode = "INIT" /\ Top = 1 /\ pc \in 0 .. prog.global_len
    \/ mode = "MAIN" /\ Linked(prog, frame, pc)

(* The names an instruction of the initialisers can enter in frame[0]. *)
Mentioned(i) ==
  IF i.op \in {"LOADX", "STOREX", "STOREA"} \/ (i.op = "ARG" /\ i.type = "MAP")
    THEN Touched(i.name, i.idx)
  ELSE IF i.op \in StoreConst \cup {"LOADXA"} THEN {i.name}
  ELSE {}
GlobalNames(p) == UNION {Mentioned(p.code[i]) : i \in 0 .. p.global_len - 1}

(* frame[0] stays the table of the globals: no variable of a function, not *)
(* even one that findSymbol creates, is ever entered in it.                *)
GlobalTable == DOMAIN frame[1].symbols \subseteq GlobalNames(prog)

(* A step leaves the variables of every suspended call alone: it changes   *)
(* bindings of the running frame and of the globals only.  (PARAM may add  *)
(* an empty variable to its caller.)                                       *)
FrameIsolation ==
  [][\A k \in 2 .. Top - 1 :
       \A name \in DOMAIN frame[k].symbols :
         /\ k \in DOMAIN frame'
         /\ name \in DOMAIN frame'[k].symbols
         /\ frame'[k].symbols[name] = frame[k].symbols[name]]_vars

(* Every program of the run stops: by reaching the end of main or with a   *)
(* run-time error.                                                         *)
Termination == <>(status # "running")
=============================================================================
