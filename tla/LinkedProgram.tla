--------------------------- MODULE LinkedProgram ----------------------------
(***************************************************************************)
(* The program the bytecode generator hands to the virtual machine (or     *)
(* writes to a bytecode file), and what the machine relies on in it.       *)
(*                                                                         *)
(* A linked program is a record                                            *)
(*   code        the instructions, a function on 0 .. size - 1 (vm_insts)  *)
(*   size        their number                                              *)
(*   entry       index of main's FUNC                                      *)
(*   entry_end   index of the last instruction of main's last block        *)
(*   global_len  number of leading instructions that initialise globals    *)
(* and an instruction is a record with its opcode in "op".  Jump and call  *)
(* targets are absolute indices; a negative call target is a builtin.      *)
(***************************************************************************)
EXTENDS Integers

OpAt(p, i) == p.code[i].op

(* f is the FUNC that heads the function instruction i belongs to. *)
Heads(p, f, i) ==
  /\ f \in DOMAIN p.code /\ f <= i
  /\ OpAt(p, f) = "FUNC"
  /\ \A j \in f + 1 .. i : OpAt(p, j) # "FUNC"
FuncOf(p, i) == CHOOSE f \in DOMAIN p.code : Heads(p, f, i)

(* The function headed by f has k PARAMs, right behind its FUNC. *)
Takes(p, f, k) ==
  /\ f + k + 1 \in DOMAIN p.code
  /\ \A j \in f + 1 .. f + k : OpAt(p, j) = "PARAM"
  /\ OpAt(p, f + k + 1) # "PARAM"
Arity(p, f) == CHOOSE k \in 0 .. p.size : Takes(p, f, k)

(* Instruction i of the function headed by f is past its FUNC and PARAMs. *)
Body(p, f, i) == i \in DOMAIN p.code /\ Heads(p, f, i) /\ f + Arity(p, f) < i

Transfers == {"RET", "JMP", "JIF"}

WellFormed(p) ==
  /\ p.size \in Nat
  /\ DOMAIN p.code = 0 .. p.size - 1
  /\ p.global_len \in DOMAIN p.code
  /\ p.entry \in p.global_len .. p.size - 1
  /\ p.entry_end \in p.global_len .. p.size - 1
  /\ OpAt(p, p.entry) = "FUNC" /\ Arity(p, p.entry) = 0
  /\ OpAt(p, p.global_len) = "FUNC"

GlobalsOK(p) ==
  \A i \in 0 .. p.global_len - 1 :
    /\ OpAt(p, i) \notin Transfers \cup {"FUNC", "PARAM"}
    /\ OpAt(p, i) = "CALL" => p.code[i].target < 0

FunctionsOK(p) ==
  \A i \in DOMAIN p.code :
    i >= p.global_len =>
      /\ \E f \in DOMAIN p.code : Heads(p, f, i) /\ f >= p.global_len
      /\ OpAt(p, i) = "FUNC" => \E k \in 0 .. p.size : Takes(p, i, k)
      /\ OpAt(p, i) = "PARAM" => i <= FuncOf(p, i) + Arity(p, FuncOf(p, i))

(* Execution never falls out of a function, and jumps stay in its body. *)
FlowOK(p) ==
  \A i \in DOMAIN p.code :
    i >= p.global_len =>
      /\ OpAt(p, i) \notin Transfers =>
           i + 1 \in DOMAIN p.code /\ OpAt(p, i + 1) # "FUNC"
      /\ OpAt(p, i) = "JMP" => Body(p, FuncOf(p, i), p.code[i].target)
      /\ OpAt(p, i) = "JIF" => /\ Body(p, FuncOf(p, i), p.code[i].target1)
                               /\ Body(p, FuncOf(p, i), p.code[i].target2)

(* A call of a user function is followed by as many ARGs as it has PARAMs. *)
CallsOK(p) ==
  \A i \in DOMAIN p.code :
    OpAt(p, i) = "CALL" /\ p.code[i].target >= 0 =>
      LET f == p.code[i].target
      IN /\ f \in DOMAIN p.code /\ f >= p.global_len /\ OpAt(p, f) = "FUNC"
         /\ i + Arity(p, f) + 1 \in DOMAIN p.code
         /\ \A j \in i + 1 .. i + Arity(p, f) : OpAt(p, j) = "ARG"
         /\ OpAt(p, i + Arity(p, f) + 1) # "FUNC"

WellLinked(p) == /\ WellFormed(p)
                 /\ GlobalsOK(p) /\ FunctionsOK(p) /\ FlowOK(p) /\ CallsOK(p)

(* main is left by running into entry_end only. *)
NoReturnInMain(p) ==
  \A i \in DOMAIN p.code :
    i >= p.global_len /\ FuncOf(p, i) = p.entry /\ OpAt(p, i) = "RET" => i = p.entry_end
=============================================================================
