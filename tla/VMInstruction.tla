--------------------------- MODULE VMInstruction ----------------------------
(***************************************************************************)
(* The instructions of the virtual machine, core/vm_instruction.hpp: which *)
(* fields an instruction of each opcode has.  A subscript list is "idx", a *)
(* register "reg" (or "r1" and "r2"), and the name of a callee is kept for *)
(* relocation and for dumps only.                                          *)
(***************************************************************************)
BinaryOps == {"ADD", "SUB", "MUL", "DIV", "MOD", "EXP", "BAND", "BOR", "BXOR", "SHL", "SHR",
              "LOR", "NE", "EQ", "LT", "LE", "GT", "GE", "LAND"}

UnaryOps == {"LNOT", "BNOT"}

Loads == [LOADI |-> {"reg", "val"}, LOADD |-> {"reg", "val"}, LOADS |-> {"reg", "val"},
          LOADA |-> {"reg", "val"}, LOADX |-> {"reg", "name", "idx"},
          LOADXA |-> {"reg", "name", "index"}]

Stores == [STOREI |-> {"name", "val"}, STORED |-> {"name", "val"}, STORES |-> {"name", "val"},
           STOREA |-> {"name", "idx", "val"}, STOREX |-> {"name", "idx", "reg"}]

Calls == [CALL |-> {"target"}, FUNC |-> {"params"}, PARAM |-> {"name"}, RET |-> {}]

Jumps == [JMP |-> {"target"}, JIF |-> {"target1", "target2"}]

Opcodes == BinaryOps \cup UnaryOps \cup {"ARG"}
             \cup DOMAIN Loads \cup DOMAIN Stores \cup DOMAIN Calls \cup DOMAIN Jumps

(* An ARG is the value (RAW) or the variable (MAP) its type says. *)
FieldsOf(i) ==
  CASE i.op \in BinaryOps -> {"r1", "r2"}
    [] i.op \in UnaryOps -> {"reg", "type", "name"}
    [] i.op = "ARG" -> {"type"} \cup IF i.type = "MAP" THEN {"name", "idx"} ELSE {"val"}
    [] i.op \in DOMAIN Loads -> Loads[i.op]
    [] i.op \in DOMAIN Stores -> Stores[i.op]
    [] i.op \in DOMAIN Calls -> Calls[i.op]
    [] i.op \in DOMAIN Jumps -> Jumps[i.op]

WellTyped(i) ==
  /\ i.op \in Opcodes
  /\ DOMAIN i \ {"op"} \in {FieldsOf(i)} \cup IF i.op = "CALL" THEN {{"name", "target"}} ELSE {}
=============================================================================
