--------------------------- MODULE MCBytecodeFile ---------------------------
(* Model checking the bytecode file: the linked sample programs, and every *)
(* pair of instructions, one per form the writer tells apart.              *)
EXTENDS BytecodeFile, IRPrograms

Negates(p) == \E i \in DOMAIN p.code : p.code[i].op = "BNOT"
Linked == {Link(ir) : ir \in Plain \cup Odd}

Idx == <<[const |-> 0], [var |-> "i"]>>
Forms == {
  [op |-> "EXP", r1 |-> 1, r2 |-> 2],
  [op |-> "LOADI", reg |-> 1, val |-> Int64(7)],
  [op |-> "LOADD", reg |-> 1, val |-> Double("d")],
  [op |-> "LOADS", reg |-> 2, val |-> Str("s")],
  [op |-> "LOADA", reg |-> 2, val |-> Arr(<<Int64(1), Double("d"), None, Str("s")>>)],
  [op |-> "LOADA", reg |-> 2, val |-> Arr(<< >>)],
  [op |-> "LOADX", reg |-> 0, name |-> "x", idx |-> Idx],
  [op |-> "LOADXA", reg |-> 2, name |-> "x", index |-> 1],
  [op |-> "STOREI", name |-> "x", val |-> Int64(7)],
  [op |-> "STORED", name |-> "x", val |-> Double("d")],
  [op |-> "STORES", name |-> "x", val |-> Str("s")],
  [op |-> "STOREA", name |-> "x", idx |-> Idx, val |-> Str("s")],
  [op |-> "STOREX", name |-> "x", idx |-> Idx, reg |-> 1],
  [op |-> "CALL", name |-> "f", target |-> 3],
  [op |-> "FUNC", params |-> 2],
  [op |-> "ARG", type |-> "MAP", name |-> "x", idx |-> Idx],
  [op |-> "ARG", type |-> "RAW", val |-> Double("d")],
  [op |-> "PARAM", name |-> "p"],
  [op |-> "RET"],
  [op |-> "JMP", target |-> 0],
  [op |-> "JIF", target1 |-> 0, target2 |-> 1] }

Pairs == {[code |-> [k \in 0 .. 1 |-> IF k = 0 THEN i ELSE j],
           size |-> 2, entry |-> 3, entry_end |-> 4, global_len |-> 5] : i, j \in Forms}

MCPrograms == {p \in Linked : ~Negates(p)} \cup Pairs

(* The programs of the run meet the hypothesis of the theorems. *)
ASSUME Writables == \A p \in MCPrograms : Writable(p)

MCNegation == {[code |-> [k \in 0 .. 0 |-> [op |-> "BNOT", reg |-> 1, type |-> "MAP", name |-> "a"]],
                size |-> 1, entry |-> 0, entry_end |-> 0, global_len |-> 0]}
=============================================================================
