------------------------------ MODULE CYXValue ------------------------------
(***************************************************************************)
(* The dynamically typed values of the language: class CYX::Value of       *)
(* common/value.hpp.  A value is a record whose single field names the     *)
(* alternative the std::variant holds, so two values of different types    *)
(* are never equal and TLC never compares their payloads.                  *)
(*                                                                         *)
(* Abstractions: no doubles; integers are unbounded (the runs use small    *)
(* ones); an array is never converted to a string, because printing        *)
(* records the value itself.  Bad stands for UNREACHABLE(), which exits    *)
(* the process, and for std::get_if returning null on a non-array.         *)
(***************************************************************************)
EXTENDS TLC, Integers, Sequences, SequencesExt, FiniteSetsExt

None == [none |-> TRUE]
Bad == [bad |-> TRUE]
Int64(n) == [int |-> n]
Str(s) == [str |-> s]
Arr(s) == [arr |-> s]

IsNone(v) == DOMAIN v = {"none"}
IsInt(v) == DOMAIN v = {"int"}
IsStr(v) == DOMAIN v = {"str"}
IsArr(v) == DOMAIN v = {"arr"}

(* static_cast<long long>(bool) *)
Flag(b) == Int64(IF b THEN 1 ELSE 0)

-----------------------------------------------------------------------------
(* Conversions: as<long long>, as<double> (an integer here), as<string>,   *)
(* explicit operator bool.                                                 *)

Digits == [d \in 0 .. 9 |-> ToString(d)]

(* std::stoll reads a leading digit and throws, caught as 0, on anything   *)
(* else: one digit is all the runs feed to it.                             *)
ParseInt(s) == IF \E d \in DOMAIN Digits : Digits[d] = s
                 THEN CHOOSE d \in DOMAIN Digits : Digits[d] = s
                 ELSE 0

AsInt(v) == IF IsInt(v) THEN v.int
            ELSE IF IsStr(v) THEN ParseInt(v.str)
            ELSE 0

AsStr(v) == IF IsStr(v) THEN v.str
            ELSE IF IsInt(v) THEN ToString(v.int)
            ELSE ""

(* operator bool exits on an empty value and on an array. *)
HasTruth(v) == IsInt(v) \/ IsStr(v)
Truth(v) == IF IsStr(v) THEN v.str # "" ELSE v.int # 0

-----------------------------------------------------------------------------
(* Operators *)

BothInt(a, b) == IsInt(a) /\ IsInt(b)
AnyStr(a, b) == IsStr(a) \/ IsStr(b)

(* An array on either side takes the other operand as its new last         *)
(* element; a string on either side concatenates.                          *)
Plus(a, b) ==
  IF IsArr(a) THEN Arr(Append(a.arr, b))
  ELSE IF IsArr(b) THEN Arr(Append(b.arr, a))
  ELSE IF BothInt(a, b) THEN Int64(a.int + b.int)
  ELSE IF AnyStr(a, b) THEN Str(AsStr(a) \o AsStr(b))
  ELSE Bad

(* The int-only operators.  / and % truncate towards zero; dividing by     *)
(* zero raises SIGFPE.                                                     *)
Abs(n) == IF n < 0 THEN -n ELSE n
Quot(a, b) == LET q == Abs(a) \div Abs(b) IN IF (a < 0) = (b < 0) THEN q ELSE -q

(* & | ^ on the low Width bits, the highest of which is the sign. *)
Width == 8
Bit(n, k) == (n \div 2 ^ k) % 2
Bitwise(op, m, n) ==
  LET set(k) == LET x == Bit(m, k) y == Bit(n, k)
                IN CASE op = "BAND" -> x = 1 /\ y = 1
                     [] op = "BOR"  -> x = 1 \/ y = 1
                     [] op = "BXOR" -> x # y
      weight(k) == IF k = Width - 1 THEN -(2 ^ k) ELSE 2 ^ k
  IN MapThenSumSet(weight, {k \in 0 .. Width - 1 : set(k)})

IntOp(op, a, b) ==
  CASE ~BothInt(a, b) -> Bad
    [] op \in {"DIV", "MOD"} /\ b.int = 0 -> Bad
    [] OTHER -> CASE op = "SUB" -> Int64(a.int - b.int)
                  [] op = "MUL" -> Int64(a.int * b.int)
                  [] op = "DIV" -> Int64(Quot(a.int, b.int))
                  [] op = "MOD" -> Int64(a.int - Quot(a.int, b.int) * b.int)
                  [] op = "SHL" -> Int64(a.int * 2 ^ b.int)
                  [] op = "SHR" -> Int64(a.int \div 2 ^ b.int)
                  [] OTHER -> Int64(Bitwise(op, a.int, b.int))

(* "a" * 3 repeats the string. *)
Repeat(s, n) == FoldLeftDomain(LAMBDA acc, i : acc \o s, "", [i \in 1 .. n |-> i])
Times(a, b) ==
  CASE IsStr(a) /\ IsInt(b) -> Str(Repeat(a.str, b.int))
    [] IsInt(a) /\ IsStr(b) -> Str(Repeat(b.str, a.int))
    [] OTHER -> IntOp("MUL", a, b)

Arith(op, a, b) == CASE op = "ADD" -> Plus(a, b)
                     [] op = "MUL" -> Times(a, b)
                     [] OTHER -> IntOp(op, a, b)

(* Comparisons.  Strings compare as strings, two values neither of which   *)
(* is a string compare as doubles (an empty value or an array counts as    *)
(* 0), and a string against anything else is both == and != true, and      *)
(* false for every order comparison.  String order is not modelled.        *)
Compare(op, a, b) ==
  IF IsStr(a) # IsStr(b) THEN op \in {"EQ", "NE"}
  ELSE IF IsStr(a) THEN CASE op = "EQ" -> a.str = b.str
                          [] op = "NE" -> a.str # b.str
                          [] OTHER -> FALSE
  ELSE LET x == AsInt(a) y == AsInt(b)
       IN CASE op = "EQ" -> x = y
            [] op = "NE" -> x # y
            [] op = "LT" -> x < y
            [] op = "LE" -> x <= y
            [] op = "GT" -> x > y
            [] op = "GE" -> x >= y

(* && and || are defined on two integers only. *)
Logic(op, a, b) ==
  IF ~BothInt(a, b) THEN Bad
  ELSE Flag(IF op = "LAND" THEN a.int # 0 /\ b.int # 0
                           ELSE a.int # 0 \/ b.int # 0)

(* ! and ~ *)
Negate(op, a) == IF ~IsInt(a) THEN Bad
                 ELSE IF op = "LNOT" THEN Flag(a.int = 0) ELSE Int64(-a.int - 1)

-----------------------------------------------------------------------------
(* Array elements: a path is a sequence of 0-based positions, walked with  *)
(* asArray()->at(i), which throws when i is out of range.                  *)

HasElem(v, i) == IsArr(v) /\ i \in 0 .. Len(v.arr) - 1

Walk(v, path) ==
  LET walk[k \in 0 .. Len(path)] ==
        IF k = 0 THEN v
        ELSE IF HasElem(walk[k - 1], path[k]) THEN walk[k - 1].arr[path[k] + 1] ELSE Bad
  IN walk[Len(path)]

(* The value v with the element at path replaced by w: the replacement is  *)
(* rebuilt from the innermost array outwards.                              *)
Put(v, path, w) ==
  LET last == Len(path) - 1
      put[k \in 0 .. last] ==
        [Walk(v, SubSeq(path, 1, k)).arr EXCEPT
           ![path[k + 1] + 1] = IF k = last THEN w ELSE Arr(put[k + 1])]
  IN IF path = << >> THEN w ELSE Arr(put[0])
=============================================================================
