------------------------------ MODULE Vectors -------------------------------
(***************************************************************************)
(* The std::vectors of the code: sequences with elements of any kind, and  *)
(* where the elements of a vector of vectors stand when they are put one   *)
(* behind the other.                                                       *)
(***************************************************************************)
EXTENDS Integers, Sequences

IsVector(s) == s \in Seq({s[k] : k \in DOMAIN s})

(* Offsets(ss)[k - 1] elements precede ss[k] in FlattenSeq(ss). *)
Offsets(ss) ==
  LET off[k \in 0 .. Len(ss)] == IF k = 0 THEN 0 ELSE off[k - 1] + Len(ss[k])
  IN off
=============================================================================
