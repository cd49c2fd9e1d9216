------------------------------ MODULE CFGProofs ------------------------------
(***************************************************************************)
(* Proofs about the control flow graph of every function, however many     *)
(* blocks it has and however they are linked, as long as the graph covers  *)
(* the jumps: what simplifyCFG leaves has no dangling jump and no jump to  *)
(* an empty block; then, where no edge leads back to the entry, the        *)
(* fathers that dfs notes lead up to the entry in whatever order it comes  *)
(* to the successors, and the runners of calcDominanceFrontier collect     *)
(* the dominance frontiers if the dominators are right.                    *)
(***************************************************************************)
EXTENDS Dominators, VectorLemmas, FiniteSetTheorems

-----------------------------------------------------------------------------
(* Lists, instructions *)

(* Removing the element at place k closes the gap. *)
LEMMA RemoveAtCloses ==
  ASSUME NEW S, NEW s \in Seq(S), NEW k \in 1 .. Len(s)
  PROVE  /\ RemoveAt(s, k) \in Seq(S) /\ Len(RemoveAt(s, k)) = Len(s) - 1
         /\ \A j \in 1 .. Len(s) - 1 :
              RemoveAt(s, k)[j] = IF j < k THEN s[j] ELSE s[j + 1]
<1> DEFINE front == SubSeq(s, 1, k - 1)
           back == SubSeq(s, k + 1, Len(s))
<1>1. /\ front \in Seq(S) /\ Len(front) = k - 1
      /\ \A j \in 1 .. k - 1 : front[j] = s[j]
  OBVIOUS
<1>2. /\ back \in Seq(S) /\ Len(back) = Len(s) - k
      /\ \A j \in 1 .. Len(s) - k : back[j] = s[k + j]
  OBVIOUS
<1>3. RemoveAt(s, k) = front \o back
  BY DEF RemoveAt
<1> HIDE DEF front, back
<1>4. /\ front \o back \in Seq(S) /\ Len(front \o back) = Len(front) + Len(back)
      /\ \A j \in 1 .. Len(front) + Len(back) :
           (front \o back)[j] = IF j <= Len(front) THEN front[j] ELSE back[j - Len(front)]
  BY <1>1, <1>2, ConcatProperties
<1>5. Len(RemoveAt(s, k)) = Len(s) - 1
  BY <1>1, <1>2, <1>3, <1>4
<1>6. ASSUME NEW j \in 1 .. Len(s) - 1
      PROVE  RemoveAt(s, k)[j] = IF j < k THEN s[j] ELSE s[j + 1]
  <2>1. RemoveAt(s, k)[j] = IF j <= k - 1 THEN front[j] ELSE back[j - (k - 1)]
    BY <1>1, <1>2, <1>3, <1>4
  <2>2. CASE j < k
    BY <2>1, <2>2, <1>1
  <2>3. CASE ~(j < k)
    <3>1. j - (k - 1) \in 1 .. Len(s) - k /\ k + (j - (k - 1)) = j + 1
      BY <2>3
    <3> QED BY <2>1, <2>3, <3>1, <1>2
  <2> QED BY <2>2, <2>3
<1> QED BY <1>3, <1>4, <1>5, <1>6

(* A redirected instruction keeps its kind; it goes to the new target only *)
(* where it went to the old one, and never to the old one again.           *)
LEMMA RetargetMoves ==
  ASSUME NEW inst \in Instruction, NEW from \in Int, NEW to \in Int, from # to
  PROVE  /\ Retarget(inst, from, to) \in Instruction
         /\ Leaves(Retarget(inst, from, to)) <=> Leaves(inst)
         /\ \A t \in TargetsOf(Retarget(inst, from, to)) :
              \/ t \in TargetsOf(inst) /\ t # from
              \/ t = to /\ from \in TargetsOf(inst)
BY DEF Instruction, Retarget, Leaves, TargetsOf

(* A function on 1 .. n is a sequence of length n. *)
LEMMA IsSequence ==
  ASSUME NEW S, NEW n \in Nat, NEW f \in [1 .. n -> S]
  PROVE  f \in Seq(S) /\ Len(f) = n /\ DOMAIN f = 1 .. n
OBVIOUS

(* What a redirected block is. *)
LEMMA RetargetedBlock ==
  ASSUME NEW insts \in Seq(Instruction), NEW from \in Int, NEW to \in Int, from # to
  PROVE  /\ Retargeted(insts, from, to) \in Seq(Instruction)
         /\ DOMAIN Retargeted(insts, from, to) = DOMAIN insts
         /\ Retargeted(insts, from, to) = << >> <=> insts = << >>
         /\ \A k \in DOMAIN insts :
              Retargeted(insts, from, to)[k] = Retarget(insts[k], from, to)
<1> DEFINE moved == Retargeted(insts, from, to)
<1>1. /\ DOMAIN moved = 1 .. Len(insts) /\ DOMAIN insts = 1 .. Len(insts)
      /\ \A k \in DOMAIN insts : moved[k] = Retarget(insts[k], from, to)
  BY DEF Retargeted
<1>2. \A k \in DOMAIN insts : moved[k] \in Instruction
  BY <1>1, RetargetMoves
<1>3. moved \in [1 .. Len(insts) -> Instruction]
  BY <1>1, <1>2 DEF Retargeted
<1> HIDE DEF moved
<1>4. moved \in Seq(Instruction) /\ Len(moved) = Len(insts)
  BY <1>3, IsSequence
<1>5. moved = << >> <=> insts = << >>
  BY <1>4, EmptySeq
<1> QED BY <1>1, <1>4, <1>5 DEF moved

-----------------------------------------------------------------------------
(* The inductive invariant *)

(* The blocks the iterator has passed are not empty, except one that       *)
(* nothing goes to (the first) and the last.                               *)
Passed ==
  \A k \in DOMAIN blocks :
    k < it /\ code[blocks[k]] = << >> => k = Len(blocks) \/ Pres(blocks[k]) = {}

(* At the end every block was passed, and the last one returns. *)
Returned ==
  pass = "done" => it > Len(blocks) /\ code[blocks[Len(blocks)]] # << >>

IInv == TypeOK /\ EdgesCover /\ EmptyGoesOn /\ Passed /\ Returned

LEMMA Typed ==
  ASSUME TypeOK
  PROVE  /\ Len(blocks) \in Nat /\ Len(blocks) > 0 /\ DOMAIN blocks = 1 .. Len(blocks)
         /\ Len(code) \in Nat /\ DOMAIN code = 1 .. Len(code)
         /\ \A k \in DOMAIN blocks : blocks[k] \in DOMAIN code /\ blocks[k] \in Listed
         /\ \A b \in Listed : b \in DOMAIN code /\ b \in Int
                              /\ \E k \in DOMAIN blocks : b = blocks[k]
         /\ \A b \in DOMAIN code : code[b] \in Seq(Instruction)
         /\ it \in Nat
<1>1. Len(blocks) \in Nat /\ DOMAIN blocks = 1 .. Len(blocks) /\ Len(blocks) # 0
  BY EmptySeq DEF TypeOK
<1>2. Len(code) \in Nat /\ DOMAIN code = 1 .. Len(code)
  BY DEF TypeOK
<1>3. \A k \in DOMAIN blocks : blocks[k] \in DOMAIN code /\ blocks[k] \in Listed
  BY DEF TypeOK, Listed
<1>4. \A b \in DOMAIN code : code[b] \in Seq(Instruction)
  BY DEF TypeOK
<1>5. it \in Nat
  BY <1>1 DEF TypeOK
<1> QED BY <1>1, <1>2, <1>3, <1>4, <1>5 DEF Listed

(* No two places of the list hold the same block. *)
LEMMA Distinct ==
  ASSUME TypeOK, NEW j \in DOMAIN blocks, NEW k \in DOMAIN blocks, blocks[j] = blocks[k]
  PROVE  j = k
BY DEF TypeOK

LEMMA Linked ==
  ASSUME TypeOK, NEW p, NEW s
  PROVE  /\ s \in Succs(p) <=> <<p, s>> \in edges
         /\ p \in Pres(s) <=> <<p, s>> \in edges
         /\ <<p, s>> \in edges => p \in Listed /\ s \in Listed
BY DEF TypeOK, Succs, Pres

(* The list without the block at it. *)
LEMMA ListShrinks ==
  ASSUME TypeOK, it \in DOMAIN blocks, Len(blocks) > 1,
         blocks' = RemoveAt(blocks, it), DOMAIN code' = DOMAIN code
  PROVE  /\ blocks' \in Seq(DOMAIN code') /\ blocks' # << >>
         /\ Len(blocks') = Len(blocks) - 1 /\ DOMAIN blocks' = 1 .. Len(blocks) - 1
         /\ \A k \in DOMAIN blocks' :
              blocks'[k] = IF k < it THEN blocks[k] ELSE blocks[k + 1]
         /\ \A j, k \in DOMAIN blocks' : blocks'[j] = blocks'[k] => j = k
         /\ Listed' = Listed \ {blocks[it]}
<1> DEFINE n == Len(blocks)
<1>a. /\ blocks \in Seq(DOMAIN code) /\ it \in 1 .. n /\ n \in Nat /\ n > 1
      /\ DOMAIN blocks = 1 .. n
  BY Typed DEF TypeOK
<1>b. /\ RemoveAt(blocks, it) \in Seq(DOMAIN code) /\ Len(RemoveAt(blocks, it)) = n - 1
      /\ \A j \in 1 .. n - 1 :
           RemoveAt(blocks, it)[j] = IF j < it THEN blocks[j] ELSE blocks[j + 1]
  BY <1>a, RemoveAtCloses
<1>1. /\ blocks' \in Seq(DOMAIN code) /\ Len(blocks') = n - 1
      /\ \A j \in 1 .. n - 1 : blocks'[j] = IF j < it THEN blocks[j] ELSE blocks[j + 1]
  BY <1>b
<1> HIDE DEF n
<1>d. it \in 1 .. n /\ n \in Nat /\ n > 1 /\ DOMAIN blocks = 1 .. n
  BY <1>a
<1>2. DOMAIN blocks' = 1 .. n - 1 /\ blocks' # << >>
  BY <1>1, <1>d
<1>3. \A j, k \in DOMAIN blocks' : blocks'[j] = blocks'[k] => j = k
  <2> SUFFICES ASSUME NEW j \in DOMAIN blocks', NEW k \in DOMAIN blocks', blocks'[j] = blocks'[k]
               PROVE  j = k
    OBVIOUS
  <2> DEFINE Old(x) == IF x < it THEN x ELSE x + 1
  <2>1. ASSUME NEW x \in DOMAIN blocks'
        PROVE  Old(x) \in DOMAIN blocks /\ blocks'[x] = blocks[Old(x)]
    <3>1. x \in 1 .. n - 1
      BY <1>2
    <3>2. CASE x < it
      BY <3>1, <3>2, <1>1, <1>d
    <3>3. CASE ~(x < it)
      <4>1. x + 1 \in 1 .. n /\ blocks'[x] = blocks[x + 1]
        BY <3>1, <3>3, <1>1, <1>d
      <4> QED BY <4>1, <3>3, <1>d
    <3> QED BY <3>2, <3>3
  <2>2. Old(j) = Old(k)
    <3>1. Old(j) \in DOMAIN blocks /\ Old(k) \in DOMAIN blocks
      BY <2>1
    <3>2. blocks[Old(j)] = blocks[Old(k)]
      BY <2>1
    <3> HIDE DEF Old
    <3> QED BY <3>1, <3>2, Distinct
  <2>3. j \in Int /\ k \in Int /\ it \in Int
    BY <1>2, <1>d
  <2> QED BY <2>2, <2>3
<1>4. Listed' \subseteq Listed \ {blocks[it]}
  <2> SUFFICES ASSUME NEW k \in DOMAIN blocks' PROVE blocks'[k] \in Listed \ {blocks[it]}
    BY DEF Listed
  <2>1. CASE k < it
    <3>1. k \in DOMAIN blocks /\ blocks'[k] = blocks[k] /\ k # it
      BY <1>1, <1>2, <1>d, <2>1
    <3> QED BY <3>1, Distinct DEF Listed
  <2>2. CASE ~(k < it)
    <3>1. k + 1 \in DOMAIN blocks /\ blocks'[k] = blocks[k + 1] /\ k + 1 # it
      BY <1>1, <1>2, <1>d, <2>2
    <3> QED BY <3>1, Distinct DEF Listed
  <2> QED BY <2>1, <2>2
<1>5. Listed \ {blocks[it]} \subseteq Listed'
  <2> SUFFICES ASSUME NEW k \in DOMAIN blocks, k # it PROVE blocks[k] \in Listed'
    BY DEF Listed
  <2>1. CASE k < it
    <3>1. k \in DOMAIN blocks' /\ blocks'[k] = blocks[k]
      BY <1>1, <1>2, <1>d, <2>1
    <3> QED BY <3>1 DEF Listed
  <2>2. CASE ~(k < it)
    <3>1. k - 1 \in DOMAIN blocks' /\ blocks'[k - 1] = blocks[k]
      BY <1>1, <1>2, <1>d, <2>2
    <3> QED BY <3>1 DEF Listed
  <2> QED BY <2>1, <2>2
<1> QED BY <1>1, <1>2, <1>3, <1>4, <1>5 DEF n

(* Where a block of the shorter list was, and what followed it there. *)
LEMMA OldPlace ==
  ASSUME TypeOK, it \in DOMAIN blocks, Len(blocks) > 1,
         blocks' = RemoveAt(blocks, it), DOMAIN code' = DOMAIN code,
         NEW k \in DOMAIN blocks'
  PROVE  \E o \in DOMAIN blocks :
           /\ blocks'[k] = blocks[o] /\ o # it /\ o = (IF k < it THEN k ELSE k + 1)
           /\ k < Len(blocks') =>
                /\ o < Len(blocks)
                /\ IF k + 1 = it THEN /\ o + 1 = it /\ it < Len(blocks)
                                      /\ blocks'[k + 1] = blocks[it + 1]
                                 ELSE blocks'[k + 1] = blocks[o + 1]
<1>1. /\ it \in 1 .. Len(blocks) /\ Len(blocks) \in Nat /\ DOMAIN blocks = 1 .. Len(blocks)
      /\ Len(blocks') = Len(blocks) - 1 /\ DOMAIN blocks' = 1 .. Len(blocks) - 1
      /\ k \in 1 .. Len(blocks) - 1
      /\ \A j \in 1 .. Len(blocks) - 1 :
           blocks'[j] = IF j < it THEN blocks[j] ELSE blocks[j + 1]
  BY Typed, ListShrinks
<1>2. k + 1 <= Len(blocks) - 1 =>
        blocks'[k + 1] = IF k + 1 < it THEN blocks[k + 1] ELSE blocks[k + 2]
  BY <1>1
<1>3. CASE k < it
  <2>1. k \in DOMAIN blocks /\ blocks'[k] = blocks[k] /\ k # it
    BY <1>1, <1>3
  <2>2. ASSUME k < Len(blocks')
        PROVE  /\ k < Len(blocks)
               /\ IF k + 1 = it THEN it < Len(blocks) /\ blocks'[k + 1] = blocks[it + 1]
                                ELSE blocks'[k + 1] = blocks[k + 1]
    BY <1>1, <1>2, <1>3, <2>2
  <2> QED BY <2>1, <2>2, <1>3
<1>4. CASE ~(k < it)
  <2>1. k + 1 \in DOMAIN blocks /\ blocks'[k] = blocks[k + 1] /\ k + 1 # it
    BY <1>1, <1>4
  <2>2. ASSUME k < Len(blocks')
        PROVE  k + 1 < Len(blocks) /\ blocks'[k + 1] = blocks[k + 1 + 1] /\ k + 1 # it
    BY <1>1, <1>2, <1>4, <2>2
  <2> QED BY <2>1, <2>2, <1>4
<1> QED BY <1>3, <1>4

-----------------------------------------------------------------------------
(* Every action keeps the invariant *)

LEMMA RemoveUnreachableKeeps ==
  ASSUME IInv, RemoveUnreachable
  PROVE  IInv'
<1> DEFINE x == blocks[it]
<1>1. /\ TypeOK /\ EdgesCover /\ EmptyGoesOn /\ Passed /\ pass = "on"
  BY DEF IInv, RemoveUnreachable, Simplifying
<1>2. /\ it \in DOMAIN blocks /\ Len(blocks) > 1 /\ it \in Nat
      /\ Len(blocks) \in Nat /\ DOMAIN blocks = 1 .. Len(blocks)
  <2>1. it <= Len(blocks) /\ it # 1
    BY DEF RemoveUnreachable, Simplifying, Unreachable
  <2>2. it \in 1 .. Len(blocks) + 1
    BY <1>1 DEF TypeOK
  <2> QED BY <2>1, <2>2, <1>1, Typed
<1>3. /\ blocks' = RemoveAt(blocks, it) /\ code' = code /\ it' = it /\ pass' = pass
      /\ edges' = {e \in edges : e[1] # x}
  BY DEF RemoveUnreachable
<1>4. Pres(x) = {} /\ x \in Listed
  BY <1>1, <1>2, Typed DEF RemoveUnreachable, Unreachable
<1>5. /\ blocks' \in Seq(DOMAIN code') /\ blocks' # << >>
      /\ Len(blocks') = Len(blocks) - 1 /\ DOMAIN blocks' = 1 .. Len(blocks) - 1
      /\ \A j, k \in DOMAIN blocks' : blocks'[j] = blocks'[k] => j = k
      /\ Listed' = Listed \ {x}
  BY <1>1, <1>2, <1>3, ListShrinks
<1> HIDE DEF x
<1>6. ASSUME NEW p, NEW s
      PROVE  <<p, s>> \in edges' <=> <<p, s>> \in edges /\ p \in Listed' /\ s \in Listed'
  <2>1. <<p, s>> \in edges => p \in Listed /\ s \in Listed /\ s # x
    BY <1>1, <1>4, Linked
  <2> QED BY <2>1, <1>3, <1>5
<1>7. edges' \subseteq Listed' \X Listed'
  <2> SUFFICES ASSUME NEW e \in edges' PROVE e \in Listed' \X Listed'
    OBVIOUS
  <2>1. e \in edges /\ e = <<e[1], e[2]>>
    BY <1>1, <1>3 DEF TypeOK
  <2> QED BY <2>1, <1>6
<1>8. TypeOK'
  <2>1. it \in 1 .. Len(blocks')+ 1
    BY <1>2, <1>5
  <2> QED BY <1>1, <1>3, <1>5, <1>7, <2>1 DEF TypeOK
<1>9. ASSUME NEW p \in Listed'
      PROVE  Succs(p)' = Succs(p) /\ Pres(p)' \subseteq Pres(p)
  <2>1. \A s : s \in Succs(p) => s # x
    BY <1>1, <1>4, Linked
  <2> QED BY <2>1, <1>5, <1>6 DEF Succs, Pres
<1>10. ASSUME NEW b PROVE Targets(b)' = Targets(b) /\ (FallsThrough(b)' <=> FallsThrough(b))
  BY <1>3 DEF Targets, FallsThrough
<1>11. EdgesCover'
  <2> SUFFICES ASSUME NEW k \in DOMAIN blocks', NEW b, b = blocks'[k]
               PROVE  /\ Targets(b)' \subseteq Succs(b)'
                      /\ FallsThrough(b)' /\ k < Len(blocks') => blocks'[k + 1] \in Succs(b)'
    BY DEF EdgesCover, Targets, Succs, FallsThrough
  <2>1. b \in Listed'
    BY DEF Listed
  <2>2. PICK o \in DOMAIN blocks :
           /\ b = blocks[o]
           /\ k < Len(blocks') =>
                /\ o < Len(blocks)
                /\ IF k + 1 = it THEN o + 1 = it
                                 ELSE blocks'[k + 1] = blocks[o + 1]
    BY <1>1, <1>2, <1>3, OldPlace
  <2>3. Targets(b) \subseteq Succs(b)
    BY <1>1, <2>2 DEF EdgesCover
  <2>4. ASSUME FallsThrough(b), k < Len(blocks')
        PROVE  blocks'[k + 1] \in Succs(b)
    <3>1. blocks[o + 1] \in Succs(b)
      BY <1>1, <2>2, <2>4 DEF EdgesCover
    <3>2. k + 1 # it
      BY <3>1, <2>2, <2>4, <1>1, <1>4, Linked DEF x
    <3> QED BY <3>1, <3>2, <2>2, <2>4
  <2>5. Succs(b)' = Succs(b) /\ Targets(b)' = Targets(b) /\ (FallsThrough(b)' <=> FallsThrough(b))
    BY <2>1, <1>9, <1>10
  <2> QED BY <2>3, <2>4, <2>5
<1>12. EmptyGoesOn'
  <2> SUFFICES ASSUME NEW k \in DOMAIN blocks', NEW b, b = blocks'[k], code[b] = << >>
               PROVE  /\ \A s \in Succs(b)' : b < s
                      /\ k = Len(blocks') \/ OneSuccessor(b)'
    BY <1>3 DEF EmptyGoesOn, OneSuccessor, Succs
  <2>1. b \in Listed'
    BY DEF Listed
  <2>2. PICK o \in DOMAIN blocks :
           b = blocks[o] /\ (k < Len(blocks') => o < Len(blocks))
    BY <1>1, <1>2, <1>3, OldPlace
  <2>3. /\ \A s \in Succs(b) : b < s
        /\ o = Len(blocks) \/ OneSuccessor(b)
    BY <1>1, <2>2 DEF EmptyGoesOn
  <2>4. Succs(b)' = Succs(b)
    BY <2>1, <1>9
  <2>5. k < Len(blocks') \/ k = Len(blocks')
    BY <1>2, <1>5
  <2>6. OneSuccessor(b) => OneSuccessor(b)'
    BY <2>4 DEF OneSuccessor
  <2> QED BY <2>2, <2>3, <2>4, <2>5, <2>6, <1>2
<1>13. Passed'
  <2> SUFFICES ASSUME NEW k \in DOMAIN blocks', NEW b, b = blocks'[k], k < it, code[b] = << >>
               PROVE  Pres(b)' = {}
    BY <1>3 DEF Passed, Pres
  <2>1. b \in Listed'
    BY DEF Listed
  <2>2. b = blocks[k] /\ k \in DOMAIN blocks
    BY <1>1, <1>2, <1>3, OldPlace
  <2>3. k # Len(blocks)
    BY <1>2, <1>5
  <2>4. Pres(b) = {}
    BY <1>1, <2>2, <2>3 DEF Passed
  <2> QED BY <2>1, <2>4, <1>9
<1>14. Returned'
  BY <1>1, <1>3 DEF Returned
<1> QED BY <1>8, <1>11, <1>12, <1>13, <1>14 DEF IInv

(* Keeping a block: it is not empty, or nothing goes to it, or it is last. *)
LEMMA KeepKeeps ==
  ASSUME IInv, Keep
  PROVE  IInv'
<1>1. /\ TypeOK /\ EdgesCover /\ EmptyGoesOn /\ Passed /\ pass = "on" /\ it <= Len(blocks)
      /\ it' = it + 1 /\ blocks' = blocks /\ code' = code /\ edges' = edges /\ pass' = pass
  BY DEF IInv, Keep, Simplifying
<1>2. it \in DOMAIN blocks /\ it \in Nat /\ DOMAIN blocks = 1 .. Len(blocks) /\ Len(blocks) \in Nat
  <2>1. it \in 1 .. Len(blocks) + 1
    BY <1>1 DEF TypeOK
  <2> QED BY <1>1, <2>1, Typed
<1>3. TypeOK'
  <2>1. it + 1 \in 1 .. Len(blocks) + 1
    BY <1>1, <1>2
  <2>2. Listed' = Listed
    BY <1>1 DEF Listed
  <2> QED BY <1>1, <2>1, <2>2 DEF TypeOK
<1>4. EdgesCover' /\ EmptyGoesOn'
  <2>1. Listed' = Listed
    BY <1>1 DEF Listed
  <2>2. EdgesCover'
    BY <1>1, <2>1 DEF EdgesCover, Targets, FallsThrough, Succs
  <2>3. EmptyGoesOn'
    BY <1>1, <2>1 DEF EmptyGoesOn, OneSuccessor, Succs
  <2> QED BY <2>2, <2>3
<1>5. code[blocks[it]] = << >> => it = Len(blocks) \/ Pres(blocks[it]) = {}
  BY <1>1, <1>2 DEF EmptyGoesOn, Keep, Empty
<1>6. Passed'
  <2> SUFFICES ASSUME NEW k \in DOMAIN blocks, k < it + 1, code[blocks[k]] = << >>
               PROVE  k = Len(blocks) \/ Pres(blocks[k]) = {}
    BY <1>1 DEF Passed, Pres, Listed
  <2>1. CASE k = it
    BY <2>1, <1>5
  <2>2. CASE k < it
    BY <2>2, <1>1 DEF Passed
  <2> QED BY <2>1, <2>2, <1>2
<1> QED BY <1>1, <1>3, <1>4, <1>6 DEF IInv, Returned

(* The last block gets a return if it has none: it has code then, and goes *)
(* nowhere it did not go before.                                           *)
LEMMA AppendReturnKeeps ==
  ASSUME IInv, AppendReturn
  PROVE  IInv'
<1> DEFINE n == Len(blocks)
           b == blocks[n]
<1>1. /\ TypeOK /\ EdgesCover /\ EmptyGoesOn /\ Passed
      /\ blocks' = blocks /\ edges' = edges /\ it' = it /\ it > n /\ pass' = "done"
  BY DEF IInv, AppendReturn
<1>2. /\ n \in Nat /\ n > 0 /\ DOMAIN blocks = 1 .. n /\ n \in DOMAIN blocks
      /\ b \in DOMAIN code /\ b \in Listed
      /\ \A p \in DOMAIN code : code[p] \in Seq(Instruction)
      /\ Len(code) \in Nat /\ DOMAIN code = 1 .. Len(code)
  <2>1. n \in Nat /\ n > 0 /\ DOMAIN blocks = 1 .. n
    BY <1>1, Typed
  <2>2. n \in DOMAIN blocks
    BY <2>1
  <2> HIDE DEF n
  <2> QED BY <1>1, <2>1, <2>2, Typed
<1>3. code' = code \/ code' = [code EXCEPT ![b] = Append(@, Ret)]
  BY DEF AppendReturn
<1>4. code' # code \/ code[b] # << >>
  <2>1. CASE code[b] = << >>
    <3>1. code' = [code EXCEPT ![b] = Append(@, Ret)]
      BY <2>1 DEF AppendReturn
    <3>2. code'[b] # << >>
      <4>1. code'[b] = Append(code[b], Ret)
        BY <3>1, <1>2
      <4> HIDE DEF b
      <4>2. code[b] \in Seq(Instruction) /\ Ret \in Instruction
        BY <1>2 DEF Ret, Instruction
      <4> QED BY <4>1, <4>2
    <3> QED BY <2>1, <3>2
  <2> QED BY <2>1
<1> HIDE DEF b, n
<1>5. /\ \A p \in DOMAIN code : p # b => code'[p] = code[p]
      /\ DOMAIN code' = DOMAIN code
      /\ code'[b] = code[b] \/ code'[b] = Append(code[b], Ret)
  BY <1>2, <1>3
<1>6. /\ code'[b] \in Seq(Instruction) /\ code'[b] # << >>
      /\ DOMAIN code[b] \subseteq DOMAIN code'[b]
      /\ \A k \in DOMAIN code[b] : code'[b][k] = code[b][k]
      /\ \A k \in DOMAIN code'[b] \ DOMAIN code[b] : code'[b][k] = Ret
  <2>1. code[b] \in Seq(Instruction) /\ Ret \in Instruction
    BY <1>2 DEF Ret, Instruction
  <2>2. CASE code'[b] = Append(code[b], Ret)
    BY <2>1, <2>2
  <2>3. CASE code'[b] = code[b]
    <3>1. code[b] # << >>
      BY <1>2, <1>3, <1>4, <2>3
    <3> QED BY <2>1, <2>3, <3>1
  <2> QED BY <1>5, <2>2, <2>3
<1>7. code' \in Seq(Seq(Instruction))
  <2>1. \A p \in DOMAIN code : code'[p] \in Seq(Instruction)
    BY <1>2, <1>5, <1>6
  <2>2. code' \in [1 .. Len(code) -> Seq(Instruction)]
    <3>1. code \in [1 .. Len(code) -> Seq(Instruction)]
      BY <1>1 DEF TypeOK
    <3> QED BY <3>1, <2>1, <1>2, <1>3
  <2> QED BY <2>2, <1>2, IsSequence
<1>8. Listed' = Listed
  BY <1>1 DEF Listed
<1>9. TypeOK'
  BY <1>1, <1>5, <1>7, <1>8 DEF TypeOK
<1>10. ASSUME NEW p \in Listed
       PROVE  Targets(p)' \subseteq Targets(p) /\ (FallsThrough(p)' => FallsThrough(p))
  <2>1. TargetsOf(Ret) = {} /\ p \in DOMAIN code
    BY <1>1, Typed DEF TargetsOf, Ret
  <2>2. CASE p # b
    BY <2>1, <2>2, <1>5 DEF Targets, FallsThrough
  <2>3. CASE p = b
    BY <2>1, <2>3, <1>6 DEF Targets, FallsThrough
  <2> QED BY <2>2, <2>3
<1>11. ASSUME NEW p PROVE Succs(p)' = Succs(p) /\ Pres(p)' = Pres(p)
  BY <1>1, <1>8 DEF Succs, Pres
<1>12. ASSUME NEW p \in Listed, code'[p] = << >> PROVE code[p] = << >>
  <2>1. p # b /\ p \in DOMAIN code
    BY <1>1, <1>6, <1>12, Typed
  <2> QED BY <2>1, <1>5, <1>12
<1>13. EdgesCover'
  <2> SUFFICES ASSUME NEW k \in DOMAIN blocks, NEW p, p = blocks[k]
               PROVE  /\ Targets(p)' \subseteq Succs(p)'
                      /\ FallsThrough(p)' /\ k < Len(blocks) => blocks[k + 1] \in Succs(p)'
    BY <1>1 DEF EdgesCover, Targets, Succs, FallsThrough
  <2>1. p \in Listed
    BY <1>1, Typed
  <2> QED BY <1>1, <1>10, <1>11, <2>1 DEF EdgesCover
<1>14. EmptyGoesOn'
  <2> SUFFICES ASSUME NEW k \in DOMAIN blocks, NEW p, p = blocks[k], code'[p] = << >>
               PROVE  /\ \A s \in Succs(p)' : p < s
                      /\ k = Len(blocks) \/ OneSuccessor(p)'
    BY <1>1 DEF EmptyGoesOn, OneSuccessor, Succs
  <2>1. code[p] = << >>
    BY <1>1, <1>12, Typed
  <2>2. OneSuccessor(p) => OneSuccessor(p)'
    BY <1>11 DEF OneSuccessor
  <2> QED BY <1>1, <1>11, <2>1, <2>2 DEF EmptyGoesOn
<1>15. Passed'
  <2> SUFFICES ASSUME NEW k \in DOMAIN blocks, NEW p, p = blocks[k], k < it, code'[p] = << >>
               PROVE  k = Len(blocks) \/ Pres(p)' = {}
    BY <1>1 DEF Passed, Pres
  <2>1. code[p] = << >>
    BY <1>1, <1>12, Typed
  <2> QED BY <1>1, <1>11, <2>1 DEF Passed
<1>16. Returned'
  BY <1>1, <1>6 DEF Returned, b, n
<1> QED BY <1>9, <1>13, <1>14, <1>15, <1>16 DEF IInv

(* Taking an empty block out: a predecessor p goes on with the successor,  *)
(* by its jumps, its edges, and its place in the list.                     *)
LEMMA RemoveEmptyKeeps ==
  ASSUME IInv, RemoveEmpty
  PROVE  IInv'
<1> DEFINE x == blocks[it]
<1>1. /\ TypeOK /\ EdgesCover /\ EmptyGoesOn /\ Passed /\ pass = "on" /\ it <= Len(blocks)
      /\ blocks' = RemoveAt(blocks, it) /\ it' = it /\ pass' = pass
  BY DEF IInv, RemoveEmpty, Simplifying
<1>2. /\ it \in DOMAIN blocks /\ it \in Nat /\ DOMAIN blocks = 1 .. Len(blocks)
      /\ Len(blocks) \in Nat
  <2>1. it \in 1 .. Len(blocks) + 1
    BY <1>1 DEF TypeOK
  <2> QED BY <1>1, <2>1, Typed
<1>3. x \in Listed /\ x \in Int /\ x \in DOMAIN code /\ code[x] = << >> /\ Pres(x) # {}
  <2>1. x \in Listed
    BY <1>1, <1>2, Typed
  <2> QED BY <2>1, <1>1, Typed DEF RemoveEmpty, Empty
<1>4. PICK succ \in Succs(x) :
        /\ edges' = {e \in edges : x \notin {e[1], e[2]}} \cup {<<p, succ>> : p \in Pres(x)}
        /\ code' = [p \in DOMAIN code |->
                      IF p \in Pres(x) THEN Retargeted(code[p], x, succ) ELSE code[p]]
  BY DEF RemoveEmpty
<1>5. Succs(x) = {succ}
  BY DEF RemoveEmpty, Empty, OneSuccessor
<1>6. /\ succ \in Listed /\ succ \in Int /\ x < succ /\ succ # x
  <2>1. succ \in Listed /\ succ \in Int
    BY <1>1, Linked, Typed
  <2>2. x < succ
    BY <1>1, <1>2, <1>3 DEF EmptyGoesOn
  <2> QED BY <2>1, <2>2, <1>3
<1>7. Len(blocks) > 1
  <2>1. PICK j \in DOMAIN blocks : succ = blocks[j]
    BY <1>1, <1>6, Typed
  <2>2. j # it
    BY <2>1, <1>6
  <2> QED BY <2>1, <2>2, <1>2
<1>8. DOMAIN code' = DOMAIN code
  BY <1>4
<1>9. /\ blocks' \in Seq(DOMAIN code') /\ blocks' # << >>
      /\ Len(blocks') = Len(blocks) - 1 /\ DOMAIN blocks' = 1 .. Len(blocks) - 1
      /\ \A j, k \in DOMAIN blocks' : blocks'[j] = blocks'[k] => j = k
      /\ Listed' = Listed \ {x}
  BY <1>1, <1>2, <1>7, <1>8, ListShrinks
<1>10. x = blocks[it]
  OBVIOUS
<1> HIDE DEF x
(* The edges *)
<1>11. ASSUME NEW p \in Pres(x) PROVE p \in Listed' /\ p \in Listed /\ p # x
  <2>1. <<p, x>> \in edges /\ p \in Listed
    BY <1>1, Linked
  <2>2. p # x
    BY <2>1, <1>1, <1>5, <1>6, Linked
  <2> QED BY <2>1, <2>2, <1>9
<1>12. ASSUME NEW p, NEW s
       PROVE  <<p, s>> \in edges' <=>
                ((<<p, s>> \in edges /\ p # x /\ s # x) \/ (p \in Pres(x) /\ s = succ))
  BY <1>4
<1>13. edges' \subseteq Listed' \X Listed'
  <2> SUFFICES ASSUME NEW e \in edges' PROVE e \in Listed' \X Listed'
    OBVIOUS
  <2>1. CASE e \in edges /\ x \notin {e[1], e[2]}
    <3>1. e \in Listed \X Listed
      BY <2>1, <1>1 DEF TypeOK
    <3> QED BY <3>1, <2>1, <1>9
  <2>2. CASE e \in {<<p, succ>> : p \in Pres(x)}
    BY <2>2, <1>6, <1>9, <1>11
  <2> QED BY <2>1, <2>2, <1>4
<1>14. ASSUME NEW p \in Listed', NEW s
       PROVE  s \in Succs(p)' <=>
                ((s \in Succs(p) /\ s # x) \/ (x \in Succs(p) /\ s = succ))
  <2>1. s \in Succs(p)' <=> <<p, s>> \in edges'
    BY <1>13 DEF Succs
  <2>2. p # x /\ (x \in Succs(p) <=> p \in Pres(x)) /\ (s \in Succs(p) <=> <<p, s>> \in edges)
    BY <1>1, <1>9, Linked
  <2> QED BY <2>1, <2>2, <1>12
<1>15. ASSUME NEW p, Pres(p) = {} PROVE Pres(p)' = {}
  <2>1. p # succ
    <3>1. <<x, succ>> \in edges
      BY <1>1, Linked
    <3> QED BY <3>1, <1>1, <1>15, Linked
  <2>2. \A q : <<q, p>> \notin edges
    BY <1>1, <1>15, Linked
  <2>3. \A q : <<q, p>> \notin edges'
    BY <2>1, <2>2, <1>12
  <2> QED BY <2>3 DEF Pres
(* The code *)
<1>16. ASSUME NEW p \in DOMAIN code
       PROVE  /\ code'[p] \in Seq(Instruction)
              /\ DOMAIN code'[p] = DOMAIN code[p]
              /\ code'[p] = << >> <=> code[p] = << >>
              /\ \A k \in DOMAIN code[p] :
                   /\ Leaves(code'[p][k]) <=> Leaves(code[p][k])
                   /\ \A t \in TargetsOf(code'[p][k]) :
                        \/ t \in TargetsOf(code[p][k]) /\ (p \in Pres(x) => t # x)
                        \/ t = succ /\ x \in TargetsOf(code[p][k]) /\ p \in Pres(x)
  <2>1. code[p] \in Seq(Instruction)
    BY <1>1, Typed
  <2>2. CASE p \in Pres(x)
    <3>1. code'[p] = Retargeted(code[p], x, succ)
      BY <2>2, <1>4
    <3>2. /\ code'[p] \in Seq(Instruction)
          /\ DOMAIN code'[p] = DOMAIN code[p]
          /\ code'[p] = << >> <=> code[p] = << >>
          /\ \A k \in DOMAIN code[p] : code'[p][k] = Retarget(code[p][k], x, succ)
      BY <3>1, <2>1, <1>3, <1>6, RetargetedBlock
    <3>3. \A k \in DOMAIN code[p] : code[p][k] \in Instruction
      BY <2>1
    <3>4. ASSUME NEW k \in DOMAIN code[p]
          PROVE  /\ Leaves(code'[p][k]) <=> Leaves(code[p][k])
                 /\ \A t \in TargetsOf(code'[p][k]) :
                      \/ t \in TargetsOf(code[p][k]) /\ t # x
                      \/ t = succ /\ x \in TargetsOf(code[p][k])
      BY <3>2, <3>3, <1>3, <1>6, RetargetMoves
    <3> QED BY <3>2, <3>4, <2>2
  <2>3. CASE p \notin Pres(x)
    <3>1. code'[p] = code[p]
      BY <2>3, <1>4
    <3> QED BY <2>1, <2>3, <3>1
  <2> QED BY <2>2, <2>3
<1>17. code' \in Seq(Seq(Instruction))
  <2>1. Len(code) \in Nat /\ DOMAIN code = 1 .. Len(code)
    BY <1>1, Typed
  <2>2. code' \in [1 .. Len(code) -> Seq(Instruction)]
    BY <2>1, <1>4, <1>16
  <2> QED BY <2>1, <2>2, IsSequence
<1>18. TypeOK'
  <2>1. it \in 1 .. Len(blocks') + 1
    BY <1>1, <1>2, <1>9
  <2> QED BY <1>1, <1>9, <1>13, <1>17, <2>1 DEF TypeOK
<1>19. ASSUME NEW p \in Listed', Targets(p) \subseteq Succs(p)
       PROVE  Targets(p)' \subseteq Succs(p)' /\ (FallsThrough(p)' <=> FallsThrough(p))
  <2>1. p \in DOMAIN code /\ p \in Listed
    BY <1>1, <1>9, Typed
  <2>2. FallsThrough(p)' <=> FallsThrough(p)
    BY <2>1, <1>16 DEF FallsThrough
  <2>3. ASSUME NEW k \in DOMAIN code'[p], NEW t \in TargetsOf(code'[p][k])
        PROVE  t \in Succs(p)'
    <3>1. k \in DOMAIN code[p] /\ (x \in Succs(p) <=> p \in Pres(x))
      BY <2>1, <2>3, <1>1, <1>16, Linked
    <3>2. TargetsOf(code[p][k]) \subseteq Succs(p)
      BY <3>1, <1>19 DEF Targets
    <3>3. \/ t \in TargetsOf(code[p][k]) /\ (p \in Pres(x) => t # x)
          \/ t = succ /\ p \in Pres(x)
      BY <2>1, <2>3, <3>1, <1>16
    <3>4. CASE t \in Succs(p) /\ (x \in Succs(p) => t # x)
      BY <3>4, <1>14
    <3>5. CASE t = succ /\ x \in Succs(p)
      BY <3>5, <1>14
    <3> QED BY <3>1, <3>2, <3>3, <3>4, <3>5
  <2> QED BY <2>2, <2>3 DEF Targets
<1>20. EdgesCover'
  <2> SUFFICES ASSUME NEW k \in DOMAIN blocks', NEW b, b = blocks'[k]
               PROVE  /\ Targets(b)' \subseteq Succs(b)'
                      /\ FallsThrough(b)' /\ k < Len(blocks') => blocks'[k + 1] \in Succs(b)'
    BY DEF EdgesCover, Targets, Succs, FallsThrough
  <2>1. b \in Listed'
    BY DEF Listed
  <2>2. PICK o \in DOMAIN blocks :
           /\ b = blocks[o] /\ o # it
           /\ k < Len(blocks') =>
                /\ o < Len(blocks)
                /\ IF k + 1 = it THEN /\ o + 1 = it /\ it < Len(blocks)
                                      /\ blocks'[k + 1] = blocks[it + 1]
                                 ELSE blocks'[k + 1] = blocks[o + 1]
    BY <1>1, <1>2, <1>7, <1>8, OldPlace
  <2>3. Targets(b) \subseteq Succs(b)
    BY <1>1, <2>2 DEF EdgesCover
  <2>4. Targets(b)' \subseteq Succs(b)' /\ (FallsThrough(b)' <=> FallsThrough(b))
    BY <2>1, <2>3, <1>19
  <2>5. ASSUME FallsThrough(b), k < Len(blocks')
        PROVE  blocks'[k + 1] \in Succs(b)'
    <3>1. blocks[o + 1] \in Succs(b)
      BY <1>1, <2>2, <2>5 DEF EdgesCover
    <3>2. CASE k + 1 = it
      <4>1. x \in Succs(b) /\ it < Len(blocks) /\ blocks'[k + 1] = blocks[it + 1]
        BY <3>1, <3>2, <2>2, <2>5, <1>10
      <4>2. FallsThrough(x)
        BY <1>3 DEF FallsThrough
      <4>3. blocks[it + 1] \in Succs(x)
        BY <1>1, <1>2, <1>10, <4>1, <4>2 DEF EdgesCover
      <4>4. blocks[it + 1] = succ
        BY <4>3, <1>5
      <4> QED BY <4>1, <4>4, <2>1, <1>14
    <3>3. CASE k + 1 # it
      <4>1. blocks'[k + 1] = blocks[o + 1] /\ k + 1 \in DOMAIN blocks'
        BY <3>3, <2>2, <2>5, <1>2, <1>9
      <4>2. blocks'[k + 1] # x
        BY <4>1, <1>9 DEF Listed
      <4> QED BY <3>1, <4>1, <4>2, <2>1, <1>14
    <3> QED BY <3>2, <3>3
  <2> QED BY <2>4, <2>5
<1>21. EmptyGoesOn'
  <2> SUFFICES ASSUME NEW k \in DOMAIN blocks', NEW b, b = blocks'[k], code'[b] = << >>
               PROVE  /\ \A s \in Succs(b)' : b < s
                      /\ k = Len(blocks') \/ OneSuccessor(b)'
    BY DEF EmptyGoesOn, OneSuccessor, Succs
  <2>1. b \in Listed' /\ b \in Listed /\ b \in DOMAIN code /\ b \in Int
    <3>1. b \in Listed'
      BY DEF Listed
    <3> QED BY <3>1, <1>1, <1>9, Typed
  <2>2. PICK o \in DOMAIN blocks :
           b = blocks[o] /\ (k < Len(blocks') => o < Len(blocks))
    BY <1>1, <1>2, <1>7, <1>8, OldPlace
  <2>3. /\ \A s \in Succs(b) : b < s
        /\ o = Len(blocks) \/ OneSuccessor(b)
    BY <1>1, <1>16, <2>1, <2>2 DEF EmptyGoesOn
  <2>4. ASSUME NEW s \in Succs(b)' PROVE b < s
    <3>1. CASE s \in Succs(b)
      BY <3>1, <2>3
    <3>2. CASE x \in Succs(b) /\ s = succ
      BY <3>2, <2>1, <2>3, <1>3, <1>6
    <3> QED BY <3>1, <3>2, <2>1, <1>14
  <2>5. ASSUME OneSuccessor(b) PROVE OneSuccessor(b)'
    <3>1. PICK s \in Succs(b) : Succs(b) = {s}
      BY <2>5 DEF OneSuccessor
    <3>2. CASE s = x
      <4>1. Succs(b)' = {succ}
        BY <3>1, <3>2, <2>1, <1>14
      <4> QED BY <4>1 DEF OneSuccessor
    <3>3. CASE s # x
      <4>1. Succs(b)' = {s}
        BY <3>1, <3>3, <2>1, <1>14
      <4> QED BY <4>1 DEF OneSuccessor
    <3> QED BY <3>2, <3>3
  <2>6. k < Len(blocks') \/ k = Len(blocks')
    BY <1>2, <1>9
  <2> QED BY <2>2, <2>3, <2>4, <2>5, <2>6, <1>2
<1>22. Passed'
  <2> SUFFICES ASSUME NEW k \in DOMAIN blocks', NEW b, b = blocks'[k], k < it, code'[b] = << >>
               PROVE  Pres(b)' = {}
    BY <1>1 DEF Passed, Pres
  <2>1. b \in DOMAIN code
    <3>1. b \in Listed'
      BY DEF Listed
    <3> QED BY <3>1, <1>1, <1>9, Typed
  <2>2. b = blocks[k] /\ k \in DOMAIN blocks
    BY <1>1, <1>2, <1>7, <1>8, OldPlace
  <2>3. k # Len(blocks)
    BY <1>2, <1>9
  <2>4. Pres(b) = {}
    BY <1>1, <1>16, <2>1, <2>2, <2>3 DEF Passed
  <2> QED BY <2>4, <1>15
<1>23. Returned'
  BY <1>1 DEF Returned
<1> QED BY <1>18, <1>20, <1>21, <1>22, <1>23 DEF IInv

-----------------------------------------------------------------------------
(* The theorems *)

LEMMA Initially ==
  ASSUME SimplifyInit
  PROVE  IInv
<1>1. Passed
  BY Typed DEF SimplifyInit, Passed
<1> QED BY <1>1 DEF SimplifyInit, IInv, Returned

LEMMA Stepwise ==
  ASSUME IInv, [simplifyCFG]_graph
  PROVE  IInv'
<1>1. CASE UNCHANGED graph
  <2>1. Listed' = Listed
    BY <1>1 DEF graph, Listed
  <2>2. TypeOK'
    BY <1>1, <2>1 DEF graph, IInv, TypeOK
  <2>3. EdgesCover'
    BY <1>1, <2>1 DEF graph, IInv, EdgesCover, Targets, FallsThrough, Succs
  <2>4. EmptyGoesOn'
    BY <1>1, <2>1 DEF graph, IInv, EmptyGoesOn, OneSuccessor, Succs
  <2>5. Passed'
    BY <1>1, <2>1 DEF graph, IInv, Passed, Pres
  <2>6. Returned'
    BY <1>1 DEF graph, IInv, Returned
  <2> QED BY <2>2, <2>3, <2>4, <2>5, <2>6 DEF IInv
<1> QED BY <1>1, RemoveEmptyKeeps, RemoveUnreachableKeeps, KeepKeeps, AppendReturnKeeps
        DEF simplifyCFG

LEMMA Invariance == SimplifySpec => []IInv
<1>1. SimplifyInit => IInv
  BY Initially
<1>2. IInv /\ [simplifyCFG]_graph => IInv'
  BY Stepwise
<1> QED BY <1>1, <1>2, PTL DEF SimplifySpec

(* The list keeps its form: no block is in it twice, the edges join blocks *)
(* of the list, and the iterator stays in it.                              *)
THEOREM GraphTyped == SimplifySpec => []TypeOK
<1>1. IInv => TypeOK
  BY DEF IInv
<1> QED BY <1>1, Invariance, PTL

(* simplifyCFG keeps an edge for every way a block is left, however the    *)
(* blocks it removes are linked.                                           *)
THEOREM EdgesStayCovering == SimplifySpec => []EdgesCover
<1>1. IInv => EdgesCover
  BY DEF IInv
<1> QED BY <1>1, Invariance, PTL

(* simplifyCFG never meets an empty block that is its own successor, and   *)
(* leaves none with several ways to go: what it hands the predecessors of  *)
(* an empty block is one later block.                                      *)
THEOREM EmptyBlocksGoOn == SimplifySpec => []EmptyGoesOn
<1>1. IInv => EmptyGoesOn
  BY DEF IInv
<1> QED BY <1>1, Invariance, PTL

(* Nothing is left that jumps to a removed block: on every graph that      *)
(* covers its jumps, also between two turns of the loop.                   *)
THEOREM NothingDangles == SimplifySpec => []NoDangling
<1>1. IInv => NoDangling
  <2> SUFFICES ASSUME IInv, NEW b \in Listed PROVE Targets(b) \subseteq Listed
    BY DEF NoDangling
  <2>1. Targets(b) \subseteq Succs(b)
    BY Typed DEF IInv, EdgesCover
  <2> QED BY <2>1 DEF Succs
<1> QED BY <1>1, Invariance, PTL

(* After simplifyCFG every jump goes to a block with code, which           *)
(* relocation has an address for: no empty block survives but the first,   *)
(* when nothing goes to it, and the last is given a return.                *)
THEOREM TargetsGetCode == SimplifySpec => []TargetsHaveCode
<1>1. IInv => TargetsHaveCode
  <2> SUFFICES ASSUME IInv, pass = "done", NEW b \in Listed, NEW t \in Targets(b), code[t] = << >>
               PROVE  FALSE
    BY DEF TargetsHaveCode
  <2>1. TypeOK /\ EdgesCover /\ Passed /\ it > Len(blocks) /\ code[blocks[Len(blocks)]] # << >>
    BY DEF IInv, Returned
  <2>2. <<b, t>> \in edges /\ t \in Listed
    <3>1. t \in Succs(b)
      BY <2>1, Typed DEF EdgesCover
    <3> QED BY <3>1, <2>1, Linked
  <2>3. PICK k \in DOMAIN blocks : t = blocks[k]
    BY <2>1, <2>2, Typed
  <2>4. k < it /\ k # Len(blocks)
    BY <2>1, <2>3, Typed
  <2>5. Pres(t) = {}
    BY <2>1, <2>3, <2>4 DEF Passed
  <2> QED BY <2>1, <2>2, <2>5, Linked
<1> QED BY <1>1, Invariance, PTL
-----------------------------------------------------------------------------
(* buildDominateTree: the inductive invariant *)

Blocks == DOMAIN code
Slots == {Null} \cup Blocks
Frame == [block : Listed, todo : SUBSET Listed]

(* The blocks whose call of dfs is under way, and those whose is over. *)
OnStack == {calls[k].block : k \in DOMAIN calls}
Done == Reachable \ OnStack

(* Every successor of the blocks in S is in S. *)
Closed(S) == \A b \in S : Succs(b) \subseteq S

Phased ==
  /\ phase \in {"simplify", "dfs", "semi", "tree", "built"}
  /\ phase # "simplify" => pass = "done"
  /\ phase = "simplify" => dfn = << >>
  /\ phase # "dfs" => calls = << >>
  /\ phase = "semi" => i \in Nat /\ i <= Len(dfn)
  /\ phase = "tree" => i \in Nat /\ i >= 2

(* The entry has the first number, and no other. *)
Numbering ==
  /\ dfn \in Seq(Listed)
  /\ phase # "simplify" => dfn # << >> /\ dfn[1] = Entry
  /\ \A k \in 2 .. Len(dfn) : dfn[k] # Entry

(* A call goes through the successors of its block, all different.         *)
Stacked ==
  /\ calls \in Seq(Frame)
  /\ phase = "dfs" => calls # << >> /\ calls[1].block = Entry
  /\ \A j, k \in DOMAIN calls : calls[j].block = calls[k].block => j = k
  /\ \A k \in DOMAIN calls :
       /\ calls[k].block \in Reachable
       /\ calls[k].todo \subseteq Succs(calls[k].block)
       /\ Succs(calls[k].block) \ calls[k].todo \subseteq Reachable

(* Where a call is over, all successors have been visited; nothing was     *)
(* visited that cannot be reached.                                         *)
Explored ==
  /\ \A b \in Done : Succs(b) \subseteq Reachable
  /\ \A S : Entry \in S /\ Closed(S) => Reachable \subseteq S

(* The fathers of blocks whose call is over do not lead in a circle: what  *)
(* dfs overwrites is the father of one of them by a block whose call is    *)
(* under way, and the call that ends has its caller for a father.          *)
NoCircle ==
  /\ \A b \in Done \ {Entry} : father[b] \in Reachable
  /\ \A S \in SUBSET (Done \ {Entry}) : S # {} => \E b \in S : father[b] \notin S

(* Only what was reached, and not the entry, is given a dominator. *)
Mapped ==
  /\ father = [b \in Blocks |-> father[b]]
  /\ bucket = [b \in Slots |-> bucket[b]]
  /\ idom = [b \in Slots |-> idom[b]]
  /\ frontier = [b \in Blocks |-> frontier[b]]
  /\ \A b \in Slots : bucket[b] \subseteq Reachable \ {Entry}
  /\ \A b \in Slots \ (Reachable \ {Entry}) : idom[b] = Null

Collected ==
  phase = "built" =>
    \A r \in Blocks :
      frontier[r] = {b \in {c \in Listed : Cardinality(Pres(c)) >= 2} :
                       r \in UNION {runners(p, idom[b]) : p \in Pres(b)}}

DInv ==
  /\ IInv /\ EntryStaysFirst /\ Phased
  /\ Numbering /\ Stacked /\ Explored /\ NoCircle /\ Mapped /\ Collected

-----------------------------------------------------------------------------
(* The first block of the list stays the first, and no edge comes to it. *)
LEMMA EntryKept ==
  ASSUME IInv, EntryStaysFirst, simplifyCFG
  PROVE  EntryStaysFirst' /\ Entry' = Entry /\ Blocks' = Blocks
<1>1. TypeOK /\ 1 \in DOMAIN blocks /\ Entry \in Listed
  BY Typed DEF IInv, Entry
<1>2. \A p : <<p, Entry>> \notin edges
  BY <1>1, Linked DEF EntryStaysFirst
<1>3. Pres(Entry)' = {p \in Listed' : <<p, Entry'>> \in edges'}
  BY DEF Pres
<1>4. CASE RemoveEmpty
  <2>1. PICK succ \in Succs(blocks[it]) :
          edges' = {e \in edges : blocks[it] \notin {e[1], e[2]}}
                     \cup {<<p, succ>> : p \in Pres(blocks[it])}
    BY <1>4 DEF RemoveEmpty
  <2>2. it \in DOMAIN blocks /\ it # 1
    <3>1. it \in DOMAIN blocks
      BY <1>1, <1>4, Typed DEF RemoveEmpty, Simplifying, IInv, TypeOK
    <3>2. Pres(blocks[it]) # {}
      BY <1>4 DEF RemoveEmpty, Empty
    <3> QED BY <3>1, <3>2 DEF EntryStaysFirst, Entry
  <2>3. Entry' = Entry
    <3>1. blocks' = RemoveAt(blocks, it) /\ blocks \in Seq(Blocks)
      BY <1>1, <1>4 DEF RemoveEmpty, TypeOK, Blocks
    <3>2. it \in 1 .. Len(blocks) /\ 1 \in 1 .. Len(blocks) - 1 /\ 1 < it
      BY <1>1, <2>2, Typed
    <3>3. blocks'[1] = blocks[1]
      BY <3>1, <3>2, RemoveAtCloses
    <3> QED BY <3>3 DEF Entry
  <2>4. succ # Entry
    BY <1>1, <1>2, <2>1, Linked
  <2>5. Pres(Entry)' = {}
    BY <1>2, <1>3, <2>1, <2>3, <2>4
  <2>6. Blocks' = Blocks
    BY <1>4 DEF RemoveEmpty, Blocks
  <2> QED BY <2>3, <2>5, <2>6 DEF EntryStaysFirst
<1>5. CASE RemoveUnreachable
  <2>1. it \in DOMAIN blocks /\ it # 1
    BY <1>1, <1>5, Typed DEF RemoveUnreachable, Simplifying, Unreachable, IInv, TypeOK
  <2>2. Entry' = Entry
    <3>1. blocks' = RemoveAt(blocks, it) /\ blocks \in Seq(Blocks)
      BY <1>1, <1>5 DEF RemoveUnreachable, TypeOK, Blocks
    <3>2. it \in 1 .. Len(blocks) /\ 1 \in 1 .. Len(blocks) - 1 /\ 1 < it
      BY <1>1, <2>1, Typed
    <3>3. blocks'[1] = blocks[1]
      BY <3>1, <3>2, RemoveAtCloses
    <3> QED BY <3>3 DEF Entry
  <2>3. Pres(Entry)' = {}
    BY <1>2, <1>3, <1>5, <2>2 DEF RemoveUnreachable
  <2>4. Blocks' = Blocks
    BY <1>5 DEF RemoveUnreachable, Blocks
  <2> QED BY <2>2, <2>3, <2>4 DEF EntryStaysFirst
<1>6. CASE Keep
  BY <1>2, <1>3, <1>6 DEF Keep, Entry, Blocks, EntryStaysFirst
<1>7. CASE AppendReturn
  <2>1. blocks' = blocks /\ edges' = edges /\ Blocks' = Blocks
    BY <1>7 DEF AppendReturn, Blocks
  <2> QED BY <1>2, <1>3, <2>1 DEF Entry, EntryStaysFirst
<1> QED BY <1>4, <1>5, <1>6, <1>7 DEF simplifyCFG

LEMMA GraphSame ==
  ASSUME IInv, EntryStaysFirst, UNCHANGED graph
  PROVE  /\ IInv' /\ EntryStaysFirst' /\ pass' = pass
         /\ Listed' = Listed /\ Entry' = Entry /\ Blocks' = Blocks /\ Slots' = Slots
         /\ \A b : Succs(b)' = Succs(b) /\ Pres(b)' = Pres(b)
         /\ \A S : Closed(S)' <=> Closed(S)
<1>1. blocks' = blocks /\ code' = code /\ edges' = edges /\ pass' = pass
  BY DEF graph
<1>2. IInv'
  BY Stepwise
<1>3. Listed' = Listed /\ Entry' = Entry /\ Blocks' = Blocks /\ Slots' = Slots
  BY <1>1 DEF Listed, Entry, Blocks, Slots
<1>4. \A b : Succs(b)' = Succs(b) /\ Pres(b)' = Pres(b)
  BY <1>1, <1>3 DEF Succs, Pres
<1>5. EntryStaysFirst'
  BY <1>3, <1>4 DEF EntryStaysFirst
<1>6. \A S : Closed(S)' <=> Closed(S)
  BY <1>4 DEF Closed
<1> QED BY <1>1, <1>2, <1>3, <1>4, <1>5, <1>6

(* What is known in front of every step: the shape of the sequences, and   *)
(* that what is reached is in the list.                                    *)
LEMMA Shape ==
  ASSUME DInv
  PROVE  /\ Len(dfn) \in Nat /\ DOMAIN dfn = 1 .. Len(dfn)
         /\ Len(calls) \in Nat /\ DOMAIN calls = 1 .. Len(calls)
         /\ \A k \in DOMAIN dfn : dfn[k] \in Listed /\ dfn[k] \in Reachable
         /\ \A k \in DOMAIN calls : calls[k] \in Frame /\ calls[k].block \in OnStack
         /\ Entry \in Listed /\ Listed \subseteq Blocks /\ Reachable \subseteq Listed
         /\ Null \notin Listed
         /\ \A b : Succs(b) \subseteq Listed
         /\ OnStack \subseteq Reachable
<1>1. TypeOK /\ dfn \in Seq(Listed) /\ calls \in Seq(Frame)
  BY DEF DInv, IInv, Numbering, Stacked
<1>2. Listed \subseteq Blocks /\ Entry \in Listed
  <2>1. 1 \in DOMAIN blocks
    BY <1>1, Typed
  <2> QED BY <1>1, <2>1, Typed DEF Entry, Blocks
<1>3. Null \notin Listed
  BY <1>1, Typed DEF Null
<1>4. Reachable \subseteq Listed
  BY <1>1 DEF Reachable, ToSet
<1>5. OnStack \subseteq Reachable
  BY DEF DInv, Stacked, OnStack
<1>6. \A b : Succs(b) \subseteq Listed
  BY DEF Succs
<1>7. /\ Len(dfn) \in Nat /\ DOMAIN dfn = 1 .. Len(dfn)
      /\ Len(calls) \in Nat /\ DOMAIN calls = 1 .. Len(calls)
  BY <1>1
<1>8. /\ \A k \in DOMAIN dfn : dfn[k] \in Listed /\ dfn[k] \in Reachable
      /\ \A k \in DOMAIN calls : calls[k] \in Frame /\ calls[k].block \in OnStack
  BY <1>1, <1>7 DEF Reachable, ToSet, OnStack
<1> QED BY <1>2, <1>3, <1>4, <1>5, <1>6, <1>7, <1>8

LEMMA SimplifyKeeps ==
  ASSUME DInv, Simplify
  PROVE  DInv'
<1>1. /\ pass = "on" /\ phase = "simplify" /\ phase' = "simplify" /\ dfn = << >> /\ calls = << >>
      /\ UNCHANGED state
  BY DEF Simplify, simplifyCFG, RemoveEmpty, RemoveUnreachable, Keep, AppendReturn, Simplifying,
         DInv, Phased
<1>2. IInv' /\ EntryStaysFirst' /\ Entry' = Entry /\ Blocks' = Blocks
  BY Stepwise, EntryKept DEF DInv, Simplify
<1>3. dfn' = << >> /\ calls' = << >> /\ Reachable = {} /\ Reachable' = {} /\ Done' = {}
  BY <1>1 DEF state, Reachable, ToSet, Done
<1>4. Phased'
  BY <1>1, <1>3 DEF Phased
<1>5. Numbering'
  BY <1>1, <1>3 DEF Numbering
<1>6. Stacked'
  BY <1>1, <1>3 DEF Stacked
<1>7. Explored' /\ NoCircle'
  BY <1>3 DEF Explored, NoCircle
<1>8. Mapped'
  BY <1>1, <1>2, <1>3 DEF Mapped, state, DInv, Slots
<1>9. Collected'
  BY <1>1 DEF Collected
<1> QED BY <1>2, <1>4, <1>5, <1>6, <1>7, <1>8, <1>9 DEF DInv

(* dfs leaves alone what tarjan works on. *)
LEMMA MapsKept ==
  ASSUME DInv, UNCHANGED <<graph, tarjans>>, Reachable \subseteq Reachable',
         father' = [b \in Blocks |-> father'[b]], phase' # "built"
  PROVE  Mapped' /\ Collected'
<1>1. UNCHANGED <<bucket, idom, frontier>> /\ UNCHANGED graph
  BY DEF tarjans
<1>2. Slots' = Slots /\ Blocks' = Blocks /\ Entry' = Entry
  BY <1>1, GraphSame DEF DInv
<1> QED BY <1>1, <1>2 DEF DInv, Mapped, Collected

LEMMA SearchKeeps ==
  ASSUME DInv, Search
  PROVE  DInv'
<1>1. /\ phase = "simplify" /\ pass = "done" /\ phase' = "dfs" /\ calls' = <<Call(Entry)>>
      /\ dfn' = <<Entry>> /\ UNCHANGED graph /\ UNCHANGED tarjans /\ father' = father
  BY DEF Search
<1>2. /\ IInv' /\ EntryStaysFirst' /\ pass' = pass /\ Listed' = Listed /\ Entry' = Entry
      /\ \A b : Succs(b)' = Succs(b)
      /\ Frame' = Frame
  BY <1>1, GraphSame DEF DInv, Frame
<1>3. Entry \in Listed /\ \A b : Succs(b) \subseteq Listed
  BY Shape
<1>4. /\ Reachable' = {Entry} /\ OnStack' = {Entry} /\ Done' = {}
      /\ calls' \in Seq(Frame) /\ Len(calls') = 1 /\ DOMAIN calls' = {1}
      /\ calls'[1].block = Entry /\ calls'[1].todo = Succs(Entry)
      /\ dfn' \in Seq(Listed) /\ Len(dfn') = 1
  BY <1>1, <1>3 DEF Reachable, ToSet, OnStack, Done, Call, Frame
<1>5. Phased'
  BY <1>1, <1>2 DEF Phased
<1>6. Numbering'
  BY <1>1, <1>2, <1>4 DEF Numbering
<1>7. Stacked'
  BY <1>1, <1>2, <1>4 DEF Stacked
<1>8. Explored'
  BY <1>2, <1>4 DEF Explored
<1>9. NoCircle'
  BY <1>4 DEF NoCircle
<1>10. Mapped' /\ Collected'
  <2>1. Reachable = {}
    BY <1>1 DEF DInv, Phased, Reachable, ToSet
  <2> QED BY <1>1, <2>1, MapsKept DEF DInv, Mapped
<1> QED BY <1>2, <1>5, <1>6, <1>7, <1>8, <1>9, <1>10 DEF DInv

(* A call of dfs for a block that was not visited. *)
LEMMA VisitKeeps ==
  ASSUME DInv, Searching, NEW c \in Innermost.todo, Visit(c),
         UNCHANGED <<graph, tarjans, phase, i>>
  PROVE  DInv'
<1> DEFINE n == Len(calls)
           top == calls[n]
<1>1. /\ phase = "dfs" /\ n \in Nat /\ n >= 1 /\ n \in DOMAIN calls /\ DOMAIN calls = 1 .. n
      /\ top \in Frame /\ c \in top.todo /\ top.block \in OnStack
  <2>1. calls # << >> /\ phase = "dfs" /\ c \in top.todo
    BY DEF Searching, Innermost, Last
  <2>2. n # 0
    BY <2>1, EmptySeq DEF DInv, Stacked
  <2> QED BY <2>1, <2>2, Shape
<1>2. /\ IInv' /\ EntryStaysFirst' /\ pass' = pass /\ Listed' = Listed /\ Entry' = Entry
      /\ Frame' = Frame /\ Blocks' = Blocks
      /\ \A b : Succs(b)' = Succs(b)
      /\ \A S : Closed(S)' <=> Closed(S)
      /\ phase' = "dfs"
  BY <1>1, GraphSame DEF DInv, Frame
<1>3. c \notin Reachable /\ c \in Succs(top.block) /\ c \in Listed /\ c # Entry
  <2>1. c \notin Reachable
    BY DEF Visit
  <2>2. c \in Succs(top.block) /\ c \in Listed
    BY <1>1 DEF DInv, Stacked, Succs
  <2>3. Entry \in Reachable
    <3>1. 1 \in DOMAIN dfn /\ dfn[1] = Entry
      BY <1>1, Shape, EmptySeq DEF DInv, Numbering
    <3> QED BY <3>1 DEF Reachable, ToSet
  <2> QED BY <2>1, <2>2, <2>3
<1> DEFINE gone == Without(c)
<1>4. /\ gone \in Seq(Frame) /\ Len(gone) = n /\ DOMAIN gone = 1 .. n
      /\ \A k \in 1 .. n : gone[k] = IF k = n THEN [top EXCEPT !.todo = top.todo \ {c}] ELSE calls[k]
      /\ \A k \in 1 .. n : gone[k].block = calls[k].block
      /\ \A k \in 1 .. n : gone[k].todo = IF k = n THEN top.todo \ {c} ELSE calls[k].todo
  <2>1. calls \in Seq(Frame)
    BY DEF DInv, Stacked
  <2>2. [top EXCEPT !.todo = top.todo \ {c}] \in Frame
    BY <1>1 DEF Frame
  <2>3. gone = [calls EXCEPT ![n] = [top EXCEPT !.todo = top.todo \ {c}]]
    BY <1>1 DEF Without
  <2>4. /\ gone \in Seq(Frame) /\ Len(gone) = n /\ DOMAIN gone = 1 .. n
        /\ \A k \in 1 .. n : gone[k] = IF k = n THEN [top EXCEPT !.todo = top.todo \ {c}] ELSE calls[k]
    <3> HIDE DEF gone
    <3> QED BY <1>1, <2>1, <2>2, <2>3
  <2>5. \A k \in 1 .. n : calls[k] \in Frame
    BY <1>1, Shape
  <2> HIDE DEF gone
  <2> QED BY <1>1, <2>4, <2>5 DEF Frame
<1> HIDE DEF gone
<1>5. /\ calls' \in Seq(Frame) /\ Len(calls') = n + 1 /\ DOMAIN calls' = 1 .. n + 1
      /\ \A k \in 1 .. n : calls'[k] = gone[k]
      /\ calls'[n + 1] = Call(c)
      /\ Call(c).block = c /\ Call(c).todo = Succs(c)
  <2>1. calls' = Append(gone, Call(c))
    BY DEF Visit, gone
  <2>2. Call(c) \in Frame
    BY <1>3, Shape DEF Call, Frame
  <2> QED BY <1>1, <1>4, <2>1, <2>2 DEF Call
<1>6. /\ dfn' \in Seq(Listed) /\ Len(dfn') = Len(dfn) + 1
      /\ \A k \in 1 .. Len(dfn) : dfn'[k] = dfn[k]
      /\ dfn'[Len(dfn) + 1] = c
      /\ Reachable' = Reachable \cup {c}
  <2>1. dfn' = Append(dfn, c) /\ dfn \in Seq(Listed)
    BY DEF Visit, DInv, Numbering
  <2>2. /\ dfn' \in Seq(Listed) /\ Len(dfn') = Len(dfn) + 1 /\ DOMAIN dfn' = 1 .. Len(dfn) + 1
        /\ \A k \in 1 .. Len(dfn) : dfn'[k] = dfn[k]
        /\ dfn'[Len(dfn) + 1] = c
    BY <1>3, <2>1
  <2>3. Reachable' = {dfn'[k] : k \in DOMAIN dfn'} /\ Reachable = {dfn[k] : k \in 1 .. Len(dfn)}
    BY Shape DEF Reachable, ToSet
  <2> QED BY <2>2, <2>3, Shape
<1>7. OnStack' = OnStack \cup {c} /\ Done' = Done
  <2>1. OnStack' = {calls'[k].block : k \in 1 .. n + 1}
    BY <1>5 DEF OnStack
  <2>2. OnStack = {calls[k].block : k \in 1 .. n}
    BY <1>1 DEF OnStack
  <2>3. OnStack' = OnStack \cup {c}
    <3>1. ASSUME NEW x \in OnStack' PROVE x \in OnStack \cup {c}
      <4>1. PICK k \in 1 .. n + 1 : x = calls'[k].block
        BY <2>1
      <4> QED BY <1>1, <1>4, <1>5, <2>2, <4>1
    <3>2. ASSUME NEW x \in OnStack PROVE x \in OnStack'
      <4>1. PICK k \in 1 .. n : x = calls[k].block
        BY <2>2
      <4>2. k \in 1 .. n + 1 /\ x = calls'[k].block
        BY <1>1, <1>4, <1>5, <4>1
      <4> QED BY <2>1, <4>2
    <3>3. n + 1 \in 1 .. n + 1
      BY <1>1
    <3> QED BY <1>5, <2>1, <3>1, <3>2, <3>3
  <2> QED BY <1>3, <1>6, <2>3 DEF Done
<1>8. father' = father
  BY DEF Visit, Noted
<1>9. Phased'
  BY <1>1, <1>2 DEF Phased, DInv
<1>10. Numbering'
  <2>1. dfn # << >> /\ dfn[1] = Entry /\ Len(dfn) >= 1
    BY <1>1, Shape, EmptySeq DEF DInv, Numbering
  <2>2. \A k \in 2 .. Len(dfn) : dfn[k] # Entry
    BY DEF DInv, Numbering
  <2> QED BY <1>2, <1>3, <1>6, <2>1, <2>2, Shape DEF Numbering
<1>11. Stacked'
  <2>1. calls' # << >> /\ calls'[1].block = Entry
    BY <1>1, <1>4, <1>5 DEF DInv, Stacked
  <2>2. ASSUME NEW j \in DOMAIN calls', NEW k \in DOMAIN calls', calls'[j].block = calls'[k].block
        PROVE  j = k
    <3>1. \A l \in 1 .. n : calls'[l].block = calls[l].block /\ calls[l].block # c
      BY <1>1, <1>3, <1>4, <1>5 DEF DInv, Stacked
    <3>2. \A l, m \in 1 .. n : calls[l].block = calls[m].block => l = m
      BY <1>1 DEF DInv, Stacked
    <3> QED BY <1>1, <1>5, <2>2, <3>1, <3>2
  <2>3. ASSUME NEW k \in DOMAIN calls'
        PROVE  /\ calls'[k].block \in Reachable'
               /\ calls'[k].todo \subseteq Succs(calls'[k].block)
               /\ Succs(calls'[k].block) \ calls'[k].todo \subseteq Reachable'
    <3>1. CASE k = n + 1
      BY <1>5, <1>6, <3>1
    <3>2. CASE k \in 1 .. n
      <4>1. /\ calls[k].block \in Reachable
            /\ calls[k].todo \subseteq Succs(calls[k].block)
            /\ Succs(calls[k].block) \ calls[k].todo \subseteq Reachable
        BY <1>1, <3>2 DEF DInv, Stacked
      <4>2. calls'[k].block = calls[k].block /\ calls'[k].todo = IF k = n THEN top.todo \ {c} ELSE calls[k].todo
        BY <1>4, <1>5, <3>2
      <4> QED BY <1>6, <4>1, <4>2
    <3> QED BY <1>1, <1>5, <3>1, <3>2
  <2> HIDE DEF n
  <2> QED BY <1>2, <1>5, <2>1, <2>2, <2>3 DEF Stacked
<1>12. Explored'
  <2>1. \A b \in Done' : Succs(b) \subseteq Reachable'
    BY <1>6, <1>7 DEF DInv, Explored
  <2>2. ASSUME NEW S, Entry \in S, Closed(S)
        PROVE  Reachable' \subseteq S
    <3>1. Reachable \subseteq S
      BY <2>2 DEF DInv, Explored
    <3>2. top.block \in S
      BY <1>1, <3>1 DEF DInv, Stacked
    <3>3. c \in S
      BY <1>3, <2>2, <3>2 DEF Closed
    <3> QED BY <1>6, <3>1, <3>3
  <2> QED BY <1>2, <2>1, <2>2 DEF Explored
<1>13. NoCircle'
  BY <1>2, <1>6, <1>7, <1>8 DEF NoCircle, DInv
<1>14. Mapped' /\ Collected'
  BY <1>2, <1>6, <1>8, MapsKept DEF DInv, Mapped
<1> QED BY <1>2, <1>9, <1>10, <1>11, <1>12, <1>13, <1>14 DEF DInv

(* A call of dfs for a block that was visited before gives it another      *)
(* father, which is under way.                                             *)
LEMMA VisitAgainKeeps ==
  ASSUME DInv, Searching, NEW c \in Innermost.todo, VisitAgain(c),
         UNCHANGED <<graph, tarjans, phase, i>>
  PROVE  DInv'
<1> DEFINE n == Len(calls)
           top == calls[n]
<1>1. /\ phase = "dfs" /\ n \in Nat /\ n >= 1 /\ n \in DOMAIN calls /\ DOMAIN calls = 1 .. n
      /\ top \in Frame /\ c \in top.todo /\ top.block \in OnStack
  <2>1. calls # << >> /\ phase = "dfs" /\ c \in top.todo
    BY DEF Searching, Innermost, Last
  <2>2. n # 0
    BY <2>1, EmptySeq DEF DInv, Stacked
  <2> QED BY <2>1, <2>2, Shape
<1>2. /\ IInv' /\ EntryStaysFirst' /\ pass' = pass /\ Listed' = Listed /\ Entry' = Entry
      /\ Frame' = Frame /\ Blocks' = Blocks
      /\ \A b : Succs(b)' = Succs(b)
      /\ \A S : Closed(S)' <=> Closed(S)
      /\ phase' = "dfs"
  BY <1>1, GraphSame DEF DInv, Frame
<1>3. c \in Reachable /\ dfn' = dfn /\ Reachable' = Reachable
  BY DEF VisitAgain, Reachable
<1>4. /\ calls' \in Seq(Frame) /\ Len(calls') = n /\ DOMAIN calls' = 1 .. n
      /\ \A k \in 1 .. n : calls'[k].block = calls[k].block
      /\ \A k \in 1 .. n : calls'[k].todo = IF k = n THEN top.todo \ {c} ELSE calls[k].todo
  <2>1. calls \in Seq(Frame)
    BY DEF DInv, Stacked
  <2>2. [top EXCEPT !.todo = top.todo \ {c}] \in Frame
    BY <1>1 DEF Frame
  <2>3. calls' = [calls EXCEPT ![n] = [top EXCEPT !.todo = top.todo \ {c}]]
    BY <1>1 DEF Without, VisitAgain
  <2>4. /\ calls' \in Seq(Frame) /\ Len(calls') = n /\ DOMAIN calls' = 1 .. n
        /\ \A k \in 1 .. n : calls'[k] = IF k = n THEN [top EXCEPT !.todo = top.todo \ {c}] ELSE calls[k]
    BY <1>1, <2>1, <2>2, <2>3
  <2>5. \A k \in 1 .. n : calls[k] \in Frame
    BY <1>1, Shape
  <2> QED BY <1>1, <2>4, <2>5 DEF Frame
<1>5. OnStack' = OnStack /\ Done' = Done
  <2>1. OnStack' = {calls[k].block : k \in 1 .. n}
    BY <1>4 DEF OnStack
  <2> QED BY <1>1, <1>3, <2>1 DEF OnStack, Done
<1>6. father' = [father EXCEPT ![c] = top.block] /\ father = [b \in Blocks |-> father[b]]
  BY DEF VisitAgain, Innermost, Last, DInv, Mapped
<1>7. Phased'
  BY <1>1, <1>2 DEF Phased, DInv
<1>8. Numbering'
  BY <1>1, <1>2, <1>3 DEF Numbering, DInv
<1>9. Stacked'
  <2>1. calls' # << >> /\ calls'[1].block = Entry
    BY <1>1, <1>4 DEF DInv, Stacked
  <2>2. ASSUME NEW j \in DOMAIN calls', NEW k \in DOMAIN calls', calls'[j].block = calls'[k].block
        PROVE  j = k
    BY <1>1, <1>4, <2>2 DEF DInv, Stacked
  <2>3. ASSUME NEW k \in DOMAIN calls'
        PROVE  /\ calls'[k].block \in Reachable'
               /\ calls'[k].todo \subseteq Succs(calls'[k].block)
               /\ Succs(calls'[k].block) \ calls'[k].todo \subseteq Reachable'
    <3>1. /\ calls[k].block \in Reachable
          /\ calls[k].todo \subseteq Succs(calls[k].block)
          /\ Succs(calls[k].block) \ calls[k].todo \subseteq Reachable
      BY <1>1, <1>4 DEF DInv, Stacked
    <3> QED BY <1>3, <1>4, <3>1
  <2> HIDE DEF n
  <2> QED BY <1>2, <1>4, <2>1, <2>2, <2>3 DEF Stacked
<1>10. Explored'
  BY <1>2, <1>3, <1>5 DEF DInv, Explored
<1>11. NoCircle'
  <2>1. top.block \in Reachable /\ top.block \notin Done
    BY <1>1, Shape DEF Done
  <2>2. \A b \in Blocks : father'[b] = IF b = c THEN top.block ELSE father[b]
    BY <1>6
  <2>3. Done \subseteq Blocks
    BY Shape DEF Done
  <2>4. \A b \in Done \ {Entry} : father'[b] \in Reachable
    BY <2>1, <2>2, <2>3 DEF DInv, NoCircle
  <2>5. ASSUME NEW S \in SUBSET (Done \ {Entry}), S # {}
        PROVE  \E b \in S : father'[b] \notin S
    <3>1. CASE c \in S
      BY <2>1, <2>2, <2>3, <3>1
    <3>2. CASE c \notin S
      <4>1. PICK b \in S : father[b] \notin S
        BY <2>5 DEF DInv, NoCircle
      <4> QED BY <2>2, <2>3, <3>2, <4>1
    <3> QED BY <3>1, <3>2
  <2> QED BY <1>2, <1>3, <1>5, <2>4, <2>5 DEF NoCircle
<1>12. Mapped' /\ Collected'
  BY <1>2, <1>3, <1>6, MapsKept
<1> QED BY <1>2, <1>7, <1>8, <1>9, <1>10, <1>11, <1>12 DEF DInv

(* A call that is over hands its block to its caller as a child. *)
LEMMA ComeBackKeeps ==
  ASSUME DInv, Searching, ComeBack, UNCHANGED <<graph, tarjans, phase, i>>
  PROVE  DInv'
<1> DEFINE n == Len(calls)
           b == calls[n].block
           caller == calls[n - 1].block
<1>1. /\ phase = "dfs" /\ n \in Nat /\ n >= 2 /\ DOMAIN calls = 1 .. n
      /\ n \in DOMAIN calls /\ n - 1 \in DOMAIN calls
      /\ calls[n].todo = {}
  BY Shape DEF Searching, ComeBack, Innermost, Last
<1>2. /\ IInv' /\ EntryStaysFirst' /\ pass' = pass /\ Listed' = Listed /\ Entry' = Entry
      /\ Frame' = Frame /\ Blocks' = Blocks
      /\ \A x : Succs(x)' = Succs(x)
      /\ \A S : Closed(S)' <=> Closed(S)
      /\ phase' = "dfs"
  BY <1>1, GraphSame DEF DInv, Frame
<1>3. dfn' = dfn /\ Reachable' = Reachable
  BY DEF ComeBack, Reachable
<1>4. /\ calls' \in Seq(Frame) /\ Len(calls') = n - 1 /\ DOMAIN calls' = 1 .. n - 1
      /\ \A k \in 1 .. n - 1 : calls'[k] = calls[k]
  <2>1. calls \in Seq(Frame) /\ calls' = SubSeq(calls, 1, n - 1)
    BY DEF DInv, Stacked, ComeBack, Front
  <2> QED BY <1>1, <2>1
<1>5. OnStack' = OnStack \ {b} /\ Done' = Done \cup {b} /\ b \in Reachable /\ b \notin Done
      /\ caller \in OnStack' /\ caller # b /\ Entry \in OnStack' /\ b # Entry
      /\ caller \in Reachable
  <2>1. OnStack' = {calls[k].block : k \in 1 .. n - 1}
    BY <1>4 DEF OnStack
  <2>2. OnStack = {calls[k].block : k \in 1 .. n}
    BY <1>1 DEF OnStack
  <2>3. \A j, k \in 1 .. n : calls[j].block = calls[k].block => j = k
    BY <1>1 DEF DInv, Stacked
  <2>4. /\ \A k \in 1 .. n - 1 : k \in 1 .. n /\ k # n
        /\ \A k \in 1 .. n : k \in 1 .. n - 1 \/ k = n
    <3>1. n \in Nat
      BY <1>1
    <3> HIDE DEF n
    <3> QED BY <3>1
  <2>5. OnStack' = OnStack \ {b}
    <3>1. \A k \in 1 .. n - 1 : calls[k].block # b
      BY <1>1, <2>3, <2>4
    <3> HIDE DEF n
    <3> QED BY <2>1, <2>2, <2>4, <3>1
  <2>6. b \in OnStack /\ b \in Reachable
    BY <1>1, <2>2, Shape
  <2>7. caller \in OnStack' /\ 1 \in 1 .. n - 1 /\ calls[1].block = Entry
    BY <1>1, <2>1 DEF DInv, Stacked
  <2>8. Entry \in OnStack'
    BY <2>1, <2>7
  <2> HIDE DEF b, n, caller
  <2> QED BY <1>3, <2>5, <2>6, <2>7, <2>8, Shape DEF Done
<1>6. father' = [father EXCEPT ![b] = caller] /\ father = [x \in Blocks |-> father[x]]
  BY DEF ComeBack, Innermost, Last, Noted, DInv, Mapped
<1> HIDE DEF b, caller
<1>7. Phased'
  BY <1>1, <1>2 DEF Phased, DInv
<1>8. Numbering'
  BY <1>1, <1>2, <1>3 DEF Numbering, DInv
<1>9. Stacked'
  <2>1. calls' # << >> /\ calls'[1].block = Entry
    BY <1>1, <1>4 DEF DInv, Stacked
  <2>2. ASSUME NEW j \in DOMAIN calls', NEW k \in DOMAIN calls', calls'[j].block = calls'[k].block
        PROVE  j = k
    BY <1>1, <1>4, <2>2 DEF DInv, Stacked
  <2>3. ASSUME NEW k \in DOMAIN calls'
        PROVE  /\ calls'[k].block \in Reachable'
               /\ calls'[k].todo \subseteq Succs(calls'[k].block)
               /\ Succs(calls'[k].block) \ calls'[k].todo \subseteq Reachable'
    BY <1>1, <1>3, <1>4 DEF DInv, Stacked
  <2> HIDE DEF n
  <2> QED BY <1>2, <1>4, <2>1, <2>2, <2>3 DEF Stacked
<1>10. Explored'
  <2>1. Succs(b) \subseteq Reachable
    BY <1>1 DEF DInv, Stacked, b
  <2> QED BY <1>2, <1>3, <1>5, <2>1 DEF DInv, Explored
<1>11. NoCircle'
  <2>1. \A x \in Blocks : father'[x] = IF x = b THEN caller ELSE father[x]
    BY <1>6
  <2>2. Done \cup {b} \subseteq Blocks
    BY <1>5, Shape DEF Done
  <2>3. caller \notin Done'
    BY <1>5 DEF Done
  <2>4. \A x \in Done' \ {Entry} : father'[x] \in Reachable
    BY <1>5, <2>1, <2>2 DEF DInv, NoCircle
  <2>5. ASSUME NEW S \in SUBSET (Done' \ {Entry}), S # {}
        PROVE  \E x \in S : father'[x] \notin S
    <3>1. CASE b \in S
      BY <2>1, <2>2, <2>3, <1>5, <3>1
    <3>2. CASE b \notin S
      <4>1. PICK x \in S : father[x] \notin S
        BY <1>5, <2>5, <3>2 DEF DInv, NoCircle
      <4> QED BY <1>5, <2>1, <2>2, <3>2, <4>1
    <3> QED BY <3>1, <3>2
  <2> QED BY <1>2, <1>3, <2>4, <2>5 DEF NoCircle
<1>12. Mapped' /\ Collected'
  <2>1. father' = [x \in Blocks |-> father'[x]]
    BY <1>6
  <2> QED BY <1>2, <1>3, <2>1, MapsKept
<1> QED BY <1>2, <1>7, <1>8, <1>9, <1>10, <1>11, <1>12 DEF DInv

LEMMA DfsKeeps ==
  ASSUME DInv, dfs
  PROVE  DInv'
BY VisitKeeps, VisitAgainKeeps, ComeBackKeeps DEF dfs

(* The call for the entry is over: nothing is under way. *)
LEMMA NumberKeeps ==
  ASSUME DInv, Number
  PROVE  DInv'
<1>1. /\ phase = "dfs" /\ Len(calls) = 1 /\ DOMAIN calls = {1} /\ calls[1].todo = {}
      /\ calls[1].block = Entry /\ phase' = "semi" /\ i' = Len(dfn) /\ calls' = << >>
      /\ UNCHANGED graph /\ UNCHANGED tarjans /\ dfn' = dfn /\ father' = father
  BY Shape DEF Searching, Number, Innermost, Last, DInv, Stacked
<1>2. /\ IInv' /\ EntryStaysFirst' /\ pass' = pass /\ Listed' = Listed /\ Entry' = Entry
      /\ Frame' = Frame /\ Blocks' = Blocks
      /\ \A x : Succs(x)' = Succs(x)
      /\ \A S : Closed(S)' <=> Closed(S)
  BY <1>1, GraphSame DEF DInv, Frame
<1>3. /\ Reachable' = Reachable /\ OnStack = {Entry} /\ OnStack' = {}
      /\ Done' = Reachable /\ Done = Reachable \ {Entry}
  BY <1>1 DEF Reachable, OnStack, Done
<1>4. Phased'
  BY <1>1, <1>2, Shape DEF Phased, DInv
<1>5. Numbering'
  BY <1>1, <1>2 DEF Numbering, DInv
<1>6. Stacked'
  BY <1>1 DEF Stacked
<1>7. Explored'
  <2>1. Succs(Entry) \subseteq Reachable
    BY <1>1 DEF DInv, Stacked
  <2> QED BY <1>2, <1>3, <2>1 DEF DInv, Explored
<1>8. NoCircle'
  BY <1>1, <1>2, <1>3 DEF DInv, NoCircle
<1>9. Mapped' /\ Collected'
  BY <1>1, <1>2, <1>3, MapsKept DEF DInv, Mapped
<1> QED BY <1>2, <1>4, <1>5, <1>6, <1>7, <1>8, <1>9 DEF DInv

(* Behind dfs the graph, the numbers and the fathers stay. *)
LEMMA SearchIsOver ==
  ASSUME DInv, phase \in {"semi", "tree"}, phase' \in {"semi", "tree", "built"},
         UNCHANGED <<graph, calls, dfn, father>>
  PROVE  /\ IInv' /\ EntryStaysFirst' /\ Numbering' /\ Stacked' /\ Explored' /\ NoCircle'
         /\ pass' = pass /\ Reachable' = Reachable /\ Entry' = Entry /\ Blocks' = Blocks
         /\ Slots' = Slots
<1>1. /\ IInv' /\ EntryStaysFirst' /\ pass' = pass /\ Listed' = Listed /\ Entry' = Entry
      /\ Frame' = Frame /\ Blocks' = Blocks /\ Slots' = Slots
      /\ \A x : Succs(x)' = Succs(x)
      /\ \A S : Closed(S)' <=> Closed(S)
  BY GraphSame DEF DInv, Frame
<1>2. Reachable' = Reachable /\ OnStack' = OnStack /\ Done' = Done
  BY DEF Reachable, OnStack, Done
<1>3. Numbering'
  BY <1>1 DEF Numbering, DInv
<1>4. Stacked'
  BY <1>1, <1>2 DEF Stacked, DInv
<1>5. Explored'
  BY <1>1, <1>2 DEF DInv, Explored
<1>6. NoCircle'
  BY <1>1, <1>2 DEF DInv, NoCircle
<1> QED BY <1>1, <1>2, <1>3, <1>4, <1>5, <1>6

LEMMA TarjanKeeps ==
  ASSUME DInv, Tarjan
  PROVE  DInv'
<1> DEFINE c == dfn[i]
           t == father[c]
           sd == [sdom EXCEPT ![c] = Semi(c)]
           filled == [bucket EXCEPT ![Semi(c)] = @ \cup {c}]
           linked == [ds EXCEPT !.up[c] = t]
           d == FoldSet(LAMBDA b, acc : find(acc, sd, b), linked, filled[t])
           given(b) == IF Dfn(sd[d.val[b]]) < Dfn(t) THEN d.val[b] ELSE t
<1>1. /\ phase = "semi" /\ phase' = "semi" /\ i > 1 /\ i' = i - 1 /\ i \in Nat /\ i <= Len(dfn)
      /\ UNCHANGED <<graph, calls, dfn, father>> /\ frontier' = frontier
  BY DEF Tarjan, DInv, Phased
<1>2. /\ bucket' = [filled EXCEPT ![t] = {}]
      /\ idom' = [b \in DOMAIN idom |-> IF b \notin filled[t] THEN idom[b] ELSE given(b)]
  BY DEF Tarjan
<1> HIDE DEF given, d
<1>3. /\ IInv' /\ EntryStaysFirst' /\ Numbering' /\ Stacked' /\ Explored' /\ NoCircle'
      /\ pass' = pass /\ Reachable' = Reachable /\ Entry' = Entry /\ Blocks' = Blocks
      /\ Slots' = Slots
  BY <1>1, SearchIsOver
<1>4. c \in Reachable \ {Entry} /\ t \in Reachable /\ t \in Slots
  <2>1. i \in 2 .. Len(dfn) /\ i \in DOMAIN dfn
    BY <1>1, Shape
  <2>2. c \in Reachable \ {Entry}
    BY <2>1, Shape DEF DInv, Numbering
  <2>3. Done = Reachable
    BY <1>1 DEF DInv, Phased, Done, OnStack
  <2>4. t \in Reachable
    BY <2>2, <2>3 DEF DInv, NoCircle
  <2> QED BY <2>2, <2>4, Shape DEF Slots
<1> HIDE DEF c, t
<1>5. /\ bucket = [b \in Slots |-> bucket[b]] /\ idom = [b \in Slots |-> idom[b]]
      /\ \A b \in Slots : bucket[b] \subseteq Reachable \ {Entry}
      /\ \A b \in Slots \ (Reachable \ {Entry}) : idom[b] = Null
  BY DEF DInv, Mapped
<1>6. /\ filled = [b \in Slots |-> filled[b]]
      /\ \A b \in Slots : filled[b] \subseteq Reachable \ {Entry}
  <2>1. \A b \in Slots : filled[b] = IF b = Semi(c) THEN bucket[b] \cup {c} ELSE bucket[b]
    BY <1>5
  <2>2. filled = [b \in Slots |-> filled[b]]
    BY <1>5
  <2> HIDE DEF filled
  <2> QED BY <1>4, <1>5, <2>1, <2>2
<1> HIDE DEF filled
<1>7. Phased'
  BY <1>1, <1>3 DEF Phased, DInv
<1>8. Mapped'
  <2>1. bucket' = [b \in Slots |-> bucket'[b]] /\ \A b \in Slots : bucket'[b] \subseteq Reachable \ {Entry}
    BY <1>2, <1>6
  <2>2. idom' = [b \in Slots |-> idom'[b]] /\ \A b \in Slots \ (Reachable \ {Entry}) : idom'[b] = Null
    <3>1. DOMAIN idom = Slots
      BY <1>5
    <3>2. \A b \in Slots \ (Reachable \ {Entry}) : b \notin filled[t]
      BY <1>4, <1>6
    <3> QED BY <1>2, <1>5, <3>1, <3>2
  <2> QED BY <1>1, <1>3, <2>1, <2>2 DEF DInv, Mapped
<1>9. Collected'
  BY <1>1 DEF Collected
<1> QED BY <1>3, <1>7, <1>8, <1>9 DEF DInv

LEMMA StartTreeKeeps ==
  ASSUME DInv, StartTree
  PROVE  DInv'
<1>1. /\ phase = "semi" /\ phase' = "tree" /\ i' = 2
      /\ UNCHANGED <<graph, calls, dfn, father>> /\ UNCHANGED <<bucket, idom, frontier>>
  BY DEF StartTree, tarjans
<1>2. /\ IInv' /\ EntryStaysFirst' /\ Numbering' /\ Stacked' /\ Explored' /\ NoCircle'
      /\ pass' = pass /\ Reachable' = Reachable /\ Entry' = Entry /\ Blocks' = Blocks
      /\ Slots' = Slots
  BY <1>1, SearchIsOver
<1>3. Phased'
  BY <1>1, <1>2 DEF Phased, DInv
<1>4. Mapped'
  BY <1>1, <1>2 DEF DInv, Mapped
<1>5. Collected'
  BY <1>1 DEF Collected
<1> QED BY <1>2, <1>3, <1>4, <1>5 DEF DInv

LEMMA TreeKeeps ==
  ASSUME DInv, Tree
  PROVE  DInv'
<1> DEFINE c == dfn[i]
<1>1. /\ phase = "tree" /\ phase' = "tree" /\ i' = i + 1 /\ i <= Len(dfn) /\ i \in Nat /\ i >= 2
      /\ UNCHANGED <<graph, calls, dfn, father>> /\ frontier' = frontier
      /\ idom' = Closer(c) /\ bucket' = [bucket EXCEPT ![idom'[c]] = @ \cup {c}]
  BY DEF Tree, DInv, Phased
<1>2. /\ IInv' /\ EntryStaysFirst' /\ Numbering' /\ Stacked' /\ Explored' /\ NoCircle'
      /\ pass' = pass /\ Reachable' = Reachable /\ Entry' = Entry /\ Blocks' = Blocks
      /\ Slots' = Slots
  BY <1>1, SearchIsOver
<1>3. c \in Reachable \ {Entry}
  <2>1. i \in 2 .. Len(dfn) /\ i \in DOMAIN dfn
    BY <1>1, Shape
  <2> QED BY <2>1, Shape DEF DInv, Numbering
<1> HIDE DEF c
<1>4. /\ bucket = [b \in Slots |-> bucket[b]] /\ idom = [b \in Slots |-> idom[b]]
      /\ \A b \in Slots : bucket[b] \subseteq Reachable \ {Entry}
      /\ \A b \in Slots \ (Reachable \ {Entry}) : idom[b] = Null
  BY DEF DInv, Mapped
<1>5. bucket' = [b \in Slots |-> bucket'[b]] /\ \A b \in Slots : bucket'[b] \subseteq Reachable \ {Entry}
  BY <1>1, <1>3, <1>4
<1>6. idom' = [b \in Slots |-> idom'[b]] /\ \A b \in Slots \ (Reachable \ {Entry}) : idom'[b] = Null
  BY <1>1, <1>3, <1>4 DEF Closer
<1>7. Phased'
  BY <1>1, <1>2 DEF Phased, DInv
<1>8. Mapped'
  BY <1>1, <1>2, <1>5, <1>6 DEF DInv, Mapped
<1>9. Collected'
  BY <1>1 DEF Collected
<1> QED BY <1>2, <1>7, <1>8, <1>9 DEF DInv

LEMMA CalcDominanceFrontierKeeps ==
  ASSUME DInv, calcDominanceFrontier
  PROVE  DInv'
<1> DEFINE joins == {b \in Listed : Cardinality(Pres(b)) >= 2}
           runs(b) == UNION {runners(p, idom[b]) : p \in Pres(b)}
<1>1. /\ phase = "tree" /\ phase' = "built" /\ idom' = idom
      /\ UNCHANGED <<graph, calls, dfn, father>> /\ UNCHANGED <<bucket, idom>>
      /\ frontier' = [r \in DOMAIN frontier |-> {b \in joins : r \in runs(b)}]
  BY DEF calcDominanceFrontier
<1>2. /\ IInv' /\ EntryStaysFirst' /\ Numbering' /\ Stacked' /\ Explored' /\ NoCircle'
      /\ pass' = pass /\ Reachable' = Reachable /\ Entry' = Entry /\ Blocks' = Blocks
      /\ Slots' = Slots
  BY <1>1, SearchIsOver
<1>3. \A p, b : runners(p, b)' = runners(p, b)
  BY <1>1 DEF runners, runner
<1>4. Listed' = Listed /\ \A b : Pres(b)' = Pres(b)
  BY <1>1, GraphSame DEF DInv
<1>5. DOMAIN frontier = Blocks
  BY DEF DInv, Mapped
<1>6. Phased'
  BY <1>1, <1>2 DEF Phased, DInv
<1>7. Mapped'
  BY <1>1, <1>2, <1>5 DEF DInv, Mapped
<1>8. Collected'
  <2>1. \A b : (UNION {runners(p, idom[b]) : p \in Pres(b)})' = runs(b)
    BY <1>1, <1>3, <1>4
  <2>2. {c \in Listed : Cardinality(Pres(c)) >= 2}' = joins
    BY <1>4
  <2> HIDE DEF joins, runs
  <2> QED BY <1>1, <1>2, <1>5, <2>1, <2>2 DEF Collected
<1> QED BY <1>2, <1>6, <1>7, <1>8 DEF DInv

LEMMA BuildKeeps ==
  ASSUME DInv, [buildDominateTree]_<<graph, state, phase>>
  PROVE  DInv'
<1>1. CASE UNCHANGED <<graph, state, phase>>
  <2>1. /\ UNCHANGED graph /\ UNCHANGED <<calls, dfn, father, sdom, ds, bucket, idom, frontier, i>>
        /\ phase' = phase
    BY <1>1 DEF state
  <2>2. /\ IInv' /\ EntryStaysFirst' /\ pass' = pass /\ Listed' = Listed /\ Entry' = Entry
        /\ Frame' = Frame /\ Blocks' = Blocks /\ Slots' = Slots
        /\ \A x : Succs(x)' = Succs(x) /\ Pres(x)' = Pres(x)
        /\ \A S : Closed(S)' <=> Closed(S)
    BY <2>1, GraphSame DEF DInv, Frame
  <2>3. Reachable' = Reachable /\ OnStack' = OnStack /\ Done' = Done
    BY <2>1 DEF Reachable, OnStack, Done
  <2>4. Phased'
    BY <2>1, <2>2 DEF Phased, DInv
  <2>5. Numbering'
    BY <2>1, <2>2 DEF Numbering, DInv
  <2>6. Stacked'
    BY <2>1, <2>2, <2>3 DEF Stacked, DInv
  <2>7. Explored'
    BY <2>2, <2>3 DEF DInv, Explored
  <2>8. NoCircle'
    BY <2>1, <2>2, <2>3 DEF DInv, NoCircle
  <2>9. Mapped'
    BY <2>1, <2>2, <2>3 DEF DInv, Mapped
  <2>10. Collected'
    <3>1. \A p, b : runners(p, b)' = runners(p, b)
      BY <2>1 DEF runners, runner
    <3>2. \A b : (UNION {runners(p, idom[b]) : p \in Pres(b)})' = UNION {runners(p, idom[b]) : p \in Pres(b)}
      BY <2>1, <2>2, <3>1
    <3>3. \A r : ({b \in {c \in Listed : Cardinality(Pres(c)) >= 2} :
                     r \in UNION {runners(p, idom[b]) : p \in Pres(b)}})'
                 = {b \in {c \in Listed : Cardinality(Pres(c)) >= 2} :
                     r \in UNION {runners(p, idom[b]) : p \in Pres(b)}}
      BY <2>2, <3>2
    <3> QED BY <2>1, <2>2, <3>3 DEF DInv, Collected
  <2> QED BY <2>2, <2>4, <2>5, <2>6, <2>7, <2>8, <2>9, <2>10 DEF DInv
<1> QED BY <1>1, SimplifyKeeps, SearchKeeps, DfsKeeps, NumberKeeps, TarjanKeeps, StartTreeKeeps,
           TreeKeeps, CalcDominanceFrontierKeeps DEF buildDominateTree

LEMMA BuildInitially ==
  ASSUME SimplifyInit, EntryStaysFirst, DominatorsInit
  PROVE  DInv
<1>1. /\ phase = "simplify" /\ dfn = << >> /\ calls = << >>
      /\ Reachable = {} /\ Done = {}
  BY DEF DominatorsInit, Reachable, ToSet, Done
<1>2. Phased /\ Numbering /\ Stacked /\ Explored /\ NoCircle /\ Collected
  BY <1>1 DEF Phased, Numbering, Stacked, Explored, NoCircle, Collected
<1>3. Mapped
  BY <1>1 DEF DominatorsInit, Mapped, Blocks, Slots
<1> QED BY <1>2, <1>3, Initially DEF DInv

LEMMA BuildInvariance == DominatorsSpec => []DInv
<1>1. SimplifyInit /\ EntryStaysFirst /\ DominatorsInit => DInv
  BY BuildInitially
<1>2. DInv /\ [buildDominateTree]_<<graph, state, phase>> => DInv'
  BY BuildKeeps
<1> QED BY <1>1, <1>2, PTL DEF DominatorsSpec

(* simplifyCFG leaves the entry first and without predecessors, whatever   *)
(* blocks it removes: no jump is sent to it.                               *)
THEOREM EntryIsLeftFirst == DominatorsSpec => []EntryStaysFirst
<1>1. DInv => EntryStaysFirst
  BY DEF DInv
<1> QED BY <1>1, BuildInvariance, PTL

-----------------------------------------------------------------------------
(* Chains *)

(* What is defined by a first value and a step has these values. *)
Iteration(X, b, D, N) ==
  {f \in [0 .. N -> X] : f[0] = b /\ \A n \in 1 .. N : n - 1 \in 0 .. N /\ f[n] = D[f[n - 1]]}

LEMMA Iterates ==
  ASSUME NEW X, NEW b \in X, NEW D \in [X -> X], NEW N \in Nat
  PROVE  \E f : f \in Iteration(X, b, D, N)
<1> DEFINE E == [n \in Nat |-> D]
<1>1. E \in [Nat -> [X -> X]]
  OBVIOUS
<1>2. \A n \in 1 .. N : E[n] = D /\ n - 1 \in 0 .. N
  OBVIOUS
<1> HIDE DEF E
<1>3. PICK f : f \in Recursive(X, b, E, N)
  BY <1>1, RecursiveExists
<1> QED BY <1>2, <1>3 DEF Recursive, Iteration

(* A chain of sets that only grow. *)
Chain(f, R, N) ==
  /\ \A n \in 0 .. N : f[n] \subseteq R
  /\ \A n \in 1 .. N : f[n - 1] \subseteq f[n]

LEMMA ChainGrows ==
  ASSUME NEW R, NEW N \in Nat, NEW f, Chain(f, R, N), NEW m \in 0 .. N
  PROVE  f[m] \subseteq f[N]
<1> DEFINE S == {d \in Nat : m + d <= N => f[m] \subseteq f[m + d]}
<1>1. 0 \in S
  OBVIOUS
<1>2. ASSUME NEW d \in Nat, d \in S
      PROVE  d + 1 \in S
  <2> SUFFICES ASSUME m + (d + 1) <= N PROVE f[m] \subseteq f[m + (d + 1)]
    OBVIOUS
  <2>1. m + (d + 1) \in 1 .. N /\ (m + (d + 1)) - 1 = m + d /\ m + d <= N
    OBVIOUS
  <2>2. f[m + d] \subseteq f[m + (d + 1)]
    BY <2>1 DEF Chain
  <2> QED BY <1>2, <2>1, <2>2
<1>3. N - m \in S
  <2> HIDE DEF S
  <2>1. Nat \subseteq S
    BY <1>1, <1>2, Induction
  <2> QED BY <2>1
<1>4. m + (N - m) = N
  OBVIOUS
<1> QED BY <1>3, <1>4

(* It stops to grow after as many steps as there are elements.             *)
LEMMA ChainStops ==
  ASSUME NEW R, NEW N \in Nat, IsFiniteSet(R), Cardinality(R) <= N, NEW f, Chain(f, R, N),
         f[0] # {}
  PROVE  \E n \in 1 .. N : f[n] = f[n - 1]
<1> SUFFICES ASSUME \A n \in 1 .. N : f[n] # f[n - 1] PROVE FALSE
  OBVIOUS
<1>1. ASSUME NEW n \in 0 .. N
      PROVE  IsFiniteSet(f[n]) /\ Cardinality(f[n]) \in Nat /\ Cardinality(f[n]) <= Cardinality(R)
  <2>1. f[n] \subseteq R
    BY DEF Chain
  <2> QED BY <2>1, FS_Subset, FS_CardinalityType
<1> DEFINE S == {n \in Nat : n <= N => n + 1 <= Cardinality(f[n])}
<1>2. 0 \in S
  <2>1. Cardinality(f[0]) # 0
    BY <1>1, FS_EmptySet
  <2> QED BY <1>1, <2>1
<1>3. ASSUME NEW n \in Nat, n \in S
      PROVE  n + 1 \in S
  <2> SUFFICES ASSUME n + 1 <= N PROVE (n + 1) + 1 <= Cardinality(f[n + 1])
    OBVIOUS
  <2>1. n + 1 \in 1 .. N /\ (n + 1) - 1 = n /\ n \in 0 .. N /\ n + 1 \in 0 .. N
    OBVIOUS
  <2>2. f[n] \subseteq f[n + 1] /\ f[n + 1] # f[n]
    BY <2>1 DEF Chain
  <2>3. Cardinality(f[n]) < Cardinality(f[n + 1])
    <3>1. Cardinality(f[n]) <= Cardinality(f[n + 1])
          /\ (Cardinality(f[n]) = Cardinality(f[n + 1]) => f[n] = f[n + 1])
      BY <1>1, <2>1, <2>2, FS_Subset
    <3> QED BY <1>1, <2>1, <2>2, <3>1
  <2> QED BY <1>1, <1>3, <2>1, <2>3
<1>4. N \in S
  <2> HIDE DEF S
  <2> QED BY <1>2, <1>3, Induction
<1>5. N + 1 <= Cardinality(f[N]) /\ N \in 0 .. N
  BY <1>4
<1> QED BY <1>1, <1>5, FS_CardinalityType

(* There are no more blocks than numbers. *)
LEMMA ReachableFinite ==
  ASSUME DInv
  PROVE  IsFiniteSet(Reachable) /\ Cardinality(Reachable) \in Nat
         /\ Cardinality(Reachable) <= Len(dfn)
<1> DEFINE N == Len(dfn)
           f == [k \in 1 .. N |-> dfn[k]]
<1>1. N \in Nat /\ DOMAIN dfn = 1 .. N
  BY Shape
<1>2. f \in Surjection(1 .. N, Reachable)
  BY <1>1 DEF Surjection, Reachable, ToSet
<1>3. IsFiniteSet(1 .. N) /\ Cardinality(1 .. N) = N
  <2>1. 1 \in Int /\ N \in Int /\ (1 > N => N = 0)
    BY <1>1
  <2> QED BY <1>1, <2>1, FS_Interval
<1>4. IsFiniteSet(Reachable) /\ Cardinality(Reachable) <= Cardinality(1 .. N)
  BY <1>2, <1>3, FS_Surjection
<1> QED BY <1>3, <1>4, FS_CardinalityType

-----------------------------------------------------------------------------
(* The fathers *)

LEMMA AboveSteps ==
  ASSUME DInv, phase = "semi"
  PROVE  \E f : /\ \A n \in 0 .. Len(dfn) : \A b : Above(b, n) = f[n][b]
                /\ \A b \in Reachable : f[0][b] = b
                /\ \A n \in 1 .. Len(dfn) : \A b \in Reachable :
                     f[n][b] = IF b = Entry THEN b ELSE f[n - 1][father[b]]
<1> DEFINE N == Len(dfn)
           X == [Reachable -> Reachable]
           id == [c \in Reachable |-> c]
           D == [g \in X |-> [c \in Reachable |-> IF c = Entry THEN c ELSE g[father[c]]]]
<1>1. N \in Nat
  BY Shape
<1>2. \A c \in Reachable \ {Entry} : father[c] \in Reachable
  BY DEF DInv, Phased, NoCircle, Done, OnStack
<1>3. id \in X /\ D \in [X -> X]
  BY <1>2
<1> HIDE DEF N, X
<1>4. PICK f \in [0 .. N -> X] :
             f[0] = id /\ \A n \in 1 .. N : n - 1 \in 0 .. N /\ f[n] = D[f[n - 1]]
  <2> HIDE DEF D, id
  <2>1. PICK f : f \in Iteration(X, id, D, N)
    BY <1>1, <1>3, Iterates
  <2> QED BY <2>1 DEF Iteration
<1>5. \A n \in 1 .. N :
        f[n] = [c \in Reachable |-> IF c = Entry THEN c ELSE f[n - 1][father[c]]]
  BY <1>4
<1>6. f = [k \in 0 .. N |->
             [c \in Reachable |-> IF k = 0 \/ c = Entry THEN c ELSE f[k - 1][father[c]]]]
  <2>1. ASSUME NEW k \in 0 .. N
        PROVE  f[k] = [c \in Reachable |-> IF k = 0 \/ c = Entry THEN c ELSE f[k - 1][father[c]]]
    <3>1. CASE k = 0
      BY <1>4, <3>1
    <3>2. CASE k # 0
      <4>1. k \in 1 .. N
        BY <1>1, <3>2
      <4> QED BY <1>5, <3>2, <4>1
    <3> QED BY <3>1, <3>2
  <2> QED BY <1>4, <2>1
<1> DEFINE u == CHOOSE up : up = [k \in 0 .. N |->
             [c \in Reachable |-> IF k = 0 \/ c = Entry THEN c ELSE up[k - 1][father[c]]]]
<1>7. u = [k \in 0 .. N |->
             [c \in Reachable |-> IF k = 0 \/ c = Entry THEN c ELSE u[k - 1][father[c]]]]
  BY <1>6
<1>8. \A n \in 0 .. N : \A b : Above(b, n) = u[n][b]
  BY DEF Above, N
<1> HIDE DEF u
<1>9. \A b \in Reachable : u[0][b] = b
  <2>1. 0 \in 0 .. N
    BY <1>1
  <2> QED BY <1>7, <2>1
<1>10. ASSUME NEW n \in 1 .. N, NEW b \in Reachable
       PROVE  u[n][b] = IF b = Entry THEN b ELSE u[n - 1][father[b]]
  <2>1. n \in 0 .. N /\ n # 0
    BY <1>1
  <2>2. u[n] = [c \in Reachable |-> IF n = 0 \/ c = Entry THEN c ELSE u[n - 1][father[c]]]
    BY <1>7, <2>1
  <2> QED BY <2>1, <2>2
<1> QED BY <1>8, <1>9, <1>10 DEF N

(* The blocks that come to the entry by n fathers are more than those that *)
(* do by n - 1, until they are all: those that are left do not lead to     *)
(* each other only.                                                        *)
LEMMA FathersLead ==
  ASSUME DInv
  PROVE  FathersLeadUp
<1> SUFFICES ASSUME phase = "semi", NEW b \in Reachable PROVE Above(b, Len(dfn)) = Entry
  BY DEF FathersLeadUp
<1> DEFINE N == Len(dfn)
<1>1. PICK f : /\ \A n \in 0 .. N : \A c : Above(c, n) = f[n][c]
               /\ \A c \in Reachable : f[0][c] = c
               /\ \A n \in 1 .. N : \A c \in Reachable :
                    f[n][c] = IF c = Entry THEN c ELSE f[n - 1][father[c]]
  BY AboveSteps
<1> DEFINE L == [n \in 0 .. N |-> {c \in Reachable : f[n][c] = Entry}]
<1>2. N \in Nat /\ N >= 1 /\ Entry \in Reachable
  <2>1. dfn # << >> /\ dfn[1] = Entry
    BY DEF DInv, Phased, Numbering
  <2>2. N \in Nat /\ N # 0
    BY <2>1, Shape, EmptySeq DEF DInv, Numbering
  <2>3. 1 \in DOMAIN dfn
    BY <2>2, Shape
  <2> QED BY <2>1, <2>2, <2>3, Shape
<1>3. /\ \A c \in Reachable \ {Entry} : father[c] \in Reachable
      /\ \A S \in SUBSET (Reachable \ {Entry}) : S # {} => \E c \in S : father[c] \notin S
  BY DEF DInv, Phased, NoCircle, Done, OnStack
<1> HIDE DEF N
<1>4. ASSUME NEW n \in 1 .. N
      PROVE  /\ n \in 0 .. N /\ n - 1 \in 0 .. N
             /\ L[n] = {Entry} \cup {c \in Reachable \ {Entry} : father[c] \in L[n - 1]}
  <2>1. n \in 0 .. N /\ n - 1 \in 0 .. N
    BY <1>2
  <2>2. L[n] = {c \in Reachable : f[n][c] = Entry}
    BY <2>1
  <2>3. L[n - 1] = {c \in Reachable : f[n - 1][c] = Entry}
    BY <2>1
  <2> HIDE DEF L
  <2> QED BY <1>1, <1>2, <1>3, <2>1, <2>2, <2>3
<1>5. 0 \in 0 .. N /\ L[0] = {Entry}
  BY <1>1, <1>2
<1>6. \A n \in 0 .. N : L[n] \subseteq Reachable
  OBVIOUS
<1> HIDE DEF L
<1>7. \A n \in 1 .. N : L[n - 1] \subseteq L[n]
  <2> DEFINE S == {n \in Nat : n + 1 <= N => L[n] \subseteq L[n + 1]}
  <2>1. 0 \in S
    <3>1. 1 \in 1 .. N /\ 1 - 1 = 0
      BY <1>2
    <3> QED BY <1>4, <1>5, <3>1
  <2>2. ASSUME NEW n \in Nat, n \in S
        PROVE  n + 1 \in S
    <3> SUFFICES ASSUME (n + 1) + 1 <= N PROVE L[n + 1] \subseteq L[(n + 1) + 1]
      OBVIOUS
    <3>1. /\ n + 1 \in 1 .. N /\ (n + 1) - 1 = n /\ n + 1 <= N
          /\ (n + 1) + 1 \in 1 .. N /\ ((n + 1) + 1) - 1 = n + 1
      BY <1>2
    <3>2. L[n] \subseteq L[n + 1]
      BY <2>2, <3>1
    <3>3. /\ L[n + 1] = {Entry} \cup {c \in Reachable \ {Entry} : father[c] \in L[n]}
          /\ L[(n + 1) + 1] = {Entry} \cup {c \in Reachable \ {Entry} : father[c] \in L[n + 1]}
      BY <1>4, <3>1
    <3> QED BY <3>2, <3>3
  <2>3. Nat \subseteq S
    <3> HIDE DEF S
    <3> QED BY <2>1, <2>2, Induction
  <2>4. ASSUME NEW n \in 1 .. N
        PROVE  L[n - 1] \subseteq L[n]
    <3>1. n - 1 \in Nat /\ (n - 1) + 1 = n /\ (n - 1) + 1 <= N
      BY <1>2
    <3>2. n - 1 \in S
      BY <2>3, <3>1
    <3> QED BY <3>1, <3>2
  <2> QED BY <2>4
<1>8. Chain(L, Reachable, N)
  BY <1>6, <1>7 DEF Chain
<1>9. PICK n \in 1 .. N : L[n] = L[n - 1]
  BY <1>2, <1>5, <1>8, ReachableFinite, ChainStops DEF N
<1>10. L[n] = Reachable
  <2> DEFINE S == Reachable \ L[n]
  <2> SUFFICES ASSUME S # {} PROVE FALSE
    BY <1>4, <1>6
  <2>1. L[n] = {Entry} \cup {c \in Reachable \ {Entry} : father[c] \in L[n]}
    BY <1>4, <1>9
  <2>2. S \in SUBSET (Reachable \ {Entry})
    BY <2>1
  <2>3. PICK c \in S : father[c] \notin S
    BY <1>3, <2>2
  <2> QED BY <1>3, <2>1, <2>2, <2>3
<1>11. L[N] = Reachable
  <2>1. n \in 0 .. N /\ N \in 0 .. N
    BY <1>2, <1>4
  <2>2. L[n] \subseteq L[N]
    BY <1>2, <1>8, <2>1, ChainGrows
  <2> QED BY <1>6, <1>10, <2>1, <2>2
<1>12. f[N][b] = Entry
  BY <1>2, <1>11 DEF L
<1> QED BY <1>1, <1>2, <1>12 DEF N

(* However dfs comes by the successors and however often it overwrites a   *)
(* father, in every graph the fathers lead up to the entry: the recursion  *)
(* of find, which follows them, ends.                                      *)
THEOREM FathersAlwaysLeadUp == DominatorsSpec => []FathersLeadUp
BY BuildInvariance, FathersLead, PTL

-----------------------------------------------------------------------------
(* Dominance *)

Built == DInv /\ phase = "built"

LEMMA BuiltFacts ==
  ASSUME Built
  PROVE  /\ Entry \in Reachable /\ Reachable \subseteq Listed /\ Null \notin Reachable
         /\ Len(dfn) \in Nat /\ Len(dfn) >= 1
         /\ \A b \in Reachable : Succs(b) \subseteq Reachable
         /\ \A S : Entry \in S /\ Closed(S) => Reachable \subseteq S
         /\ \A p, b : p \in Pres(b) <=> (p \in Listed /\ b \in Succs(p))
         /\ \A p : Entry \notin Succs(p)
<1>1. phase = "built" /\ DInv
  BY DEF Built
<1>2. dfn # << >> /\ dfn[1] = Entry /\ Len(dfn) \in Nat /\ Len(dfn) # 0
  BY <1>1, Shape, EmptySeq DEF DInv, Numbering
<1>3. Entry \in Reachable
  <2>1. 1 \in DOMAIN dfn
    BY <1>1, <1>2, Shape
  <2> QED BY <1>1, <1>2, <2>1, Shape
<1>4. Done = Reachable
  BY <1>1 DEF DInv, Phased, Done, OnStack
<1>5. /\ \A b \in Reachable : Succs(b) \subseteq Reachable
      /\ \A S : Entry \in S /\ Closed(S) => Reachable \subseteq S
  BY <1>1, <1>4 DEF DInv, Explored
<1>6. \A p, b : p \in Pres(b) <=> (p \in Listed /\ b \in Succs(p))
  BY <1>1, Linked DEF DInv, IInv
<1>7. \A p : Entry \notin Succs(p)
  <2>1. TypeOK /\ Pres(Entry) = {}
    BY <1>1 DEF DInv, IInv, EntryStaysFirst
  <2> QED BY <2>1, Linked
<1> QED BY <1>1, <1>2, <1>3, <1>5, <1>6, <1>7, Shape

LEMMA NextOnes ==
  ASSUME NEW x, NEW d
  PROVE  \A S : ((UNION {Succs(b) : b \in x}) \ {d} \subseteq S)
                  <=> \A b \in x : Succs(b) \ {d} \subseteq S
OBVIOUS

(* ReachedWithin is recursive: that it has a value is shown first. *)
LEMMA ReachedSteps ==
  ASSUME Built, NEW d
  PROVE  \E f : /\ Reached(d) = f[Len(dfn)]
                /\ f[0] = {Entry} \ {d}
                /\ \A n \in 1 .. Len(dfn) :
                     f[n] = f[n - 1] \cup ((UNION {Succs(b) : b \in f[n - 1]}) \ {d})
                /\ \A n \in 0 .. Len(dfn) : f[n] \subseteq Reachable \ {d}
<1> DEFINE N == Len(dfn)
           X == SUBSET (Reachable \ {d})
           start == {Entry} \ {d}
           step(x) == x \cup ((UNION {Succs(b) : b \in x}) \ {d})
           D == [x \in X |-> step(x)]
<1>1. N \in Nat
  BY BuiltFacts
<1>2. start \in X /\ D \in [X -> X] /\ \A x \in X : D[x] = step(x)
  <2>1. start \in X
    BY BuiltFacts
  <2>2. ASSUME NEW x \in X
        PROVE  step(x) \in X
    <3>1. x \subseteq Reachable \ {d} /\ \A b \in x : Succs(b) \subseteq Reachable
      BY BuiltFacts
    <3>2. \A b \in x : Succs(b) \ {d} \subseteq Reachable \ {d}
      BY <3>1
    <3>3. (UNION {Succs(b) : b \in x}) \ {d} \subseteq Reachable \ {d}
      BY <3>2, NextOnes
    <3> QED BY <3>1, <3>3
  <2> HIDE DEF step, X
  <2> QED BY <2>1, <2>2
<1> HIDE DEF N, X, start, step, D
<1>3. PICK f : f \in Iteration(X, start, D, N)
  BY <1>1, <1>2, Iterates
<1>4. /\ f \in [0 .. N -> X] /\ f[0] = start
      /\ \A n \in 1 .. N : n - 1 \in 0 .. N /\ f[n] = step(f[n - 1])
  BY <1>2, <1>3 DEF Iteration
<1>5. f = [n \in 0 .. N |-> IF n = 0 THEN start ELSE step(f[n - 1])]
  <2>1. ASSUME NEW n \in 0 .. N
        PROVE  f[n] = IF n = 0 THEN start ELSE step(f[n - 1])
    <3>1. n = 0 \/ n \in 1 .. N
      BY <1>1
    <3> QED BY <1>4, <3>1
  <2> QED BY <1>4, <2>1
<1> DEFINE r == ReachedWithin(d)
<1>6. r = [n \in 0 .. N |-> IF n = 0 THEN start ELSE step(r[n - 1])]
  BY <1>5 DEF ReachedWithin, N, start, step
<1> HIDE DEF r
<1>7. r[0] = start /\ \A n \in 1 .. N : r[n] = step(r[n - 1]) /\ n - 1 \in 0 .. N
  BY <1>1, <1>6
<1>8. \A n \in 0 .. N : r[n] \in X
  <2> DEFINE S == {n \in Nat : n <= N => r[n] \in X}
  <2>1. 0 \in S
    BY <1>2, <1>7
  <2>2. ASSUME NEW n \in Nat, n \in S
        PROVE  n + 1 \in S
    <3> SUFFICES ASSUME n + 1 <= N PROVE r[n + 1] \in X
      OBVIOUS
    <3>1. n + 1 \in 1 .. N /\ (n + 1) - 1 = n /\ r[n] \in X
      BY <1>1, <2>2
    <3>2. r[n + 1] = D[r[n]]
      BY <1>2, <1>7, <3>1
    <3> QED BY <1>2, <3>1, <3>2
  <2>3. Nat \subseteq S
    <3> HIDE DEF S
    <3> QED BY <2>1, <2>2, Induction
  <2> QED BY <1>1, <2>3
<1> QED BY <1>7, <1>8 DEF Reached, r, N, X, start, step

(* What is reached without d is the least set that has the entry and every *)
(* successor but d of its blocks.                                          *)
LEMMA ReachedLeast ==
  ASSUME Built, NEW d
  PROVE  /\ Reached(d) \subseteq Reachable \ {d}
         /\ d # Entry => Entry \in Reached(d)
         /\ \A b \in Reached(d) : Succs(b) \ {d} \subseteq Reached(d)
         /\ \A S : (d # Entry => Entry \in S) /\ (\A b \in S : Succs(b) \ {d} \subseteq S)
                     => Reached(d) \subseteq S
<1> DEFINE N == Len(dfn)
<1>1. PICK f : /\ Reached(d) = f[N]
               /\ f[0] = {Entry} \ {d}
               /\ \A n \in 1 .. N : f[n] = f[n - 1] \cup ((UNION {Succs(b) : b \in f[n - 1]}) \ {d})
               /\ \A n \in 0 .. N : f[n] \subseteq Reachable \ {d}
  BY ReachedSteps
<1>2. N \in Nat /\ N >= 1 /\ IsFiniteSet(Reachable) /\ Cardinality(Reachable) <= N
  BY BuiltFacts, ReachableFinite DEF Built
<1> HIDE DEF N
<1>3. Chain(f, Reachable, N)
  BY <1>1 DEF Chain
<1>4. N \in 0 .. N /\ 0 \in 0 .. N /\ 1 \in 1 .. N /\ 1 - 1 = 0
  BY <1>2
<1>5. f[N] \subseteq Reachable \ {d} /\ f[0] \subseteq f[N]
  BY <1>1, <1>2, <1>3, <1>4, ChainGrows
<1>6. \E n \in 1 .. N : f[n] = f[n - 1]
  <2>1. CASE f[0] = {}
    <3>1. f[1] = f[0] \cup ((UNION {Succs(b) : b \in f[0]}) \ {d})
      BY <1>1, <1>4
    <3>2. f[1] = f[0]
      BY <2>1, <3>1
    <3> QED BY <1>4, <3>2
  <2>2. CASE f[0] # {}
    BY <1>2, <1>3, <2>2, ChainStops
  <2> QED BY <2>1, <2>2
<1>7. PICK n \in 1 .. N : f[n] = f[n - 1]
  BY <1>6
<1>8. n \in 0 .. N /\ n - 1 \in 0 .. N
  BY <1>2
<1> DEFINE more(x) == (UNION {Succs(b) : b \in x}) \ {d}
<1>9. more(f[n]) \subseteq f[n]
  <2>1. f[n] = f[n - 1] \cup more(f[n - 1])
    BY <1>1
  <2> HIDE DEF more
  <2> QED BY <1>7, <2>1
<1> HIDE DEF more
<1>10. f[N] = f[n]
  <2> DEFINE T == {m \in Nat : n + m <= N => f[n + m] = f[n]}
  <2>1. 0 \in T
    BY <1>8
  <2>2. ASSUME NEW m \in Nat, m \in T
        PROVE  m + 1 \in T
    <3> SUFFICES ASSUME n + (m + 1) <= N PROVE f[n + (m + 1)] = f[n]
      OBVIOUS
    <3>1. n + (m + 1) \in 1 .. N /\ (n + (m + 1)) - 1 = n + m /\ n + m <= N
      BY <1>2, <1>8
    <3>2. f[n + (m + 1)] = f[n + m] \cup more(f[n + m])
      BY <1>1, <3>1 DEF more
    <3> QED BY <1>9, <2>2, <3>1, <3>2
  <2>3. N - n \in T
    <3> HIDE DEF T
    <3>1. Nat \subseteq T /\ N - n \in Nat
      BY <1>2, <1>8, <2>1, <2>2, Induction
    <3> QED BY <3>1
  <2>4. n + (N - n) = N
    BY <1>2, <1>8
  <2> QED BY <1>2, <2>3, <2>4
<1>11. ASSUME NEW b \in f[N]
       PROVE  Succs(b) \ {d} \subseteq f[N]
  <2>1. Succs(b) \ {d} \subseteq more(f[n])
    BY <1>10, NextOnes DEF more
  <2> QED BY <1>9, <1>10, <2>1
<1>12. ASSUME NEW S, d # Entry => Entry \in S, \A b \in S : Succs(b) \ {d} \subseteq S
       PROVE  f[N] \subseteq S
  <2> DEFINE T == {m \in Nat : m <= N => f[m] \subseteq S}
  <2>1. 0 \in T
    BY <1>1, <1>12
  <2>2. ASSUME NEW m \in Nat, m \in T
        PROVE  m + 1 \in T
    <3> SUFFICES ASSUME m + 1 <= N PROVE f[m + 1] \subseteq S
      OBVIOUS
    <3>1. m + 1 \in 1 .. N /\ (m + 1) - 1 = m /\ f[m] \subseteq S
      BY <1>2, <2>2
    <3>2. f[m + 1] = f[m] \cup ((UNION {Succs(b) : b \in f[m]}) \ {d})
      BY <1>1, <3>1
    <3>3. ASSUME NEW b \in f[m] PROVE Succs(b) \ {d} \subseteq S
      BY <1>12, <3>1
    <3>4. (UNION {Succs(b) : b \in f[m]}) \ {d} \subseteq S
      BY <3>3, NextOnes
    <3> QED BY <3>1, <3>2, <3>4
  <2>3. N \in T
    <3> HIDE DEF T
    <3> QED BY <1>2, <2>1, <2>2, Induction
  <2> QED BY <1>2, <2>3
<1> QED BY <1>1, <1>5, <1>11, <1>12

Dominates(d, b) == b = d \/ b \notin Reached(d)

LEMMA DominatedIs ==
  ASSUME NEW d \in Reachable, NEW b \in Reachable
  PROVE  b \in Dominated[d] <=> Dominates(d, b)
BY DEF Dominated, Dominates

(* Dominance is an order, with the entry on top. *)
LEMMA DominatesTransitive ==
  ASSUME Built, NEW d \in Reachable, NEW e \in Reachable, NEW b \in Reachable,
         Dominates(d, e), Dominates(e, b)
  PROVE  Dominates(d, b)
<1> SUFFICES ASSUME d # e, e # b, b # d, b \in Reached(d) PROVE FALSE
  BY DEF Dominates
<1>1. e \notin Reached(d) /\ b \notin Reached(e)
  BY DEF Dominates
<1> DEFINE T == Reached(d) \cap Reached(e)
<1>2. d # Entry => Entry \in T
  BY <1>1, ReachedLeast
<1>3. ASSUME NEW x \in T
      PROVE  Succs(x) \ {d} \subseteq T
  BY <1>1, ReachedLeast
<1>4. Reached(d) \subseteq T
  <2> HIDE DEF T
  <2> QED BY <1>2, <1>3, ReachedLeast
<1> QED BY <1>1, <1>4

LEMMA DominatesAntisymmetric ==
  ASSUME Built, NEW d \in Reachable, NEW e \in Reachable, Dominates(d, e), Dominates(e, d)
  PROVE  d = e
<1> SUFFICES ASSUME d # e PROVE FALSE
  OBVIOUS
<1>1. e \notin Reached(d) /\ d \notin Reached(e)
  BY DEF Dominates
<1> DEFINE T == Reached(d) \cap Reached(e)
<1>2. Entry \in T
  BY <1>1, ReachedLeast
<1>3. ASSUME NEW x \in T
      PROVE  Succs(x) \subseteq T
  BY <1>1, ReachedLeast
<1>4. Reachable \subseteq T
  <2> HIDE DEF T
  <2> QED BY <1>2, <1>3, BuiltFacts DEF Closed
<1>5. d \notin Reached(d)
  BY ReachedLeast
<1> QED BY <1>4, <1>5

LEMMA EntryOnTop ==
  ASSUME Built, NEW d \in Reachable, Dominates(d, Entry)
  PROVE  d = Entry
BY ReachedLeast DEF Dominates

(* What dominates a block from above dominates what comes before it. *)
LEMMA DominatesBefore ==
  ASSUME Built, NEW d \in Reachable, NEW b \in Reachable, d # b, Dominates(d, b),
         NEW p \in Pres(b) \cap Reachable
  PROVE  Dominates(d, p)
<1> SUFFICES ASSUME p \in Reached(d) PROVE FALSE
  BY DEF Dominates
<1>1. b \in Succs(p)
  BY BuiltFacts
<1>2. b \in Reached(d)
  BY <1>1, ReachedLeast
<1> QED BY <1>2 DEF Dominates

(* A block is come to by a way that does not lead through it. *)
LEMMA ComeTo ==
  ASSUME Built, NEW b \in Reachable \ {Entry}
  PROVE  \E p \in Pres(b) \cap Reachable : p \in Reached(b)
<1> SUFFICES ASSUME \A p \in Pres(b) \cap Reachable : p \notin Reached(b) PROVE FALSE
  OBVIOUS
<1>1. Reached(b) \subseteq Reachable \ {b} /\ Entry \in Reached(b)
  BY ReachedLeast
<1>2. ASSUME NEW x \in Reached(b)
      PROVE  Succs(x) \subseteq Reached(b)
  <2>1. Succs(x) \ {b} \subseteq Reached(b)
    BY ReachedLeast
  <2>2. b \notin Succs(x)
    <3>1. x \in Reachable /\ x \in Listed
      BY <1>1, BuiltFacts
    <3> QED BY <3>1, BuiltFacts
  <2> QED BY <2>1, <2>2
<1>3. Reachable \subseteq Reached(b)
  BY <1>1, <1>2, BuiltFacts DEF Closed
<1> QED BY <1>1, <1>3

(* What dominates the only way to a block dominates it from above. *)
LEMMA OnlyWay ==
  ASSUME Built, NEW b \in Reachable \ {Entry}, NEW p \in Pres(b) \cap Reachable,
         \A q \in Pres(b) : q = p, NEW d \in Reachable, Dominates(d, p)
  PROVE  d # b /\ Dominates(d, b)
<1>1. p \in Reached(b)
  BY ComeTo
<1>2. d # b
  <2>1. b \notin Reached(b)
    BY ReachedLeast
  <2> QED BY <1>1, <2>1 DEF Dominates
<1>3. Dominates(d, b)
  <2> SUFFICES ASSUME b \in Reached(d) PROVE FALSE
    BY DEF Dominates
  <2> DEFINE T == Reached(d) \ {b}
  <2>1. p \notin Reached(d) /\ Reached(d) \subseteq Reachable \ {d}
    BY ReachedLeast DEF Dominates
  <2>2. d # Entry => Entry \in T
    BY ReachedLeast
  <2>3. ASSUME NEW x \in T
        PROVE  Succs(x) \ {d} \subseteq T
    <3>1. Succs(x) \ {d} \subseteq Reached(d)
      BY ReachedLeast
    <3>2. b \notin Succs(x)
      <4>1. x \in Listed /\ x # p
        BY <2>1, BuiltFacts
      <4> QED BY <4>1, BuiltFacts
    <3> QED BY <3>1, <3>2
  <2>4. Reached(d) \subseteq T
    <3> HIDE DEF T
    <3> QED BY <2>2, <2>3, ReachedLeast
  <2> QED BY <2>4
<1> QED BY <1>2, <1>3

-----------------------------------------------------------------------------
(* The frontiers, where tarjan has lost no dominator *)

Immediate(d, b) ==
  /\ d \in Reachable \ {b} /\ Dominates(d, b)
  /\ \A e \in Reachable \ {b} : Dominates(e, b) => Dominates(e, d)

TreeRight ==
  /\ Built
  /\ \A b \in Reachable \ {Entry} : Immediate(idom[b], b)

LEMMA TreeIsRight ==
  ASSUME Built, IdomNeverWrong, \A b \in Reachable \ {Entry} : idom[b] # Null
  PROVE  TreeRight
<1> SUFFICES ASSUME NEW b \in Reachable \ {Entry} PROVE Immediate(idom[b], b)
  BY DEF TreeRight
<1>1. IsImmediate(Dominated, idom[b], b)
  BY DEF IdomNeverWrong, Built
<1>2. idom[b] \in Reachable \ {b} /\ b \in Dominated[idom[b]]
      /\ \A e \in Reachable \ {b} : b \in Dominated[e] => idom[b] \in Dominated[e]
  BY <1>1 DEF IsImmediate
<1> QED BY <1>2, DominatedIs DEF Immediate

(* The tree as it is climbed. *)
LEMMA Parents ==
  ASSUME TreeRight, NEW b \in Slots
  PROVE  /\ idom[b] \in Reachable \cup {Null}
         /\ b \notin Reachable \ {Entry} => idom[b] = Null
         /\ b \in Reachable \ {Entry} => Immediate(idom[b], b)
<1>1. Mapped
  BY DEF TreeRight, Built, DInv
<1>2. b \notin Reachable \ {Entry} => idom[b] = Null
  BY <1>1 DEF Mapped
<1>3. b \in Reachable \ {Entry} => Immediate(idom[b], b)
  BY DEF TreeRight
<1> QED BY <1>2, <1>3 DEF Immediate

Stops(stop) == {stop, Null}
Climbed(f, p, stop, N) ==
  /\ f[0] = p
  /\ \A n \in 0 .. N : f[n] \in Slots
  /\ \A n \in 0 .. N - 1 : f[n + 1] = IF f[n] \in Stops(stop) THEN f[n] ELSE idom[f[n]]

LEMMA RunnerClimbs ==
  ASSUME TreeRight, NEW p \in Blocks, NEW stop
  PROVE  \E f : /\ Climbed(f, p, stop, Len(dfn))
                /\ runners(p, stop) = {f[n] : n \in 0 .. Len(dfn)} \ Stops(stop)
<1> DEFINE N == Len(dfn)
           step(x) == IF x \in {stop, Null} THEN x ELSE idom[x]
           D == [x \in Slots |-> step(x)]
<1>1. N \in Nat
  BY BuiltFacts DEF TreeRight
<1>2. p \in Slots /\ D \in [Slots -> Slots] /\ \A x \in Slots : D[x] = step(x)
  <2>1. \A x \in Slots : step(x) \in Slots
    <3>1. Reachable \cup {Null} \subseteq Slots
      BY Shape DEF TreeRight, Built, Slots
    <3> QED BY <3>1, Parents
  <2> HIDE DEF step
  <2> QED BY <2>1 DEF Slots
<1> HIDE DEF N, step, D
<1>3. PICK f : f \in Iteration(Slots, p, D, N)
  BY <1>1, <1>2, Iterates
<1>4. /\ f \in [0 .. N -> Slots] /\ f[0] = p
      /\ \A n \in 1 .. N : n - 1 \in 0 .. N /\ f[n] = step(f[n - 1])
  BY <1>2, <1>3 DEF Iteration
<1>5. f = [n \in 0 .. N |-> IF n = 0 THEN p ELSE step(f[n - 1])]
  <2>1. ASSUME NEW n \in 0 .. N
        PROVE  f[n] = IF n = 0 THEN p ELSE step(f[n - 1])
    <3>1. n = 0 \/ n \in 1 .. N
      BY <1>1
    <3> QED BY <1>4, <3>1
  <2> QED BY <1>4, <2>1
<1> DEFINE u == runner(p, stop)
<1>6. u = [n \in 0 .. N |-> IF n = 0 THEN p ELSE step(u[n - 1])]
  BY <1>5 DEF runner, N, step
<1> HIDE DEF u
<1>7. u[0] = p /\ \A n \in 1 .. N : u[n] = step(u[n - 1]) /\ n - 1 \in 0 .. N
  BY <1>1, <1>6
<1>8. \A n \in 0 .. N : u[n] \in Slots
  <2> DEFINE S == {n \in Nat : n <= N => u[n] \in Slots}
  <2>1. 0 \in S
    BY <1>2, <1>7
  <2>2. ASSUME NEW n \in Nat, n \in S
        PROVE  n + 1 \in S
    <3> SUFFICES ASSUME n + 1 <= N PROVE u[n + 1] \in Slots
      OBVIOUS
    <3>1. n + 1 \in 1 .. N /\ (n + 1) - 1 = n /\ u[n] \in Slots
      BY <1>1, <2>2
    <3>2. u[n + 1] = D[u[n]]
      BY <1>2, <1>7, <3>1
    <3> QED BY <1>2, <3>1, <3>2
  <2>3. Nat \subseteq S
    <3> HIDE DEF S
    <3> QED BY <2>1, <2>2, Induction
  <2> QED BY <1>1, <2>3
<1>9. \A n \in 0 .. N - 1 : u[n + 1] = step(u[n])
  <2> SUFFICES ASSUME NEW n \in 0 .. N - 1 PROVE u[n + 1] = step(u[n])
    OBVIOUS
  <2>1. n + 1 \in 1 .. N /\ (n + 1) - 1 = n
    BY <1>1
  <2> QED BY <1>7, <2>1
<1>10. Climbed(u, p, stop, N)
  BY <1>7, <1>8, <1>9 DEF Climbed, Stops, step
<1>11. runners(p, stop) = {u[n] : n \in 0 .. N} \ Stops(stop)
  BY DEF runners, u, N, Stops
<1> QED BY <1>10, <1>11 DEF N

(* Where the runner is after n steps from a block that is reached: at a    *)
(* dominator of p, and every other dominator is behind it or above it.     *)
ClimbingAt(f, p, stop, n) ==
  /\ f[n] \in Reachable \cup {Null}
  /\ f[n] # Null => Dominates(f[n], p)
  /\ \A e \in Reachable : Dominates(e, p) =>
       (\E m \in 0 .. n : f[m] = e) \/ (f[n] # Null /\ Dominates(e, f[n]))
  /\ f[n] # stop => \A m \in 0 .. n : f[m] # stop

LEMMA Climbing ==
  ASSUME TreeRight, NEW p \in Reachable, NEW stop, NEW N \in Nat, NEW f, Climbed(f, p, stop, N)
  PROVE  \A n \in 0 .. N : ClimbingAt(f, p, stop, n)
<1> DEFINE S == {n \in Nat : n <= N => ClimbingAt(f, p, stop, n)}
<1>0. Null \notin Reachable /\ Reachable \subseteq Slots
  BY Shape, BuiltFacts DEF TreeRight, Built, Slots
<1>1. 0 \in S
  <2>1. f[0] = p /\ \A m \in 0 .. 0 : m = 0
    BY DEF Climbed
  <2> QED BY <1>0, <2>1 DEF ClimbingAt, Dominates
<1>2. ASSUME NEW n \in Nat, n \in S
      PROVE  n + 1 \in S
  <2> SUFFICES ASSUME n + 1 <= N PROVE ClimbingAt(f, p, stop, n + 1)
    OBVIOUS
  <2>1. n \in 0 .. N - 1 /\ \A m \in 0 .. n + 1 : m \in 0 .. n \/ m = n + 1
    OBVIOUS
  <2>2. ClimbingAt(f, p, stop, n)
    BY <1>2, <2>1
  <2>3. 0 .. n \subseteq 0 .. n + 1 /\ n \in 0 .. n /\ n + 1 \in 0 .. n + 1
    OBVIOUS
  <2>4. f[n + 1] = IF f[n] \in Stops(stop) THEN f[n] ELSE idom[f[n]]
    BY <2>1 DEF Climbed
  <2>5. CASE f[n] \in Stops(stop)
    BY <2>1, <2>2, <2>3, <2>4, <2>5 DEF ClimbingAt
  <2>6. CASE f[n] \notin Stops(stop)
    <3>1. f[n + 1] = idom[f[n]] /\ f[n] # stop /\ f[n] # Null /\ f[n] \in Reachable
      BY <2>2, <2>4, <2>6 DEF Stops, ClimbingAt
    <3>2. CASE f[n] = Entry
      <4>1. f[n + 1] = Null
        BY <1>0, <3>1, <3>2, Parents
      <4>2. ASSUME NEW e \in Reachable, Dominates(e, p)
            PROVE  \E m \in 0 .. n + 1 : f[m] = e
        <5>1. CASE \E m \in 0 .. n : f[m] = e
          BY <2>3, <5>1
        <5>2. CASE Dominates(e, f[n])
          <6>1. e = f[n]
            BY <3>2, <4>2, <5>2, EntryOnTop DEF TreeRight
          <6> QED BY <2>3, <6>1
        <5> QED BY <2>2, <4>2, <5>1, <5>2 DEF ClimbingAt
      <4>3. f[n + 1] # stop => \A m \in 0 .. n + 1 : f[m] # stop
        BY <2>1, <2>2, <3>1 DEF ClimbingAt
      <4> QED BY <4>1, <4>2, <4>3 DEF ClimbingAt
    <3>3. CASE f[n] # Entry
      <4>1. Immediate(f[n + 1], f[n])
        BY <1>0, <3>1, <3>3, Parents
      <4>2. f[n + 1] \in Reachable /\ Dominates(f[n + 1], f[n])
        BY <4>1 DEF Immediate
      <4>3. Dominates(f[n + 1], p)
        BY <2>2, <3>1, <4>2, DominatesTransitive DEF ClimbingAt, TreeRight
      <4>4. ASSUME NEW e \in Reachable, Dominates(e, p)
            PROVE  (\E m \in 0 .. n + 1 : f[m] = e) \/ Dominates(e, f[n + 1])
        <5>1. CASE \E m \in 0 .. n : f[m] = e
          BY <2>3, <5>1
        <5>2. CASE Dominates(e, f[n])
          BY <2>3, <4>1, <5>2 DEF Immediate
        <5> QED BY <2>2, <4>4, <5>1, <5>2 DEF ClimbingAt
      <4>5. f[n + 1] # stop => \A m \in 0 .. n + 1 : f[m] # stop
        BY <2>1, <2>2, <3>1 DEF ClimbingAt
      <4> QED BY <1>0, <4>2, <4>3, <4>4, <4>5 DEF ClimbingAt
    <3> QED BY <3>2, <3>3
  <2> QED BY <2>5, <2>6
<1>3. Nat \subseteq S
  <2> HIDE DEF S
  <2> QED BY <1>1, <1>2, Induction
<1> QED BY <1>3

(* The blocks that dominate b, which get fewer with every step up. *)
Dominators(b) == {e \in Reachable : Dominates(e, b)}

LEMMA FewerAbove ==
  ASSUME TreeRight, NEW b \in Reachable \ {Entry}
  PROVE  /\ IsFiniteSet(Dominators(b))
         /\ Cardinality(Dominators(b)) \in Nat /\ Cardinality(Dominators(idom[b])) \in Nat
         /\ Cardinality(Dominators(idom[b])) < Cardinality(Dominators(b))
<1>1. Immediate(idom[b], b)
  BY DEF TreeRight
<1>2. Dominators(idom[b]) \subseteq Dominators(b)
  <2>1. \A e \in Reachable : Dominates(e, idom[b]) => Dominates(e, b)
    BY <1>1, DominatesTransitive DEF Immediate, TreeRight
  <2> QED BY <2>1 DEF Dominators
<1>3. b \in Dominators(b) /\ b \notin Dominators(idom[b])
  <2>1. ~Dominates(b, idom[b])
    BY <1>1, DominatesAntisymmetric DEF Immediate, TreeRight
  <2> QED BY <2>1 DEF Dominators, Dominates
<1>4. IsFiniteSet(Dominators(b))
  <2>1. IsFiniteSet(Reachable) /\ Dominators(b) \subseteq Reachable
    BY ReachableFinite DEF Dominators, TreeRight, Built
  <2> QED BY <2>1, FS_Subset
<1>5. Dominators(idom[b]) # Dominators(b)
  BY <1>3
<1>6. IsFiniteSet(Dominators(idom[b]))
      /\ Cardinality(Dominators(idom[b])) <= Cardinality(Dominators(b))
      /\ (Cardinality(Dominators(idom[b])) = Cardinality(Dominators(b))
            => Dominators(idom[b]) = Dominators(b))
  BY <1>2, <1>4, FS_Subset
<1> QED BY <1>4, <1>5, <1>6, FS_CardinalityType

LEMMA ClimbingEnds ==
  ASSUME TreeRight, NEW p \in Reachable, NEW stop, NEW f, Climbed(f, p, stop, Len(dfn))
  PROVE  f[Len(dfn)] \in Stops(stop)
<1> DEFINE N == Len(dfn)
           S == {n \in Nat : n <= N /\ f[n] \notin Stops(stop)
                               => Cardinality(Dominators(f[n])) + n <= Cardinality(Reachable)}
<1>0. N \in Nat /\ N >= 1
  BY BuiltFacts DEF TreeRight
<1>1. Cardinality(Reachable) \in Nat /\ Cardinality(Reachable) <= N /\ IsFiniteSet(Reachable)
  BY ReachableFinite DEF TreeRight, Built
<1>2. \A b : IsFiniteSet(Dominators(b)) /\ Cardinality(Dominators(b)) \in Nat
             /\ Cardinality(Dominators(b)) <= Cardinality(Reachable)
  <2>1. \A b : Dominators(b) \subseteq Reachable
    BY DEF Dominators
  <2> QED BY <1>1, <2>1, FS_Subset, FS_CardinalityType
<1>3. \A n \in 0 .. N : ClimbingAt(f, p, stop, n)
  BY <1>0, Climbing
<1>4. 0 \in S
  BY <1>1, <1>2
<1>5. ASSUME NEW n \in Nat, n \in S
      PROVE  n + 1 \in S
  <2> SUFFICES ASSUME n + 1 <= N, f[n + 1] \notin Stops(stop)
               PROVE  Cardinality(Dominators(f[n + 1])) + (n + 1) <= Cardinality(Reachable)
    OBVIOUS
  <2>1. n \in 0 .. N - 1 /\ n \in 0 .. N
    BY <1>0
  <2>2. f[n + 1] = IF f[n] \in Stops(stop) THEN f[n] ELSE idom[f[n]]
    BY <2>1 DEF Climbed
  <2>3. f[n] \notin Stops(stop) /\ f[n + 1] = idom[f[n]] /\ f[n] \in Slots
    BY <2>1, <2>2 DEF Climbed
  <2>4. f[n] \in Reachable \ {Entry}
    BY <2>3, Parents DEF Stops
  <2>5. Cardinality(Dominators(idom[f[n]])) < Cardinality(Dominators(f[n]))
    BY <2>4, FewerAbove
  <2>6. Cardinality(Dominators(f[n])) + n <= Cardinality(Reachable)
    BY <1>5, <2>1, <2>3
  <2> QED BY <1>1, <1>2, <2>3, <2>5, <2>6
<1>6. Nat \subseteq S
  <2> HIDE DEF S
  <2> QED BY <1>4, <1>5, Induction
<1> SUFFICES ASSUME f[N] \notin Stops(stop) PROVE FALSE
  OBVIOUS
<1>7. Cardinality(Dominators(f[N])) + N <= Cardinality(Reachable)
  BY <1>0, <1>6
<1>8. Cardinality(Dominators(f[N])) = 0
  BY <1>0, <1>1, <1>2, <1>7
<1>9. Dominators(f[N]) = {}
  BY <1>2, <1>8, FS_EmptySet
<1>10. f[N] \in Reachable
  BY <1>0, <1>3 DEF ClimbingAt, Stops
<1> QED BY <1>9, <1>10 DEF Dominators, Dominates

(* The runner comes to the blocks that dominate the predecessor, short of  *)
(* stop and what dominates it.                                             *)
LEMMA RunnersAre ==
  ASSUME TreeRight, NEW p \in Reachable, NEW stop \in Reachable, Dominates(stop, p),
         NEW d \in Reachable
  PROVE  d \in runners(p, stop) <=> Dominates(d, p) /\ ~Dominates(d, stop)
<1> DEFINE N == Len(dfn)
<1>0. N \in Nat /\ p \in Blocks /\ Null \notin Reachable
  BY BuiltFacts, Shape DEF TreeRight, Built
<1>1. PICK f : Climbed(f, p, stop, N) /\ runners(p, stop) = {f[n] : n \in 0 .. N} \ Stops(stop)
  BY <1>0, RunnerClimbs
<1>2. \A n \in 0 .. N : ClimbingAt(f, p, stop, n)
  BY <1>0, <1>1, Climbing
<1>3. f[N] \in Stops(stop)
  BY <1>1, ClimbingEnds
<1>4. N \in 0 .. N /\ ClimbingAt(f, p, stop, N)
  BY <1>0, <1>2
<1> HIDE DEF N
(* Whoever the runner has not passed is above stop. *)
<1>5. f[N] = stop
  <2> SUFFICES ASSUME f[N] = Null PROVE FALSE
    BY <1>3 DEF Stops
  <2>1. PICK m \in 0 .. N : f[m] = stop
    BY <1>4 DEF ClimbingAt
  <2>2. f[N] # stop
    BY <1>0
  <2> QED BY <1>4, <2>1, <2>2 DEF ClimbingAt
<1>6. ASSUME Dominates(d, p), ~Dominates(d, stop)
      PROVE  d \in runners(p, stop)
  <2>1. PICK m \in 0 .. N : f[m] = d
    BY <1>0, <1>4, <1>5, <1>6 DEF ClimbingAt
  <2>2. d # stop /\ d # Null
    BY <1>0, <1>6 DEF Dominates
  <2> QED BY <1>1, <2>1, <2>2 DEF Stops
<1>7. ASSUME d \in runners(p, stop)
      PROVE  Dominates(d, p) /\ ~Dominates(d, stop)
  <2>1. PICK m \in 0 .. N : f[m] = d /\ d # stop /\ d # Null
    BY <1>1, <1>7 DEF Stops
  <2>2. Dominates(d, p)
    BY <1>2, <2>1 DEF ClimbingAt
  (* Behind m the runner has not seen stop, which dominates p: it is above. *)
  <2>3. Dominates(stop, d)
    <3>1. ClimbingAt(f, p, stop, m)
      BY <1>2
    <3>2. \A k \in 0 .. m : f[k] # stop
      BY <2>1, <3>1 DEF ClimbingAt
    <3> QED BY <2>1, <3>1, <3>2 DEF ClimbingAt
  <2>4. ~Dominates(d, stop)
    BY <2>1, <2>3, DominatesAntisymmetric DEF TreeRight
  <2> QED BY <2>2, <2>4
<1> QED BY <1>6, <1>7

(* Nothing that is reached is passed from a block that is not. *)
LEMMA RunnerOffTheTree ==
  ASSUME TreeRight, NEW p \in Blocks \ Reachable, NEW stop
  PROVE  runners(p, stop) \cap Reachable = {}
<1> DEFINE N == Len(dfn)
<1>0. N \in Nat /\ Null \notin Reachable
  BY BuiltFacts DEF TreeRight
<1>1. PICK f : Climbed(f, p, stop, N) /\ runners(p, stop) = {f[n] : n \in 0 .. N} \ Stops(stop)
  BY <1>0, RunnerClimbs
<1> DEFINE S == {n \in Nat : n <= N => f[n] \in {p, Null}}
<1>2. 0 \in S
  BY <1>1 DEF Climbed
<1>3. ASSUME NEW n \in Nat, n \in S
      PROVE  n + 1 \in S
  <2> SUFFICES ASSUME n + 1 <= N PROVE f[n + 1] \in {p, Null}
    OBVIOUS
  <2>1. n \in 0 .. N - 1 /\ f[n] \in {p, Null}
    BY <1>0, <1>3
  <2>2. f[n + 1] = IF f[n] \in Stops(stop) THEN f[n] ELSE idom[f[n]]
    BY <1>1, <2>1 DEF Climbed
  <2>3. p \in Slots /\ idom[p] = Null
    <3>1. p \in Slots /\ p \notin Reachable \ {Entry}
      BY DEF Slots
    <3> QED BY <3>1, Parents
  <2> QED BY <2>1, <2>2, <2>3 DEF Stops
<1>4. Nat \subseteq S
  <2> HIDE DEF S
  <2> QED BY <1>2, <1>3, Induction
<1>5. \A n \in 0 .. N : f[n] \in {p, Null}
  BY <1>0, <1>4
<1> QED BY <1>0, <1>1, <1>5

LEMMA FewPredecessors ==
  ASSUME DInv, NEW b, ~(Cardinality(Pres(b)) >= 2), NEW p \in Pres(b)
  PROVE  \A q \in Pres(b) : q = p
<1> DEFINE N == Len(blocks)
           f == [k \in 1 .. N |-> blocks[k]]
<1>1. N \in Nat /\ DOMAIN blocks = 1 .. N
  BY Typed DEF DInv, IInv
<1>2. f \in Surjection(1 .. N, Listed)
  BY <1>1 DEF Surjection, Listed, ToSet
<1>3. IsFiniteSet(1 .. N)
  <2>1. 1 \in Int /\ N \in Int
    BY <1>1
  <2> QED BY <2>1, FS_Interval
<1>4. IsFiniteSet(Listed)
  BY <1>2, <1>3, FS_Surjection
<1>5. IsFiniteSet(Pres(b))
  <2>1. Pres(b) \subseteq Listed
    BY DEF Pres
  <2> QED BY <1>4, <2>1, FS_Subset
<1>6. Cardinality(Pres(b)) \in Nat
  BY <1>5, FS_CardinalityType
<1>7. Cardinality(Pres(b)) # 0
  BY <1>5, FS_EmptySet
<1>8. Cardinality(Pres(b)) = 1
  BY <1>6, <1>7
<1> QED BY <1>5, <1>8, FS_Singleton

LEMMA FrontierIs ==
  ASSUME TreeRight, NEW b \in Reachable, NEW d \in Reachable
  PROVE  b \in frontier[d] <=> InFrontier(Dominated, d, b)
<1>0. /\ Reachable \subseteq Listed /\ Listed \subseteq Blocks /\ EntryStaysFirst
      /\ \A q \in Pres(b) : q \in Blocks
  BY Shape, BuiltFacts DEF TreeRight, Built, DInv
<1>1. b \in frontier[d] <=> /\ Cardinality(Pres(b)) >= 2
                            /\ \E p \in Pres(b) : d \in runners(p, idom[b])
  <2>1. frontier[d] = {c \in {e \in Listed : Cardinality(Pres(e)) >= 2} :
                         d \in UNION {runners(p, idom[c]) : p \in Pres(c)}}
    BY <1>0 DEF TreeRight, Built, DInv, Collected
  <2> QED BY <1>0, <2>1
<1>2. InFrontier(Dominated, d, b) <=> /\ \E p \in Pres(b) \cap Reachable : Dominates(d, p)
                                      /\ d = b \/ ~Dominates(d, b)
  <2>1. \A x \in Reachable : x \in Dominated[d] <=> Dominates(d, x)
    BY DominatedIs
  <2> QED BY <2>1 DEF InFrontier
<1>3. CASE b = Entry
  <2>1. Pres(b) = {}
    BY <1>0, <1>3 DEF EntryStaysFirst
  <2> QED BY <1>1, <1>2, <2>1
<1>4. CASE b # Entry
  <2> DEFINE stop == idom[b]
  <2>1. Immediate(stop, b)
    BY <1>4 DEF TreeRight
  <2>2. stop \in Reachable \ {b} /\ Dominates(stop, b)
    BY <2>1 DEF Immediate
  <2>3. ~Dominates(d, stop) <=> (d = b \/ ~Dominates(d, b))
    <3>1. ASSUME Dominates(d, stop)
          PROVE  Dominates(d, b) /\ d # b
      <4>1. Dominates(d, b)
        BY <2>2, <3>1, DominatesTransitive DEF TreeRight
      <4>2. d # b
        BY <2>2, <3>1, DominatesAntisymmetric DEF TreeRight
      <4> QED BY <4>1, <4>2
    <3>2. ASSUME Dominates(d, b), d # b
          PROVE  Dominates(d, stop)
      BY <2>1, <3>2 DEF Immediate
    <3> QED BY <3>1, <3>2
  <2> HIDE DEF stop
  <2>4. \A p \in Pres(b) \cap Reachable :
          d \in runners(p, stop) <=> Dominates(d, p) /\ (d = b \/ ~Dominates(d, b))
    <3>1. ASSUME NEW p \in Pres(b) \cap Reachable
          PROVE  d \in runners(p, stop) <=> Dominates(d, p) /\ ~Dominates(d, stop)
      <4>1. Dominates(stop, p)
        BY <2>2, DominatesBefore DEF TreeRight
      <4> QED BY <2>2, <4>1, RunnersAre
    <3> QED BY <2>3, <3>1
  <2>5. \A p \in Pres(b) \ Reachable : d \notin runners(p, stop)
    <3>1. \A p \in Blocks \ Reachable : runners(p, stop) \cap Reachable = {}
      BY RunnerOffTheTree
    <3> QED BY <1>0, <3>1
  <2>6. ASSUME InFrontier(Dominated, d, b)
        PROVE  Cardinality(Pres(b)) >= 2
    <3>1. PICK p \in Pres(b) \cap Reachable : Dominates(d, p) /\ (d = b \/ ~Dominates(d, b))
      BY <1>2, <2>6
    <3> SUFFICES ASSUME ~(Cardinality(Pres(b)) >= 2) PROVE FALSE
      OBVIOUS
    <3>2. \A q \in Pres(b) : q = p
      BY FewPredecessors DEF TreeRight, Built
    <3>3. d # b /\ Dominates(d, b)
      BY <1>4, <3>1, <3>2, OnlyWay DEF TreeRight
    <3> QED BY <3>1, <3>3
  <2>7. (\E p \in Pres(b) : d \in runners(p, stop))
          <=> /\ \E p \in Pres(b) \cap Reachable : Dominates(d, p)
              /\ d = b \/ ~Dominates(d, b)
    BY <2>4, <2>5
  <2> QED BY <1>1, <1>2, <2>6, <2>7 DEF stop
<1> QED BY <1>3, <1>4

(* Where tarjan names no wrong dominator, which is what the graphs that    *)
(* the front end makes are checked for, and loses none, the runners of     *)
(* calcDominanceFrontier collect the dominance frontiers: whatever the     *)
(* graph, its order of blocks and the order of its successors.             *)
THEOREM FrontiersAreRight == DominatorsSpec => [](IdomNeverWrong => FrontierRight)
<1>1. DInv => (IdomNeverWrong => FrontierRight)
  <2> SUFFICES ASSUME DInv, IdomNeverWrong, phase = "built",
                      \A b \in Reachable \ {Entry} : idom[b] # Null
               PROVE  \A b, d \in Reachable : b \in frontier[d] <=> InFrontier(Dominated, d, b)
    BY DEF FrontierRight
  <2>1. TreeRight
    BY TreeIsRight DEF Built
  <2> QED BY <2>1, FrontierIs
<1> QED BY <1>1, BuildInvariance, PTL
=============================================================================
