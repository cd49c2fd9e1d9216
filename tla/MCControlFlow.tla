--------------------------- MODULE MCControlFlow ----------------------------
(* Model checking the layout of statements in blocks: every pair of        *)
(* statements of two levels.                                               *)
EXTENDS ControlFlow

(* How a block of the inner level may look: "straight" code, also empty,   *)
(* and a way to leave a loop in an arm of a conditional.                   *)
Flat == {<<Do("x")>>, <<Do("x"), Return>>}
Leave == {<<Break>>, <<Continue>>, <<Do("x"), Break, Do("y")>>}

Arms == {<< >>} \cup Flat

Inner == {If("c", a, e) : a \in Flat, e \in Arms}
InnerLoops == {While("w", << >>), While("w", <<Do("x")>>), For("i", "w", "s", <<Do("x"), Continue>>)}
InLoop == {If("c", a, e) : a \in Flat \cup Leave, e \in Arms \cup {<<Break>>}}

Bodies == {<< >>, <<Do("x")>>, <<Do("x"), Continue>>}
          \cup {<<s>> : s \in InLoop \cup InnerLoops} \cup {<<s, Do("y")>> : s \in InLoop \cup InnerLoops}
          \cup {<<Do("y"), s>> : s \in InLoop \cup InnerLoops}
ForBodies == Bodies \cup {<<Break>>, <<Do("x"), Break>>}

Outer == {Do("z"), Return} \cup {While("v", b) : b \in Bodies}
         \cup {For("j", "v", "t", b) : b \in ForBodies}
         \cup {If("d", a, e) : a \in Flat, e \in Arms \cup {<<s>> : s \in Inner \cup InnerLoops}}

Second == {Do("q"), If("e", <<Do("q")>>, << >>), While("u", <<If("e", <<Break>>, << >>)>>)}

Programs == {<<s, t, Do("end")>> : s \in Outer, t \in Second} \cup {<<s>> : s \in Outer}

Compilation(body, main, ir, cfg) ==
  [body |-> body, main |-> main, simplifyIR |-> ir, simplifyCFG |-> cfg]

(* A statement behind a jump leaves code that simplifyIR has to drop. *)
MCCompilations ==
  {Compilation(p, main, TRUE, cfg) : p \in Programs, main, cfg \in BOOLEAN}
  \cup {Compilation(Append(p, Return), main, TRUE, FALSE) : p \in Programs, main \in BOOLEAN}

(* if (d) { x  if (c) { y }  z }  end *)
MCNested ==
  {Compilation(<<If("d", <<Do("x"), If("c", <<Do("y")>>, << >>), Do("z")>>, << >>), Do("end")>>,
           main, ir, TRUE) : main, ir \in BOOLEAN}
=============================================================================
