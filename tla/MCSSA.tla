------------------------------- MODULE MCSSA --------------------------------
(* Model checking the dominators and SSA: conditionals and loops in each   *)
(* other and behind each other, left early or not, that give values to x   *)
(* and read it.                                                            *)
EXTENDS SSAProgram

Simple ==
  {Do("inc"), Do("set"), If("c", <<Do("inc")>>, <<Do("get")>>), If("c", <<Do("set")>>, << >>),
   If("c", <<Return>>, << >>), While("w", <<Do("inc")>>),
   While("w", <<If("c", <<Break>>, << >>), Do("use")>>),
   For("i", "w", "s", <<If("c", <<Continue>>, << >>), Do("get")>>)}

Bodies == {<<s>> : s \in Simple} \cup {<<s, t>> : s, t \in Simple}

Nested ==
  {While("v", b) : b \in Bodies} \cup {For("j", "v", "t", b) : b \in Bodies}
  \cup {If("d", b, <<Do("use")>>) : b \in Bodies} \cup {If("d", <<Do("use")>>, b) : b \in Bodies}

Fresh == <<Do("set"), Do("inc"), Do("use")>>

(* x of the function, of a loop in a loop, and a parameter. *)
MCPrograms ==
  {<<Do("set")>> \o b \o <<Do("use")>> : b \in Bodies \cup {<<s>> : s \in Nested}}
  \cup {<<While("v", Fresh)>>, <<While("v", <<While("w", Fresh)>>)>>, <<Do("use")>>}

(* x = 1  while (v) { while (w) { x = x + 1 } }  print(x) *)
MCLoopInLoop == {<<Do("set"), While("v", <<While("w", <<Do("inc")>>)>>), Do("use")>>}
=============================================================================
