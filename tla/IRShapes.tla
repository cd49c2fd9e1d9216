------------------------------ MODULE IRShapes -------------------------------
(***************************************************************************)
(* Families of IR programs by shape: every way three blocks of main can be *)
(* left, in front of or behind a function of up to two parameters, with    *)
(* blocks that give one or several VM instructions, and with or without    *)
(* global initialisers.  They are never executed, only linked.             *)
(***************************************************************************)
EXTENDS IRPrograms

MainBlocks == {"M1", "M2", "M3"}

(* How a block of main is left: by falling through, a jump or a branch. *)
Exits == {<< >>} \cup {<<Goto(b)>> : b \in MainBlocks}
                 \cup {<<If("x", b, c)>> : b \in MainBlocks, c \in MainBlocks}

Parameters == {<< >>, <<"p">>, <<"p", "q">>}
Callee(params) == "f#" \o ToString(Len(params))
CallF(params) == CallOf(Callee(params), [k \in DOMAIN params |-> V("x")])

Fillers(params) == {<<Set("x", K(1))>>,
                    <<Set("x", Bin("ADD", V("x"), K(1)))>>,
                    <<Set("x", CallF(params)), Set("t", CallOf("println", <<V("x")>>))>>}

F(params, looping) ==
  Fun(Callee(params), params,
      <<BB("F1", <<Set("x", CallF(params))>> \o
                 IF looping THEN <<If("x", "F1", "F2")>> ELSE << >>),
        BB("F2", <<Return(V("x"))>>)>>)

MainOf(filler, exit1, exit2, params) ==
  Main(<<BB("M1", filler \o exit1),
         BB("M2", <<Set("x", CallF(params))>> \o exit2),
         BB("M3", <<Return(NoOperand)>>)>>)

Initialisers == {<< >>, <<Set("g", K(1)), Set("h", Bin("ADD", V("g"), K(2)))>>}

Shapes ==
  UNION {{Program(globals, IF mainFirst THEN <<MainOf(filler, e1, e2, params), F(params, e2 = e1)>>
                                        ELSE <<F(params, e2 = e1), MainOf(filler, e1, e2, params)>>) :
            globals \in Initialisers, mainFirst \in BOOLEAN,
            filler \in Fillers(params), e1 \in Exits, e2 \in Exits} : params \in Parameters}
=============================================================================
