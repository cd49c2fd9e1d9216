-------------------------- MODULE OptimisedProgram ---------------------------
(***************************************************************************)
(* The peephole pass between the bytecode generator and the virtual        *)
(* machine: the pass rewrites a program, then the machine executes the     *)
(* program as it was generated, and after that the rewritten one on the    *)
(* same input.                                                             *)
(*                                                                         *)
(* The second execution may take as many turns as the first took, since    *)
(* the pass only erases instructions and shortens jumps.  This bounds the  *)
(* execution of programs that a wrong rewriting makes endless.             *)
(***************************************************************************)
EXTENDS VM, SequencesExt

CONSTANT IRs    \* the programs, before code is generated; Programs are the same linked

VARIABLES
  source, blocks, node, window, block, at, changed, outcome,  \* of Peephole
  stage,      \* "rewrite", "plain", "rewritten"
  plain,      \* the linked program without the pass
  words,      \* what read has delivered, then what it has still to deliver
  turns,      \* the turns taken by the first execution, then those left
  expected,   \* how the first execution ended
  loose       \* the pass has made a change the code around it does not justify

P == INSTANCE Peephole

machine == <<prog, reg, frame, pc, mode, status, out>>
pass == <<source, blocks, node, window, block, at, changed, outcome>>
all == <<machine, pass, stage, plain, words, turns, expected, loose>>

OptimisedInit ==
  /\ P!Init
  /\ plain = P!Result
  /\ prog = plain /\ Init
  /\ stage = "rewrite"
  /\ words = << >> /\ turns = 0 /\ expected = << >> /\ loose = FALSE

-----------------------------------------------------------------------------
(* What justifies an erasure *)

(* The two instructions a rewriting compares follow each other in their    *)
(* block; a STOREX in front of a JIF stores to a variable that nothing     *)
(* else mentions; and the initialisers keep their number.                  *)
Neighbours == at > 1 /\ P!Here[at - 1] = Last(window)
Elsewhere(id) == UNION {Mentioned(node[j]) : j \in DOMAIN node \ {id}}
Justified(id) ==
  /\ block # 1
  /\ Neighbours
  /\ id = P!Here[at] \/ node[id].name \notin Elsewhere(id)

Rewrite ==
  /\ stage = "rewrite"
  /\ P!Skip \/ P!Visit \/ P!NextBlock \/ P!NextRound \/ P!Finish
  /\ LET erased == {id \in DOMAIN node : node[id] # P!Null /\ node'[id] = P!Null}
     IN loose' = (loose \/ \E id \in erased : ~Justified(id))
  /\ UNCHANGED <<machine, stage, plain, words, turns, expected>>

(* Relocation, and a new virtual machine. *)
Start(p) ==
  /\ prog' = p
  /\ reg' = [r \in Reg |-> None]
  /\ frame' = <<NewFrame>>
  /\ pc' = 0 /\ mode' = "INIT" /\ status' = "running" /\ out' = << >>

StartPlain ==
  /\ stage = "rewrite" /\ outcome = "done"
  /\ stage' = "plain"
  /\ Start(plain)
  /\ UNCHANGED <<pass, plain, words, turns, expected, loose>>

Reading == Fetch({"CALL"}) /\ Inst.target = Read

RunPlain ==
  /\ stage = "plain" /\ status = "running"
  /\ Next
  /\ words' = IF Reading THEN Append(words, reg'[1]) ELSE words
  /\ turns' = turns + 1
  /\ UNCHANGED <<pass, stage, plain, expected, loose>>

StartRewritten ==
  /\ stage = "plain" /\ status # "running"
  /\ stage' = "rewritten"
  /\ expected' = [out |-> out, status |-> status]
  /\ Start(P!Result)
  /\ UNCHANGED <<pass, plain, words, turns, loose>>

RunRewritten ==
  /\ stage = "rewritten" /\ status = "running" /\ turns > 0
  /\ Next
  /\ IF Reading /\ words # << >>
       THEN reg'[1] = Head(words) /\ words' = Tail(words) ELSE words' = words
  /\ turns' = turns - 1
  /\ UNCHANGED <<pass, stage, plain, expected, loose>>

Finished == stage = "rewritten" /\ (status # "running" \/ turns = 0)

OptimisedTerminated == (Finished \/ outcome = "crashed") /\ UNCHANGED all

OptimisedNext ==
  \/ Rewrite \/ StartPlain \/ RunPlain \/ StartRewritten \/ RunRewritten
  \/ OptimisedTerminated

OptimisedSpec == OptimisedInit /\ [][OptimisedNext]_all

-----------------------------------------------------------------------------
(* Properties *)

Same == /\ [out |-> out, status |-> status] = expected
        /\ words = << >>

(* The optimised program reads, prints and ends as the plain one does.     *)
SameBehaviour == Finished => Same

(* It does if every instruction was erased for a reason the code around it *)
(* gives.                                                                  *)
JustifiedIsSafe == Finished /\ ~loose => Same

(* While nothing loose was done, the machine's calling convention holds in *)
(* the rewritten program too.                                              *)
CallsStayLinked == stage = "rewritten" /\ ~loose => CallProtocol
=============================================================================
