-------------------------- MODULE MCPromptDelivery --------------------------
(***************************************************************************)
(* Instances of PromptDelivery: the .cfg files choose which prompts, stops *)
(* and attachments arrive and which faults happen.                         *)
(***************************************************************************)
EXTENDS PromptDelivery

CONSTANTS a, b, c, halt, move, s1, s2

MCKind == [e \in Inputs |-> CASE e = halt -> "stop" [] e = move -> "attach"
                              [] OTHER -> "prompt"]
MCTarget == [e \in Inputs |-> IF s2 \in Sessions THEN s2 ELSE s1]
MCEarlier == [e \in Inputs |-> CASE e = b -> {a} [] e = c -> {a, b} [] OTHER -> {}]
============================================================================
