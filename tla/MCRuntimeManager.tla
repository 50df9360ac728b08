-------------------------- MODULE MCRuntimeManager --------------------------
(* One instance of each application, for TLC.                               *)
EXTENDS RuntimeManager

OneEach == [i \in Inst |-> IF i = "b1" THEN "b" ELSE "a"]
=============================================================================
