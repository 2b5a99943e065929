------------------------------ MODULE MCPipes ------------------------------
(***************************************************************************)
(* The pipes of rzh at their smallest: input_master reads the task's input *)
(* and writes the master pty, master_output reads the master pty and       *)
(* writes the task's output.  The two share the master's atom.             *)
(***************************************************************************)
EXTENDS Pipes

CONSTANTS input_master, master_output, infd, master, outfd

MCPipes == {input_master, master_output}
MCAtoms == {infd, master, outfd}

MCReadAtom == [p \in {input_master, master_output} |-> IF p = input_master THEN infd ELSE master]
MCWriteAtom == [p \in {input_master, master_output} |-> IF p = input_master THEN master ELSE outfd]
=============================================================================
