----------------------------- MODULE MCKernelSrt -----------------------------
(***************************************************************************)
(* Small instances of KernelSrt: the programs of the consoles.              *)
(***************************************************************************)
EXTENDS KernelSrt

\* Two consoles of which one does an I/O, as PLANI_1 and PLANI_2.
ProgramaSrt ==
    [p \in Proceso |-> IF p = 0 THEN <<"NO_OP", "I_O", "EXIT">>
                                ELSE <<"NO_OP", "EXIT">>]

\* Instructions that let an interruption in, and no I/O.
ProgramaCorto == [p \in Proceso |-> <<"NO_OP", "EXIT">>]

\* The first process can be interrupted twice.
ProgramaLargo ==
    [p \in Proceso |-> IF p = 0 THEN <<"NO_OP", "NO_OP", "NO_OP", "EXIT">>
                                ELSE <<"I_O", "EXIT">>]
=============================================================================
