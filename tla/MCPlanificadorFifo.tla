------------------------- MODULE MCPlanificadorFifo -------------------------
(***************************************************************************)
(* Small instances of KernelFifo with its refinement mapping: the programs  *)
(* of the consoles.                                                         *)
(***************************************************************************)
EXTENDS PlanificadorFifo

\* Every console: one I/O, as BASE_1, PLANI_1 and SUSPE_1 of confPruebas.
ProgramaIO == [p \in Proceso |-> <<"I_O", "EXIT">>]

\* A process that does an I/O, one that goes past it and one whose script has a
\* misspelt instruction.
ProgramaMixto ==
    [p \in Proceso |-> CASE p = 0 -> <<"I_O", "EXIT">>
                         [] p = 1 -> <<"EXIT">>
                         [] OTHER -> <<"INVALIDA", "EXIT">>]
=============================================================================
