---------------------------- MODULE Planificador ----------------------------
(***************************************************************************)
(* What the scheduler promises of each process, whatever threads and lists  *)
(* it is built from: the states of the diagrams of Kernel/documentacion,    *)
(* with one process executing at most, first come first served, and a       *)
(* process that ends once and for all.                                      *)
(***************************************************************************)
EXTENDS Sequences

CONSTANT Proceso

VARIABLES
    etapa,  \* the state of each process
    cola    \* the processes in READY, first the next to execute

varsPlanificador == <<etapa, cola>>

Pasa(p, de, a) == etapa[p] = de /\ etapa' = [etapa EXCEPT ![p] = a]

Init ==
    /\ etapa = [p \in Proceso |-> "AFUERA"]
    /\ cola = <<>>

Ingresar(p) == Pasa(p, "AFUERA", "NEW") /\ UNCHANGED cola

\* ADMITIDO: on its way to READY.
Admitir(p) == Pasa(p, "NEW", "ADMITIDO") /\ UNCHANGED cola

Encolar(p) == Pasa(p, "ADMITIDO", "READY") /\ cola' = Append(cola, p)

Despachar(p) ==
    /\ \A q \in Proceso : etapa[q] # "EXEC"
    /\ cola # <<>> /\ Head(cola) = p
    /\ Pasa(p, "READY", "EXEC")
    /\ cola' = Tail(cola)

Bloquear(p) == Pasa(p, "EXEC", "BLOCK") /\ UNCHANGED cola

Desbloquear(p) == Pasa(p, "BLOCK", "ADMITIDO") /\ UNCHANGED cola

\* The I/O of a suspended process ends.
SuspReady(p) == Pasa(p, "BLOCK", "SUSP_READY") /\ UNCHANGED cola

Reanudar(p) == Pasa(p, "SUSP_READY", "ADMITIDO") /\ UNCHANGED cola

Finalizar(p) == Pasa(p, "EXEC", "EXIT") /\ UNCHANGED cola

Next ==
    \E p \in Proceso :
       \/ Ingresar(p) \/ Admitir(p) \/ Encolar(p) \/ Despachar(p)
       \/ Bloquear(p) \/ Desbloquear(p) \/ SuspReady(p) \/ Reanudar(p)
       \/ Finalizar(p)

Spec == Init /\ [][Next]_varsPlanificador
=============================================================================
