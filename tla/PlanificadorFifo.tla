-------------------------- MODULE PlanificadorFifo --------------------------
(***************************************************************************)
(* KernelFifo implements Planificador: where the PCB of a process is tells  *)
(* the state the process is in.                                             *)
(***************************************************************************)
EXTENDS KernelFifo

EnLista(p, L) == \E l \in L : \E i \in DOMAIN lista[l] : lista[l][i].pid = p

EnHilo(p, h, E) == pc[h] \in E /\ pcb[h] # NULO /\ pcb[h].pid = p

EnCpu(p) ==
    \/ \E i \in DOMAIN haciaCpu : haciaCpu[i].pcb.pid = p
    \/ \E i \in DOMAIN desdeCpu : desdeCpu[i].pcb.pid = p
    \/ EnHilo(p, "recibir_proceso_de_cpu", {"finalizado_l", "block_l", "muerto"})

\* A process that is nowhere has been lost on its way to block_l.
Etapa(p) ==
    CASE consola[p] \in {"sin_conectar", "conectada"} -> "AFUERA"
      [] EnLista(p, {"new_l"}) -> "NEW"
      [] EnLista(p, {"ready_l"}) -> "READY"
      [] EnCpu(p) -> "EXEC"
      [] \/ EnLista(p, {"finalizado_l", "exit_l"})
         \/ EnHilo(p, "finalizar_procesos", {"buscar", "quitar", "despertar"})
            -> "EXIT"
      [] \/ EnLista(p, {"susp_ready_l"})
         \/ EnHilo(p, "io", {"susp_ready_l"}) -> "SUSP_READY"
      [] \/ EnLista(p, {"newM_l", "unblock_l", "susp_readyM_l"})
         \/ EnHilo(p, "pasar_a_ready", {"newM_l"})
         \/ EnHilo(p, "avisar_proceso_susp_ready", {"susp_readyM_l"})
         \/ EnHilo(p, "agregar_a_ready", {"ready_l"})
         \/ EnHilo(p, "io", {"unblock_l"}) -> "ADMITIDO"
      [] OTHER -> "BLOCK"

ColaReady == [i \in DOMAIN lista["ready_l"] |-> lista["ready_l"][i].pid]

P == INSTANCE Planificador WITH etapa <- [p \in Proceso |-> Etapa(p)],
                                cola <- ColaReady

\* Every step of the Kernel under FIFO is a step of Planificador or leaves all
\* the processes where they were: no interleaving of the threads makes a process
\* skip a state, go back to READY twice, overtake another in ready_l or execute
\* while another does (fifo.c:51-338, planificador_largo_plazo.c:162-252).
ImplementaPlanificador == P!Spec
=============================================================================
