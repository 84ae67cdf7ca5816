----------------------------- MODULE KernelFifo -----------------------------
(***************************************************************************)
(* The Kernel with the short-term scheduler FIFO (fifo.c) and the CPU it    *)
(* talks to through the dispatch socket.  The CPU is reduced to what FIFO   *)
(* can observe of it: it answers one PCB at a time, with the instruction    *)
(* that ended the burst written in estado.                                  *)
(***************************************************************************)
EXTENDS Kernel

vars == <<varsKernel, varsSocket>>

\* Nothing interrupts a burst: the instruction that ends it stands for it.
ASSUME RafagasAssumption ==
    \A p \in Proceso : Programa[p] \in Seq(Operacion \ {"NO_OP"})

Init == InitKernel

-----------------------------------------------------------------------------
(* agregar_a_ready.                                                         *)

\* Mutant: list_add_in_index(ready_l, 0, ...) instead of list_add.
AgregarEntregarAdelante ==
    /\ pc["agregar_a_ready"] = "ready_l"
    /\ lista' = [lista EXCEPT !["ready_l"] = <<pcb["agregar_a_ready"]>> \o @]
    /\ pcb' = [pcb EXCEPT !["agregar_a_ready"] = NULO]
    /\ Ir("agregar_a_ready", "post")
    /\ UNCHANGED <<sem, varsPlp, varsIo, varsMemoria, caida, varsSocket>>

AgregarEntregar ==
    /\ Entregar("agregar_a_ready", "ready_l", "post")
    /\ UNCHANGED varsSocket

AgregarAvisar ==
    /\ Avisar("agregar_a_ready", "post", "s_cpu", "inicio")
    /\ UNCHANGED varsSocket

AgregarAReady ==
    \/ AgregarEsperar
    \/ AgregarElegir("susp_readyM_l", "unblock_l")
    \/ AgregarElegir("unblock_l", "newM_l")
    \/ AgregarElegirNew
    \/ AgregarEntregar \/ AgregarAvisar

-----------------------------------------------------------------------------
(* enviar_a_ejecutar.                                                       *)

EnviarEsperar ==
    /\ Esperar("enviar_a_ejecutar", "s_cpu", "s_proceso_ejecutando")
    /\ UNCHANGED varsSocket

\* Mutant: sem_wait(&s_proceso_ejecutando) is forgotten.
EnviarDespacharSinEspera ==
    /\ pc["enviar_a_ejecutar"] = "s_proceso_ejecutando"
    /\ lista' = [lista EXCEPT !["ready_l"] = Tail(@)]
    /\ LET x == Head(lista["ready_l"])
       IN  haciaCpu' = Append(haciaCpu, [pcb |-> x, estado |-> estado[x]])
    /\ Ir("enviar_a_ejecutar", "inicio")
    /\ UNCHANGED <<sem, pcb, varsPlp, varsIo, varsMemoria, caida, desdeCpu>>

EnviarDespachar ==
    /\ pc["enviar_a_ejecutar"] = "s_proceso_ejecutando"
    /\ Wait("s_proceso_ejecutando")
    /\ lista' = [lista EXCEPT !["ready_l"] = Tail(@)]
    /\ LET x == Head(lista["ready_l"])
       IN  haciaCpu' = Append(haciaCpu, [pcb |-> x, estado |-> estado[x]])
    /\ Ir("enviar_a_ejecutar", "inicio")
    /\ UNCHANGED <<pcb, varsPlp, varsIo, varsMemoria, caida, desdeCpu>>

EnviarAEjecutar == EnviarEsperar \/ EnviarDespachar

-----------------------------------------------------------------------------
(* The CPU: one burst of the PCB received, up to the instruction that       *)
(* returns it.  An invalid instruction returns it with the estado it had.   *)

\* Mutant: EXIT does not write FINALIZADO.
CpuEjecutarSinFinalizado ==
    /\ haciaCpu # <<>>
    /\ LET x == Head(haciaCpu).pcb
           operacion == Programa[x.pid][x.pc + 1]
       IN  desdeCpu' = Append(desdeCpu,
              [pcb    |-> [x EXCEPT !.pc = @ + 1],
               estado |-> IF operacion = "I_O" THEN "BLOQUEADO"
                          ELSE Head(haciaCpu).estado])
    /\ haciaCpu' = Tail(haciaCpu)
    /\ UNCHANGED varsKernel

CpuEjecutar ==
    /\ haciaCpu # <<>>
    /\ LET x == Head(haciaCpu).pcb
           operacion == Programa[x.pid][x.pc + 1]
       IN  desdeCpu' = Append(desdeCpu,
              [pcb    |-> [x EXCEPT !.pc = @ + 1],
               estado |-> CASE operacion = "I_O" -> "BLOQUEADO"
                            [] operacion = "EXIT" -> "FINALIZADO"
                            [] OTHER -> Head(haciaCpu).estado])
    /\ haciaCpu' = Tail(haciaCpu)
    /\ UNCHANGED varsKernel

-----------------------------------------------------------------------------
(* recibir_proceso_de_cpu.                                                  *)

\* Mutant: BLOQUEADO is not among the estados the thread knows.
RecibirPcbSinBloqueado ==
    /\ pc["recibir_proceso_de_cpu"] = "inicio"
    /\ desdeCpu # <<>>
    /\ LET m == Head(desdeCpu)
       IN  /\ pcb' = [pcb EXCEPT !["recibir_proceso_de_cpu"] = m.pcb]
           /\ estado' = [estado EXCEPT ![m.pcb] = m.estado]
           /\ Ir("recibir_proceso_de_cpu",
                 IF m.estado = "FINALIZADO" THEN "finalizado_l" ELSE "muerto")
    /\ desdeCpu' = Tail(desdeCpu)
    /\ UNCHANGED <<lista, sem, varsPlp, contador, varsMemoria, caida, haciaCpu>>

\* With any other estado the thread returns and nobody receives PCBs again.
RecibirPcb ==
    /\ pc["recibir_proceso_de_cpu"] = "inicio"
    /\ desdeCpu # <<>>
    /\ LET m == Head(desdeCpu)
       IN  /\ pcb' = [pcb EXCEPT !["recibir_proceso_de_cpu"] = m.pcb]
           /\ estado' = [estado EXCEPT ![m.pcb] = m.estado]
           /\ Ir("recibir_proceso_de_cpu",
                 CASE m.estado = "FINALIZADO" -> "finalizado_l"
                   [] m.estado = "BLOQUEADO" -> "block_l"
                   [] OTHER -> "muerto")
    /\ desdeCpu' = Tail(desdeCpu)
    /\ UNCHANGED <<lista, sem, varsPlp, contador, varsMemoria, caida, haciaCpu>>

RecibirAvisarFinalizado ==
    /\ Avisar("recibir_proceso_de_cpu", "post_finalizado",
              "s_proceso_finalizado", "post")
    /\ UNCHANGED varsSocket

\* Mutant: s_io_pendiente is not posted.
RecibirAvisarBloqueadoSinPost ==
    /\ pc["recibir_proceso_de_cpu"] = "post_io_pendiente"
    /\ Ir("recibir_proceso_de_cpu", "post")
    /\ UNCHANGED <<lista, sem, pcb, varsPlp, varsIo, varsMemoria, caida,
                   varsSocket>>

RecibirAvisarBloqueado ==
    /\ Avisar("recibir_proceso_de_cpu", "post_io_pendiente",
              "s_io_pendiente", "post")
    /\ UNCHANGED varsSocket

RecibirProcesoDeCpu ==
    \/ RecibirPcb \/ RecibirFinalizado \/ RecibirAvisarFinalizado
    \/ RecibirBloqueado \/ RecibirAvisarBloqueado \/ RecibirLiberarCpu

-----------------------------------------------------------------------------
\* Nothing more has to happen: every console has been answered, or the Kernel
\* has crashed, or it can receive nothing more from the CPU.
Terminado ==
    \/ \A p \in Proceso : consola[p] = "finalizada"
    \/ caida # "no"
    \/ pc["recibir_proceso_de_cpu"] = "muerto"

\* The server idles once nothing more has to happen.
Reposo == Terminado /\ UNCHANGED vars

Next ==
    \/ Vivo(\/ NextKernel /\ UNCHANGED varsSocket
            \/ AgregarAReady \/ EnviarAEjecutar \/ CpuEjecutar
            \/ RecibirProcesoDeCpu)
    \/ Reposo

Spec == Init /\ [][Next]_vars

\* The operating system runs every thread that can go on; the sleeps end.
\* A semaphore has one thread waiting for it, but for s_grado_multiprogramacion,
\* where a bounded number of consoles makes weak fairness enough.
Equidad ==
    /\ \A p \in Proceso :
          WF_vars(Vivo(AtenderConsola(p) /\ UNCHANGED varsSocket))
    /\ WF_vars(Vivo(PasarAReady /\ UNCHANGED varsSocket))
    /\ WF_vars(Vivo(FinalizarProcesos /\ UNCHANGED varsSocket))
    /\ WF_vars(Vivo(SuspenderProceso /\ UNCHANGED varsSocket))
    /\ WF_vars(Vivo(AvisarProcesoSuspReady /\ UNCHANGED varsSocket))
    /\ WF_vars(Vivo(PlanificadorIo /\ UNCHANGED varsSocket))
    /\ WF_vars(Vivo(Io /\ UNCHANGED varsSocket))
    /\ \A x \in PCB : WF_vars(Vivo(Suspencion(x) /\ UNCHANGED varsSocket))
    /\ WF_vars(Vivo(AgregarAReady))
    /\ WF_vars(Vivo(EnviarAEjecutar))
    /\ WF_vars(Vivo(CpuEjecutar))
    /\ WF_vars(Vivo(RecibirProcesoDeCpu))

SpecJusta == Spec /\ Equidad

-----------------------------------------------------------------------------
(* The type invariant.                                                      *)

\* Of the labels of the short-term scheduler those of fifo.c, and every variable
\* what Kernel says.
TypeOK ==
    /\ TipoKernel
    /\ pc["agregar_a_ready"] \in
         {"inicio", "susp_readyM_l", "unblock_l", "newM_l", "ready_l", "post"}
    /\ pc["enviar_a_ejecutar"] \in {"inicio", "s_proceso_ejecutando"}
    /\ pc["recibir_proceso_de_cpu"] \in
         {"inicio", "finalizado_l", "post_finalizado", "block_l",
          "post_io_pendiente", "post", "muerto"}
    /\ caida # "ready_l_corta"

-----------------------------------------------------------------------------
(* Safety.                                                                  *)

TokensCpu ==
    Largo("ready_l") =
        Valor("s_cpu") + En("agregar_a_ready", {"post"})
            + En("enviar_a_ejecutar", {"s_proceso_ejecutando"})

\* Every sem_post that announces a PCB has that PCB in its list, and no PCB of
\* a list goes unannounced: so no list_remove(l, 0) of the scheduler finds its
\* list empty (planificador_largo_plazo.c:170,229, planificador_mediano_plazo.c:
\* 28,56, fifo.c:59-69,100,245).  agregar_a_ready looks at three lists one after
\* the other and still never leaves its loop without a PCB.
TokensCoinciden ==
    /\ TokensNew /\ TokensReady /\ TokensCpu
    /\ TokensIo /\ TokensSusp /\ TokensFinalizado

\* At most one process is between its dispatch and the post of
\* s_proceso_ejecutando, whatever the threads do meanwhile ("QUE NO SE ESTE
\* EJECUTANDO NINGUNO", fifo.c:94).
UnSoloProceso ==
    Valor("s_proceso_ejecutando") + Despachados + Devueltos
      + En("recibir_proceso_de_cpu",
           {"finalizado_l", "post_finalizado", "block_l", "post_io_pendiente",
            "post", "muerto"}) = 1

\* No process is ever in two places of the scheduler at once, even when its
\* timer fires after its I/O has ended (fifo.c:198-276).
PcbEnUnSoloLugar == \A p \in Proceso : Cardinality(Lugares(p)) <= 1

\* The only way to lose a process is the race on block_l (fifo.c:218,320), and
\* every process lost leaves one s_io_pendiente too many behind: sooner or later
\* planificador_io takes from an empty list.
PerdidosConAviso ==
    caida = "no" =>
       Largo("block_l") + Cardinality(Perdidos) =
          Valor("s_io_pendiente") + En("planificador_io", {"quitar"})
             + En("recibir_proceso_de_cpu", {"post_io_pendiente"})

\* Memoria is asked to initialise a pid once and before anything else about it:
\* it looks the pid up in the list procesos (funciones_kernel.c) without
\* checking that it is there.
MensajesEnOrden ==
    [][\A p \in Proceso :
         mem'[p] # mem[p] => (mem'[p] = "INICIALIZAR_PROCESO" <=> mem[p] = "ninguno")]_vars

\* The receiver stops only on an instruction the CPU does not know, never on a
\* legal program (fifo.c:329-333).
MuertoPorInvalida ==
    pc["recibir_proceso_de_cpu"] = "muerto" =>
       LET x == pcb["recibir_proceso_de_cpu"]
       IN  Programa[x.pid][x.pc] = "INVALIDA"

-----------------------------------------------------------------------------
(* Liveness.                                                                *)

\* Every console that connects is answered, or the Kernel crashes: no semaphore
\* is waited for in vain, whether or not the process was suspended, even with
\* PLP and PMP competing for s_grado_multiprogramacion.
TodaConsolaRespondida ==
    \A p \in Proceso :
       (consola[p] = "conectada") ~> (consola[p] = "finalizada" \/ caida # "no")

\* A console is answered, and the Kernel has not crashed, for as long as no other
\* connects: the crashes need two processes.
UnaConsolaRespondida ==
    (consola[0] = "conectada") ~>
       \/ consola[0] = "finalizada" /\ caida = "no"
       \/ \E p \in Proceso \ {0} : consola[p] # "sin_conectar"

-----------------------------------------------------------------------------
(* What comments of the code say and the code does not do.                  *)

\* Processes that are in READY, on their way to it, or in EXEC.
Activos ==
    {p \in Proceso : \E u \in Lugares(p) :
        u[1] \in {"pasar_a_ready", "newM_l", "unblock_l", "susp_readyM_l",
                  "avisar_proceso_susp_ready", "agregar_a_ready", "ready_l",
                  "haciaCpu", "desdeCpu", "recibir_proceso_de_cpu"}}

\* "SIEMPRE QUE EL GRADO DE MULTIPROGRAMACION LO PERMITA"
\* (planificador_largo_plazo.c:158).
GradoRespetado == Cardinality(Activos) <= GRADO_MULTIPROGRAMACION
=============================================================================
