------------------------------ MODULE KernelSrt ------------------------------
(***************************************************************************)
(* The Kernel with the short-term scheduler SRT (sjf.c) and the side of the *)
(* CPU it depends on (CPU.c): ready_l is kept sorted by estimate, and when  *)
(* a process arrives while another executes the CPU is interrupted through  *)
(* a socket of its own.  The thread devoluciones is the label               *)
(* "recibir_proceso_de_cpu" of Kernel.                                      *)
(*                                                                          *)
(* The handshake: agregar_a_ready writes interrupcion, sends the request    *)
(* and waits for s_interrupcion_atendida; devoluciones posts it when the    *)
(* process comes back, and if it comes back INTERRUMPIDO waits for          *)
(* s_espero_replanificacion.  proceso_ejecutando and interrupcion are       *)
(* written under no common mutex with their readers.                        *)
(***************************************************************************)
EXTENDS Kernel, Integers

CONSTANTS
    ESTIMACION_INICIAL, \* kernel.config
    ALFA,               \* kernel.config, in tenths
    Duraciones,         \* what a stay in the CPU may last: a bound of the model
    MODULO              \* 2^32: a uint32_t is a number modulo MODULO

ASSUME EstimacionAssumption ==
    /\ MODULO \in Nat \ {0}
    /\ ESTIMACION_INICIAL \in 0 .. MODULO - 1
    /\ ALFA \in 0 .. 10
    /\ Duraciones \subseteq 0 .. MODULO - 1

VARIABLES
    interrumpidos_l,          \* PCBs that came back INTERRUMPIDO
    s_interrupcion_atendida,  \* value of the semaphore
    s_espero_replanificacion, \* value of the semaphore
    proceso_ejecutando,       \* the flag of that name
    interrupcion,             \* the flag of that name of the Kernel
    lista_size,               \* what mostrar_lista_ready_sjf read, while it runs
    estimado,                 \* estimado_rafaga of the live PCB of each pid
    tiempo,                   \* its tiempo_ejecucion
    pedidos,                  \* interrupt socket: requests on their way
    interrupcionCpu,          \* the flag interrupcion of the CPU
    porLimpiar                \* the CPU is between its send and CPU.c:274

varsEspera == <<interrumpidos_l, s_interrupcion_atendida,
                s_espero_replanificacion>>
varsBanderas == <<proceso_ejecutando, interrupcion, lista_size>>
varsEstimacion == <<estimado, tiempo>>
varsInterrupt == <<pedidos, interrupcionCpu, porLimpiar>>
varsSrt == <<varsEspera, varsBanderas, varsEstimacion, varsInterrupt>>
vars == <<varsKernel, varsSocket, varsSrt>>

Init ==
    /\ InitKernel
    /\ interrumpidos_l = <<>>
    /\ s_interrupcion_atendida = 0
    /\ s_espero_replanificacion = 0
    /\ proceso_ejecutando = FALSE
    /\ interrupcion = FALSE
    /\ lista_size = 0
    /\ estimado = [p \in Proceso |-> ESTIMACION_INICIAL]
    /\ tiempo = [p \in Proceso |-> 0]
    /\ pedidos = 0
    /\ interrupcionCpu = FALSE
    /\ porLimpiar = FALSE

-----------------------------------------------------------------------------
(* agregar_a_ready_sjf.                                                     *)

\* Mutant: list_add, as FIFO does.
AgregarAlFinal(l, x) == Append(l, x)

\* list_add_sorted(ready_l, x, menor_estimacion): x goes behind the first
\* elements whose estimate is not greater than its own.
AgregarOrdenado(l, x) ==
    LET adelante == {i \in DOMAIN l :
                       \A j \in 1 .. i : estimado[l[j].pid] <= estimado[x.pid]}
    IN  InsertAt(l, Cardinality(adelante) + 1, x)

AgregarEntregar ==
    /\ pc["agregar_a_ready"] = "ready_l"
    /\ lista' = [lista EXCEPT !["ready_l"] =
                                AgregarOrdenado(@, pcb["agregar_a_ready"])]
    /\ pcb' = [pcb EXCEPT !["agregar_a_ready"] = NULO]
    /\ Ir("agregar_a_ready", "proceso_ejecutando")
    /\ UNCHANGED <<sem, varsPlp, varsIo, varsMemoria, caida, varsSocket, varsSrt>>

\* if(proceso_ejecutando), without mx_proceso_ejecutando.
AgregarMirarEjecutando ==
    /\ pc["agregar_a_ready"] = "proceso_ejecutando"
    /\ Ir("agregar_a_ready",
          IF proceso_ejecutando THEN "interrumpir" ELSE "mostrar")
    /\ UNCHANGED <<lista, sem, pcb, varsPlp, varsIo, varsMemoria, caida,
                   varsSocket, varsSrt>>

\* interrumpir: the flag, and then the request.
Interrumpir ==
    /\ pc["agregar_a_ready"] = "interrumpir"
    /\ interrupcion' = TRUE
    /\ Ir("agregar_a_ready", "enviar_intr")
    /\ UNCHANGED <<lista, sem, pcb, varsPlp, varsIo, varsMemoria, caida,
                   varsSocket, varsEspera, proceso_ejecutando, lista_size,
                   varsEstimacion, varsInterrupt>>

InterrumpirEnviar ==
    /\ pc["agregar_a_ready"] = "enviar_intr"
    /\ pedidos' = pedidos + 1
    /\ Ir("agregar_a_ready", "s_interrupcion_atendida")
    /\ UNCHANGED <<lista, sem, pcb, varsPlp, varsIo, varsMemoria, caida,
                   varsSocket, varsEspera, varsBanderas, varsEstimacion,
                   interrupcionCpu, porLimpiar>>

AgregarEsperarAtendida ==
    /\ pc["agregar_a_ready"] = "s_interrupcion_atendida"
    /\ s_interrupcion_atendida > 0
    /\ s_interrupcion_atendida' = s_interrupcion_atendida - 1
    /\ Ir("agregar_a_ready", "interrumpidos_l")
    /\ UNCHANGED <<lista, sem, pcb, varsPlp, varsIo, varsMemoria, caida,
                   varsSocket, interrumpidos_l, s_espero_replanificacion,
                   varsBanderas, varsEstimacion, varsInterrupt>>

\* Mutant: the interrupted PCB is taken out of its list and not put back.
AgregarInterrumpidoSinReady ==
    /\ pc["agregar_a_ready"] = "interrumpidos_l"
    /\ interrumpidos_l # <<>>
    /\ interrumpidos_l' = Tail(interrumpidos_l)
    /\ Ir("agregar_a_ready", "post_replanificacion")
    /\ UNCHANGED <<lista, sem, pcb, varsPlp, varsIo, varsMemoria, caida,
                   varsSocket, s_interrupcion_atendida,
                   s_espero_replanificacion, varsBanderas, varsEstimacion,
                   varsInterrupt>>

\* Mutant: list_get instead of list_remove.
AgregarInterrumpidoSinQuitar ==
    /\ pc["agregar_a_ready"] = "interrumpidos_l"
    /\ interrumpidos_l # <<>>
    /\ lista' = [lista EXCEPT !["ready_l"] =
                                AgregarOrdenado(@, Head(interrumpidos_l))]
    /\ Ir("agregar_a_ready", "post_replanificacion")
    /\ UNCHANGED <<sem, pcb, varsPlp, varsIo, varsMemoria, caida, varsSocket,
                   varsSrt>>

\* The interrupted PCB goes back to ready_l, without mx_ready_l.
AgregarInterrumpido ==
    /\ pc["agregar_a_ready"] = "interrumpidos_l"
    /\ interrumpidos_l # <<>>
    /\ interrumpidos_l' = Tail(interrumpidos_l)
    /\ lista' = [lista EXCEPT !["ready_l"] =
                                AgregarOrdenado(@, Head(interrumpidos_l))]
    /\ Ir("agregar_a_ready", "post_replanificacion")
    /\ UNCHANGED <<sem, pcb, varsPlp, varsIo, varsMemoria, caida,
                   varsSocket, s_interrupcion_atendida,
                   s_espero_replanificacion, varsBanderas, varsEstimacion,
                   varsInterrupt>>

AgregarSinInterrumpido ==
    /\ pc["agregar_a_ready"] = "interrumpidos_l"
    /\ interrumpidos_l = <<>>
    /\ Ir("agregar_a_ready", "interrupcion")
    /\ UNCHANGED <<lista, sem, pcb, varsPlp, varsIo, varsMemoria, caida,
                   varsSocket, varsSrt>>

AgregarAvisarReplanificacion ==
    /\ pc["agregar_a_ready"] = "post_replanificacion"
    /\ s_espero_replanificacion' = s_espero_replanificacion + 1
    /\ Ir("agregar_a_ready", "post_cpu")
    /\ UNCHANGED <<lista, sem, pcb, varsPlp, varsIo, varsMemoria, caida,
                   varsSocket, interrumpidos_l, s_interrupcion_atendida,
                   varsBanderas, varsEstimacion, varsInterrupt>>

\* Mutant: the s_cpu of the interrupted PCB is not posted.
AgregarAvisarInterrumpidoSinPost ==
    /\ pc["agregar_a_ready"] = "post_cpu"
    /\ Ir("agregar_a_ready", "interrupcion")
    /\ UNCHANGED <<lista, sem, pcb, varsPlp, varsIo, varsMemoria, caida,
                   varsSocket, varsSrt>>

AgregarAvisarInterrumpido ==
    /\ Avisar("agregar_a_ready", "post_cpu", "s_cpu", "interrupcion")
    /\ UNCHANGED <<varsSocket, varsSrt>>

AgregarFinInterrupcion ==
    /\ pc["agregar_a_ready"] = "interrupcion"
    /\ interrupcion' = FALSE
    /\ Ir("agregar_a_ready", "mostrar")
    /\ UNCHANGED <<lista, sem, pcb, varsPlp, varsIo, varsMemoria, caida,
                   varsSocket, varsEspera, proceso_ejecutando, lista_size,
                   varsEstimacion, varsInterrupt>>

\* mostrar_lista_ready_sjf reads the size of ready_l ...
AgregarMostrar ==
    /\ pc["agregar_a_ready"] = "mostrar"
    /\ lista_size' = Len(lista["ready_l"])
    /\ Ir("agregar_a_ready", "recorrer")
    /\ UNCHANGED <<lista, sem, pcb, varsPlp, varsIo, varsMemoria, caida,
                   varsSocket, varsEspera, proceso_ejecutando, interrupcion,
                   varsEstimacion, varsInterrupt>>

\* ... and then its elements; if enviar_a_ejecutar took one meanwhile, the
\* list_get of the last may answer NULL, which is dereferenced.
AgregarRecorrer ==
    /\ pc["agregar_a_ready"] = "recorrer"
    /\ \/ Ir("agregar_a_ready", "post") /\ caida' = caida
       \/ /\ Len(lista["ready_l"]) < lista_size
          /\ caida' = "ready_l_corta"
          /\ pc' = pc
    /\ lista_size' = 0
    /\ UNCHANGED <<lista, sem, pcb, varsPlp, varsIo, varsMemoria, varsSocket,
                   varsEspera, proceso_ejecutando, interrupcion,
                   varsEstimacion, varsInterrupt>>

AgregarAvisar ==
    /\ Avisar("agregar_a_ready", "post", "s_cpu", "inicio")
    /\ UNCHANGED <<varsSocket, varsSrt>>

AgregarAReady ==
    \/ /\ \/ AgregarEsperar
          \/ AgregarElegir("susp_readyM_l", "unblock_l")
          \/ AgregarElegir("unblock_l", "newM_l")
          \/ AgregarElegirNew
       /\ UNCHANGED varsSrt
    \/ AgregarEntregar \/ AgregarMirarEjecutando
    \/ Interrumpir \/ InterrumpirEnviar \/ AgregarEsperarAtendida
    \/ AgregarInterrumpido \/ AgregarSinInterrumpido
    \/ AgregarAvisarReplanificacion \/ AgregarAvisarInterrumpido
    \/ AgregarFinInterrupcion \/ AgregarMostrar \/ AgregarRecorrer
    \/ AgregarAvisar

-----------------------------------------------------------------------------
(* enviar_a_ejecutar_sjf: first s_proceso_ejecutando, then s_cpu.           *)

EnviarEsperar ==
    /\ Esperar("enviar_a_ejecutar", "s_proceso_ejecutando", "s_cpu")
    /\ UNCHANGED <<varsSocket, varsSrt>>

EnviarEsperarCpu ==
    /\ pc["enviar_a_ejecutar"] = "s_cpu"
    /\ Wait("s_cpu")
    /\ Ir("enviar_a_ejecutar", "ready_l")
    /\ UNCHANGED <<lista, pcb, varsPlp, varsIo, varsMemoria, caida,
                   varsSocket, varsSrt>>

EnviarTomar ==
    /\ pc["enviar_a_ejecutar"] = "ready_l"
    /\ Tomar("enviar_a_ejecutar", "ready_l", "enviar")
    /\ UNCHANGED <<sem, varsPlp, varsIo, varsMemoria, caida, varsSocket,
                   varsSrt>>

\* The PCB is sent and proceso_ejecutando written, under mx_proceso_ejecutando.
EnviarDespachar ==
    /\ pc["enviar_a_ejecutar"] = "enviar"
    /\ LET x == pcb["enviar_a_ejecutar"]
       IN  haciaCpu' = Append(haciaCpu, [pcb |-> x, estado |-> estado[x]])
    /\ proceso_ejecutando' = TRUE
    /\ pcb' = [pcb EXCEPT !["enviar_a_ejecutar"] = NULO]
    /\ Ir("enviar_a_ejecutar", "inicio")
    /\ UNCHANGED <<lista, sem, varsPlp, varsIo, varsMemoria, caida, desdeCpu,
                   varsEspera, interrupcion, lista_size, varsEstimacion,
                   varsInterrupt>>

EnviarAEjecutar ==
    EnviarEsperar \/ EnviarEsperarCpu \/ EnviarTomar \/ EnviarDespachar

-----------------------------------------------------------------------------
(* The CPU.  An instruction and the send of the PCB it returns are one step; *)
(* interrupcion = false of procesarPCB comes after the send.                 *)

\* Mutant: the program counter stays.
Quieto(x) == x

\* program_counter++.
Siguiente(x) == [x EXCEPT !.pc = @ + 1]

\* One cycle: NO_OP is followed by the check of the interrupt flag, the others
\* return the PCB whatever the flag says.
CpuEjecutar ==
    /\ ~porLimpiar
    /\ haciaCpu # <<>>
    /\ LET x == Head(haciaCpu).pcb
           operacion == Programa[x.pid][x.pc + 1]
           sigue == operacion = "NO_OP" /\ ~interrupcionCpu
           queda == CASE operacion = "I_O" -> "BLOQUEADO"
                      [] operacion = "EXIT" -> "FINALIZADO"
                      [] operacion = "NO_OP" /\ ~sigue -> "INTERRUMPIDO"
                      [] OTHER -> Head(haciaCpu).estado
           corriendo == [pcb |-> Siguiente(x), estado |-> queda]
       IN  /\ haciaCpu' = IF sigue THEN [haciaCpu EXCEPT ![1] = corriendo]
                                   ELSE Tail(haciaCpu)
           /\ desdeCpu' = IF sigue THEN desdeCpu ELSE Append(desdeCpu, corriendo)
           /\ porLimpiar' = ~sigue
    /\ UNCHANGED <<varsKernel, varsEspera, varsBanderas, varsEstimacion,
                   pedidos, interrupcionCpu>>

CpuLimpiar ==
    /\ porLimpiar
    /\ porLimpiar' = FALSE
    /\ interrupcionCpu' = FALSE
    /\ UNCHANGED <<varsKernel, varsSocket, varsEspera, varsBanderas,
                   varsEstimacion, pedidos>>

\* The thread atencionInterrupt.
AtencionInterrupt ==
    /\ pedidos > 0
    /\ pedidos' = pedidos - 1
    /\ interrupcionCpu' = TRUE
    /\ UNCHANGED <<varsKernel, varsSocket, varsEspera, varsBanderas,
                   varsEstimacion, porLimpiar>>

-----------------------------------------------------------------------------
(* devoluciones.                                                            *)

\* calcular_estimacion, whose result is truncated to an integer.
CalcularEstimacion(e, t) == (t * (10 - ALFA) + ALFA * e) \div 10

\* Mutant: estimado_rafaga is an int.
ActualizarEstimacionConSigno(e, t) == e - t

\* actualizar_estimacion: unsigned, so the test for < 0 is never true.
ActualizarEstimacion(e, t) == (e - t) % MODULO

RecibirPcb ==
    /\ pc["recibir_proceso_de_cpu"] = "inicio"
    /\ desdeCpu # <<>>
    /\ proceso_ejecutando' = FALSE
    /\ desdeCpu' = Tail(desdeCpu)
    /\ LET m == Head(desdeCpu)
           p == m.pcb.pid
       IN  /\ pcb' = [pcb EXCEPT !["recibir_proceso_de_cpu"] = m.pcb]
           /\ estado' = [estado EXCEPT ![m.pcb] = m.estado]
           /\ Ir("recibir_proceso_de_cpu",
                 CASE m.estado = "INTERRUMPIDO" -> "interrumpidos_l"
                   [] m.estado = "BLOQUEADO" -> "block_l"
                   [] m.estado = "FINALIZADO" -> "finalizado_l"
                   [] OTHER -> "descartar")
           /\ \E d \in Duraciones :
                LET t == (tiempo[p] + d) % MODULO
                IN  CASE m.estado = "INTERRUMPIDO" ->
                           /\ estimado' = [estimado EXCEPT ![p] =
                                                 ActualizarEstimacion(@, t)]
                           /\ tiempo' = [tiempo EXCEPT ![p] = t]
                      [] m.estado = "BLOQUEADO" ->
                           /\ estimado' = [estimado EXCEPT ![p] =
                                                 CalcularEstimacion(@, t)]
                           /\ tiempo' = [tiempo EXCEPT ![p] = 0]
                      [] OTHER -> UNCHANGED estimado
                                  /\ tiempo' = [tiempo EXCEPT ![p] = t]
    /\ UNCHANGED <<lista, sem, varsPlp, contador, varsMemoria, caida, haciaCpu,
                   varsEspera, interrupcion, lista_size, varsInterrupt>>

RecibirInterrumpido ==
    /\ pc["recibir_proceso_de_cpu"] = "interrumpidos_l"
    /\ interrumpidos_l' = Append(interrumpidos_l, pcb["recibir_proceso_de_cpu"])
    /\ pcb' = [pcb EXCEPT !["recibir_proceso_de_cpu"] = NULO]
    /\ Ir("recibir_proceso_de_cpu", "post_interrumpido")
    /\ UNCHANGED <<lista, sem, varsPlp, varsIo, varsMemoria, caida, varsSocket,
                   s_interrupcion_atendida, s_espero_replanificacion,
                   varsBanderas, varsEstimacion, varsInterrupt>>

\* sem_post(&s_interrupcion_atendida) at label d.
AvisarAtendida(d, e) ==
    /\ pc["recibir_proceso_de_cpu"] = d
    /\ s_interrupcion_atendida' = s_interrupcion_atendida + 1
    /\ Ir("recibir_proceso_de_cpu", e)
    /\ UNCHANGED <<lista, sem, pcb, varsPlp, varsIo, varsMemoria, caida,
                   varsSocket, interrumpidos_l, s_espero_replanificacion,
                   varsBanderas, varsEstimacion, varsInterrupt>>

\* Mutant: sem_wait(&s_espero_replanificacion) is forgotten.
RecibirSinEsperarReplanificacion ==
    /\ pc["recibir_proceso_de_cpu"] = "s_espero_replanificacion"
    /\ Ir("recibir_proceso_de_cpu", "post")
    /\ UNCHANGED <<lista, sem, pcb, varsPlp, varsIo, varsMemoria, caida,
                   varsSocket, varsSrt>>

\* Mutant: the branch of INTERRUMPIDO posts s_proceso_ejecutando as well.
RecibirEsperarReplanificacionLiberando ==
    /\ pc["recibir_proceso_de_cpu"] = "s_espero_replanificacion"
    /\ s_espero_replanificacion > 0
    /\ s_espero_replanificacion' = s_espero_replanificacion - 1
    /\ Post("s_proceso_ejecutando")
    /\ Ir("recibir_proceso_de_cpu", "post")
    /\ UNCHANGED <<lista, pcb, varsPlp, varsIo, varsMemoria, caida, varsSocket,
                   interrumpidos_l, s_interrupcion_atendida, varsBanderas,
                   varsEstimacion, varsInterrupt>>

RecibirEsperarReplanificacion ==
    /\ pc["recibir_proceso_de_cpu"] = "s_espero_replanificacion"
    /\ s_espero_replanificacion > 0
    /\ s_espero_replanificacion' = s_espero_replanificacion - 1
    /\ Ir("recibir_proceso_de_cpu", "post")
    /\ UNCHANGED <<lista, sem, pcb, varsPlp, varsIo, varsMemoria, caida,
                   varsSocket, interrumpidos_l, s_interrupcion_atendida,
                   varsBanderas, varsEstimacion, varsInterrupt>>

RecibirAvisarBloqueado ==
    /\ Avisar("recibir_proceso_de_cpu", "post_io_pendiente",
              "s_io_pendiente", "if_interrupcion")
    /\ UNCHANGED <<varsSocket, varsSrt>>

RecibirAvisarFinalizado ==
    /\ Avisar("recibir_proceso_de_cpu", "post_finalizado",
              "s_proceso_finalizado", "if_interrupcion")
    /\ UNCHANGED <<varsSocket, varsSrt>>

\* if(interrupcion): the process came back on its own while agregar_a_ready was
\* asking for its interruption.
RecibirMirarInterrupcion ==
    /\ pc["recibir_proceso_de_cpu"] = "if_interrupcion"
    /\ Ir("recibir_proceso_de_cpu",
          IF interrupcion THEN "post_atendida" ELSE "post")
    /\ UNCHANGED <<lista, sem, pcb, varsPlp, varsIo, varsMemoria, caida,
                   varsSocket, varsSrt>>

\* "El estado recibido del PCB no es valido": the PCB is dropped.
RecibirDescartar ==
    /\ pc["recibir_proceso_de_cpu"] = "descartar"
    /\ pcb' = [pcb EXCEPT !["recibir_proceso_de_cpu"] = NULO]
    /\ Ir("recibir_proceso_de_cpu", "post")
    /\ UNCHANGED <<lista, sem, varsPlp, varsIo, varsMemoria, caida, varsSocket,
                   varsSrt>>

Devoluciones ==
    \/ RecibirPcb
    \/ RecibirInterrumpido
    \/ AvisarAtendida("post_interrumpido", "s_espero_replanificacion")
    \/ RecibirEsperarReplanificacion
    \/ /\ RecibirBloqueado \/ RecibirFinalizado \/ RecibirLiberarCpu
       /\ UNCHANGED varsSrt
    \/ RecibirAvisarBloqueado \/ RecibirAvisarFinalizado
    \/ RecibirMirarInterrupcion \/ AvisarAtendida("post_atendida", "post")
    \/ RecibirDescartar

-----------------------------------------------------------------------------
Terminado ==
    \/ \A p \in Proceso : consola[p] = "finalizada"
    \/ caida # "no"

\* The server idles once nothing more has to happen.
Reposo == Terminado /\ UNCHANGED vars

\* A step of a thread that knows nothing of SRT.
Resto(A) == Vivo(A) /\ UNCHANGED <<varsSocket, varsSrt>>

Next ==
    \/ Resto(NextKernel)
    \/ Vivo(AgregarAReady \/ EnviarAEjecutar \/ Devoluciones)
    \/ CpuEjecutar \/ CpuLimpiar \/ AtencionInterrupt
    \/ Reposo

Spec == Init /\ [][Next]_vars

\* As in KernelFifo, and the two threads of the CPU run.
Equidad ==
    /\ \A p \in Proceso : WF_vars(Resto(AtenderConsola(p)))
    /\ WF_vars(Resto(PasarAReady))
    /\ WF_vars(Resto(FinalizarProcesos))
    /\ WF_vars(Resto(SuspenderProceso))
    /\ WF_vars(Resto(AvisarProcesoSuspReady))
    /\ WF_vars(Resto(PlanificadorIo))
    /\ WF_vars(Resto(Io))
    /\ \A x \in PCB : WF_vars(Resto(Suspencion(x)))
    /\ WF_vars(Vivo(AgregarAReady))
    /\ WF_vars(Vivo(EnviarAEjecutar))
    /\ WF_vars(Vivo(Devoluciones))
    /\ WF_vars(CpuEjecutar \/ CpuLimpiar)
    /\ WF_vars(AtencionInterrupt)

SpecJusta == Spec /\ Equidad

-----------------------------------------------------------------------------
(* Safety.                                                                  *)

\* Labels of agregar_a_ready_sjf between its list_add_sorted and its last post.
TrasEncolar ==
    {"proceso_ejecutando", "interrumpir", "enviar_intr",
     "s_interrupcion_atendida", "interrumpidos_l", "post_replanificacion",
     "post_cpu", "interrupcion", "mostrar", "recorrer", "post"}

Devolviendo ==
    {"interrumpidos_l", "post_interrumpido", "s_espero_replanificacion",
     "block_l", "post_io_pendiente", "finalizado_l", "post_finalizado",
     "if_interrupcion", "post_atendida", "descartar", "post"}

TokensCpu ==
    Largo("ready_l") =
        Valor("s_cpu") + En("agregar_a_ready", TrasEncolar)
            + En("agregar_a_ready", {"post_replanificacion", "post_cpu"})
            + En("enviar_a_ejecutar", {"ready_l"})

TypeOK ==
    /\ TipoKernel
    /\ pc["agregar_a_ready"] \in
         TrasEncolar \cup {"inicio", "susp_readyM_l", "unblock_l", "newM_l",
                           "ready_l"}
    /\ pc["enviar_a_ejecutar"] \in {"inicio", "s_cpu", "ready_l", "enviar"}
    /\ pc["recibir_proceso_de_cpu"] \in Devolviendo \cup {"inicio"}
    /\ interrumpidos_l \in Seq(PCBViva)
    /\ s_interrupcion_atendida \in Nat /\ s_espero_replanificacion \in Nat
    /\ proceso_ejecutando \in BOOLEAN /\ interrupcion \in BOOLEAN
    /\ lista_size \in Nat
    /\ estimado \in [Proceso -> 0 .. MODULO - 1]
    /\ tiempo \in [Proceso -> 0 .. MODULO - 1]
    /\ pedidos \in Nat /\ interrupcionCpu \in BOOLEAN /\ porLimpiar \in BOOLEAN

\* Every sem_post that announces a PCB has that PCB in its list and no PCB goes
\* unannounced, the one that an interruption puts back in ready_l included: so
\* no list_remove(l, 0) of the scheduler finds its list empty (sjf.c:72,358-368).
TokensCoinciden ==
    /\ TokensNew /\ TokensReady /\ TokensCpu
    /\ TokensIo /\ TokensSusp /\ TokensFinalizado

\* At most one process is between the wait for s_proceso_ejecutando and its
\* post, also while the interrupted one waits for the replanning (sjf.c:64,248).
UnSoloProceso ==
    Valor("s_proceso_ejecutando")
      + En("enviar_a_ejecutar", {"s_cpu", "ready_l", "enviar"})
      + Despachados + Devueltos
      + En("recibir_proceso_de_cpu", Devolviendo) = 1

\* What is dispatched has the least estimate of ready_l, and no interrupted
\* process is still to be put back there: the choice is made with all of them
\* on the table, however requests and returns cross (sjf.c:71-73,197-207).
DespachoMinimo ==
    [][pc["enviar_a_ejecutar"] = "ready_l" /\ pc'["enviar_a_ejecutar"] = "enviar" =>
          /\ interrumpidos_l = <<>>
          /\ \A i \in DOMAIN lista["ready_l"] :
                estimado[pcb'["enviar_a_ejecutar"].pid] <=
                   estimado[lista["ready_l"][i].pid]]_vars

\* agregar_a_ready_sjf touches interrumpidos_l and then ready_l without their
\* mutexes (sjf.c:381-383) and nevertheless nobody else is there.
SinMutexSinCarrera ==
    (pc["agregar_a_ready"] = "interrumpidos_l" /\ interrumpidos_l # <<>>) =>
       /\ pc["enviar_a_ejecutar"] = "inicio"
       /\ pc["recibir_proceso_de_cpu"] # "interrumpidos_l"

LugaresSrt(p) ==
    Lugares(p) \cup
    {<<"interrumpidos_l", i>> :
        i \in {j \in DOMAIN interrumpidos_l : interrumpidos_l[j].pid = p}}

\* No process is ever in two places of the scheduler at once, whatever crosses
\* its interruption (sjf.c:181-251,351-394).
PcbEnUnSoloLugar == \A p \in Proceso : Cardinality(LugaresSrt(p)) <= 1

\* An interruption loses no process: the ones lost are those of the race on
\* block_l, and each leaves one s_io_pendiente too many behind.
PerdidosConAviso ==
    caida = "no" =>
       Largo("block_l")
         + Cardinality({p \in Ingresados : LugaresSrt(p) = {}}) =
          Valor("s_io_pendiente") + En("planificador_io", {"quitar"})
             + En("recibir_proceso_de_cpu", {"post_io_pendiente"})

-----------------------------------------------------------------------------
(* Liveness.                                                                *)

\* agregar_a_ready_sjf waits for an interruption of nobody: the process came
\* back between its look at proceso_ejecutando and its write of interrupcion.
EsperaAtencion ==
    /\ pc["agregar_a_ready"] = "s_interrupcion_atendida"
    /\ s_interrupcion_atendida = 0
    /\ haciaCpu = <<>> /\ desdeCpu = <<>>
    /\ pc["recibir_proceso_de_cpu"] = "inicio"
    /\ sem["s_cpu"] = 0

\* devoluciones waits for a replanning that nobody will do: the request reached
\* the CPU when the process it was meant for had already been returned, or its
\* s_interrupcion_atendida was a left-over one.
EsperaReplanificacion ==
    /\ pc["recibir_proceso_de_cpu"] = "s_espero_replanificacion"
    /\ s_espero_replanificacion = 0
    /\ pc["agregar_a_ready"] \in {"inicio", "mostrar", "recorrer", "post",
                                  "interrupcion"}
    /\ ~proceso_ejecutando

\* Every console is answered, or the Kernel crashes, or the interruption
\* handshake hangs in one of two ways, and in no other.
RespondidaOTrabada ==
    \A p \in Proceso :
       (consola[p] = "conectada") ~>
          \/ consola[p] = "finalizada" \/ caida # "no"
          \/ EsperaAtencion \/ EsperaReplanificacion

\* A console is answered, and nothing hangs, for as long as no other connects:
\* nobody interrupts it.
UnaConsolaRespondida ==
    (consola[0] = "conectada") ~>
       \/ consola[0] = "finalizada" /\ caida = "no"
       \/ \E p \in Proceso \ {0} : consola[p] # "sin_conectar"

-----------------------------------------------------------------------------
(* What comments of the code say and the code does not do.                  *)

\* if(pcb->estimado_rafaga<0) pcb->estimado_rafaga=0 (sjf.c:113): what is left
\* of a burst is never more than it was.
RestanteNoCrece ==
    [][\A p \in Proceso :
         (estimado'[p] # estimado[p] /\ pc'["recibir_proceso_de_cpu"] = "interrumpidos_l")
            => estimado'[p] < estimado[p]]_vars
=============================================================================
