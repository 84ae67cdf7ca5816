------------------------------- MODULE Kernel -------------------------------
(***************************************************************************)
(* The threads of the Kernel process that both short-term schedulers share: *)
(* the long-term scheduler PLP (planificador_largo_plazo.c), the medium-    *)
(* term scheduler PMP (planificador_mediano_plazo.c) and the I/O device     *)
(* with its suspension timers (fifo.c; sjf.c repeats them line by line).    *)
(*                                                                          *)
(* A PCB is the pair of its pid and its program counter; every time it      *)
(* comes back from the CPU it is a new object, with a greater counter.  A   *)
(* list holds PCBs.  Every thread has a label in pc and the PCB it carries  *)
(* in pcb.  A semaphore wait is one step with the thread-local work that    *)
(* follows it; a list_add that another thread can observe and a sem_post    *)
(* are steps of their own.                                                  *)
(***************************************************************************)
EXTENDS Naturals, Sequences, FiniteSets, SequencesExt

CONSTANTS
    CANT_CONSOLAS,            \* consoles that connect: a bound of the model
    GRADO_MULTIPROGRAMACION,  \* kernel.config
    Programa,                 \* per pid, its instructions
    NULO                      \* no PCB

\* Ids handed out by comunicacion_con_consolas, in order of connection.
Proceso == 0 .. CANT_CONSOLAS - 1

\* NO_OP stands for every instruction that does not return the PCB.
Operacion == {"NO_OP", "I_O", "EXIT", "INVALIDA"}

ASSUME ConsolasAssumption == CANT_CONSOLAS \in Nat \ {0}

ASSUME GradoAssumption == GRADO_MULTIPROGRAMACION \in Nat \ {0}

\* Every script under confPruebas ends with EXIT.
ASSUME ProgramaAssumption ==
    /\ Programa \in [Proceso -> Seq(Operacion)]
    /\ \A p \in Proceso : /\ Len(Programa[p]) > 0
                          /\ Programa[p][Len(Programa[p])] = "EXIT"

PCB == UNION {[pid : {p}, pc : 0 .. Len(Programa[p])] : p \in Proceso}

\* A PCB that has not executed an EXIT: its program has instructions to run.
PCBViva == {x \in PCB : x.pc = 0 \/ Programa[x.pid][x.pc] # "EXIT"}

\* A PCB whose last instruction was EXIT.
PCBFin == PCB \ PCBViva

ASSUME NuloAssumption == NULO \notin PCB

Estado == {"INICIADO", "BLOQUEADO", "FINALIZADO", "SUSPENDIDO",
           "INTERRUMPIDO"}

Listas == {"new_l", "newM_l", "ready_l", "block_l", "block_pend_l",
           "unblock_l", "susp_block_buffer_l", "susp_block_l",
           "susp_ready_l", "susp_readyM_l", "finalizado_l", "exit_l"}

Semaforos == {"s_proceso_new", "s_grado_multiprogramacion",
              "s_proceso_ready", "s_cpu", "s_proceso_ejecutando",
              "s_io_pendiente", "s_io", "s_proceso_susp",
              "s_proceso_susp_ready", "s_proceso_finalizado"}

Hilos == {"pasar_a_ready", "finalizar_procesos", "suspender_proceso",
          "avisar_proceso_susp_ready", "agregar_a_ready",
          "enviar_a_ejecutar", "recibir_proceso_de_cpu",
          "planificador_io", "io"}

VARIABLES
    lista,            \* the PCB lists
    comunicaciones_l, \* the pids whose console thread can be woken
    sem,              \* the values of the semaphores
    pc,               \* where each thread is
    pcb,              \* the PCB each thread carries
    estado,           \* the field estado of each PCB object
    contador,         \* the suspension timer of each PCB that did I/O
    consola,          \* the stage of gestionar_comunicacion of each pid
    s,                \* the semaphore s on the stack of that thread
    procesos,         \* Memoria: pids in the order of INICIALIZAR_PROCESO
    mem,              \* the last message Memoria was sent about a pid
    caida,            \* why the Kernel died of SIGSEGV, or "no"
    haciaCpu,         \* dispatch socket: PCBs, with their estado, sent and running
    desdeCpu          \* dispatch socket: the same on their way back

varsPlp == <<comunicaciones_l, consola, s>>
varsIo == <<estado, contador>>
varsMemoria == <<procesos, mem>>
varsSocket == <<haciaCpu, desdeCpu>>
varsKernel == <<lista, sem, pc, pcb, varsPlp, varsIo, varsMemoria, caida>>

-----------------------------------------------------------------------------
(* Semaphores, lists and threads.                                           *)

Post(x) == sem' = [sem EXCEPT ![x] = @ + 1]

Wait(x) == sem[x] > 0 /\ sem' = [sem EXCEPT ![x] = @ - 1]

Ir(h, e) == pc' = [pc EXCEPT ![h] = e]

\* Thread h waits for x before its next round and goes on at label e.
Esperar(h, x, e) ==
    /\ pc[h] = "inicio"
    /\ Wait(x)
    /\ Ir(h, e)
    /\ UNCHANGED <<lista, pcb, varsPlp, varsIo, varsMemoria, caida>>

\* Thread h, at label d, posts x and goes on at label e.
Avisar(h, d, x, e) ==
    /\ pc[h] = d
    /\ Post(x)
    /\ Ir(h, e)
    /\ UNCHANGED <<lista, pcb, varsPlp, varsIo, varsMemoria, caida>>

\* The head of list l passes to thread h, which goes on at label e.
Tomar(h, l, e) ==
    /\ lista' = [lista EXCEPT ![l] = Tail(@)]
    /\ pcb' = [pcb EXCEPT ![h] = Head(lista[l])]
    /\ Ir(h, e)

\* Thread h appends the PCB it carries to list l and goes on at label e.
Dejar(h, l, e) ==
    /\ lista' = [lista EXCEPT ![l] = Append(@, pcb[h])]
    /\ pcb' = [pcb EXCEPT ![h] = NULO]
    /\ Ir(h, e)

\* The same as a step of its own, at the label that is the list's name.
Entregar(h, l, e) ==
    /\ pc[h] = l
    /\ Dejar(h, l, e)
    /\ UNCHANGED <<sem, varsPlp, varsIo, varsMemoria, caida>>

\* Is there a PCB with the pid of x in the sequence l?
EstaPcb(l, x) == \E i \in DOMAIN l : l[i].pid = x.pid

\* The sequence l without the first PCB that has the pid of x.
RemoverDeLista(l, x) ==
    RemoveAt(l, CHOOSE i \in DOMAIN l :
                   /\ l[i].pid = x.pid
                   /\ \A j \in 1 .. i - 1 : l[j].pid # x.pid)

\* What a list_add of x may leave in l.  If another thread, without the mutex,
\* is half way through the list_remove of the last element, both write the
\* same link and the new element can be lost.
Agregados(l, x, carrera) ==
    {Append(l, x)} \cup (IF carrera THEN {l} ELSE {})

InitKernel ==
    /\ lista = [l \in Listas |-> <<>>]
    /\ comunicaciones_l = <<>>
    /\ sem = [x \in Semaforos |->
                CASE x = "s_proceso_ejecutando" -> 1
                  [] x = "s_grado_multiprogramacion" -> GRADO_MULTIPROGRAMACION
                  [] OTHER -> 0]
    /\ pc = [h \in Hilos |-> "inicio"]
    /\ pcb = [h \in Hilos |-> NULO]
    /\ estado = [x \in PCB |-> "INICIADO"]
    /\ contador = [x \in PCB |-> "no"]
    /\ consola = [p \in Proceso |-> "sin_conectar"]
    /\ s = [p \in Proceso |-> 0]
    /\ procesos = <<>>
    /\ mem = [p \in Proceso |-> "ninguno"]
    /\ caida = "no"
    /\ haciaCpu = <<>>
    /\ desdeCpu = <<>>

-----------------------------------------------------------------------------
(* PLP: one thread gestionar_comunicacion per console.                      *)

\* accept, handshake and creation of the thread with the next id.
AceptarConsola(p) ==
    /\ consola[p] = "sin_conectar"
    /\ \A q \in 0 .. p - 1 : consola[q] # "sin_conectar"
    /\ consola' = [consola EXCEPT ![p] = "conectada"]
    /\ UNCHANGED <<lista, sem, pc, pcb, comunicaciones_l, s, varsIo,
                   varsMemoria, caida>>

\* The PCB is created and put in new_l ...
AgregarANew(p) ==
    /\ consola[p] = "conectada"
    /\ lista' = [lista EXCEPT !["new_l"] = Append(@, [pid |-> p, pc |-> 0])]
    /\ consola' = [consola EXCEPT ![p] = "en_new"]
    /\ UNCHANGED <<sem, pc, pcb, comunicaciones_l, s, varsIo, varsMemoria,
                   caida>>

\* ... then the way to wake this thread is registered.  finalizar_procesos
\* may be removing the last registration meanwhile, without the mutex.
RegistrarComunicacion(p) ==
    /\ consola[p] = "en_new"
    /\ comunicaciones_l' \in
         Agregados(comunicaciones_l, [pid |-> p],
            /\ pc["finalizar_procesos"] = "quitar"
            /\ Last(comunicaciones_l).pid = pcb["finalizar_procesos"].pid)
    /\ consola' = [consola EXCEPT ![p] = "registrada"]
    /\ UNCHANGED <<lista, sem, pc, pcb, s, varsIo, varsMemoria, caida>>

AvisarNew(p) ==
    /\ consola[p] = "registrada"
    /\ Post("s_proceso_new")
    /\ consola' = [consola EXCEPT ![p] = "en_espera"]
    /\ UNCHANGED <<lista, pc, pcb, comunicaciones_l, s, varsIo, varsMemoria,
                   caida>>

\* Mutant: sem_wait(&s) is forgotten.
AvisarConsolaSinEspera(p) ==
    /\ consola[p] = "en_espera"
    /\ consola' = [consola EXCEPT ![p] = "finalizada"]
    /\ UNCHANGED <<lista, sem, pc, pcb, comunicaciones_l, s, varsIo,
                   varsMemoria, caida>>

\* sem_wait(&s), then PROCESO_FINALIZADO is sent to the console.
AvisarConsola(p) ==
    /\ consola[p] = "en_espera"
    /\ s[p] > 0
    /\ s' = [s EXCEPT ![p] = @ - 1]
    /\ consola' = [consola EXCEPT ![p] = "finalizada"]
    /\ UNCHANGED <<lista, sem, pc, pcb, comunicaciones_l, varsIo, varsMemoria,
                   caida>>

GestionarComunicacion(p) ==
    \/ AceptarConsola(p) \/ AgregarANew(p) \/ RegistrarComunicacion(p)
    \/ AvisarNew(p) \/ AvisarConsola(p)

\* The thread of a console that has connected: nobody has to connect.
AtenderConsola(p) == consola[p] # "sin_conectar" /\ GestionarComunicacion(p)

-----------------------------------------------------------------------------
(* PLP: pasar_a_ready.                                                      *)

PasarEsperar == Esperar("pasar_a_ready", "s_proceso_new", "s_grado")

\* INICIALIZAR_PROCESO is sent and the answer of Memoria is received.
PasarInicializar ==
    /\ pc["pasar_a_ready"] = "s_grado"
    /\ Wait("s_grado_multiprogramacion")
    /\ Tomar("pasar_a_ready", "new_l", "newM_l")
    /\ procesos' = Append(procesos, Head(lista["new_l"]).pid)
    /\ mem' = [mem EXCEPT ![Head(lista["new_l"]).pid] = "INICIALIZAR_PROCESO"]
    /\ UNCHANGED <<varsPlp, varsIo, caida>>

\* Mutant: the process is delivered and never announced.
PasarEntregarSinAviso == Entregar("pasar_a_ready", "newM_l", "inicio")

PasarEntregar == Entregar("pasar_a_ready", "newM_l", "post")

PasarAvisar == Avisar("pasar_a_ready", "post", "s_proceso_ready", "inicio")

PasarAReady ==
    PasarEsperar \/ PasarInicializar \/ PasarEntregar \/ PasarAvisar

-----------------------------------------------------------------------------
(* PLP: finalizar_procesos.                                                 *)

FinalizarEnMemoria ==
    /\ pc["finalizar_procesos"] = "inicio"
    /\ Wait("s_proceso_finalizado")
    /\ Tomar("finalizar_procesos", "finalizado_l", "buscar")
    /\ mem' = [mem EXCEPT ![Head(lista["finalizado_l"]).pid] =
                                                       "FINALIZAR_PROCESO"]
    /\ UNCHANGED <<varsPlp, varsIo, procesos, caida>>

\* buscar_comunicacion finds the registration, or answers NULL, which
\* finalizar_procesos dereferences.
BuscarComunicacion ==
    /\ pc["finalizar_procesos"] = "buscar"
    /\ IF EstaPcb(comunicaciones_l, pcb["finalizar_procesos"])
       THEN Ir("finalizar_procesos", "quitar") /\ caida' = caida
       ELSE caida' = "sin_comunicacion" /\ pc' = pc
    /\ UNCHANGED <<lista, sem, pcb, varsPlp, varsIo, varsMemoria>>

\* The list_remove of buscar_comunicacion ends.
QuitarComunicacion ==
    /\ pc["finalizar_procesos"] = "quitar"
    /\ comunicaciones_l' = RemoverDeLista(comunicaciones_l,
                                          pcb["finalizar_procesos"])
    /\ Ir("finalizar_procesos", "despertar")
    /\ UNCHANGED <<lista, sem, pcb, consola, s, varsIo, varsMemoria, caida>>

\* sem_post(comunicacion->s); exit_l is of this thread only.
DespertarComunicacion ==
    /\ pc["finalizar_procesos"] = "despertar"
    /\ s' = [s EXCEPT ![pcb["finalizar_procesos"].pid] = @ + 1]
    /\ Dejar("finalizar_procesos", "exit_l", "post")
    /\ UNCHANGED <<sem, comunicaciones_l, consola, varsIo, varsMemoria, caida>>

LiberarGrado ==
    Avisar("finalizar_procesos", "post", "s_grado_multiprogramacion", "inicio")

FinalizarProcesos ==
    \/ FinalizarEnMemoria \/ BuscarComunicacion \/ QuitarComunicacion
    \/ DespertarComunicacion \/ LiberarGrado

-----------------------------------------------------------------------------
(* PMP: suspender_proceso.                                                  *)

SuspenderTomar ==
    /\ pc["suspender_proceso"] = "inicio"
    /\ Wait("s_proceso_susp")
    /\ Tomar("suspender_proceso", "susp_block_buffer_l", "susp_block_l")
    /\ UNCHANGED <<varsPlp, varsIo, varsMemoria, caida>>

SuspenderMarcar ==
    /\ pc["suspender_proceso"] = "susp_block_l"
    /\ lista' = [lista EXCEPT !["susp_block_l"] =
                                        Append(@, pcb["suspender_proceso"])]
    /\ Ir("suspender_proceso", "estado")
    /\ UNCHANGED <<sem, pcb, varsPlp, varsIo, varsMemoria, caida>>

SuspenderEstado ==
    /\ pc["suspender_proceso"] = "estado"
    /\ estado' = [estado EXCEPT ![pcb["suspender_proceso"]] = "SUSPENDIDO"]
    /\ Ir("suspender_proceso", "enviar")
    /\ UNCHANGED <<lista, sem, pcb, varsPlp, contador, varsMemoria, caida>>

\* Mutant: PMP takes the mark off once Memoria knows.
SuspenderEnviarDesmarcando ==
    /\ pc["suspender_proceso"] = "enviar"
    /\ mem' = [mem EXCEPT ![pcb["suspender_proceso"].pid] = "SUSPENDER_PROCESO"]
    /\ lista' = [lista EXCEPT !["susp_block_l"] =
                     SelectSeq(@, LAMBDA x : x.pid # pcb["suspender_proceso"].pid)]
    /\ pcb' = [pcb EXCEPT !["suspender_proceso"] = NULO]
    /\ Ir("suspender_proceso", "post")
    /\ UNCHANGED <<sem, varsPlp, varsIo, procesos, caida>>

SuspenderEnviar ==
    /\ pc["suspender_proceso"] = "enviar"
    /\ mem' = [mem EXCEPT ![pcb["suspender_proceso"].pid] = "SUSPENDER_PROCESO"]
    /\ pcb' = [pcb EXCEPT !["suspender_proceso"] = NULO]
    /\ Ir("suspender_proceso", "post")
    /\ UNCHANGED <<lista, sem, varsPlp, varsIo, procesos, caida>>

\* Mutant: the place of the suspended process is not given back.
SuspenderLiberarSinPost ==
    /\ pc["suspender_proceso"] = "post"
    /\ Ir("suspender_proceso", "inicio")
    /\ UNCHANGED <<lista, sem, pcb, varsPlp, varsIo, varsMemoria, caida>>

SuspenderLiberar ==
    Avisar("suspender_proceso", "post", "s_grado_multiprogramacion", "inicio")

SuspenderProceso ==
    \/ SuspenderTomar \/ SuspenderMarcar \/ SuspenderEstado
    \/ SuspenderEnviar \/ SuspenderLiberar

-----------------------------------------------------------------------------
(* PMP: avisar_proceso_susp_ready.                                          *)

ReanudarEsperar ==
    Esperar("avisar_proceso_susp_ready", "s_proceso_susp_ready", "s_grado")

\* Mutant: list_get instead of list_remove.
ReanudarTomarSinQuitar ==
    /\ pc["avisar_proceso_susp_ready"] = "s_grado"
    /\ Wait("s_grado_multiprogramacion")
    /\ pcb' = [pcb EXCEPT !["avisar_proceso_susp_ready"] =
                                                Head(lista["susp_ready_l"])]
    /\ Ir("avisar_proceso_susp_ready", "susp_readyM_l")
    /\ UNCHANGED <<lista, varsPlp, varsIo, varsMemoria, caida>>

\* Mutant: Memoria is asked to initialise the process once more.
ReanudarTomarInicializando ==
    /\ pc["avisar_proceso_susp_ready"] = "s_grado"
    /\ Wait("s_grado_multiprogramacion")
    /\ Tomar("avisar_proceso_susp_ready", "susp_ready_l", "susp_readyM_l")
    /\ mem' = [mem EXCEPT ![Head(lista["susp_ready_l"]).pid] =
                                                    "INICIALIZAR_PROCESO"]
    /\ UNCHANGED <<varsPlp, varsIo, procesos, caida>>

ReanudarTomar ==
    /\ pc["avisar_proceso_susp_ready"] = "s_grado"
    /\ Wait("s_grado_multiprogramacion")
    /\ Tomar("avisar_proceso_susp_ready", "susp_ready_l", "susp_readyM_l")
    /\ UNCHANGED <<varsPlp, varsIo, varsMemoria, caida>>

ReanudarEntregar ==
    Entregar("avisar_proceso_susp_ready", "susp_readyM_l", "post")

ReanudarAvisar ==
    Avisar("avisar_proceso_susp_ready", "post", "s_proceso_ready", "inicio")

AvisarProcesoSuspReady ==
    ReanudarEsperar \/ ReanudarTomar \/ ReanudarEntregar \/ ReanudarAvisar

-----------------------------------------------------------------------------
(* The I/O device: planificador_io, the timers it creates, and io.          *)

\* list_remove(block_l, 0) begins, without mx_block_l; on an empty list its
\* result is dereferenced.
PlanificadorIoTomar ==
    /\ pc["planificador_io"] = "inicio"
    /\ Wait("s_io_pendiente")
    /\ IF lista["block_l"] # <<>>
       THEN /\ pcb' = [pcb EXCEPT !["planificador_io"] = Head(lista["block_l"])]
            /\ Ir("planificador_io", "quitar")
            /\ caida' = caida
       ELSE /\ caida' = "block_l_vacia"
            /\ UNCHANGED <<pc, pcb>>
    /\ UNCHANGED <<lista, varsPlp, varsIo, varsMemoria>>

\* list_remove ends and the timer is started.
PlanificadorIoDisparar ==
    /\ pc["planificador_io"] = "quitar"
    /\ lista' = [lista EXCEPT !["block_l"] = Tail(@)]
    /\ contador' = [contador EXCEPT ![pcb["planificador_io"]] = "durmiendo"]
    /\ Ir("planificador_io", "block_pend_l")
    /\ UNCHANGED <<sem, pcb, varsPlp, estado, varsMemoria, caida>>

PlanificadorIoEntregar == Entregar("planificador_io", "block_pend_l", "post")

PlanificadorIoAvisar == Avisar("planificador_io", "post", "s_io", "inicio")

PlanificadorIo ==
    \/ PlanificadorIoTomar \/ PlanificadorIoDisparar
    \/ PlanificadorIoEntregar \/ PlanificadorIoAvisar

\* sleep(TIEMPO_BLOCK_MAX/1000) ends.
ContadorDespertar(x) ==
    /\ contador[x] = "durmiendo"
    /\ contador' = [contador EXCEPT ![x] = "despierto"]
    /\ UNCHANGED <<lista, sem, pc, pcb, varsPlp, estado, varsMemoria, caida>>

ContadorAgregar(x) ==
    /\ contador[x] = "despierto"
    /\ lista' = [lista EXCEPT !["susp_block_buffer_l"] = Append(@, x)]
    /\ contador' = [contador EXCEPT ![x] = "agregado"]
    /\ UNCHANGED <<sem, pc, pcb, varsPlp, estado, varsMemoria, caida>>

ContadorAvisar(x) ==
    /\ contador[x] = "agregado"
    /\ Post("s_proceso_susp")
    /\ contador' = [contador EXCEPT ![x] = "fin"]
    /\ UNCHANGED <<lista, pc, pcb, varsPlp, estado, varsMemoria, caida>>

Suspencion(x) ==
    ContadorDespertar(x) \/ ContadorAgregar(x) \/ ContadorAvisar(x)

IoTomar ==
    /\ pc["io"] = "inicio"
    /\ Wait("s_io")
    /\ Tomar("io", "block_pend_l", "durmiendo")
    /\ UNCHANGED <<varsPlp, varsIo, varsMemoria, caida>>

\* sleep(tiempo_block/1000) ends; susp_block_l is looked at without its mutex.
IoDespertar ==
    /\ pc["io"] = "durmiendo"
    /\ Ir("io", IF EstaPcb(lista["susp_block_l"], pcb["io"])
                THEN "susp_block_l" ELSE "cancelar")
    /\ UNCHANGED <<lista, sem, pcb, varsPlp, varsIo, varsMemoria, caida>>

\* What pthread_cancel may leave of the timers.  One that sleeps dies; one that
\* has just woken dies only if its log write is a cancellation point; there is
\* none after that.  The id of a thread that ended is of nobody, or of another
\* timer that was given the same stack.
Cancelados(x) ==
    CASE contador[x] = "durmiendo" -> {[contador EXCEPT ![x] = "cancelado"]}
      [] contador[x] = "despierto" ->
            {contador, [contador EXCEPT ![x] = "cancelado"]}
      [] contador[x] = "agregado" -> {contador}
      [] OTHER -> {contador} \cup
            {[contador EXCEPT ![y] = "cancelado"] :
                y \in {z \in PCB : contador[z] = "durmiendo"}}

IoCancelar ==
    /\ pc["io"] = "cancelar"
    /\ contador' \in Cancelados(pcb["io"])
    /\ Ir("io", "unblock_l")
    /\ UNCHANGED <<lista, sem, pcb, varsPlp, estado, varsMemoria, caida>>

IoDesbloquear == Entregar("io", "unblock_l", "post_ready")

IoAvisarReady == Avisar("io", "post_ready", "s_proceso_ready", "inicio")

IoDesmarcar ==
    /\ pc["io"] = "susp_block_l"
    /\ lista' = [lista EXCEPT !["susp_block_l"] = RemoverDeLista(@, pcb["io"])]
    /\ Ir("io", "susp_ready_l")
    /\ UNCHANGED <<sem, pcb, varsPlp, varsIo, varsMemoria, caida>>

IoSuspReady == Entregar("io", "susp_ready_l", "post_susp_ready")

IoAvisarSuspReady ==
    Avisar("io", "post_susp_ready", "s_proceso_susp_ready", "inicio")

Io ==
    \/ IoTomar \/ IoDespertar \/ IoCancelar \/ IoDesbloquear \/ IoAvisarReady
    \/ IoDesmarcar \/ IoSuspReady \/ IoAvisarSuspReady

\* A thread only runs while the process is alive.
Vivo(A) == caida = "no" /\ A

\* A step of a thread of the Kernel that is not of the short-term scheduler.
NextKernel ==
    \/ \E p \in Proceso : GestionarComunicacion(p)
    \/ PasarAReady \/ FinalizarProcesos
    \/ SuspenderProceso \/ AvisarProcesoSuspReady
    \/ PlanificadorIo \/ Io
    \/ \E x \in PCB : Suspencion(x)

-----------------------------------------------------------------------------
(* The short-term scheduler: the steps fifo.c and sjf.c have in common.       *)

\* agregar_a_ready looks at three lists one after the other, without their
\* mutexes; only this thread takes PCBs out of them.
AgregarEsperar ==
    /\ Esperar("agregar_a_ready", "s_proceso_ready", "susp_readyM_l")
    /\ UNCHANGED varsSocket

\* Take the head of list l, or go on with the list otra if l is empty.
AgregarElegir(l, otra) ==
    /\ pc["agregar_a_ready"] = l
    /\ \/ lista[l] # <<>> /\ Tomar("agregar_a_ready", l, "ready_l")
       \/ lista[l] = <<>> /\ Ir("agregar_a_ready", otra) /\ UNCHANGED <<lista, pcb>>
    /\ UNCHANGED <<sem, varsPlp, varsIo, varsMemoria, caida, varsSocket>>

\* If the last list were empty too the code would go on with a garbage PCB.
AgregarElegirNew ==
    /\ pc["agregar_a_ready"] = "newM_l"
    /\ Tomar("agregar_a_ready", "newM_l", "ready_l")
    /\ UNCHANGED <<sem, varsPlp, varsIo, varsMemoria, caida, varsSocket>>

RecibirFinalizado ==
    /\ Entregar("recibir_proceso_de_cpu", "finalizado_l", "post_finalizado")
    /\ UNCHANGED varsSocket

\* planificador_io may be removing the only PCB of block_l meanwhile.
RecibirBloqueado ==
    /\ pc["recibir_proceso_de_cpu"] = "block_l"
    /\ \E l \in Agregados(lista["block_l"], pcb["recibir_proceso_de_cpu"],
                          /\ pc["planificador_io"] = "quitar"
                          /\ Len(lista["block_l"]) = 1) :
          lista' = [lista EXCEPT !["block_l"] = l]
    /\ pcb' = [pcb EXCEPT !["recibir_proceso_de_cpu"] = NULO]
    /\ Ir("recibir_proceso_de_cpu", "post_io_pendiente")
    /\ UNCHANGED <<sem, varsPlp, varsIo, varsMemoria, caida, varsSocket>>

RecibirLiberarCpu ==
    /\ Avisar("recibir_proceso_de_cpu", "post", "s_proceso_ejecutando",
              "inicio")
    /\ UNCHANGED varsSocket

-----------------------------------------------------------------------------
(* Types.                                                                   *)

\* The labels of each thread: those of the short-term scheduler are the ones of
\* fifo.c and the ones of sjf.c.
Etapas ==
    [h \in Hilos |->
       CASE h = "pasar_a_ready" -> {"inicio", "s_grado", "newM_l", "post"}
         [] h = "finalizar_procesos" ->
              {"inicio", "buscar", "quitar", "despertar", "post"}
         [] h = "suspender_proceso" ->
              {"inicio", "susp_block_l", "estado", "enviar", "post"}
         [] h = "avisar_proceso_susp_ready" ->
              {"inicio", "s_grado", "susp_readyM_l", "post"}
         [] h = "agregar_a_ready" ->
              {"inicio", "susp_readyM_l", "unblock_l", "newM_l", "ready_l",
               "proceso_ejecutando", "interrumpir", "enviar_intr",
               "s_interrupcion_atendida", "interrumpidos_l",
               "post_replanificacion", "post_cpu", "interrupcion", "mostrar",
               "recorrer", "post"}
         [] h = "enviar_a_ejecutar" ->
              {"inicio", "s_proceso_ejecutando", "s_cpu", "ready_l", "enviar"}
         [] h = "recibir_proceso_de_cpu" ->
              {"inicio", "finalizado_l", "post_finalizado", "block_l",
               "post_io_pendiente", "interrumpidos_l", "post_interrumpido",
               "s_espero_replanificacion", "if_interrupcion", "post_atendida",
               "descartar", "post", "muerto"}
         [] h = "planificador_io" -> {"inicio", "quitar", "block_pend_l", "post"}
         [] OTHER ->
              {"inicio", "durmiendo", "cancelar", "unblock_l", "post_ready",
               "susp_block_l", "susp_ready_l", "post_susp_ready"}]

\* Where in its code each thread carries a PCB.
Carga ==
    [h \in Hilos |->
       CASE h = "pasar_a_ready" -> {"newM_l"}
         [] h = "finalizar_procesos" -> {"buscar", "quitar", "despertar"}
         [] h = "suspender_proceso" -> {"susp_block_l", "estado", "enviar"}
         [] h = "avisar_proceso_susp_ready" -> {"susp_readyM_l"}
         [] h = "agregar_a_ready" -> {"ready_l"}
         [] h = "enviar_a_ejecutar" -> {"enviar"}
         [] h = "recibir_proceso_de_cpu" ->
              {"finalizado_l", "block_l", "interrumpidos_l", "descartar",
               "muerto"}
         [] h = "planificador_io" -> {"quitar", "block_pend_l"}
         [] OTHER -> {"durmiendo", "cancelar", "unblock_l", "susp_block_l",
                      "susp_ready_l"}]

\* What thread h carries at label e.
Lleva(h, e) ==
    IF e \notin Carga[h] THEN {NULO}
    ELSE IF h = "finalizar_procesos" \/ e = "finalizado_l" THEN PCBFin
    ELSE PCBViva

\* The PCBs that list l may hold.
Cabe(l) == IF l \in {"finalizado_l", "exit_l"} THEN PCBFin ELSE PCBViva

TipoListas ==
    /\ lista \in [Listas -> Seq(PCB)]
    /\ \A l \in Listas : lista[l] \in Seq(Cabe(l))

TipoHilos ==
    /\ pc \in [Hilos -> UNION {Etapas[h] : h \in Hilos}]
    /\ \A h \in Hilos : pc[h] \in Etapas[h]
    /\ pcb \in [Hilos -> PCB \cup {NULO}]
    /\ \A h \in Hilos : pcb[h] \in Lleva(h, pc[h])

TipoIo ==
    /\ estado \in [PCB -> Estado]
    /\ \A x \in PCB : estado[x] = "FINALIZADO" => x \in PCBFin
    /\ contador \in [PCB -> {"no", "durmiendo", "despierto", "agregado", "fin",
                             "cancelado"}]
    /\ \A x \in PCB : contador[x] # "no" => x \in PCBViva

TipoPlp ==
    /\ comunicaciones_l \in Seq([pid : Proceso])
    /\ consola \in [Proceso -> {"sin_conectar", "conectada", "en_new",
                                "registrada", "en_espera", "finalizada"}]
    /\ s \in [Proceso -> Nat]

TipoMemoria ==
    /\ procesos \in Seq(Proceso)
    /\ mem \in [Proceso -> {"ninguno", "INICIALIZAR_PROCESO",
                            "SUSPENDER_PROCESO", "FINALIZAR_PROCESO"}]

TipoCpu ==
    /\ haciaCpu \in Seq([pcb : PCBViva, estado : Estado \ {"FINALIZADO"}])
    /\ desdeCpu \in Seq([pcb : PCB, estado : Estado])
    /\ \A i \in DOMAIN desdeCpu :
          desdeCpu[i].estado = "FINALIZADO" <=> desdeCpu[i].pcb \in PCBFin

\* A thread carries a PCB just where its code uses one, and a PCB that has
\* executed EXIT is FINALIZADO and is only in finalizado_l, in exit_l or on its
\* way there (fifo.c:307-316, sjf.c:226-234).
TipoKernel ==
    /\ TipoListas /\ TipoHilos /\ TipoIo /\ TipoPlp /\ TipoMemoria /\ TipoCpu
    /\ sem \in [Semaforos -> Nat]
    /\ caida \in {"no", "sin_comunicacion", "block_l_vacia", "ready_l_corta"}

-----------------------------------------------------------------------------
(* Safety, whatever the short-term scheduler.                               *)

Largo(l) == Len(lista[l])

Valor(x) == sem[x]

Iniciados == Len(procesos)

Despachados == Len(haciaCpu)

Devueltos == Len(desdeCpu)

\* 1 if thread h is at one of the labels E.
En(h, E) == IF pc[h] \in E THEN 1 ELSE 0

\* Processes in new_l, and PCBs in susp_block_buffer_l, still to be announced.
NewSinAvisar == {p \in Proceso : consola[p] \in {"en_new", "registrada"}}

SuspSinAvisar == {x \in PCB : contador[x] = "agregado"}

TokensNew ==
    Largo("new_l") =
        Valor("s_proceso_new") + Cardinality(NewSinAvisar)
            + En("pasar_a_ready", {"s_grado"})

TokensReady ==
    /\ Largo("susp_readyM_l") + Largo("unblock_l") + Largo("newM_l")
         = Valor("s_proceso_ready")
             + En("pasar_a_ready", {"post"})
             + En("avisar_proceso_susp_ready", {"post"})
             + En("io", {"post_ready"})
             + En("agregar_a_ready", {"susp_readyM_l", "unblock_l", "newM_l"})
    /\ En("agregar_a_ready", {"unblock_l"}) <=
          Largo("unblock_l") + Largo("newM_l")
    /\ En("agregar_a_ready", {"newM_l"}) <= Largo("newM_l")

TokensIo ==
    /\ Largo("block_pend_l") = Valor("s_io") + En("planificador_io", {"post"})
    /\ Largo("block_l") <=
          Valor("s_io_pendiente") + En("planificador_io", {"quitar"})
             + En("recibir_proceso_de_cpu", {"post_io_pendiente"})
    /\ En("planificador_io", {"quitar"}) <= Largo("block_l")

TokensSusp ==
    /\ Largo("susp_block_buffer_l") >=
          Valor("s_proceso_susp") + Cardinality(SuspSinAvisar)
    /\ Largo("susp_ready_l") =
          Valor("s_proceso_susp_ready") + En("io", {"post_susp_ready"})
             + En("avisar_proceso_susp_ready", {"s_grado"})

TokensFinalizado ==
    Largo("finalizado_l") =
        Valor("s_proceso_finalizado")
            + En("recibir_proceso_de_cpu", {"post_finalizado"})

\* What s_grado_multiprogramacion is worth: the processes Memoria was asked to
\* load and that are not over, less the suspensions announced by PMP that no
\* return to memory has paid for yet (planificador_largo_plazo.c:167,249,
\* planificador_mediano_plazo.c:44,53).
BalanceGrado ==
    Valor("s_grado_multiprogramacion") + Iniciados
        + En("finalizar_procesos", {"post"})
        + En("suspender_proceso", {"estado", "enviar", "post"})
      = GRADO_MULTIPROGRAMACION + Largo("exit_l")
          + Largo("susp_block_l") + Largo("susp_ready_l")
          + En("io", {"susp_ready_l"})

\* The accounts the shared threads keep.
CuentasKernel ==
    /\ TokensNew /\ TokensReady /\ TokensIo /\ TokensSusp /\ TokensFinalizado
    /\ BalanceGrado

\* What io and finalizar_procesos found in a list without its mutex is still
\* there when they remove it (fifo.c:251-262, planificador_largo_plazo.c:199-204).
BusquedaVigente ==
    /\ pc["io"] = "susp_block_l" => EstaPcb(lista["susp_block_l"], pcb["io"])
    /\ pc["finalizar_procesos"] = "quitar" =>
          EstaPcb(comunicaciones_l, pcb["finalizar_procesos"])

\* Where the PCB of pid p is.  The marks of susp_block_l and the way to them
\* are not places of their own, and planificador_io takes from block_l when its
\* list_remove ends.
Lugares(p) ==
    (UNION {{<<l, i>> : i \in {j \in DOMAIN lista[l] : lista[l][j].pid = p}} :
              l \in Listas \ {"susp_block_buffer_l", "susp_block_l"}})
    \cup {<<h, 0>> : h \in {g \in Hilos \ {"suspender_proceso"} :
                               /\ pcb[g] # NULO /\ pcb[g].pid = p
                               /\ pc[g] # "quitar" \/ g # "planificador_io"}}
    \cup {<<"haciaCpu", i>> : i \in {j \in DOMAIN haciaCpu : haciaCpu[j].pcb.pid = p}}
    \cup {<<"desdeCpu", i>> : i \in {j \in DOMAIN desdeCpu : desdeCpu[j].pcb.pid = p}}

Ingresados == {p \in Proceso : consola[p] \notin {"sin_conectar", "conectada"}}

Perdidos == {p \in Ingresados : Lugares(p) = {}}

\* A console is told that its process finished only after that very process
\* executed its EXIT and reached exit_l, and is told once
\* (planificador_largo_plazo.c:74-83,243-246).
AvisoTrasExit ==
    \A p \in Proceso :
       (consola[p] = "finalizada" \/ s[p] > 0) =>
          /\ \E i \in DOMAIN lista["exit_l"] :
                LET x == lista["exit_l"][i]
                IN  x.pid = p /\ Programa[p][x.pc] = "EXIT"
          /\ consola[p] = "finalizada" => s[p] = 0
          /\ s[p] <= 1
=============================================================================
