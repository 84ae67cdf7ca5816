--------------------------------- MODULE Cpu ---------------------------------
(***************************************************************************)
(* The CPU process (src/CPU/src): its main thread receives a PCB from the   *)
(* dispatch, executes instructions until one gives the process up or an     *)
(* interruption is pending, and returns the PCB; the thread                 *)
(* atencionInterrupt sets the flag.  Around it, the start of the programs   *)
(* (Arranque), the MMU (Mmu), the messages (Mensajes), the consoles, and    *)
(* the Kernel reduced to what the CPU sees of it: it dispatches one process *)
(* at a time, in any order, and may ask for an interruption while it waits. *)
(***************************************************************************)
EXTENDS Arranque, Mmu, Mensajes

CONSTANTS
    GuionesDe(_),    \* scripts the console of a process may send
    BASURA,          \* bytes that may lie past the end of a buffer
    INTERRUPCIONES   \* bound of the model: SOLICITAR_INTERRUPCION messages

ASSUME GuionesAssumption == \A p \in Procesos : GuionesDe(p) \subseteq Seq(Renglon)

ASSUME BasuraAssumption == BASURA \subseteq Byte

ASSUME InterrupcionesAssumption == INTERRUPCIONES \in Nat

\* A page has whole words, as in the configurations of the repository.
ASSUME PalabrasAssumption == TAM_PAGINA % 4 = 0

VARIABLES
    guion,          \* per process, the lines its console sent
    mensaje,        \* per process, the socket of its console
    pcbs,           \* the PCB objects of the Kernel
    lugar,          \* where the Kernel has each process
    haciaCpu,       \* dispatch socket, to the CPU
    desdeCpu,       \* and back
    pedidos,        \* interrupt socket: messages not yet received
    interrupciones, \* how many were sent
    pcb,            \* the PCB in the CPU
    devolver_pcb,
    interrupcion,
    ram,            \* the words of Memoria, by physical address
    hechas,         \* history: instructions executed by each process
    leido           \* history: the word each process read last

kernel == <<pcbs, lugar>>
sockets == <<mensaje, haciaCpu, desdeCpu, pedidos>>
historia == <<guion, hechas, leido>>
cpu == <<pcb, devolver_pcb, interrupcion, ram>>
vars == <<pc, arranque, consolas, varsMmu, kernel, sockets, interrupciones,
          historia, cpu>>

TAMANO == PAGINAS * TAM_PAGINA
Direccion == {4 * i : i \in 0 .. TAMANO \div 4 - 1}
CantMarcos == Cardinality(Procesos) * TablasPorProceso * ENTRADAS_POR_TABLA
Memoria == {4 * i : i \in 0 .. (CantMarcos * TAM_PAGINA) \div 4 - 1}

NULO == [pid |-> -1]

Init ==
    /\ InitArranque
    /\ InitMmu
    /\ guion = [p \in Procesos |-> <<>>]
    /\ mensaje = [p \in Procesos |-> <<>>]
    /\ pcbs = [p \in Procesos |-> NULO]
    /\ lugar = [p \in Procesos |-> "no"]
    /\ haciaCpu = <<>> /\ desdeCpu = <<>>
    /\ pedidos = 0 /\ interrupciones = 0
    /\ pcb = NULO
    /\ devolver_pcb = FALSE /\ interrupcion = FALSE
    /\ ram = [d \in Memoria |-> 0]
    /\ hechas = [p \in Procesos |-> 0]
    /\ leido = [p \in Procesos |-> 0]

Arrancar(A) ==
    /\ A
    /\ UNCHANGED <<varsMmu, kernel, sockets, interrupciones, historia, cpu>>

-----------------------------------------------------------------------------
\* Consola and the thread gestionar_comunicacion that serves it.

ConsolaEnvia(p) ==
    /\ consola[p] = "aceptada"
    /\ \E lineas \in GuionesDe(p) :
         /\ guion' = [guion EXCEPT ![p] = lineas]
         /\ mensaje' = [mensaje EXCEPT ![p] =
                serializar_mensaje(obtener_intrucciones(lineas), TAMANO)]
    /\ consola' = [consola EXCEPT ![p] = "enviado"]
    /\ UNCHANGED <<pc, arranque, esperando, varsMmu, kernel, haciaCpu,
                   desdeCpu, pedidos, interrupciones, hechas, leido, cpu>>

\* The process reaches ready_l at once: Kernel is about the way there.
GestionarComunicacion(p) ==
    /\ mensaje[p] # <<>>
    /\ \E resto \in BASURA :
         LET m == deserializar_mensaje(mensaje[p], resto)
         IN  pcbs' = [pcbs EXCEPT ![p] =
                         pcb_create(m.tamano, m.instrucciones, p, 0, 0)]
    /\ mensaje' = [mensaje EXCEPT ![p] = <<>>]
    /\ lugar' = [lugar EXCEPT ![p] = "ready"]
    /\ UNCHANGED <<pc, arranque, consolas, varsMmu, haciaCpu, desdeCpu, pedidos,
                   interrupciones, historia, cpu>>

\* PROCESO_FINALIZADO and the pid; the console receives both and exits.
AvisarConsola(p) ==
    /\ lugar[p] = "finalizado"
    /\ consola[p] = "enviado"
    /\ consola' = [consola EXCEPT ![p] = "fin"]
    /\ UNCHANGED <<pc, arranque, esperando, varsMmu, kernel, sockets,
                   interrupciones, historia, cpu>>

-----------------------------------------------------------------------------
\* The Kernel, as the CPU sees it.

Fuera == \E p \in Procesos : lugar[p] = "cpu"

Despachar(p) ==
    /\ lugar[p] = "ready"
    /\ ~ Fuera
    /\ lugar' = [lugar EXCEPT ![p] = "cpu"]
    /\ haciaCpu' = haciaCpu \o pcb_serializar(pcbs[p], 0)
    /\ UNCHANGED <<pc, arranque, consolas, varsMmu, pcbs, mensaje, desdeCpu,
                   pedidos, interrupciones, historia, cpu>>

Interrumpir ==
    /\ Fuera
    /\ interrupciones < INTERRUPCIONES
    /\ interrupciones' = interrupciones + 1
    /\ pedidos' = pedidos + 1
    /\ UNCHANGED <<pc, arranque, consolas, varsMmu, kernel, mensaje, haciaCpu,
                   desdeCpu, historia, cpu>>

\* The PCB object is the one just read; with an estado it does not know the
\* Kernel has no further use for the process.
RecibirDelCpu ==
    /\ desdeCpu # <<>>
    /\ \E m \in recibirPCB(desdeCpu) :
       /\ pcbs' = [pcbs EXCEPT ![m.pid] = m]
       /\ lugar' = [lugar EXCEPT ![m.pid] =
             CASE m.estado = FINALIZADO -> "finalizado"
               [] m.estado \in {BLOQUEADO, INTERRUMPIDO} -> "ready"
               [] OTHER -> "perdido"]
    /\ desdeCpu' = Resto(desdeCpu)
    /\ UNCHANGED <<pc, arranque, consolas, varsMmu, mensaje, haciaCpu, pedidos,
                   interrupciones, historia, cpu>>

-----------------------------------------------------------------------------
\* The thread atencionInterrupt.

AtencionInterrupt ==
    /\ interrupt = "aceptado"
    /\ pedidos > 0
    /\ pedidos' = pedidos - 1
    /\ interrupcion' = TRUE
    /\ UNCHANGED <<pc, arranque, consolas, varsMmu, kernel, mensaje, haciaCpu,
                   desdeCpu, interrupciones, historia, pcb, devolver_pcb, ram>>

-----------------------------------------------------------------------------
\* The main thread.

\* reciboPCBdesdeKernel, only with both clients there.
ReciboPCBdesdeKernel ==
    /\ pc.cpu = "select"
    /\ dispatch = "aceptado" /\ interrupt = "aceptado"
    /\ haciaCpu # <<>>
    /\ \E m \in recibirPCB(haciaCpu) :
         /\ pcb' = m
         /\ PrepararTlb(m.pid)
    /\ haciaCpu' = Resto(haciaCpu)
    /\ Ir("cpu", "fetch")
    /\ UNCHANGED <<arranque, consolas, kernel, mensaje, desdeCpu, pedidos,
                   interrupciones, historia, devolver_pcb, interrupcion, ram>>

enCiclo == <<arranque, consolas, kernel, sockets, interrupciones, guion>>

\* list_get gives NULL past the last instruction, and the CPU dies of it.
Fetch ==
    /\ pc.cpu = "fetch"
    /\ IF pcb.program_counter < Len(pcb.instrucciones)
       THEN /\ pcb' = [pcb EXCEPT !.program_counter = @ + 1]
            /\ Ir("cpu", IF pcb.instrucciones[pcb'.program_counter].id = COPY
                         THEN "operandos" ELSE "execute")
       ELSE Ir("cpu", "caida") /\ UNCHANGED pcb
    /\ UNCHANGED <<enCiclo, varsMmu, hechas, leido, devolver_pcb, interrupcion, ram>>

Instruccion == pcb.instrucciones[pcb.program_counter]
Parametro(i) == Instruccion.parametros[i]

\* calcular_datos_direccion and traducir_direccion, for a page of the process.
Fisica(direccion) ==
    DireccionFisica(Marco(pcb.pid, NumeroPagina(direccion)), direccion)
Traducir(direccion) ==
    /\ direccion \in Direccion
    /\ Get_marco(pcb.pid, NumeroPagina(direccion))

\* fetch_operands: leer, into the parameter itself.
FetchOperands ==
    /\ pc.cpu = "operandos"
    /\ Traducir(Parametro(2))
    /\ pcb' = [pcb EXCEPT !.instrucciones[pcb.program_counter].parametros[2]
                   = ram[Fisica(Parametro(2))]]
    /\ Ir("cpu", "execute")
    /\ UNCHANGED <<enCiclo, hechas, leido, devolver_pcb, interrupcion, ram>>

\* An address past the process: Memoria looks it up past the end of its tables.
AccesoFuera ==
    /\ \/ pc.cpu = "operandos" /\ Parametro(2) \notin Direccion
       \/ /\ pc.cpu = "execute"
          /\ Instruccion.id \in {WRITE, COPY, READ}
          /\ Parametro(1) \notin Direccion
    /\ Ir("cpu", "caida")
    /\ UNCHANGED <<enCiclo, varsMmu, hechas, leido, cpu>>

\* execute an instruction with an id of ids that gives up the PCB or not.
Execute(ids, devolver) ==
    /\ pc.cpu = "execute"
    /\ Instruccion.id \in ids
    /\ devolver_pcb' = devolver
    /\ hechas' = [hechas EXCEPT ![pcb.pid] = @ + 1]
    /\ Ir("cpu", "check")
    /\ UNCHANGED <<enCiclo, interrupcion>>

ExecuteNoOp ==
    /\ Execute({NO_OP}, FALSE)
    /\ UNCHANGED <<varsMmu, pcb, ram, leido>>

ExecuteIO ==
    /\ Execute({I_O}, TRUE)
    /\ pcb' = [pcb EXCEPT !.estado = BLOQUEADO, !.tiempo_block = Parametro(1)]
    /\ UNCHANGED <<varsMmu, ram, leido>>

\* WRITE, and COPY with the operand fetched.
Escribir ==
    /\ Execute({WRITE, COPY}, FALSE)
    /\ Traducir(Parametro(1))
    /\ ram' = [ram EXCEPT ![Fisica(Parametro(1))] = Parametro(2)]
    /\ UNCHANGED <<pcb, leido>>

Leer ==
    /\ Execute({READ}, FALSE)
    /\ Traducir(Parametro(1))
    /\ leido' = [leido EXCEPT ![pcb.pid] = ram[Fisica(Parametro(1))]]
    /\ UNCHANGED <<pcb, ram>>

ExecuteExit ==
    /\ Execute({EXIT}, TRUE)
    /\ pcb' = [pcb EXCEPT !.estado = FINALIZADO]
    /\ UNCHANGED <<varsMmu, ram, leido>>

\* The estado stays what it was.
ExecuteOtra ==
    /\ Execute(0 .. 255 \ {NO_OP, I_O, WRITE, COPY, READ, EXIT}, TRUE)
    /\ UNCHANGED <<varsMmu, pcb, ram, leido>>

\* Mutant: the interruption decides even when the instruction has decided.
CheckSoloInterrupcion ==
    /\ pc.cpu = "check"
    /\ pcb' = IF interrupcion THEN [pcb EXCEPT !.estado = INTERRUMPIDO] ELSE pcb
    /\ devolver_pcb' = interrupcion
    /\ Ir("cpu", IF devolver_pcb' THEN "send" ELSE "fetch")
    /\ UNCHANGED <<enCiclo, varsMmu, hechas, leido, interrupcion, ram>>

\* check interrupt, with mutex_interrupt.
CheckInterrupt ==
    /\ pc.cpu = "check"
    /\ IF ~ devolver_pcb /\ interrupcion
       THEN pcb' = [pcb EXCEPT !.estado = INTERRUMPIDO]
       ELSE UNCHANGED pcb
    /\ devolver_pcb' = (devolver_pcb \/ interrupcion)
    /\ Ir("cpu", IF devolver_pcb' THEN "send" ELSE "fetch")
    /\ UNCHANGED <<enCiclo, varsMmu, hechas, leido, interrupcion, ram>>

\* procesarPCB: the PCB is sent, and only then the flags are reset, without the
\* mutex.
Devolver ==
    /\ pc.cpu = "send"
    /\ desdeCpu' = desdeCpu \o pcb_serializar(pcb, 1)
    /\ Ir("cpu", "reset")
    /\ UNCHANGED <<arranque, consolas, varsMmu, kernel, mensaje, haciaCpu,
                   pedidos, interrupciones, historia, cpu>>

Reiniciar ==
    /\ pc.cpu = "reset"
    /\ interrupcion' = FALSE
    /\ devolver_pcb' = FALSE
    /\ idAnteriorPCB' = pcb.pid
    /\ pcb' = NULO
    /\ Ir("cpu", "select")
    /\ UNCHANGED <<enCiclo, tlb, reloj, algoritmo, ultimoUso, hechas, leido, ram>>

-----------------------------------------------------------------------------
Hilo ==
    \/ ReciboPCBdesdeKernel \/ Fetch \/ FetchOperands \/ AccesoFuera
    \/ ExecuteNoOp \/ ExecuteIO \/ Escribir \/ Leer \/ ExecuteExit \/ ExecuteOtra
    \/ CheckInterrupt \/ Devolver \/ Reiniciar

Atender == \E p \in Procesos : \/ ConsolaEnvia(p) \/ GestionarComunicacion(p)
                               \/ AvisarConsola(p)

Next ==
    \/ Arrancar(PasoMemoria) \/ Arrancar(PasoCpu) \/ Arrancar(PasoKernel)
    \/ Arrancar(Lanzar)
    \/ Atender
    \/ \E p \in Procesos : Despachar(p)
    \/ Interrumpir
    \/ RecibirDelCpu
    \/ AtencionInterrupt
    \/ Hilo

\* The threads keep running; nobody is obliged to start a program or to
\* interrupt.
Spec ==
    /\ Init /\ [][Next]_vars
    /\ WF_vars(Arrancar(PasoMemoria))
    /\ WF_vars(Arrancar(PasoCpu) \/ Hilo)
    /\ WF_vars(Arrancar(PasoKernel))
    /\ WF_vars(RecibirDelCpu)

-----------------------------------------------------------------------------
PcbDe(p) == [pid : {p}, tamano : {TAMANO}, program_counter : Nat,
             estimado_rafaga : {0}, estado : INICIADO .. INTERRUMPIDO,
             tiempo_block : Nat, tabla_paginas : {0}, tiempo_ejecucion : {0},
             instrucciones : Seq([id : 0 .. 255, parametros : Seq(Nat)])]

\* Types: a PCB goes through the sockets and comes out as the same PCB, of the
\* process it was dispatched for.
TypeOK ==
    /\ TypeOKArranque
    /\ TypeOKMmu
    /\ idAnteriorPCB \in Procesos \union {-1}
    /\ pc.cpu \in {"no", "fin", "memoria", "entradas", "dispatch", "interrupt",
                   "select", "fetch", "operandos", "execute", "check", "send",
                   "reset", "caida"}
    /\ \A p \in Procesos : pcbs[p] = NULO \/ pcbs[p] \in PcbDe(p)
    /\ lugar \in [Procesos -> {"no", "ready", "cpu", "finalizado", "perdido"}]
    /\ pcb = NULO \/ \E p \in Procesos : 
          pcb \in PcbDe(p) /\ (lugar[p] = "cpu" \/ pc.cpu = "reset")
    /\ pedidos \in 0 .. interrupciones /\ interrupciones \in 0 .. INTERRUPCIONES
    /\ {devolver_pcb, interrupcion} \subseteq BOOLEAN
    /\ ram \in [Memoria -> Nat]

P == INSTANCE Programa WITH
        Pids <- Procesos,
        Direcciones <- Direccion,
        mem <- [p \in Procesos |-> [d \in Direccion |->
                  ram[DireccionFisica(get_marco_memoria(p, NumeroPagina(d)), d)]]],
        avisada <- [p \in Procesos |-> consola[p] = "fin"]

(* What a console sent is what its process does: through the expansion of   *)
(* its lines, two streams of bytes per dispatch, the TLB, the operand that  *)
(* COPY overwrites in the PCB and the interruptions between instructions,   *)
(* each process executes its own script in order on its own memory, and its *)
(* console is answered after EXIT (obtener_intrucciones to                  *)
(* gestionar_comunicacion, ejecutar_ciclo_instrucciones).                   *)
ImplementaPrograma == P!Spec

Correcto(lineas) ==
    /\ \A i \in DOMAIN lineas : P!BienEscrita(lineas[i])
    /\ \E i \in DOMAIN lineas : lineas[i].nombre = "EXIT"

(* A process the Kernel dispatched comes back and does not take the CPU     *)
(* down with it, provided that its script is well written and has an EXIT:  *)
(* it is received, its burst ends and the PCB is returned                   *)
(* (reciboPCBdesdeKernel to procesarPCB); the next dispatch waits for it.   *)
PcbVuelve ==
    Fuera ~> \/ ~ Fuera
             \/ \E p \in Procesos : lugar[p] = "cpu" /\ ~ Correcto(guion[p])
=============================================================================
