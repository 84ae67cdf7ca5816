------------------------------- MODULE Arranque -------------------------------
(***************************************************************************)
(* How the four programs find each other: Memoria accepts two connections   *)
(* and no more (src/Memoria/src/main.c), the CPU connects to it before it   *)
(* listens (src/CPU/src/utlis.c, CPU.c), the Kernel connects to Memoria and *)
(* then to the two servers of the CPU (src/Kernel/src/conexiones.c), and    *)
(* the consoles connect to the Kernel.                                      *)
(*                                                                          *)
(* Whoever starts the programs does so in any order and starts a program    *)
(* again when it has exited.  A connect succeeds as soon as the server      *)
(* listens, whether or not it will ever accept; the handshake byte is sent  *)
(* with it.  getaddrinfo, socket, bind and listen do not fail.              *)
(***************************************************************************)
EXTENDS Integers, FiniteSets, Sequences

CONSTANTS
    Procesos,       \* pids: the consoles in the order they are accepted
    CONEXIONES      \* bound of the model: connections made to Memoria

ASSUME PidsAssumption ==
    IsFiniteSet(Procesos) /\ Procesos = 0 .. Cardinality(Procesos) - 1

VARIABLES
    pc,             \* what the main thread of each program does
    conexiones,     \* connected to Memoria and not accepted
    aceptadas,      \* how many of each iniciar_conexiones_mem has accepted
    atendido,       \* who has the answer of Memoria in its socket
    dispatch,       \* the connection of the Kernel to SERVER_DISPATCH
    interrupt,      \* and to SERVER_INTERRUPT
    esperando,      \* consoles connected to the Kernel and not accepted
    consola         \* the console of each pid

arranque == <<conexiones, aceptadas, atendido, dispatch, interrupt>>
consolas == <<esperando, consola>>

ConexionesMemoria == 2
Total(c) == c["cpu"] + c["kernel"]

InitArranque ==
    /\ pc = [memoria |-> "no", cpu |-> "no", kernel |-> "no"]
    /\ conexiones = <<>> /\ aceptadas = [cpu |-> 0, kernel |-> 0] /\ atendido = {}
    /\ dispatch = "no" /\ interrupt = "no"
    /\ esperando = 0
    /\ consola = [p \in Procesos |-> "no"]

Ir(x, d) == pc' = [pc EXCEPT ![x] = d]

-----------------------------------------------------------------------------
\* Memoria.

\* iniciar_servidor_memoria
MemoriaEscucha ==
    /\ pc.memoria = "no"
    /\ Ir("memoria", "accept")
    /\ UNCHANGED <<arranque, consolas>>

\* Mutant: the CPU is accepted the way the Kernel is.
AceptarSinEntradas ==
    /\ pc.memoria = "accept"
    /\ conexiones # <<>>
    /\ LET x == Head(conexiones) IN
       /\ aceptadas' = [aceptadas EXCEPT ![x] = @ + 1]
       /\ atendido' = atendido \union {x}
    /\ Ir("memoria", IF Total(aceptadas') = ConexionesMemoria THEN "hilos"
                                                             ELSE "accept")
    /\ conexiones' = Tail(conexiones)
    /\ UNCHANGED <<dispatch, interrupt, consolas>>

\* iniciar_conexiones_mem up to the answer: the place of an accepted connection
\* is not given back when its program exits.
AceptarConexion ==
    /\ pc.memoria = "accept"
    /\ conexiones # <<>>
    /\ LET x == Head(conexiones) IN
       /\ aceptadas' = [aceptadas EXCEPT ![x] = @ + 1]
       /\ atendido' = atendido \union {x}
       /\ Ir("memoria", CASE x = "cpu" -> "entrada"
                          [] Total(aceptadas') = ConexionesMemoria -> "hilos"
                          [] OTHER -> "accept")
    /\ conexiones' = Tail(conexiones)
    /\ UNCHANGED <<dispatch, interrupt, consolas>>

\* SOLICITAR_ENTRADA_Y_TAMANO is answered with the two words.
EnviarEntradas ==
    /\ pc.memoria = "entrada"
    /\ pc.cpu = "entradas"
    /\ atendido' = atendido \union {"cpu"}
    /\ Ir("memoria", IF Total(aceptadas) = ConexionesMemoria THEN "hilos"
                                                           ELSE "accept")
    /\ UNCHANGED <<conexiones, aceptadas, dispatch, interrupt, consolas>>

-----------------------------------------------------------------------------
\* The clients of Memoria.

\* crear_conexion and the handshake.  With no server the recv on descriptor -1
\* leaves respuesta at 0 and the program exits, to be started again.
Conectar(x) ==
    /\ pc[x] \in {"no", "fin"}
    /\ Len(conexiones) + Total(aceptadas) < CONEXIONES
    /\ IF pc.memoria = "no"
       THEN Ir(x, "fin") /\ UNCHANGED conexiones
       ELSE Ir(x, "memoria") /\ conexiones' = Append(conexiones, x)
    /\ UNCHANGED <<aceptadas, atendido, dispatch, interrupt, consolas>>

\* The answer is received; the next step is d.
Recibir(x, en, d) ==
    /\ pc[x] = en
    /\ x \in atendido
    /\ atendido' = atendido \ {x}
    /\ Ir(x, d)
    /\ UNCHANGED <<conexiones, aceptadas, dispatch, interrupt, consolas>>

-----------------------------------------------------------------------------
\* The CPU: levantar_conexion_memoria_CPU and the servers.

LanzarCpu == Conectar("cpu")
CpuAceptada == Recibir("cpu", "memoria", "entradas")
CpuEntradas == Recibir("cpu", "entradas", "dispatch")

Levantar(en, d) ==
    /\ pc.cpu = en
    /\ Ir("cpu", d)
    /\ UNCHANGED <<arranque, consolas>>

LevantarServerDispatch == Levantar("dispatch", "interrupt")
LevantarServerInterrupt == Levantar("interrupt", "select")

\* aceptoServerDispatch and aceptoServerInterrupt: the handshake is answered and
\* the client counted.  No second one ever connects.
AceptoServerDispatch ==
    /\ pc.cpu = "select"
    /\ dispatch = "pedido"
    /\ dispatch' = "aceptado"
    /\ UNCHANGED <<pc, conexiones, aceptadas, atendido, interrupt, consolas>>

AceptoServerInterrupt ==
    /\ pc.cpu = "select"
    /\ interrupt = "pedido"
    /\ interrupt' = "aceptado"
    /\ UNCHANGED <<pc, conexiones, aceptadas, atendido, dispatch, consolas>>

-----------------------------------------------------------------------------
\* The Kernel: levantar_conexion_memoria, _cpu_dispatch and _cpu_interrupt.

LanzarKernel == Conectar("kernel")
KernelAceptado == Recibir("kernel", "memoria", "dispatch")

EscuchaDispatch == pc.cpu \notin {"no", "memoria", "entradas", "dispatch", "fin"}
EscuchaInterrupt == EscuchaDispatch /\ pc.cpu # "interrupt"

\* With nobody listening the Kernel exits: its connection to Memoria is lost
\* and the place it took there as well.
ConectarDispatch ==
    /\ pc.kernel = "dispatch"
    /\ IF EscuchaDispatch
       THEN Ir("kernel", "recv_dispatch") /\ dispatch' = "pedido"
       ELSE Ir("kernel", "fin") /\ UNCHANGED dispatch
    /\ UNCHANGED <<conexiones, aceptadas, atendido, interrupt, consolas>>

RecibirDispatch ==
    /\ pc.kernel = "recv_dispatch"
    /\ dispatch = "aceptado"
    /\ Ir("kernel", "interrupt")
    /\ UNCHANGED <<arranque, consolas>>

\* The handshake of the dispatch is answered from the loop that both servers
\* precede: somebody listens.
ConectarInterrupt ==
    /\ pc.kernel = "interrupt"
    /\ EscuchaInterrupt
    /\ Ir("kernel", "recv_interrupt")
    /\ interrupt' = "pedido"
    /\ UNCHANGED <<conexiones, aceptadas, atendido, dispatch, consolas>>

\* Then iniciar_servidor and the planners.
RecibirInterrupt ==
    /\ pc.kernel = "recv_interrupt"
    /\ interrupt = "aceptado"
    /\ Ir("kernel", "listo")
    /\ UNCHANGED <<arranque, consolas>>

-----------------------------------------------------------------------------
\* The consoles: levantarConexionKernel and comunicacion_con_consolas.

\* A console that finds no Kernel exits and leaves nothing behind.
LanzarConsola ==
    /\ pc.kernel = "listo"
    /\ esperando < Cardinality({p \in Procesos : consola[p] = "no"})
    /\ esperando' = esperando + 1
    /\ UNCHANGED <<pc, arranque, consola>>

\* The Kernel answers the handshake and gives the thread of the console the
\* next pid.
AceptarConsola(p) ==
    /\ esperando > 0
    /\ consola[p] = "no"
    /\ \A q \in Procesos : q < p => consola[q] # "no"
    /\ esperando' = esperando - 1
    /\ consola' = [consola EXCEPT ![p] = "aceptada"]
    /\ UNCHANGED <<pc, arranque>>

-----------------------------------------------------------------------------
\* What each program does by itself, and what somebody starts.

PasoMemoria == AceptarConexion \/ EnviarEntradas
PasoCpu == \/ CpuAceptada \/ CpuEntradas
           \/ LevantarServerDispatch \/ LevantarServerInterrupt
           \/ AceptoServerDispatch \/ AceptoServerInterrupt
PasoKernel == \/ KernelAceptado
              \/ ConectarDispatch \/ RecibirDispatch
              \/ ConectarInterrupt \/ RecibirInterrupt
              \/ \E p \in Procesos : AceptarConsola(p)
Lanzar == MemoriaEscucha \/ LanzarCpu \/ LanzarKernel \/ LanzarConsola

-----------------------------------------------------------------------------
TypeOKArranque ==
    /\ pc.memoria \in {"no", "accept", "entrada", "hilos"}
    /\ pc.kernel \in {"no", "fin", "memoria", "dispatch", "recv_dispatch",
                      "interrupt", "recv_interrupt", "listo"}
    /\ conexiones \in Seq({"cpu", "kernel"})
    /\ aceptadas \in [{"cpu", "kernel"} -> 0 .. ConexionesMemoria]
    /\ atendido \subseteq {"cpu", "kernel"}
    /\ {dispatch, interrupt} \subseteq {"no", "pedido", "aceptado"}
    /\ esperando \in 0 .. Cardinality(Procesos)
    /\ consola \in [Procesos -> {"no", "aceptada", "enviado", "fin"}]

Arrancando == {"memoria", "entradas", "dispatch", "interrupt", "recv_dispatch",
               "recv_interrupt"}

\* A place of Memoria belongs to a Kernel that has exited.
LugarPerdido ==
    \/ aceptadas["kernel"] = ConexionesMemoria
    \/ /\ aceptadas["kernel"] = 1
       /\ \/ pc.kernel = "fin"
          \/ pc.kernel = "memoria" /\ "kernel" \notin atendido

(* Programs that have begun to start end up connected or exit, whatever the *)
(* order they are started in, unless a Kernel exited for want of a CPU and  *)
(* took one of the two places of Memoria with it (iniciar_conexiones_mem,   *)
(* levantar_conexion_cpu_dispatch).                                         *)
ArranqueTermina ==
    {pc.cpu, pc.kernel} \intersect Arrancando # {}
        ~> ({pc.cpu, pc.kernel} \intersect Arrancando = {} \/ LugarPerdido)
=============================================================================
