------------------------------- MODULE Memoria -------------------------------
(***************************************************************************)
(* The Memoria process (src/Memoria/src): the thread funciones_kernel that  *)
(* creates, suspends and ends processes, the thread funciones_cpu that      *)
(* serves page table entries, reads and writes, and the thread swap_, over  *)
(* structures that no mutex protects; and, in front of them, the CPU with   *)
(* its TLB (module Tlb), which waits for every answer of funciones_cpu.     *)
(*                                                                          *)
(* A page holds one word.  A level-2 entry is named by its global number    *)
(* n_tabla_2 * ENTRADAS_POR_TABLA + n_entrada_2, which is also the page     *)
(* number the code uses in the swap file.  Every list_add and table update  *)
(* is one step, the list_remove of swap_ is two; a bit of bitMem is read    *)
(* with its byte and then written with it; every sleep separates two steps. *)
(***************************************************************************)
EXTENDS Tlb, Integers, Sequences, SequencesExt

CONSTANTS
    CANT_PROCESOS,
    Paginas,              \* pages of a process
    Orden,                \* pids in the order of INICIALIZAR_PROCESO
    MARCOS_POR_PROCESO,   \* memoria.config
    CANT_MARCOS,          \* TAM_MEMORIA / TAM_PAGINA
    ALGORITMOS,           \* those memoria.config may name
    REEMPLAZO_TLB,        \* cpu.config
    INSTRUCCIONES,        \* what the programs do: READ, WRITE or both
    OPERACIONES,          \* bound of the model: accesses and suspensions
    SOLAPADOS,            \* bound of the model: the first accesses, which may
                          \* begin while the other threads are busy
    SUSPENSIONES,         \* bound of the model: suspensions
    BITS_POR_BYTE         \* 8; less, in the model, to fill a smaller memory

Proceso == 0 .. CANT_PROCESOS - 1

ASSUME ProcesosAssumption == CANT_PROCESOS \in Nat \ {0} /\ Paginas \in Nat \ {0}

\* pasar_a_ready takes new_l in the order the consoles' threads filled it.
ASSUME OrdenAssumption ==
    /\ Orden \in Seq(Proceso)
    /\ Len(Orden) = CANT_PROCESOS
    /\ ToSet(Orden) = Proceso

ASSUME MarcosAssumption ==
    /\ MARCOS_POR_PROCESO \in Nat \ {0}
    /\ CANT_MARCOS \in Nat \ {0}
    /\ BITS_POR_BYTE \in Nat \ {0}

ASSUME AlgoritmoAssumption == /\ ALGORITMOS \subseteq {"CLOCK", "CLOCK-M"}
                             /\ REEMPLAZO_TLB \in {"FIFO", "LRU"}

ASSUME InstruccionesAssumption == INSTRUCCIONES \subseteq {"READ", "WRITE"}

ASSUME CotasAssumption == {OPERACIONES, SOLAPADOS, SUSPENSIONES} \subseteq Nat

Division_entera(n, d) == (n + d - 1) \div d

\* Tables of level 2 of a process, and the entries of all of them.
CantEntradas1 == Division_entera(Paginas, ENTRADAS_POR_TABLA)
Numero == 0 .. CANT_PROCESOS * CantEntradas1 * ENTRADAS_POR_TABLA - 1

\* inicializar: the bit array has whole bytes.
Frame == 0 .. BITS_POR_BYTE * Division_entera(CANT_MARCOS, BITS_POR_BYTE) - 1
Byte(f) == {b \in Frame : b \div BITS_POR_BYTE = f \div BITS_POR_BYTE}

Pagina == 0 .. Paginas - 1

NADIE == -1

VARIABLES
    ALGORITMO_REEMPLAZO,  \* memoria.config
    tabla_1_l,        \* level-1 tables: a pid and its level-2 tables
    tabla_2_l,        \* the entries of the level-2 tables, by global number
    procesos,         \* t_proceso; pagMem holds indices of paginas
    paginas,          \* the t_memory_pag ever allocated
    bitMem,           \* the bits that are set
    memoria,          \* per frame, its word
    archivo,          \* per swap file that exists, its words
    pedidos_swap_l,   \* requests for swap_
    s_swap,
    socket_kernel,    \* messages from the Kernel not yet received
    kernel,           \* thread funciones_kernel
    swap,             \* thread swap_
    cpu,              \* thread funciones_cpu and the access of the CPU it serves
    tlb, idAnteriorPCB,
    estado,           \* what the Kernel has done with each process
    caida,            \* Memoria died of SIGSEGV
    accesos, suspensiones,
    escrito,          \* history: the last word written to each page
    fiel,             \* history: nothing has happened since that may lose it
    carrera,          \* history: a byte of bitMem was written back stale
    sinCopiar         \* history: requests for swap_ made and not served

tablas == <<tabla_1_l, procesos>>
historia == <<escrito, fiel, carrera>>
enSwap == <<pedidos_swap_l, s_swap, archivo, sinCopiar>>
ambiente == <<estado, suspensiones, socket_kernel>>
enCpu == <<tlb, idAnteriorPCB, accesos>>
vars == <<ALGORITMO_REEMPLAZO, tabla_1_l, tabla_2_l, procesos, paginas, bitMem,
          memoria, archivo, pedidos_swap_l, s_swap, socket_kernel, kernel,
          swap, cpu, tlb, idAnteriorPCB, estado, caida, accesos, suspensiones,
          escrito, fiel, carrera, sinCopiar>>

\* list_get, from 0, and NULL outside.
EnLista(l, i) == i + 1 \in DOMAIN l
Get(l, i) == l[i + 1]

EntradaVacia == [frame |-> NADIE, bUso |-> 0, bMod |-> 0, bPres |-> 0]

\* No access, and what is left of one: the globals of funciones_cpu.
CpuLibre == [pc |-> "libre", pid |-> NADIE, pag |-> 0, op |-> "READ",
             valor |-> 0, marco |-> NADIE, numero |-> NADIE, tabla2 |-> NADIE,
             backup_indice_1 |-> NADIE, pid_ |-> NADIE, byte |-> {},
             nueva |-> NADIE]

Init ==
    /\ ALGORITMO_REEMPLAZO \in ALGORITMOS
    /\ tabla_1_l = <<>> /\ tabla_2_l = <<>>
    /\ procesos = <<>> /\ paginas = <<>>
    /\ bitMem = {}
    /\ memoria = [f \in Frame |-> 0]
    /\ archivo = <<>>
    /\ pedidos_swap_l = <<>> /\ s_swap = 0
    /\ socket_kernel = <<>>
    /\ kernel = [pc |-> "libre", pid |-> NADIE, i |-> 0, frame |-> NADIE, byte |-> {}]
    /\ swap = [pc |-> "libre", pedido |-> <<>>]
    /\ cpu = CpuLibre
    /\ tlb = {} /\ idAnteriorPCB = NADIE
    /\ estado = [p \in Proceso |-> "new"]
    /\ caida = FALSE
    /\ accesos = 0 /\ suspensiones = 0
    /\ escrito = [p \in Proceso |-> [n \in Pagina |-> 0]]
    /\ fiel = [p \in Proceso |-> [n \in Pagina |-> TRUE]]
    /\ carrera = FALSE /\ sinCopiar = 0

Morir ==
    /\ caida' = TRUE
    /\ UNCHANGED <<tabla_1_l, tabla_2_l, procesos, paginas, bitMem, memoria,
                   archivo, pedidos_swap_l, s_swap, socket_kernel, kernel,
                   swap, cpu, tlb, idAnteriorPCB, estado, accesos,
                   suspensiones, historia, sinCopiar>>

-----------------------------------------------------------------------------
\* The Kernel and the dispatches to the CPU, from how src/Kernel uses them.

Manda(op, p) == socket_kernel' = Append(socket_kernel, [op |-> op, pid |-> p])

Ejecuta(p) == estado[p] = "exec"

\* pasar_a_ready: one process at a time, it waits for the answer.
PedirInicializar ==
    \E i \in DOMAIN Orden :
        /\ estado[Orden[i]] = "new"
        /\ \A j \in 1 .. i - 1 : estado[Orden[j]] \notin {"new", "ini"}
        /\ Manda("INICIALIZAR_PROCESO", Orden[i])
        /\ estado' = [estado EXCEPT ![Orden[i]] = "ini"]
        /\ UNCHANGED <<tablas, tabla_2_l, paginas, bitMem, memoria, enSwap,
                       kernel, swap, cpu, enCpu, suspensiones, historia, caida>>

\* Mutant: reciboPCBdesdeKernel keeps the TLB.
TlbParaSinLimpiar(p) == tlb

\* reciboPCBdesdeKernel: the TLB is emptied for another process.
TlbPara(p) == IF p = idAnteriorPCB THEN tlb ELSE {}

Despachar(p) ==
    /\ estado[p] = "ready"
    /\ ~ \E q \in Proceso : Ejecuta(q)
    /\ estado' = [estado EXCEPT ![p] = "exec"]
    /\ tlb' = TlbPara(p)
    /\ idAnteriorPCB' = p
    /\ UNCHANGED <<tablas, tabla_2_l, paginas, bitMem, memoria, enSwap,
                   socket_kernel, kernel, swap, cpu, accesos, suspensiones,
                   historia, caida>>

\* The CPU gives the PCB back between two accesses.
CpuOciosa == cpu.pc \in {"libre", "marca"}

Bloquear(p) ==
    /\ Ejecuta(p) /\ CpuOciosa
    /\ estado' = [estado EXCEPT ![p] = "block"]
    /\ UNCHANGED <<tablas, tabla_2_l, paginas, bitMem, memoria, enSwap,
                   socket_kernel, kernel, swap, cpu, enCpu, suspensiones,
                   historia, caida>>

\* suspender_proceso of the PMP.
Suspender(p) ==
    /\ estado[p] = "block"
    /\ suspensiones < SUSPENSIONES /\ accesos + suspensiones < OPERACIONES
    /\ suspensiones' = suspensiones + 1
    /\ Manda("SUSPENDER_PROCESO", p)
    /\ estado' = [estado EXCEPT ![p] = "susp"]
    /\ UNCHANGED <<tablas, tabla_2_l, paginas, bitMem, memoria, enSwap, kernel,
                   swap, cpu, enCpu, historia, caida>>

Desbloquear(p) ==
    /\ estado[p] \in {"block", "susp"}
    /\ estado' = [estado EXCEPT ![p] = "ready"]
    /\ UNCHANGED <<tablas, tabla_2_l, paginas, bitMem, memoria, enSwap,
                   socket_kernel, kernel, swap, cpu, enCpu, suspensiones,
                   historia, caida>>

\* EXIT and finalizar_procesos of the PLP.
Terminar(p) ==
    /\ Ejecuta(p) /\ CpuOciosa
    /\ estado' = [estado EXCEPT ![p] = "exit"]
    /\ Manda("FINALIZAR_PROCESO", p)
    /\ UNCHANGED <<tablas, tabla_2_l, paginas, bitMem, memoria, enSwap, kernel,
                   swap, cpu, enCpu, suspensiones, historia, caida>>

-----------------------------------------------------------------------------
\* Thread funciones_kernel.

Recibe(op) ==
    /\ kernel.pc = "libre" /\ socket_kernel # <<>>
    /\ Head(socket_kernel).op = op
    /\ socket_kernel' = Tail(socket_kernel)

\* crear_proceso, list_add(procesos, proceso).
Inicializar_proceso ==
    LET pid == Head(socket_kernel).pid
        primera == Len(tabla_2_l) \div ENTRADAS_POR_TABLA IN
    /\ Recibe("INICIALIZAR_PROCESO")
    /\ tabla_1_l' = Append(tabla_1_l,
           [pid |-> pid, entradas |-> [i \in 1 .. CantEntradas1 |-> primera + i - 1]])
    /\ tabla_2_l' = tabla_2_l \o
           [i \in 1 .. CantEntradas1 * ENTRADAS_POR_TABLA |-> EntradaVacia]
    /\ procesos' = Append(procesos, [pid |-> pid, puntero |-> 0, contador |-> 0,
                                     pagMem |-> <<>>])
    /\ kernel' = [kernel EXCEPT !.pc = "crear_archivo", !.pid = pid]
    /\ UNCHANGED <<paginas, bitMem, memoria, enSwap, swap, cpu, enCpu, estado,
                   suspensiones, historia, caida>>

\* crear_archivo_swap after its sleep, and the answer to the Kernel.
Crear_archivo_swap ==
    /\ kernel.pc = "crear_archivo"
    /\ archivo' = [p \in DOMAIN archivo \union {kernel.pid} |->
                      IF p \in DOMAIN archivo THEN archivo[p] ELSE [n \in Numero |-> 0]]
    /\ kernel' = [kernel EXCEPT !.pc = "libre"]
    /\ estado' = [estado EXCEPT ![kernel.pid] = "ready"]
    /\ UNCHANGED <<tablas, tabla_2_l, paginas, bitMem, memoria, pedidos_swap_l,
                   s_swap, sinCopiar, socket_kernel, swap, cpu, enCpu,
                   suspensiones, historia, caida>>

PagMem(i) == Get(procesos, i).pagMem

EntradaDe(x) == Get(tabla_2_l, paginas[x].entrada)

\* A request with, for the properties, the entries and words it is about.
Pedido(pid, xs) ==
    [pid |-> pid, paginas |-> xs,
     entradas |-> [k \in DOMAIN xs |-> paginas[xs[k]].entrada],
     palabras |-> [k \in DOMAIN xs |-> memoria[EntradaDe(xs[k]).frame]]]

\* The words of the pages whose entries are ns may be lost.
FielSin(ns) ==
    [p \in Proceso |-> [n \in Pagina |->
        fiel[p][n] /\ ~ \E t \in ToSet(tabla_1_l) :
            /\ t.pid = p
            /\ Get(t.entradas, EntradaPrimerNivel(n)) * ENTRADAS_POR_TABLA
                 + EntradaSegundoNivel(n) \in ns]]
Dudosas(ns) == fiel' = FielSin(ns)

\* Mutant: the request is listed and swap_ is not told.
EncolarSinPost(pedido, ns) ==
    /\ pedidos_swap_l' = Append(pedidos_swap_l, pedido)
    /\ sinCopiar' = sinCopiar + 1
    /\ Dudosas(ns)
    /\ UNCHANGED s_swap

\* list_add(pedidos_swap_l, ...), sem_post(&s_swap).  swap_ may be removing the
\* only request of the list, and this one is then lost with it.
Encolar(pedido, ns) ==
    /\ \/ /\ pedidos_swap_l' = Append(pedidos_swap_l, pedido)
          /\ Dudosas(ns)
       \/ /\ swap.pc = "quitar" /\ Len(pedidos_swap_l) = 1
          /\ Dudosas(ns \union ToSet(pedido.entradas))
          /\ UNCHANGED pedidos_swap_l
    /\ s_swap' = s_swap + 1
    /\ sinCopiar' = sinCopiar + 1

\* obtener_entrada: the entry of the page in the table last asked for.
Obtener_entrada(pagina) ==
    Get(Get(tabla_1_l, cpu.backup_indice_1).entradas, EntradaPrimerNivel(pagina))
        * ENTRADAS_POR_TABLA + EntradaSegundoNivel(pagina)

\* The page of a process that has been written and not yet marked.
SinMarcar(pid) == IF cpu.pc = "marca" /\ cpu.op = "WRITE" /\ cpu.pid = pid
                  THEN {Obtener_entrada(cpu.pag)} ELSE {}

\* suspender_proceso up to its usleep: the modified pages go to swap_, in their
\* places of pagMem.
Suspender_proceso ==
    LET pid == Head(socket_kernel).pid
        xs == PagMem(pid)
        modificadas == {k \in DOMAIN xs : EntradaDe(xs[k]).bMod = 1} IN
    /\ Recibe("SUSPENDER_PROCESO")
    /\ EnLista(procesos, pid)
    /\ Encolar(Pedido(pid, Restrict(xs, modificadas)), SinMarcar(pid))
    /\ kernel' = [kernel EXCEPT !.pc = "liberar", !.pid = pid]
    /\ UNCHANGED <<tablas, tabla_2_l, paginas, bitMem, memoria, archivo, swap,
                   cpu, enCpu, estado, suspensiones, escrito, carrera, caida>>

\* One turn of its loop, up to the read of bitarray_clean_bit.
LiberarPagina ==
    LET xs == PagMem(kernel.pid)
        n == paginas[Head(xs)].entrada
        f == Get(tabla_2_l, n).frame IN
    /\ kernel.pc = "liberar"
    /\ xs # <<>>
    /\ procesos' = [procesos EXCEPT ![kernel.pid + 1].pagMem = Tail(xs)]
    /\ tabla_2_l' = [tabla_2_l EXCEPT ![n + 1].bPres = 0]
    /\ kernel' = [kernel EXCEPT !.pc = "limpiar", !.frame = f,
                                !.byte = bitMem \intersect Byte(f)]
    /\ UNCHANGED <<tabla_1_l, paginas, bitMem, memoria, enSwap, swap, cpu, enCpu,
                   ambiente, historia, caida>>

\* Mutant: the bit of the frame stays.
SinBitIntacto(byte, f) == (bitMem \ Byte(f)) \union byte

\* bitMem after the write of bitarray_clean_bit, of the byte it read.
SinBit(byte, f) == (bitMem \ Byte(f)) \union (byte \ {f})

\* What a thread read of the byte of a frame is not what it finds there now.
Vieja(byte, f) == byte # bitMem \intersect Byte(f)

\* That write, in both handlers.
LimpiarBit ==
    /\ kernel.pc \in {"limpiar", "limpiar_fin"}
    /\ bitMem' = SinBit(kernel.byte, kernel.frame)
    /\ carrera' = (carrera \/ Vieja(kernel.byte, kernel.frame))
    /\ kernel' = IF kernel.pc = "limpiar"
                 THEN [kernel EXCEPT !.pc = "liberar", !.byte = {}]
                 ELSE [kernel EXCEPT !.pc = "borrar", !.byte = {}, !.i = kernel.i + 1]
    /\ UNCHANGED <<tablas, tabla_2_l, paginas, memoria, enSwap, swap, cpu, enCpu,
                   ambiente, escrito, fiel, caida>>

FinSuspender ==
    /\ kernel.pc = "liberar"
    /\ PagMem(kernel.pid) = <<>>
    /\ kernel' = [kernel EXCEPT !.pc = "libre"]
    /\ UNCHANGED <<tablas, tabla_2_l, paginas, bitMem, memoria, enSwap, swap,
                   cpu, enCpu, ambiente, historia, caida>>

Finalizar_proceso ==
    LET pid == Head(socket_kernel).pid IN
    /\ Recibe("FINALIZAR_PROCESO")
    /\ EnLista(procesos, pid)
    /\ kernel' = [kernel EXCEPT !.pc = "borrar", !.pid = pid, !.i = 0]
    /\ UNCHANGED <<tablas, tabla_2_l, paginas, bitMem, memoria, enSwap, swap,
                   cpu, enCpu, estado, suspensiones, historia, caida>>

\* One turn of its loop: memset, and the read of bitarray_clean_bit.
BorrarFrame ==
    LET xs == PagMem(kernel.pid)
        f == EntradaDe(Get(xs, kernel.i)).frame IN
    /\ kernel.pc = "borrar"
    /\ kernel.i < Len(xs)
    /\ memoria' = [memoria EXCEPT ![f] = 0]
    /\ kernel' = [kernel EXCEPT !.pc = "limpiar_fin", !.frame = f,
                                !.byte = bitMem \intersect Byte(f)]
    /\ UNCHANGED <<tablas, tabla_2_l, paginas, bitMem, enSwap, swap, cpu, enCpu,
                   ambiente, historia, caida>>

\* eliminar_archivo_swap; pagMem and the bits of the entries stay.
Eliminar_archivo_swap ==
    /\ kernel.pc = "borrar"
    /\ kernel.i >= Len(PagMem(kernel.pid))
    /\ archivo' = [p \in DOMAIN archivo \ {kernel.pid} |-> archivo[p]]
    /\ kernel' = [kernel EXCEPT !.pc = "libre"]
    /\ UNCHANGED <<tablas, tabla_2_l, paginas, bitMem, memoria, pedidos_swap_l,
                   s_swap, sinCopiar, swap, cpu, enCpu, ambiente, historia,
                   caida>>

\* list_get(procesos, pid) is NULL.
MuereKernel ==
    /\ kernel.pc = "libre" /\ socket_kernel # <<>>
    /\ Head(socket_kernel).op # "INICIALIZAR_PROCESO"
    /\ ~ EnLista(procesos, Head(socket_kernel).pid)
    /\ Morir

Funciones_kernel ==
    \/ Inicializar_proceso \/ Crear_archivo_swap
    \/ Suspender_proceso \/ LiberarPagina \/ LimpiarBit \/ FinSuspender
    \/ Finalizar_proceso \/ BorrarFrame \/ Eliminar_archivo_swap
    \/ MuereKernel
-----------------------------------------------------------------------------
\* Thread swap_.

\* sem_wait and the beginning of list_remove(pedidos_swap_l, 0), which there may
\* be nothing for.
TomarPedido ==
    /\ swap.pc = "libre" /\ s_swap > 0
    /\ IF pedidos_swap_l # <<>>
       THEN /\ s_swap' = s_swap - 1
            /\ swap' = [pc |-> "quitar", pedido |-> Head(pedidos_swap_l)]
            /\ UNCHANGED <<tablas, tabla_2_l, paginas, bitMem, memoria, archivo,
                           pedidos_swap_l, sinCopiar, kernel, cpu, enCpu,
                           ambiente, historia, caida>>
       ELSE Morir

\* The end of list_remove.
QuitarPedido ==
    /\ swap.pc = "quitar"
    /\ pedidos_swap_l' = Tail(pedidos_swap_l)
    /\ swap' = [swap EXCEPT !.pc = "copiar"]
    /\ UNCHANGED <<tablas, tabla_2_l, paginas, bitMem, memoria, archivo, s_swap,
                   sinCopiar, kernel, cpu, enCpu, ambiente, historia, caida>>

\* A request has been served.
Servido ==
    /\ swap' = [swap EXCEPT !.pc = "libre", !.pedido = <<>>]
    /\ sinCopiar' = sinCopiar - 1

\* The entries a copy does no good to: the frame holds another word by now, the
\* place is that of another page, or past the end of the file.
MalCopiadas(pedido) ==
    UNION {LET numero == paginas[pedido.paginas[k]].numero
               n == pedido.entradas[k]
           IN  IF \/ memoria[EntradaDe(pedido.paginas[k]).frame] # pedido.palabras[k]
                  \/ numero # n
                  \/ numero >= Paginas
               THEN {n, numero} ELSE {}
             : k \in DOMAIN pedido.paginas}

\* After the sleep: the frames the pages are in now, to the places of their
\* n_tabla_2 and n_entrada_2, where the last one stays.  What lies past the end
\* of the file may be lost when its last page is written out.
CopiarPedido ==
    LET pid == swap.pedido.pid
        xs == swap.pedido.paginas
        Copia(guarda) ==
            [n \in Numero |->
                LET ks == {k \in DOMAIN xs : paginas[xs[k]].numero = n}
                IN  IF ks # {} /\ (n < Paginas \/ guarda)
                    THEN memoria[EntradaDe(xs[Max(ks)]).frame]
                    ELSE archivo[pid][n]] IN
    /\ swap.pc = "copiar"
    /\ pid \in DOMAIN archivo
    /\ \E guarda \in BOOLEAN : archivo' = [archivo EXCEPT ![pid] = Copia(guarda)]
    /\ Dudosas(MalCopiadas(swap.pedido))
    /\ Servido
    /\ UNCHANGED <<tablas, tabla_2_l, paginas, bitMem, memoria, pedidos_swap_l,
                   s_swap, kernel, cpu, enCpu, ambiente, escrito, carrera,
                   caida>>

\* The file is gone: mmap fails, and a copy to MAP_FAILED kills the process.
CopiarSinArchivo ==
    /\ swap.pc = "copiar"
    /\ swap.pedido.pid \notin DOMAIN archivo
    /\ IF swap.pedido.paginas # <<>>
       THEN Morir
       ELSE /\ Servido
            /\ UNCHANGED <<tablas, tabla_2_l, paginas, bitMem, memoria, archivo,
                           pedidos_swap_l, s_swap, kernel, cpu, enCpu, ambiente,
                           historia, caida>>

Swap_ == TomarPedido \/ QuitarPedido \/ CopiarPedido \/ CopiarSinArchivo

-----------------------------------------------------------------------------
\* The CPU and thread funciones_cpu.

\* Nothing is asked of funciones_kernel and of swap_.
EnReposo == kernel.pc = "libre" /\ socket_kernel = <<>> /\ sinCopiar = 0

\* leer and escribir of the CPU: get_marco asks the TLB first.
Acceso(p, n, op) ==
    /\ Ejecuta(p) /\ cpu.pc = "libre"
    /\ accesos + suspensiones < OPERACIONES
    /\ accesos < SOLAPADOS \/ EnReposo
    /\ accesos' = accesos + 1
    /\ LET a == [cpu EXCEPT !.pid = p, !.pag = n, !.op = op, !.valor = accesos']
       IN  \/ \E e \in Coincide(tlb, n) :
                 /\ tlb' = Referenciada(tlb, e, accesos')
                 /\ cpu' = [a EXCEPT !.pc = "memcpy", !.marco = e.marco]
           \/ /\ Coincide(tlb, n) = {}
              /\ cpu' = [a EXCEPT !.pc = "entrada1"]
              /\ UNCHANGED tlb
    /\ UNCHANGED <<tablas, tabla_2_l, paginas, bitMem, memoria, enSwap, kernel,
                   swap, idAnteriorPCB, ambiente, historia, caida>>

\* entrada1: the CPU asks for the table at the position of its pid.
Tabla1 == Get(tabla_1_l, cpu.pid)

Entrada1 ==
    /\ cpu.pc = "entrada1"
    /\ IF EnLista(tabla_1_l, cpu.pid) /\ EnLista(procesos, Tabla1.pid)
       THEN /\ cpu' = [cpu EXCEPT !.pc = "entrada2",
                   !.backup_indice_1 = cpu.pid,
                   !.pid_ = Tabla1.pid,
                   !.tabla2 = Get(Tabla1.entradas, EntradaPrimerNivel(cpu.pag))]
            /\ UNCHANGED <<tablas, tabla_2_l, paginas, bitMem, memoria, enSwap,
                           kernel, swap, enCpu, ambiente, historia, caida>>
       ELSE Morir

\* Mutant: every process is served from the first table of level 2.
NumeroSinTabla == EntradaSegundoNivel(cpu.pag)

\* The entry that entrada2 is asked for.
NumeroPedido == cpu.tabla2 * ENTRADAS_POR_TABLA + EntradaSegundoNivel(cpu.pag)

Proceso_ == Get(procesos, cpu.pid_)

\* Mutant: one page more than MARCOS_POR_PROCESO.
ReemplazarTarde ==
    \/ Len(Proceso_.pagMem) > MARCOS_POR_PROCESO
    \/ bitMem = Frame

\* page_fault: the process has its frames or there is none left.
HayQueReemplazar ==
    \/ Len(Proceso_.pagMem) = MARCOS_POR_PROCESO
    \/ bitMem = Frame

\* Mutant: a page is brought the first time only.
PageFaultUnaVez ==
    /\ cpu.pc = "entrada2"
    /\ Get(tabla_2_l, NumeroPedido).frame = NADIE

EnPageFault ==
    /\ cpu.pc = "entrada2"
    /\ Get(tabla_2_l, NumeroPedido).bPres = 0

\* entrada2 of a page in memory.
EntradaPresente ==
    /\ cpu.pc = "entrada2"
    /\ Get(tabla_2_l, NumeroPedido).bPres = 1
    /\ cpu' = [cpu EXCEPT !.pc = "responder", !.numero = NumeroPedido]
    /\ UNCHANGED <<tablas, tabla_2_l, paginas, bitMem, memoria, enSwap, kernel,
                   swap, enCpu, ambiente, historia, caida>>

\* page_fault with a free frame, up to the read of bitarray_set_bit.
BuscarFrameLibre ==
    LET f == Min(Frame \ bitMem) IN
    /\ EnPageFault /\ ~ HayQueReemplazar
    /\ cpu' = [cpu EXCEPT !.pc = "tomar", !.numero = NumeroPedido, !.marco = f,
                          !.byte = bitMem \intersect Byte(f)]
    /\ UNCHANGED <<tablas, tabla_2_l, paginas, bitMem, memoria, enSwap, kernel,
                   swap, enCpu, ambiente, historia, caida>>

\* Mutant: the byte is assigned and not or-ed.
ConBitSolo(byte, f) == (bitMem \ Byte(f)) \union {f}

\* bitMem after the write of bitarray_set_bit, of the byte it read.
ConBit(byte, f) == (bitMem \ Byte(f)) \union byte \union {f}

\* That write and the rest of page_fault up to its sleep.
TomarFrame ==
    LET c == Proceso_.contador + 1 IN
    /\ cpu.pc = "tomar"
    /\ bitMem' = ConBit(cpu.byte, cpu.marco)
    /\ carrera' = (carrera \/ Vieja(cpu.byte, cpu.marco))
    /\ procesos' = [procesos EXCEPT ![cpu.pid_ + 1].contador = c,
           ![cpu.pid_ + 1].puntero = IF c >= MARCOS_POR_PROCESO
                                     THEN c % (Len(Proceso_.pagMem) + 1) ELSE c]
    /\ tabla_2_l' = [tabla_2_l EXCEPT ![cpu.numero + 1] =
           [frame |-> cpu.marco, bUso |-> 1, bMod |-> 0, bPres |-> 1]]
    /\ paginas' = Append(paginas, [numero |-> cpu.numero, entrada |-> cpu.numero])
    /\ cpu' = [cpu EXCEPT !.pc = "traer", !.byte = {}, !.nueva = Len(paginas')]
    /\ UNCHANGED <<tabla_1_l, memoria, enSwap, kernel, swap, enCpu, ambiente,
                   escrito, fiel, caida>>

\* The position of pagMem that the clock looks at in its k-th turn.
Posicion(pr, k) ==
    IF k = 0 THEN pr.puntero ELSE (pr.contador + k) % Len(pr.pagMem)

\* clock_ clears bUso in every turn, clock_M in those of its second pass.
Borra(pr, k) ==
    \/ ALGORITMO_REEMPLAZO = "CLOCK"
    \/ (k \div Len(pr.pagMem)) % 2 = 1

EntradaEn(pr, k) == EntradaDe(Get(pr.pagMem, Posicion(pr, k)))

\* Mutant: the hand moves on before the page is taken.
EsVictimaTarde(pr, k) ==
    /\ k > 0
    /\ \/ EntradaEn(pr, k - 1).bUso = 0
       \/ \E j \in 0 .. k - 2 : Borra(pr, j) /\ Posicion(pr, j) = Posicion(pr, k - 1)

\* Mutant: clock_M without the tests of bMod.
EsVictimaSinMod(pr, k) ==
    \/ EntradaEn(pr, k).bUso = 0
    \/ \E j \in 0 .. k - 1 : Borra(pr, j) /\ Posicion(pr, j) = Posicion(pr, k)

\* The tests of clock_ and of the two passes of clock_M in turn k.
EsVictima(pr, k) ==
    /\ \/ EntradaEn(pr, k).bUso = 0
       \/ \E j \in 0 .. k - 1 : Borra(pr, j) /\ Posicion(pr, j) = Posicion(pr, k)
    /\ \/ ALGORITMO_REEMPLAZO = "CLOCK"
       \/ EntradaEn(pr, k).bMod = (k \div Len(pr.pagMem)) % 2

\* The turn in which clock_ or clock_M finds its victim.
Turno(pr) == Min({k \in 0 .. 4 * Len(pr.pagMem) : EsVictima(pr, k)})

\* chequear_puntero.
Chequeado(pr) ==
    IF pr.puntero = Len(pr.pagMem) THEN [pr EXCEPT !.puntero = 0] ELSE pr

\* page_fault with ejecutar_algoritmo, up to the sleep of traer_a_memoria.
\* The t_memory_pag of the victim is given the new entry and keeps its number.
Reemplazar ==
    LET pr == Chequeado(Proceso_)
        k == Turno(pr)
        c == pr.contador + k + 1
        x == Get(pr.pagMem, Posicion(pr, k))
        victima == paginas[x].entrada
        borradas == {paginas[Get(pr.pagMem, Posicion(pr, j))].entrada :
                        j \in {i \in 0 .. k - 1 : Borra(pr, i)}}
        Nueva(n) ==
            IF n = NumeroPedido
            THEN [frame |-> EntradaDe(x).frame, bUso |-> 1, bMod |-> 0, bPres |-> 1]
            ELSE [Get(tabla_2_l, n) EXCEPT
                     !.bUso = IF n \in borradas THEN 0 ELSE @,
                     !.bPres = IF n = victima THEN 0 ELSE @] IN
    /\ EnPageFault /\ HayQueReemplazar
    /\ EnLista(pr.pagMem, pr.puntero)
    /\ tabla_2_l' = [i \in DOMAIN tabla_2_l |-> Nueva(i - 1)]
    /\ paginas' = [paginas EXCEPT ![x].entrada = NumeroPedido]
    /\ procesos' = [procesos EXCEPT ![cpu.pid_ + 1].contador = c,
                       ![cpu.pid_ + 1].puntero = c % Len(pr.pagMem)]
    /\ IF EntradaDe(x).bMod = 1
       THEN Encolar(Pedido(cpu.pid_, <<x>>), {})
       ELSE UNCHANGED <<pedidos_swap_l, s_swap, sinCopiar, fiel>>
    /\ cpu' = [cpu EXCEPT !.pc = "traer", !.numero = NumeroPedido,
                          !.marco = EntradaDe(x).frame, !.nueva = NADIE]
    /\ UNCHANGED <<tabla_1_l, bitMem, memoria, archivo, kernel, swap, enCpu,
                   ambiente, escrito, carrera, caida>>

\* Nothing to look at: clock_ uses NULL and clock_M goes round for ever.
ReemplazarSinPaginas ==
    LET pr == Chequeado(Proceso_) IN
    /\ EnPageFault /\ HayQueReemplazar
    /\ ~ EnLista(pr.pagMem, pr.puntero)
    /\ IF ALGORITMO_REEMPLAZO = "CLOCK-M" /\ pr.pagMem = <<>>
       THEN /\ cpu' = [cpu EXCEPT !.pc = "bucle"]
            /\ UNCHANGED <<tablas, tabla_2_l, paginas, bitMem, memoria, enSwap,
                           kernel, swap, enCpu, ambiente, historia, caida>>
       ELSE Morir

\* ordenar: by frame; list_add_sorted puts it before the first that is not less.
AgregarOrdenada(xs, x) ==
    LET marco(y) == EntradaDe(y).frame
        noMenores == {i \in DOMAIN xs : ~ (marco(xs[i]) < marco(x))}
    IN  InsertAt(xs, Min(noMenores \union {Len(xs) + 1}), x)

\* The entries whose words are still on their way to the swap file.
EnCamino ==
    UNION {ToSet(pedido.entradas) : pedido \in ToSet(pedidos_swap_l)
              \union (IF swap.pc = "libre" THEN {} ELSE {swap.pedido})}

\* traer_a_memoria after its sleep, and list_add_sorted of a new page.
Traer_a_memoria ==
    /\ cpu.pc = "traer"
    /\ IF cpu.pid_ \in DOMAIN archivo
       THEN /\ memoria' = [memoria EXCEPT ![cpu.marco] = archivo[cpu.pid_][cpu.numero]]
            /\ procesos' = IF cpu.nueva = NADIE THEN procesos
                 ELSE [procesos EXCEPT ![cpu.pid_ + 1].pagMem =
                                          AgregarOrdenada(@, cpu.nueva)]
            /\ cpu' = [cpu EXCEPT !.pc = "responder", !.nueva = NADIE]
            /\ Dudosas({cpu.numero} \intersect EnCamino)
            /\ UNCHANGED <<tabla_1_l, tabla_2_l, paginas, bitMem, enSwap, kernel,
                           swap, enCpu, ambiente, escrito, carrera, caida>>
       ELSE Morir

\* entrada2 sends the frame, and cargar_entrada.
ResponderMarco ==
    LET f == Get(tabla_2_l, cpu.numero).frame IN
    /\ cpu.pc = "responder"
    /\ tlb' \in Cargada(tlb, cpu.pag, f, accesos, REEMPLAZO_TLB)
    /\ cpu' = [cpu EXCEPT !.pc = "memcpy", !.marco = f, !.numero = NADIE,
                          !.tabla2 = NADIE]
    /\ UNCHANGED <<tablas, tabla_2_l, paginas, bitMem, memoria, enSwap, kernel,
                   swap, idAnteriorPCB, accesos, ambiente, historia, caida>>

\* The frame the CPU works with is that of its page.
Vigente == LET e == Get(tabla_2_l, Obtener_entrada(cpu.pag))
           IN  e.bPres = 1 /\ e.frame = cpu.marco

Suspendiendo(pid) == kernel.pc \in {"liberar", "limpiar"} /\ kernel.pid = pid

\* The entries of the pages that are in frame f.
EnMarco(f) == {n \in 0 .. Len(tabla_2_l) - 1 : /\ Get(tabla_2_l, n).bPres = 1
                                             /\ Get(tabla_2_l, n).frame = f}

\* lectura and escritura up to the answer.  The word written is the number
\* of the access, so that no two are alike.
Lectura ==
    /\ cpu.pc = "memcpy" /\ cpu.op = "READ"
    /\ cpu' = [cpu EXCEPT !.pc = "marca", !.valor = memoria[cpu.marco]]
    /\ UNCHANGED <<tablas, tabla_2_l, paginas, bitMem, memoria, enSwap, kernel,
                   swap, enCpu, ambiente, historia, caida>>

Escritura ==
    /\ cpu.pc = "memcpy" /\ cpu.op = "WRITE"
    /\ memoria' = [memoria EXCEPT ![cpu.marco] = cpu.valor]
    /\ escrito' = [escrito EXCEPT ![cpu.pid][cpu.pag] = cpu.valor]
    /\ fiel' = [FielSin(EnMarco(cpu.marco)) EXCEPT ![cpu.pid][cpu.pag] =
                   Vigente /\ ~ Suspendiendo(cpu.pid)]
    /\ cpu' = [cpu EXCEPT !.pc = "marca"]
    /\ UNCHANGED <<tablas, tabla_2_l, paginas, bitMem, enSwap, kernel, swap, enCpu,
                   ambiente, carrera, caida>>

\* Mutant: a page written is not marked as modified.
AccedidaSinMod(e) == [e EXCEPT !.bUso = 1]

\* The bits of an entry at the end of lectura and escritura.
Accedida(e) == [e EXCEPT !.bUso = 1, !.bMod = IF cpu.op = "WRITE" THEN 1 ELSE @]

Marcar ==
    /\ cpu.pc = "marca"
    /\ tabla_2_l' = [tabla_2_l EXCEPT ![Obtener_entrada(cpu.pag) + 1] = Accedida(@)]
    /\ cpu' = [CpuLibre EXCEPT !.backup_indice_1 = cpu.backup_indice_1,
                               !.pid_ = cpu.pid_]
    /\ UNCHANGED <<tablas, paginas, bitMem, memoria, enSwap, kernel, swap, enCpu,
                   ambiente, historia, caida>>

Funciones_cpu ==
    \/ Entrada1 \/ EntradaPresente \/ BuscarFrameLibre \/ TomarFrame
    \/ Reemplazar \/ ReemplazarSinPaginas \/ Traer_a_memoria
    \/ ResponderMarco \/ Lectura \/ Escritura \/ Marcar

KernelYCpu ==
    \/ PedirInicializar
    \/ \E p \in Proceso : \/ Despachar(p) \/ Bloquear(p) \/ Suspender(p)
                          \/ Desbloquear(p) \/ Terminar(p)
                          \/ \E n \in Pagina, op \in INSTRUCCIONES : Acceso(p, n, op)

\* Memoria is alive, and reads memoria.config without changing it.
Viva(A) == ~caida /\ A /\ UNCHANGED ALGORITMO_REEMPLAZO

Next == Viva(KernelYCpu \/ Funciones_kernel \/ Funciones_cpu \/ Swap_)

Spec == Init /\ [][Next]_vars

\* Every thread of Memoria goes on and its sleeps end; the Kernel may stop asking.
SpecJusta ==
    /\ Spec
    /\ WF_vars(Viva(Funciones_kernel))
    /\ WF_vars(Viva(Funciones_cpu))
    /\ WF_vars(Viva(Swap_))

-----------------------------------------------------------------------------
TypeOK ==
    /\ bitMem \subseteq Frame
    /\ memoria \in [Frame -> 0 .. OPERACIONES]
    /\ DOMAIN archivo \subseteq Proceso
    /\ Len(pedidos_swap_l) <= s_swap + (IF swap.pc = "quitar" THEN 1 ELSE 0)
    /\ \A i \in DOMAIN tabla_2_l : tabla_2_l[i] \in
          [frame : Frame \union {NADIE}, bUso : {0, 1}, bMod : {0, 1}, bPres : {0, 1}]
    /\ \A i \in DOMAIN procesos : /\ procesos[i].puntero \in Nat
                                 /\ ToSet(procesos[i].pagMem) \subseteq DOMAIN paginas
    /\ \A x \in DOMAIN paginas : {paginas[x].numero, paginas[x].entrada} \subseteq Numero
    /\ estado \in [Proceso -> {"new", "ini", "ready", "exec", "block", "susp", "exit"}]

\* The entries of the live processes that are in memory.
Presentes ==
    {n \in 0 .. Len(tabla_2_l) - 1 :
        /\ Get(tabla_2_l, n).bPres = 1
        /\ \E t \in ToSet(tabla_1_l) :
              /\ n \div ENTRADAS_POR_TABLA \in ToSet(t.entradas)
              /\ estado[t.pid] # "exit"}

(* No two pages in memory share a frame, and buscar_frame_libre sees every  *)
(* frame of theirs as taken: the entries and bitMem stay in step through    *)
(* page faults, replacements, suspensions and ends (funciones_cpu.c:178,    *)
(* 511, funciones_kernel.c:103,133), unless a byte of bitMem was written    *)
(* back with what it held before another thread changed it.                 *)
MarcosExclusivos ==
    carrera \/
    /\ \A n \in Presentes : Get(tabla_2_l, n).frame \in bitMem
    /\ \A n, m \in Presentes :
          Get(tabla_2_l, n).frame = Get(tabla_2_l, m).frame => n = m

(* A process has MARCOS_POR_PROCESO pages in memory at most, and its pagMem *)
(* lists exactly those, the page being brought aside: what the clocks look  *)
(* at and what a suspension frees is what the process has.                  *)
PagMemFiel ==
    \A t \in ToSet(tabla_1_l) : estado[t.pid] # "exit" =>
        LET xs == PagMem(t.pid)
            suyas == {n \in Presentes : n \div ENTRADAS_POR_TABLA \in ToSet(t.entradas)}
            enLista == {paginas[x].entrada : x \in ToSet(xs)}
            llegando == IF cpu.nueva # NADIE THEN {cpu.numero} ELSE {}
        IN  /\ Cardinality(suyas) <= MARCOS_POR_PROCESO
            /\ Cardinality(enLista) = Len(xs)
            /\ suyas \ llegando = enLista

(* The translations the TLB holds for the process in the CPU are those of   *)
(* its page tables: get_marco answers with the frame the page is in         *)
(* ("ENCONTRE el MARCO %d de la PAGINA %d y se encontraba en la TLB",       *)
(* mmu.c:178).                                                              *)
MarcoVigente ==
    \A p \in Proceso : \A e \in tlb :
        Ejecuta(p) /\ cpu.pc = "libre" /\ ~carrera =>
            LET n == Get(Get(tabla_1_l, p).entradas, EntradaPrimerNivel(e.numero_pagina))
                        * ENTRADAS_POR_TABLA + EntradaSegundoNivel(e.numero_pagina)
            IN  Get(tabla_2_l, n).bPres = 1 /\ Get(tabla_2_l, n).frame = e.marco

(* A process reads and writes frames of no other: what its TLB says after a *)
(* replacement or a suspension may be out of date, and is then still one of *)
(* its own frames or one that nobody has, since the TLB is emptied before   *)
(* another process can take it (reciboPCBdesdeKernel, utlis.c).             *)
AccesoAislado ==
    cpu.pc = "memcpy" /\ ~carrera =>
        \A n \in Presentes : Get(tabla_2_l, n).frame = cpu.marco =>
            n \div ENTRADAS_POR_TABLA \in ToSet(Get(tabla_1_l, cpu.pid).entradas)

(* A READ answers the last word written to the page, in memory or brought   *)
(* back from swap, whatever the other processes do.  The word may be lost   *)
(* only when its request is lost, is served after the page was brought back *)
(* (page_fault) or its frame taken by another, when its t_memory_pag names  *)
(* another page or a place past the end of the file (swap.c:233), when it   *)
(* or another page of its frame was written through a stale TLB, when it    *)
(* was written during the suspension of its process, or when a byte of      *)
(* bitMem was written back stale.                                           *)
LecturaFiel ==
    cpu.pc = "marca" /\ cpu.op = "READ" /\ Vigente /\ fiel[cpu.pid][cpu.pag]
            /\ ~carrera
        => cpu.valor = escrito[cpu.pid][cpu.pag]

(* What swap_ copies is what the page held when it was replaced or          *)
(* suspended: the request is made "ANTES DE REEMPLAZAR LA ENTRADA"          *)
(* (funciones_cpu.c:295).                                                   *)
SwapAntesDeReusar ==
    swap.pc = "copiar" =>
        \A i \in DOMAIN swap.pedido.paginas :
            memoria[EntradaDe(swap.pedido.paginas[i]).frame] = swap.pedido.palabras[i]

\* The page that a step takes from pagMem of the process in the CPU.
Reemplazadas ==
    {n \in {paginas[x].entrada : x \in ToSet(Proceso_.pagMem)} :
        Get(tabla_2_l, n).bPres = 1 /\ Get(tabla_2_l', n).bPres = 0}

EnMemoria == {Get(tabla_2_l, paginas[x].entrada) : x \in ToSet(Proceso_.pagMem)}

(* The second chance of CLOCK: clock_ takes a page with bUso set only when  *)
(* every page of the process has it set, unless a suspension is taking its  *)
(* pages: puntero is then no longer the position that contador leads to,    *)
(* and the hand can meet one page twice before another (funciones_cpu.c:325).*)
SegundaOportunidad ==
    [][(/\ ALGORITMO_REEMPLAZO = "CLOCK" /\ ~ Suspendiendo(cpu.pid)
        /\ cpu.pc = "entrada2" /\ cpu'.pc = "traer") =>
        \A v \in Reemplazadas : Get(tabla_2_l, v).bUso = 1
            => \A e \in EnMemoria : e.bUso = 1]_vars

Clase(e) == 2 * e.bUso + e.bMod

(* CLOCK-M: clock_M takes a page of the lowest of the four classes that the *)
(* bits bUso and bMod make, unused and clean pages first, with the same     *)
(* exception.                                                               *)
VictimaDeMenorClase ==
    [][(/\ ALGORITMO_REEMPLAZO = "CLOCK-M" /\ ~ Suspendiendo(cpu.pid)
        /\ cpu.pc = "entrada2" /\ cpu'.pc = "traer") =>
        \A v \in Reemplazadas, e \in EnMemoria :
            Clase(Get(tabla_2_l, v)) <= Clase(e)]_vars

(* Between two operations the frames taken are those of the pages that are  *)
(* in memory: suspending and ending processes leaves no frame behind.       *)
SinFugas ==
    kernel.pc = "libre" /\ socket_kernel = <<>> /\ cpu.pc = "libre" /\ ~carrera
        => bitMem = {Get(tabla_2_l, n).frame : n \in Presentes}

(* A page fault, a translation, a read or a write is always answered, as    *)
(* long as Memoria lives ("Se levanta en memoria una pagina que no se       *)
(* encuentra en la misma", funciones_cpu.c:174).                            *)
AccesoRespondido == cpu.pc # "libre" ~> cpu.pc = "libre" \/ caida

(* Every request for swap_ is served, or Memoria dies: the post of s_swap   *)
(* comes with each one (funciones_cpu.c:308-309, funciones_kernel.c:112),   *)
(* and a request lost to the race of list_add and list_remove leaves its    *)
(* token, with which swap_ takes from an empty list (swap.c:200).           *)
PedidosServidos == sinCopiar > 0 ~> sinCopiar = 0 \/ caida
=============================================================================
