--------------------------------- MODULE Mmu ---------------------------------
(***************************************************************************)
(* The MMU of the CPU (src/Shared/utils/mmu.c): get_marco for the pages of  *)
(* the process in the CPU, in front of the page tables of Memoria, which    *)
(* here never move a page (module Memoria is about what happens when they   *)
(* do).  Cpu extends this module.                                           *)
(***************************************************************************)
EXTENDS Tlb, Integers, Sequences, SequencesExt

CONSTANTS
    PAGINAS,     \* pages of a process
    TAM_PAGINA,  \* sent by Memoria in the handshake
    RETARDO      \* whole seconds of RETARDO_MEMORIA: what an access takes

ASSUME PaginasAssumption == PAGINAS \in Nat \ {0} /\ TAM_PAGINA \in Nat \ {0}

ASSUME RetardoAssumption == RETARDO \in Nat

Pagina == 0 .. PAGINAS - 1

VARIABLES
    tlb,            \* tlb_proceso
    reloj,          \* time(NULL)
    idAnteriorPCB,  \* the pid of the last PCB returned, or -1
    algoritmo,      \* REEMPLAZO_TLB of cpu.config, read at every replacement
    ultimoUso       \* history: when each page was last asked for

varsMmu == <<tlb, reloj, idAnteriorPCB, algoritmo, ultimoUso>>

InitMmu ==
    /\ tlb = {}
    /\ reloj = 1
    /\ idAnteriorPCB = -1
    /\ algoritmo \in {"FIFO", "LRU"}
    /\ ultimoUso = [p \in Pagina |-> 0]

\* calcular_datos_direccion: page and offset of a logical address.
NumeroPagina(direccion) == direccion \div TAM_PAGINA
Desplazamiento(direccion) == direccion - NumeroPagina(direccion) * TAM_PAGINA

\* get_marco_memoria: the two requests, by the pid, that Memoria took for the
\* number of the table of level 1.
TablasPorProceso == (PAGINAS + ENTRADAS_POR_TABLA - 1) \div ENTRADAS_POR_TABLA
ValorEntrada1(pid, entrada) == pid * TablasPorProceso + entrada
ValorEntrada2(tabla2, entrada) == tabla2 * ENTRADAS_POR_TABLA + entrada
get_marco_memoria(pid, p) ==
    ValorEntrada2(ValorEntrada1(pid, EntradaPrimerNivel(p)), EntradaSegundoNivel(p))

\* What get_marco returns: the frame of buscar_marco, or that of Memoria.
Marco(pid, p) ==
    IF Coincide(tlb, p) # {} THEN (CHOOSE e \in Coincide(tlb, p) : TRUE).marco
                             ELSE get_marco_memoria(pid, p)

\* buscar_marco found the page.
Acierta(p) == \E e \in Coincide(tlb, p) : tlb' = Referenciada(tlb, e, reloj)

\* get_marco_memoria and cargar_entrada.
Falla(pid, p) ==
    /\ Coincide(tlb, p) = {}
    /\ tlb' \in Cargada(tlb, p, get_marco_memoria(pid, p), reloj, algoritmo)

\* What get_marco does, and the access of Memoria that follows.
Get_marco(pid, p) ==
    /\ Acierta(p) \/ Falla(pid, p)
    /\ ultimoUso' = [ultimoUso EXCEPT ![p] = reloj]
    /\ reloj' = reloj + RETARDO
    /\ UNCHANGED <<idAnteriorPCB, algoritmo>>

\* traducir_direccion
DireccionFisica(marco, direccion) ==
    marco * TAM_PAGINA + Desplazamiento(direccion)

\* Mutant: the TLB of the last process is kept.
SinLimpiar(pid) == UNCHANGED varsMmu

\* reciboPCBdesdeKernel: another process empties the TLB.
PrepararTlb(pid) ==
    /\ IF idAnteriorPCB # -1 /\ pid # idAnteriorPCB
       THEN tlb' = {} /\ ultimoUso' = [p \in Pagina |-> 0]
       ELSE UNCHANGED <<tlb, ultimoUso>>
    /\ UNCHANGED <<reloj, idAnteriorPCB, algoritmo>>

-----------------------------------------------------------------------------
TypeOKMmu ==
    /\ tlb \subseteq Entrada_TLB
    /\ Cardinality(tlb) <= ENTRADAS_TLB
    /\ \A e, f \in tlb : e.numero_pagina = f.numero_pagina => e = f
    /\ reloj \in Nat \ {0}
    /\ algoritmo \in {"FIFO", "LRU"}
    /\ ultimoUso \in [Pagina -> Nat]

\* The entries in the order of their loads.
EnOrden ==
    CHOOSE s \in [1 .. Cardinality(tlb) -> tlb] :
        \A i, j \in DOMAIN s : i < j => s[i].tiempo_carga < s[j].tiempo_carga

\* The TLB as a cache of pages.
Cola == LET s == EnOrden IN [i \in DOMAIN s |-> s[i].numero_pagina]

C == INSTANCE Cache WITH Capacidad <- ENTRADAS_TLB,
                         Paginas <- Pagina,
                         cola <- Cola

(* Under FIFO the TLB is a cache that evicts the page loaded longest ago    *)
(* (reemplazar_entrada_FIFO), hits and changes of process notwithstanding.  *)
(* It needs accesses that take a second at least: with RETARDO_MEMORIA      *)
(* below 1000 two entries may carry one time.                               *)
ImplementaCache ==
    C!Init /\ [][algoritmo = "FIFO" => C!Next \/ UNCHANGED Cola]_varsMmu

(* Of the pages used again after they were loaded, LRU evicts the one used  *)
(* longest ago, and only when no page of the TLB is still unused: what the  *)
(* sort by ultima_referencia does give (reemplazar_entrada_LRU).            *)
LruEntreReferenciadas ==
    [][\A e \in tlb :
          /\ algoritmo = "LRU"
          /\ tlb' # {}
          /\ e.ultima_referencia # 0
          /\ \A f \in tlb' : f.numero_pagina # e.numero_pagina
          => \A f \in tlb : /\ f.ultima_referencia # 0
                            /\ ultimoUso[f.numero_pagina]
                                 >= ultimoUso[e.numero_pagina]]_varsMmu
=============================================================================
