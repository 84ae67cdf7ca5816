--------------------------------- MODULE Tlb ---------------------------------
(***************************************************************************)
(* The TLB of the CPU (src/Shared/utils/mmu.c) as operators on its          *)
(* contents, used by Mmu (the TLB alone) and by Memoria (the TLB in front   *)
(* of the page tables).                                                     *)
(*                                                                          *)
(* The TLB is the set of its entries: list_sort reorders the list at every  *)
(* replacement and list_find looks a page up that occurs once, so their     *)
(* order means nothing.  A page counts as one word: the offset inside it    *)
(* does not matter to anything stated here.  Time is in seconds, as         *)
(* time(NULL) gives it; it is never 0.                                      *)
(***************************************************************************)
EXTENDS Naturals, FiniteSets

CONSTANTS
    ENTRADAS_TLB,         \* cpu.config
    ENTRADAS_POR_TABLA    \* sent by Memoria in the handshake

\* With no entries reemplazar_entrada would remove from an empty list.
ASSUME EntradasAssumption == ENTRADAS_TLB \in Nat \ {0}

ASSUME TablaAssumption == ENTRADAS_POR_TABLA \in Nat \ {0}

Entrada_TLB == [numero_pagina : Nat, marco : Nat, tiempo_carga : Nat,
                ultima_referencia : Nat]

\* calcular_datos_direccion, from the page number on.
EntradaPrimerNivel(pagina) == pagina \div ENTRADAS_POR_TABLA
EntradaSegundoNivel(pagina) == pagina % ENTRADAS_POR_TABLA

\* buscar_marco: the entries list_find may return.
Coincide(tlb, pagina) == {e \in tlb : e.numero_pagina = pagina}

\* buscar_marco: a hit updates the last reference.
Referenciada(tlb, e, ahora) ==
    (tlb \ {e}) \union {[e EXCEPT !.ultima_referencia = ahora]}

\* Mutant: LRU by the time of load.
MenorPorCarga(e, f) == e.tiempo_carga < f.tiempo_carga

\* The two _funcion_comparacion.
MenorFIFO(e, f) == e.tiempo_carga < f.tiempo_carga
MenorLRU(e, f) ==
    \/ e.ultima_referencia < f.ultima_referencia
    \/ /\ e.ultima_referencia = f.ultima_referencia
       /\ e.tiempo_carga < f.tiempo_carga

\* Mutant: REEMPLAZO_TLB is not obeyed.
VictimasLRU(tlb, algoritmo) == {e \in tlb : \A f \in tlb : ~ MenorLRU(f, e)}

\* reemplazar_entrada by REEMPLAZO_TLB: the entries that list_sort may put first.
Victimas(tlb, algoritmo) ==
    {e \in tlb : \A f \in tlb : ~ IF algoritmo = "FIFO" THEN MenorFIFO(f, e)
                                                         ELSE MenorLRU(f, e)}

NuevaEntrada(pagina, marco, ahora) ==
    [numero_pagina |-> pagina, marco |-> marco, tiempo_carga |-> ahora,
     ultima_referencia |-> 0]

\* Mutant: one entry too many.
CargadaDeMas(tlb, pagina, marco, ahora, algoritmo) ==
    LET nueva == NuevaEntrada(pagina, marco, ahora) IN
    IF Cardinality(tlb) <= ENTRADAS_TLB
    THEN {tlb \union {nueva}}
    ELSE {(tlb \ {v}) \union {nueva} : v \in Victimas(tlb, algoritmo)}

\* cargar_entrada: the contents it may leave.
Cargada(tlb, pagina, marco, ahora, algoritmo) ==
    LET nueva == NuevaEntrada(pagina, marco, ahora) IN
    IF Cardinality(tlb) < ENTRADAS_TLB
    THEN {tlb \union {nueva}}
    ELSE {(tlb \ {v}) \union {nueva} : v \in Victimas(tlb, algoritmo)}
=============================================================================
