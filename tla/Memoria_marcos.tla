---------------------------- MODULE Memoria_marcos ----------------------------
(***************************************************************************)
(* Theorems on Memoria, for every number of processes, pages, frames and    *)
(* accesses: who has which frame.                                           *)
(*                                                                          *)
(* They are about processes initialised in the order of their pids          *)
(* (OrdenDePids), as they are when the consoles do not race to new_l.       *)
(* Otherwise the CPU works on the tables of one process and the Kernel      *)
(* suspends and ends another (funciones_cpu.c:68, funciones_kernel.c:95),   *)
(* and a frame is given back that is in use.                                *)
(***************************************************************************)
EXTENDS Memoria, TLAPS, FiniteSetTheorems, SequenceTheorems, NaturalsInduction,
        WellFoundedInduction

\* pasar_a_ready takes the processes in the order of their pids, so that the
\* position of a process in tabla_1_l and procesos is its pid.  Nothing in the
\* Kernel makes two consoles that arrive together keep that order.
OrdenDePids == \A i \in DOMAIN Orden : Orden[i] = i - 1

-----------------------------------------------------------------------------
(* Arithmetic of the tables and of the clock.                               *)

\* A set of naturals has its minimum.
LEMMA MinimoNat ==
    ASSUME NEW S, S \subseteq Nat, S # {}
    PROVE  Min(S) \in S /\ \A y \in S : Min(S) <= y
<1> DEFINE R == {ss \in Nat \X Nat : ss[1] < ss[2]}
<1>0. IsWellFoundedOn(R, Nat)
  BY NatLessThanWellFounded DEF OpToRel
<1>1. \E x \in S : \A y \in S : ~ (<<y, x>> \in R)
  <2> HIDE DEF R
  <2>. QED  BY ONLY <1>0, WFMin, S \subseteq Nat, S # {}
<1>2. PICK x \in S : \A y \in S : ~ (<<y, x>> \in R)  BY <1>1
<1>3. ASSUME NEW y \in S, ~ x <= y
      PROVE  FALSE
  <2>1. y \in Nat /\ x \in Nat /\ y < x  BY <1>3
  <2>2. <<y, x>> \in Nat \X Nat /\ <<y, x>>[1] < <<y, x>>[2]  BY <2>1
  <2>3. <<y, x>> \in R  BY <2>2
  <2>. QED  BY <2>3, <1>2, <1>3
<1>. QED  BY <1>3 DEF Min

\* Division with remainder.
LEMMA Resto ==
    ASSUME NEW a \in Nat, NEW b \in Nat \ {0}
    PROVE  /\ a % b \in 0 .. b - 1 /\ a \div b \in Nat
           /\ a = b * (a \div b) + (a % b)
           /\ b * (a \div b) <= a /\ a < b * (a \div b) + b
  BY SMT

\* From x to y, multiplied.
LEMMA Producto ==
    ASSUME NEW x \in Nat, NEW y \in Nat, x < y, NEW b \in Nat \ {0}
    PROVE  b * x + b <= b * y
  BY SMT

\* Quotient and remainder are the only ones.
LEMMA Cociente ==
    ASSUME NEW a \in Nat, NEW b \in Nat \ {0}, NEW t \in Nat,
           b * t <= a, a < b * t + b
    PROVE  a \div b = t /\ a % b = a - b * t
<1> DEFINE q == a \div b
           r == a % b
<1>1. q \in Nat /\ r \in 0 .. b - 1 /\ a = b * q + r  BY Resto
<1>. HIDE DEF q, r
<1>2. b * t \in Nat /\ b * q \in Nat  BY <1>1, SMT
<1>3. ~ t < q
  <2>1. SUFFICES ASSUME t < q PROVE FALSE  OBVIOUS
  <2>2. b * t + b <= b * q  BY <2>1, <1>1, Producto
  <2>. QED  BY <2>2, <1>1, <1>2, SMT
<1>4. ~ q < t
  <2>1. SUFFICES ASSUME q < t PROVE FALSE  OBVIOUS
  <2>2. b * q + b <= b * t  BY <2>1, <1>1, Producto
  <2>. QED  BY <2>2, <1>1, <1>2, SMT
<1>5. q = t  BY <1>1, <1>3, <1>4, SMT
<1>6. r = a - b * t  BY <1>5, <1>1, <1>2, SMT
<1>. QED  BY <1>5, <1>6 DEF q, r

\* The hand of the clock is back after a round.
LEMMA Vuelta ==
    ASSUME NEW c \in Nat, NEW b \in Nat \ {0}
    PROVE  (c + b) % b = c % b
<1> DEFINE q == c \div b
           r == c % b
<1>1. q \in Nat /\ r \in 0 .. b - 1 /\ c = b * q + r  BY Resto
<1>. HIDE DEF q, r
<1>2. b * q \in Nat /\ b * (q + 1) = b * q + b  BY <1>1, SMT
<1>3. c + b \in Nat /\ q + 1 \in Nat /\ b * (q + 1) <= c + b /\ c + b < b * (q + 1) + b
  BY <1>1, <1>2, SMT
<1>4. (c + b) % b = (c + b) - b * (q + 1)  BY <1>3, Cociente
<1>. QED  BY <1>4, <1>2, <1>1, SMT DEF r

-----------------------------------------------------------------------------
(* Types.                                                                   *)

Mensaje == [op : {"INICIALIZAR_PROCESO", "SUSPENDER_PROCESO", "FINALIZAR_PROCESO"},
            pid : Proceso]

EntradaTabla == [frame : Frame \union {NADIE}, bUso : {0, 1}, bMod : {0, 1},
                 bPres : {0, 1}]

TipoTablas ==
    /\ tabla_1_l \in Seq([pid : Proceso, entradas : Seq(Nat)])
    /\ tabla_2_l \in Seq(EntradaTabla)
    /\ procesos \in Seq([pid : Proceso, puntero : Nat, contador : Nat,
                         pagMem : Seq(Nat)])
    /\ paginas \in Seq([numero : Nat, entrada : Nat])
    /\ bitMem \subseteq Frame

\* The other fields may hold anything.
TipoCpu ==
    cpu \in [pc : {"libre", "entrada1", "entrada2", "tomar", "traer",
                      "responder", "memcpy", "marca", "bucle"},
                pid : {cpu.pid}, pag : {cpu.pag}, op : {cpu.op},
                valor : {cpu.valor}, marco : {cpu.marco}, numero : {cpu.numero},
                tabla2 : {cpu.tabla2}, backup_indice_1 : {cpu.backup_indice_1},
                pid_ : {cpu.pid_}, byte : SUBSET Frame, nueva : Nat \union {NADIE}]

TipoHilos ==
    /\ socket_kernel \in Seq(Mensaje)
    /\ kernel \in [pc : {"libre", "crear_archivo", "liberar", "limpiar",
                         "borrar", "limpiar_fin"},
                   pid : Proceso \union {NADIE}, i : Nat,
                   frame : Frame \union {NADIE}, byte : SUBSET Frame]
    /\ TipoCpu
    /\ estado \in [Proceso ->
                     {"new", "ini", "ready", "exec", "block", "susp", "exit"}]
    /\ carrera \in BOOLEAN

Tipos == TipoTablas /\ TipoHilos

-----------------------------------------------------------------------------
(* The Kernel and funciones_kernel: who has been initialised, suspended and *)
(* ended.                                                                   *)

Iniciados == 0 .. Len(procesos) - 1

SinIniciar(p) == estado[p] \in {"new", "ini"}

\* The messages of a process that wait to be received.
EnEspera(op, p) ==
    \E i \in DOMAIN socket_kernel :
        socket_kernel[i].op = op /\ socket_kernel[i].pid = p

Creando(p) == kernel.pc = "crear_archivo" /\ kernel.pid = p
Borrando(p) == kernel.pc \in {"borrar", "limpiar_fin"} /\ kernel.pid = p

\* Processes are initialised in their order, one at a time, and a process has a
\* place in the lists from the time its message is handled.
LlegadaInv ==
    /\ Len(tabla_1_l) = Len(procesos) /\ Len(procesos) <= CANT_PROCESOS
    /\ \A i \in DOMAIN tabla_1_l : tabla_1_l[i].pid = i - 1
    /\ \A p \in Proceso : p \in Iniciados <=> ~ SinIniciar(p) \/ Creando(p)
    /\ \A p, q \in Proceso : q < p /\ estado[p] # "new" => ~ SinIniciar(q)
    /\ kernel.pc # "libre" => kernel.pid \in Proceso
    /\ kernel.pc = "crear_archivo" => estado[kernel.pid] = "ini"

\* A process is initialised once.
InicioInv ==
    \A i \in DOMAIN socket_kernel :
        socket_kernel[i].op = "INICIALIZAR_PROCESO" =>
            /\ estado[socket_kernel[i].pid] = "ini"
            /\ kernel.pc # "crear_archivo"
            /\ \A j \in DOMAIN socket_kernel \ {i} :
                  socket_kernel[j].op # "INICIALIZAR_PROCESO"

\* A process is suspended after its initialisation and before its end, and its
\* end is the last that Memoria is told of it.
FinMensajes ==
    \A i \in DOMAIN socket_kernel :
        LET m == socket_kernel[i] IN
        /\ m.op # "INICIALIZAR_PROCESO" => ~ SinIniciar(m.pid)
        /\ m.op = "FINALIZAR_PROCESO" =>
              /\ estado[m.pid] = "exit"
              /\ \A j \in DOMAIN socket_kernel :
                    i < j => socket_kernel[j].pid # m.pid
        /\ m.op = "SUSPENDER_PROCESO" /\ estado[m.pid] = "exit" =>
              EnEspera("FINALIZAR_PROCESO", m.pid)

FinSuspension ==
    kernel.pc \in {"liberar", "limpiar"} =>
        /\ ~ SinIniciar(kernel.pid)
        /\ estado[kernel.pid] = "exit" =>
              EnEspera("FINALIZAR_PROCESO", kernel.pid)

FinBorrado ==
    kernel.pc \in {"borrar", "limpiar_fin"} =>
        /\ estado[kernel.pid] = "exit"
        /\ \A i \in DOMAIN socket_kernel : socket_kernel[i].pid # kernel.pid

FinInv == FinMensajes /\ FinSuspension /\ FinBorrado

\* funciones_kernel has nothing left to do for p.
Finalizado(p) ==
    estado[p] = "exit" /\ ~ EnEspera("FINALIZAR_PROCESO", p) /\ ~ Borrando(p)

-----------------------------------------------------------------------------
(* Tables and pages.                                                        *)

\* The level-2 tables of p, and their entries.
TablasDe(p) == ToSet(tabla_1_l[p + 1].entradas)
EntradasDe(p) ==
    {n \in 0 .. Len(tabla_2_l) - 1 : n \div ENTRADAS_POR_TABLA \in TablasDe(p)}

\* A process has tables enough for its pages, and of its own.
TablasInv ==
    /\ Len(tabla_2_l) = ENTRADAS_POR_TABLA * (Len(procesos) * CantEntradas1)
    /\ \A p \in Iniciados :
          /\ Len(tabla_1_l[p + 1].entradas) = CantEntradas1
          /\ \A t \in TablasDe(p) : ENTRADAS_POR_TABLA * t + ENTRADAS_POR_TABLA <= Len(tabla_2_l)
    /\ \A p, q \in Iniciados : p # q => TablasDe(p) \cap TablasDe(q) = {}

\* The entry of the page at position k of pagMem.
EntradaDePag(p, k) == paginas[PagMem(p)[k]].entrada
Posiciones(p) == DOMAIN PagMem(p)
Listadas(p) == {EntradaDePag(p, k) : k \in Posiciones(p)}

Presente(n) == tabla_2_l[n + 1].bPres = 1
MarcoDe(n) == tabla_2_l[n + 1].frame

\* The page that traer_a_memoria is bringing to a frame it had not.
Llega(n) == cpu.nueva # NADIE /\ cpu.numero = n

\* The CPU is bringing p one page more than it has.
Creciendo(p) == cpu.pid = p /\ (cpu.pc = "tomar" \/ cpu.nueva # NADIE)

\* What the handler of the CPU is doing is for the process in the CPU.
CpuInv ==
    /\ \A p, q \in Proceso : Ejecuta(p) /\ Ejecuta(q) => p = q
    /\ cpu.pc \notin {"libre", "marca"} =>
          cpu.pid \in Proceso /\ Ejecuta(cpu.pid) /\ cpu.pag \in Pagina
    /\ cpu.pc \in {"entrada2", "tomar", "traer"} => cpu.pid_ = cpu.pid
    /\ cpu.pc = "entrada2" => cpu.tabla2 \in TablasDe(cpu.pid)
    /\ cpu.pc \in {"tomar", "traer"} => cpu.numero \in EntradasDe(cpu.pid)
    /\ cpu.pc = "tomar" => ~ Presente(cpu.numero) /\ cpu.marco \in Frame
    /\ cpu.nueva # NADIE =>
          /\ cpu.pc = "traer"
          /\ cpu.nueva \in DOMAIN paginas
          /\ paginas[cpu.nueva].entrada = cpu.numero
          /\ Presente(cpu.numero)
          /\ cpu.numero \notin Listadas(cpu.pid)

\* pagMem lists the pages of the process that are in memory, each once.
PaginasInv ==
    \A p \in Iniciados :
        /\ \A k \in Posiciones(p) :
              /\ PagMem(p)[k] \in DOMAIN paginas
              /\ EntradaDePag(p, k) \in EntradasDe(p)
              /\ Presente(EntradaDePag(p, k))
        /\ \A j, k \in Posiciones(p) :
              EntradaDePag(p, j) = EntradaDePag(p, k) => j = k
        /\ \A n \in EntradasDe(p) : Presente(n) => n \in Listadas(p) \/ Llega(n)
        /\ Len(PagMem(p)) + (IF Creciendo(p) THEN 1 ELSE 0)
              <= MARCOS_POR_PROCESO

-----------------------------------------------------------------------------
(* Frames.                                                                  *)

\* The frame of n, a page of p, has been given back at the end of p.
Devuelta(p, n) ==
    \/ Finalizado(p)
    \/ Borrando(p) /\ \E k \in 1 .. kernel.i : EntradaDePag(p, k) = n

\* The entries that hold a frame.
Ocupa(p, n) == n \in EntradasDe(p) /\ Presente(n) /\ ~ Devuelta(p, n)
Ocupadas == {n \in 0 .. Len(tabla_2_l) - 1 : \E p \in Iniciados : Ocupa(p, n)}

\* The frame that a suspension is about to give back.
EnLimpieza == IF kernel.pc = "limpiar" THEN {kernel.frame} ELSE {}

\* bitMem says which frames are held, and each is held once.
MarcosInv ==
    /\ \A n \in Ocupadas : MarcoDe(n) \in Frame \ EnLimpieza
    /\ \A n, m \in Ocupadas : MarcoDe(n) = MarcoDe(m) => n = m
    /\ EnLimpieza \subseteq Frame
    /\ bitMem = {MarcoDe(n) : n \in Ocupadas} \union EnLimpieza
    /\ cpu.pc = "tomar" => cpu.marco \in Frame \ bitMem

\* The turn of the loop that ends a process.
BorradoInv ==
    /\ kernel.pc \in {"borrar", "limpiar_fin"} =>
          kernel.i <= Len(PagMem(kernel.pid))
    /\ kernel.pc = "limpiar_fin" =>
          /\ kernel.i < Len(PagMem(kernel.pid))
          /\ kernel.frame = MarcoDe(EntradaDePag(kernel.pid, kernel.i + 1))

\* The inductive invariant.
IInv ==
    /\ Tipos
    /\ LlegadaInv /\ InicioInv /\ FinInv
    /\ TablasInv /\ CpuInv /\ PaginasInv /\ BorradoInv
    /\ carrera \/ MarcosInv

-----------------------------------------------------------------------------
(* What does not change.                                                    *)

\* The tables and lists of Memoria.
datos == <<tabla_1_l, tabla_2_l, procesos, paginas>>

\* Frames are naturals, and NADIE is none of them.
LEMMA Marcos == Frame \subseteq Nat /\ NADIE \notin Frame
<1>1. Division_entera(CANT_MARCOS, BITS_POR_BYTE) \in Int
  BY MarcosAssumption DEF Division_entera
<1>2. BITS_POR_BYTE * Division_entera(CANT_MARCOS, BITS_POR_BYTE) - 1 \in Int
  BY <1>1, MarcosAssumption
<1>. QED  BY <1>2 DEF Frame, NADIE

\* The invariant holds at the beginning.
LEMMA IInvInicio == Init => IInv
<1> SUFFICES ASSUME Init PROVE IInv
  OBVIOUS
<1>1. Len(procesos) = 0 /\ Len(tabla_1_l) = 0 /\ Len(tabla_2_l) = 0
      /\ DOMAIN tabla_1_l = {} /\ DOMAIN socket_kernel = {} /\ DOMAIN procesos = {}
  BY DEF Init
<1>2. Iniciados = {}
  BY <1>1 DEF Iniciados
<1>3. kernel = [pc |-> "libre", pid |-> NADIE, i |-> 0, frame |-> NADIE, byte |-> {}]
      /\ cpu = CpuLibre
  BY DEF Init
<1>4. TipoTablas
  BY DEF Init, TipoTablas
<1>5. TipoHilos
  <2>1. socket_kernel \in Seq(Mensaje)  BY DEF Init
  <2>2. kernel \in [pc : {"libre", "crear_archivo", "liberar", "limpiar",
                         "borrar", "limpiar_fin"},
                   pid : Proceso \union {NADIE}, i : Nat,
                   frame : Frame \union {NADIE}, byte : SUBSET Frame]
    BY <1>3
  <2>3. /\ cpu.pc = "libre" /\ cpu.byte = {} /\ cpu.nueva = NADIE
        /\ cpu = [pc |-> cpu.pc, pid |-> cpu.pid, pag |-> cpu.pag, op |-> cpu.op,
             valor |-> cpu.valor, marco |-> cpu.marco, numero |-> cpu.numero,
             tabla2 |-> cpu.tabla2, backup_indice_1 |-> cpu.backup_indice_1,
             pid_ |-> cpu.pid_, byte |-> cpu.byte, nueva |-> cpu.nueva]
    BY <1>3 DEF CpuLibre
  <2>4. estado \in [Proceso ->
                     {"new", "ini", "ready", "exec", "block", "susp", "exit"}]
        /\ carrera = FALSE
    BY DEF Init
  <2>. QED  BY <2>1, <2>2, <2>3, <2>4 DEF TipoHilos, TipoCpu
<1>6. LlegadaInv
  <2>1. \A p \in Proceso : SinIniciar(p) /\ ~ Creando(p) /\ estado[p] = "new"
    BY <1>3 DEF Init, SinIniciar, Creando
  <2>2. CANT_PROCESOS \in Nat /\ kernel.pc = "libre"  BY ProcesosAssumption, <1>3
  <2>. QED  BY <1>1, <1>2, <2>1, <2>2 DEF LlegadaInv
<1>7. InicioInv /\ FinInv
  BY <1>1, <1>3 DEF InicioInv, FinInv, FinMensajes, FinSuspension, FinBorrado
<1>8. TablasInv
  <2>1. CantEntradas1 \in Int /\ ENTRADAS_POR_TABLA \in Int
    BY ProcesosAssumption, TablaAssumption DEF CantEntradas1, Division_entera
  <2>. QED  BY <1>1, <1>2, <2>1 DEF TablasInv
<1>9. CpuInv
  BY <1>3 DEF CpuInv, CpuLibre, Init, Ejecuta
<1>10. PaginasInv
  BY <1>2 DEF PaginasInv
<1>11. BorradoInv
  BY <1>3 DEF BorradoInv
<1>12. MarcosInv
  <2>1. Ocupadas = {} /\ EnLimpieza = {}  BY <1>2, <1>3 DEF Ocupadas, EnLimpieza
  <2>2. bitMem = {} /\ cpu.pc = "libre"  BY <1>3 DEF Init, CpuLibre
  <2>. QED  BY <2>1, <2>2 DEF MarcosInv
<1>. QED  BY <1>4, <1>5, <1>6, <1>7, <1>8, <1>9, <1>10, <1>11, <1>12 DEF IInv, Tipos

-----------------------------------------------------------------------------
(* What does not change with the tables and the lists of pages.             *)

\* The same pages of the same processes are in the same frames.
MismosDatos ==
    /\ UNCHANGED <<tabla_1_l, procesos, paginas>>
    /\ Len(tabla_2_l') = Len(tabla_2_l)
    /\ \A n \in 0 .. Len(tabla_2_l) - 1 :
          (Presente(n)' <=> Presente(n)) /\ MarcoDe(n)' = MarcoDe(n)

\* Tables that say the same leave the same entries held.
LEMMA MismosQuietos ==
    ASSUME MismosDatos
    PROVE  /\ Iniciados' = Iniciados
           /\ TablasInv => TablasInv'
           /\ \A p : TablasDe(p)' = TablasDe(p) /\ EntradasDe(p)' = EntradasDe(p)
           /\ \A p : Posiciones(p)' = Posiciones(p) /\ Listadas(p)' = Listadas(p)
           /\ \A p : PagMem(p)' = PagMem(p)
           /\ \A p, k : EntradaDePag(p, k)' = EntradaDePag(p, k)
           /\ \A n \in 0 .. Len(tabla_2_l) - 1 :
                 (Presente(n)' <=> Presente(n)) /\ MarcoDe(n)' = MarcoDe(n)
<1>1. tabla_1_l' = tabla_1_l /\ procesos' = procesos /\ paginas' = paginas
      /\ Len(tabla_2_l') = Len(tabla_2_l)
      /\ \A n \in 0 .. Len(tabla_2_l) - 1 :
            (Presente(n)' <=> Presente(n)) /\ MarcoDe(n)' = MarcoDe(n)
  BY DEF MismosDatos
<1>2. Iniciados' = Iniciados  BY <1>1 DEF Iniciados
<1>3. \A p : TablasDe(p)' = TablasDe(p)  BY <1>1 DEF TablasDe
<1>4. TablasInv => TablasInv'  BY <1>1, <1>2, <1>3 DEF TablasInv
<1>5. \A p : EntradasDe(p)' = EntradasDe(p)  BY <1>1, <1>3 DEF EntradasDe
<1>6. \A p : PagMem(p)' = PagMem(p)  BY <1>1 DEF PagMem
<1>7. \A p : Posiciones(p)' = Posiciones(p)  BY <1>6 DEF Posiciones
<1>8. \A p, k : EntradaDePag(p, k)' = EntradaDePag(p, k)  BY <1>1, <1>6 DEF EntradaDePag
<1>9. \A p : Listadas(p)' = Listadas(p)  BY <1>7, <1>8 DEF Listadas
<1>. QED  BY <1>1, <1>2, <1>3, <1>4, <1>5, <1>6, <1>7, <1>8, <1>9

\* Tables that are not touched say the same.
LEMMA DatosQuietos ==
    ASSUME UNCHANGED datos
    PROVE  /\ MismosDatos
           /\ Iniciados' = Iniciados
           /\ TablasInv => TablasInv'
           /\ TipoTablas /\ bitMem' \subseteq Frame => TipoTablas'
           /\ \A p : TablasDe(p)' = TablasDe(p) /\ EntradasDe(p)' = EntradasDe(p)
           /\ \A p : Posiciones(p)' = Posiciones(p) /\ Listadas(p)' = Listadas(p)
           /\ \A p : PagMem(p)' = PagMem(p)
           /\ \A p, k : EntradaDePag(p, k)' = EntradaDePag(p, k)
           /\ \A n : (Presente(n)' <=> Presente(n)) /\ MarcoDe(n)' = MarcoDe(n)
<1>1. tabla_1_l' = tabla_1_l /\ tabla_2_l' = tabla_2_l /\ procesos' = procesos
      /\ paginas' = paginas
  BY DEF datos
<1>2. MismosDatos  BY <1>1 DEF MismosDatos, Presente, MarcoDe
<1>3. TipoTablas /\ bitMem' \subseteq Frame => TipoTablas'  BY <1>1 DEF TipoTablas
<1>4. \A n : (Presente(n)' <=> Presente(n)) /\ MarcoDe(n)' = MarcoDe(n)
  BY <1>1 DEF Presente, MarcoDe
<1>. QED  BY <1>2, <1>3, <1>4, MismosQuietos

\* The pages of a process depend on the tables, and on what the CPU is bringing.
LEMMA PaginasQuietas ==
    ASSUME MismosDatos, PaginasInv,
           \A n : Llega(n) => Llega(n)',
           \A p \in Iniciados : Creciendo(p)' =>
               Creciendo(p) \/ Len(PagMem(p)) + 1 <= MARCOS_POR_PROCESO,
           procesos \in Seq([pid : Proceso, puntero : Nat, contador : Nat,
                         pagMem : Seq(Nat)])
    PROVE  PaginasInv'
<1>1. \A p \in Iniciados : Len(PagMem(p)) \in Nat
  BY DEF Iniciados, PagMem, Get
<1>2. SUFFICES ASSUME NEW p \in Iniciados
      PROVE  /\ \A k \in Posiciones(p) :
                   /\ PagMem(p)[k] \in DOMAIN paginas
                   /\ EntradaDePag(p, k) \in EntradasDe(p)
                   /\ Presente(EntradaDePag(p, k))
             /\ \A j, k \in Posiciones(p) :
                   EntradaDePag(p, j) = EntradaDePag(p, k) => j = k
             /\ \A n \in EntradasDe(p) : Presente(n) => n \in Listadas(p) \/ Llega(n)'
             /\ Len(PagMem(p)) + (IF Creciendo(p)' THEN 1 ELSE 0) <= MARCOS_POR_PROCESO
  <2>1. paginas' = paginas  BY DEF MismosDatos
  <2>2. \A q : \A n \in EntradasDe(q) : n \in 0 .. Len(tabla_2_l) - 1
    BY DEF EntradasDe
  <2>3. \A q : \A n \in EntradasDe(q) : Presente(n)' <=> Presente(n)
    BY MismosQuietos, <2>2
  <2>. QED  BY MismosQuietos, <2>1, <2>3, <1>2 DEF PaginasInv
<1>3. Len(PagMem(p)) <= MARCOS_POR_PROCESO
  BY <1>1, MarcosAssumption DEF PaginasInv
<1>. QED  BY <1>1, <1>3, MarcosAssumption DEF PaginasInv

\* Which frames are held depends on the tables and on what has been given back.
LEMMA MarcosQuietos ==
    ASSUME MismosDatos, UNCHANGED bitMem, MarcosInv,
           EnLimpieza' = EnLimpieza,
           \A p \in Iniciados : \A n \in EntradasDe(p) :
               Presente(n) => (Devuelta(p, n)' <=> Devuelta(p, n)),
           cpu'.pc = "tomar" => cpu'.marco \in Frame \ bitMem
    PROVE  MarcosInv'
<1>1. \A p \in Iniciados : \A n : Ocupa(p, n)' <=> Ocupa(p, n)
  <2>1. \A q : \A n \in EntradasDe(q) : n \in 0 .. Len(tabla_2_l) - 1
    BY DEF EntradasDe
  <2>. QED  BY <2>1, MismosQuietos DEF Ocupa
<1>2. Len(tabla_2_l') = Len(tabla_2_l)  BY DEF MismosDatos
<1>3. Ocupadas' = Ocupadas
  BY <1>1, <1>2, MismosQuietos DEF Ocupadas
<1>4. \A n \in Ocupadas : MarcoDe(n)' = MarcoDe(n)
  BY MismosQuietos DEF Ocupadas
<1>. QED  BY <1>3, <1>4 DEF MarcosInv

\* The rows of tabla_1_l and of procesos.
FilaTabla1 == [pid : Proceso, entradas : Seq(Nat)]
FilaProceso == [pid : Proceso, puntero : Nat, contador : Nat, pagMem : Seq(Nat)]

\* A process that has been initialised has its place in both lists.
LEMMA Filas ==
    ASSUME TipoTablas, Len(tabla_1_l) = Len(procesos), NEW p \in Iniciados
    PROVE  /\ p \in Nat /\ p + 1 \in DOMAIN tabla_1_l /\ p + 1 \in DOMAIN procesos
           /\ tabla_1_l[p + 1] \in FilaTabla1 /\ tabla_1_l[p + 1].entradas \in Seq(Nat)
           /\ procesos[p + 1] \in FilaProceso
           /\ PagMem(p) = procesos[p + 1].pagMem /\ PagMem(p) \in Seq(Nat)
           /\ Len(PagMem(p)) \in Nat /\ Posiciones(p) = 1 .. Len(PagMem(p))
<1>1. tabla_1_l \in Seq(FilaTabla1) /\ procesos \in Seq(FilaProceso)
  BY DEF TipoTablas, FilaTabla1, FilaProceso
<1>2. p \in Nat /\ p + 1 \in DOMAIN tabla_1_l /\ p + 1 \in DOMAIN procesos
  BY <1>1 DEF Iniciados
<1>3. tabla_1_l[p + 1] \in FilaTabla1 /\ procesos[p + 1] \in FilaProceso
  BY <1>1, <1>2, ElementOfSeq
<1>4. tabla_1_l[p + 1].entradas \in Seq(Nat) /\ procesos[p + 1].pagMem \in Seq(Nat)
  BY <1>3 DEF FilaTabla1, FilaProceso
<1>5. PagMem(p) = procesos[p + 1].pagMem  BY DEF PagMem, Get
<1>. QED  BY <1>2, <1>3, <1>4, <1>5 DEF Posiciones

\* The entry whose frame is being given back at the end of a process.
LEMMA EntradaQueSeBorra ==
    ASSUME IInv, kernel.pc = "limpiar_fin"
    PROVE  /\ kernel.pid \in Iniciados /\ kernel.i \in Nat
           /\ kernel.i + 1 \in Posiciones(kernel.pid)
           /\ EntradaDePag(kernel.pid, kernel.i + 1) \in 0 .. Len(tabla_2_l) - 1
<1>1. kernel.pid \in Proceso /\ estado[kernel.pid] = "exit"
  BY DEF IInv, LlegadaInv, FinInv, FinBorrado
<1>2. kernel.pid \in Iniciados
  BY <1>1 DEF IInv, LlegadaInv, SinIniciar
<1>3. kernel.i \in Nat  BY DEF IInv, Tipos, TipoHilos
<1>4. kernel.i + 1 \in Posiciones(kernel.pid)
  <2>1. Posiciones(kernel.pid) = 1 .. Len(PagMem(kernel.pid)) /\ Len(PagMem(kernel.pid)) \in Nat
    BY <1>2, Filas DEF IInv, Tipos, LlegadaInv
  <2>2. kernel.i < Len(PagMem(kernel.pid))  BY DEF IInv, BorradoInv
  <2>. QED  BY <1>3, <2>1, <2>2
<1>5. EntradaDePag(kernel.pid, kernel.i + 1) \in EntradasDe(kernel.pid)
  BY <1>2, <1>4 DEF IInv, PaginasInv
<1>. QED  BY <1>2, <1>3, <1>4, <1>5 DEF EntradasDe

\* What the Kernel and funciones_kernel are doing, and the history of bitMem.
hilos == <<socket_kernel, kernel, estado, carrera>>

\* The frames that an end has given back depend on the Kernel's thread.
LEMMA DevueltasQuietas ==
    ASSUME MismosDatos, UNCHANGED <<socket_kernel, kernel, estado>>
    PROVE  /\ \A p, n : Devuelta(p, n)' <=> Devuelta(p, n)
           /\ EnLimpieza' = EnLimpieza
           /\ BorradoInv /\ (kernel.pc = "limpiar_fin" =>
                 EntradaDePag(kernel.pid, kernel.i + 1) \in 0 .. Len(tabla_2_l) - 1)
              => BorradoInv'
           /\ LlegadaInv => LlegadaInv' /\ (InicioInv => InicioInv') /\ (FinInv => FinInv')
<1>0. kernel' = kernel /\ estado' = estado /\ socket_kernel' = socket_kernel
  OBVIOUS
<1>1. \A op, p : EnEspera(op, p)' <=> EnEspera(op, p)  BY <1>0 DEF EnEspera
<1>2. \A p : Borrando(p)' <=> Borrando(p)  BY <1>0 DEF Borrando
<1>3. \A p : Finalizado(p)' <=> Finalizado(p)  BY <1>0, <1>1, <1>2 DEF Finalizado
<1>4. \A p, n : Devuelta(p, n)' <=> Devuelta(p, n)
  BY <1>0, <1>2, <1>3, MismosQuietos DEF Devuelta
<1>5. EnLimpieza' = EnLimpieza  BY <1>0 DEF EnLimpieza
<1>6. BorradoInv /\ (kernel.pc = "limpiar_fin" =>
                 EntradaDePag(kernel.pid, kernel.i + 1) \in 0 .. Len(tabla_2_l) - 1)
      => BorradoInv'
  BY <1>0, MismosQuietos DEF BorradoInv
<1>7. LlegadaInv => LlegadaInv'
  BY <1>0, MismosQuietos DEF LlegadaInv, SinIniciar, Creando, MismosDatos
<1>8. InicioInv => InicioInv'  BY <1>0 DEF InicioInv
<1>9. FinInv => FinInv'  
  BY <1>0, <1>1 DEF FinInv, FinMensajes, FinSuspension, FinBorrado, SinIniciar
<1>. QED  BY <1>4, <1>5, <1>6, <1>7, <1>8, <1>9

\* A step of swap_, or one that Memoria does not survive.
LEMMA PasoAjeno ==
    ASSUME IInv, UNCHANGED <<datos, bitMem, hilos, cpu>>
    PROVE  IInv'
<1>1. /\ UNCHANGED datos /\ UNCHANGED bitMem /\ UNCHANGED cpu
      /\ UNCHANGED <<socket_kernel, kernel, estado>> /\ UNCHANGED carrera
  BY DEF hilos
<1>2. Tipos'
  BY <1>1, DatosQuietos DEF IInv, Tipos, TipoTablas, TipoHilos, TipoCpu
<1>3. CpuInv'
  BY <1>1, DatosQuietos DEF IInv, CpuInv, Ejecuta, datos
<1>4. PaginasInv'
  <2>1. \A n : Llega(n) <=> Llega(n)'  BY <1>1 DEF Llega
  <2>2. \A p : Creciendo(p)' <=> Creciendo(p)  BY <1>1 DEF Creciendo
  <2>. QED  BY <1>1, <2>1, <2>2, PaginasQuietas, DatosQuietos DEF IInv, Tipos, TipoTablas
<1>5. MarcosInv => MarcosInv'
  <2>1. SUFFICES ASSUME MarcosInv PROVE MarcosInv'  OBVIOUS
  <2>2. cpu'.pc = "tomar" => cpu'.marco \in Frame \ bitMem
    BY <1>1, <2>1 DEF MarcosInv
  <2>. QED  BY <1>1, <2>1, <2>2, DevueltasQuietas, MarcosQuietos, DatosQuietos
<1>. QED  BY <1>1, <1>2, <1>3, <1>4, <1>5, DatosQuietos, DevueltasQuietas,
          EntradaQueSeBorra DEF IInv

\* A step of the CPU, or of its thread, that moves no page.
LEMMA PasoSinMover ==
    ASSUME IInv, MismosDatos, TipoTablas', UNCHANGED <<bitMem, hilos>>,
           cpu.nueva = NADIE, cpu'.nueva = NADIE,
           TipoHilos', CpuInv',
           \A p \in Iniciados : cpu'.pid = p /\ cpu'.pc = "tomar"
               => Len(PagMem(p)) + 1 <= MARCOS_POR_PROCESO,
           cpu'.pc = "tomar" => cpu'.marco \in Frame \ bitMem
    PROVE  IInv'
<1>1. /\ MismosDatos /\ UNCHANGED bitMem
      /\ UNCHANGED <<socket_kernel, kernel, estado>> /\ UNCHANGED carrera
  BY DEF hilos
<1>2. cpu.nueva = NADIE
  OBVIOUS
<1>3. Tipos'
  BY DEF Tipos
<1>4. PaginasInv'
  <2>1. \A n : ~ Llega(n)  BY <1>2 DEF Llega
  <2>2. \A p \in Iniciados : Creciendo(p)' => Len(PagMem(p)) + 1 <= MARCOS_POR_PROCESO
    BY <1>2 DEF Creciendo
  <2>. QED  BY <1>1, <2>1, <2>2, PaginasQuietas, MismosQuietos DEF IInv, Tipos, TipoTablas
<1>5. MarcosInv => MarcosInv'
  BY <1>1, DevueltasQuietas, MarcosQuietos, MismosQuietos
<1>. QED  BY <1>1, <1>3, <1>4, <1>5, MismosQuietos, DevueltasQuietas, EntradaQueSeBorra DEF IInv

\* One that changes no table.
LEMMA PasoDeCpu ==
    ASSUME IInv, UNCHANGED <<datos, bitMem, hilos>>,
           cpu.pc # "traer", cpu'.nueva = cpu.nueva,
           TipoHilos', CpuInv',
           \A p \in Iniciados : cpu'.pid = p /\ cpu'.pc = "tomar"
               => Len(PagMem(p)) + 1 <= MARCOS_POR_PROCESO,
           cpu'.pc = "tomar" => cpu'.marco \in Frame \ bitMem
    PROVE  IInv'
<1>1. UNCHANGED datos /\ UNCHANGED bitMem /\ UNCHANGED <<bitMem, hilos>>
  OBVIOUS
<1>2. cpu.nueva = NADIE /\ cpu'.nueva = NADIE
  BY DEF IInv, CpuInv
<1>3. MismosDatos /\ TipoTablas'
  BY <1>1, DatosQuietos DEF IInv, Tipos, TipoTablas
<1>. QED  BY <1>1, <1>2, <1>3, PasoSinMover

\* The program of a process reaches its tables of level 2.
LEMMA TablaDePagina ==
    ASSUME IInv, NEW p \in Iniciados, NEW n \in Pagina
    PROVE  Get(tabla_1_l[p + 1].entradas, EntradaPrimerNivel(n)) \in TablasDe(p)
<1> DEFINE b == ENTRADAS_POR_TABLA
           q == n \div b
           c == (Paginas + b - 1) \div b
<1>1. n \in Nat /\ Paginas \in Nat \ {0} /\ n < Paginas /\ b \in Nat \ {0}
  BY ProcesosAssumption, TablaAssumption DEF Pagina
<1>2. q \in Nat /\ b * q <= n  BY <1>1, Resto
<1>3. Paginas + b - 1 \in Nat  BY <1>1
<1>4. c \in Nat /\ Paginas + b - 1 < b * c + b  BY <1>1, <1>3, Resto
<1>. HIDE DEF q, c, b
<1>5. b * q \in Nat /\ b * c \in Nat /\ b * q < b * c
  BY <1>1, <1>2, <1>4, SMT
<1>6. q < c
  <2>1. SUFFICES ASSUME c <= q PROVE FALSE  BY <1>2, <1>4
  <2>2. b * c <= b * q  BY ONLY <2>1, <1>1, <1>2, <1>4, SMT
  <2>. QED  BY <2>2, <1>5
<1>7. Len(tabla_1_l[p + 1].entradas) = c
  BY DEF IInv, TablasInv, CantEntradas1, Division_entera, c, b
<1>8. tabla_1_l[p + 1].entradas \in Seq(Nat)
  BY Filas DEF IInv, Tipos, LlegadaInv
<1>9. q + 1 \in DOMAIN tabla_1_l[p + 1].entradas
  BY <1>2, <1>4, <1>6, <1>7, <1>8
<1>. QED  BY <1>9 DEF Get, EntradaPrimerNivel, TablasDe, ToSet, q, b

\* The entries of a table of level 2 of a process are its own.
LEMMA EntradaDeTabla ==
    ASSUME IInv, NEW p \in Iniciados, NEW t \in TablasDe(p), NEW s \in Nat,
           s < ENTRADAS_POR_TABLA
    PROVE  t * ENTRADAS_POR_TABLA + s \in EntradasDe(p)
<1> DEFINE b == ENTRADAS_POR_TABLA
           a == t * b + s
<1>1. b \in Nat \ {0}  BY TablaAssumption
<1>2. t \in Nat
  <2>1. tabla_1_l[p + 1].entradas \in Seq(Nat)
    BY Filas DEF IInv, Tipos, LlegadaInv
  <2>. QED  BY <2>1 DEF TablasDe, ToSet
<1>3. b * t + b <= Len(tabla_2_l)  BY DEF IInv, TablasInv
<1>4. Len(tabla_2_l) \in Nat  BY DEF IInv, Tipos, TipoTablas
<1>5. s < b  OBVIOUS
<1>. HIDE DEF b
<1>6. t * b = b * t /\ b * t \in Nat  BY <1>1, <1>2, SMT
<1>7. a \in Nat /\ b * t <= a /\ a < b * t + b  BY <1>1, <1>2, <1>5, <1>6
<1>8. a \div b = t
  <2>. HIDE DEF a
  <2>. QED  BY <1>1, <1>2, <1>7, Cociente
<1>9. a \in 0 .. Len(tabla_2_l) - 1
  <2>1. b * t \in Nat /\ b * t + b <= Len(tabla_2_l) /\ a < b * t + b /\ a \in Nat
    BY <1>3, <1>6, <1>7
  <2>. HIDE DEF a
  <2>. QED  BY <2>1, <1>1, <1>4
<1>. QED  BY <1>8, <1>9 DEF EntradasDe, b

\* What entrada2 is asked for.
LEMMA PedidoPropio ==
    ASSUME IInv, cpu.pc = "entrada2"
    PROVE  /\ cpu.pid \in Iniciados /\ cpu.pid_ = cpu.pid /\ cpu.pid \in Proceso
           /\ NumeroPedido \in EntradasDe(cpu.pid)
           /\ NumeroPedido \in Nat /\ NumeroPedido + 1 \in DOMAIN tabla_2_l
<1>1. cpu.pid \in Proceso /\ Ejecuta(cpu.pid) /\ cpu.pag \in Pagina
      /\ cpu.pid_ = cpu.pid /\ cpu.tabla2 \in TablasDe(cpu.pid)
  BY DEF IInv, CpuInv
<1>2. cpu.pid \in Iniciados
  BY <1>1 DEF IInv, LlegadaInv, SinIniciar, Ejecuta
<1>3. EntradaSegundoNivel(cpu.pag) \in Nat
      /\ EntradaSegundoNivel(cpu.pag) < ENTRADAS_POR_TABLA
  <2>1. cpu.pag \in Nat  BY <1>1 DEF Pagina
  <2>2. cpu.pag % ENTRADAS_POR_TABLA \in 0 .. ENTRADAS_POR_TABLA - 1
    BY <2>1, TablaAssumption, Resto
  <2>. QED  BY <2>2, TablaAssumption DEF EntradaSegundoNivel
<1>4. NumeroPedido \in EntradasDe(cpu.pid)
  BY <1>1, <1>2, <1>3, EntradaDeTabla DEF NumeroPedido
<1>5. NumeroPedido \in 0 .. Len(tabla_2_l) - 1  BY <1>4 DEF EntradasDe
<1>6. Len(tabla_2_l) \in Nat /\ DOMAIN tabla_2_l = 1 .. Len(tabla_2_l)
  BY DEF IInv, Tipos, TipoTablas
<1>. HIDE DEF NumeroPedido
<1>. QED  BY <1>1, <1>2, <1>4, <1>5, <1>6

-----------------------------------------------------------------------------
(* The accesses of the CPU that change no table.                            *)

\* The CPU begins an access: the TLB answers, or the tables are asked.
LEMMA PasoAcceso ==
    ASSUME IInv, NEW p \in Proceso, NEW n \in Pagina, NEW op, Acceso(p, n, op)
    PROVE  IInv'
<1>1. UNCHANGED <<datos, bitMem, hilos>> /\ Ejecuta(p) /\ cpu.pc = "libre"
  BY DEF Acceso, datos, hilos, tablas, ambiente, historia
<1>2. TipoCpu  BY DEF IInv, Tipos, TipoHilos
<1>3. \E pc \in {"memcpy", "entrada1"} : \E v, m :
         cpu' = [cpu EXCEPT !.pid = p, !.pag = n, !.op = op, !.valor = v,
                            !.pc = pc, !.marco = m]
  <2>2. CASE \E e \in Coincide(tlb, n) :
                cpu' = [cpu EXCEPT !.pid = p, !.pag = n, !.op = op, !.valor = accesos',
                            !.pc = "memcpy", !.marco = e.marco]
    BY <2>2
  <2>3. CASE cpu' = [cpu EXCEPT !.pid = p, !.pag = n, !.op = op, !.valor = accesos',
                            !.pc = "entrada1"]
    <3>1. cpu' = [cpu EXCEPT !.pid = p, !.pag = n, !.op = op, !.valor = accesos',
                            !.pc = "entrada1", !.marco = cpu.marco]
      BY <2>3, <1>2 DEF TipoCpu
    <3>. QED  BY <3>1
  <2>. QED  BY <2>2, <2>3 DEF Acceso
<1>4. PICK pc \in {"memcpy", "entrada1"} : \E v, m :
         cpu' = [cpu EXCEPT !.pid = p, !.pag = n, !.op = op, !.valor = v,
                            !.pc = pc, !.marco = m]
  BY <1>3
<1>5. /\ cpu'.pc = pc /\ cpu'.pid = p /\ cpu'.pag = n /\ cpu'.nueva = cpu.nueva
      /\ cpu'.pid_ = cpu.pid_ /\ TipoCpu'
  <2>1. PICK v, m : cpu' = [cpu EXCEPT !.pid = p, !.pag = n, !.op = op, !.valor = v,
                                       !.pc = pc, !.marco = m]
    BY <1>4
  <2>. QED  BY <1>2, <2>1 DEF TipoCpu
<1>6. CpuInv'
  <2>1. estado' = estado  BY <1>1 DEF hilos
  <2>2. cpu.nueva = NADIE  BY <1>1 DEF IInv, CpuInv
  <2>. QED  BY <1>1, <1>5, <2>1, <2>2 DEF IInv, CpuInv, Ejecuta
<1>7. TipoHilos'
  BY <1>1, <1>5 DEF IInv, Tipos, TipoHilos, hilos
<1>. QED  BY <1>1, <1>4, <1>5, <1>6, <1>7, PasoDeCpu

\* entrada1 answers with a table of the process in the CPU, or Memoria dies.
LEMMA PasoEntrada1 ==
    ASSUME IInv, Entrada1
    PROVE  IInv'
<1>1. UNCHANGED <<datos, bitMem, hilos>> /\ cpu.pc = "entrada1"
  BY DEF Entrada1, Morir, datos, hilos, tablas, ambiente, historia
<1>2. TipoCpu  BY DEF IInv, Tipos, TipoHilos
<1>3. CASE UNCHANGED cpu
  BY <1>1, <1>3, PasoAjeno
<1>4. CASE cpu' = [cpu EXCEPT !.pc = "entrada2",
                   !.backup_indice_1 = cpu.pid,
                   !.pid_ = Tabla1.pid,
                   !.tabla2 = Get(Tabla1.entradas, EntradaPrimerNivel(cpu.pag))]
  <2>1. /\ cpu'.pc = "entrada2" /\ cpu'.pid = cpu.pid /\ cpu'.pag = cpu.pag
        /\ cpu'.pid_ = Tabla1.pid /\ cpu'.nueva = cpu.nueva /\ TipoCpu'
        /\ cpu'.tabla2 = Get(Tabla1.entradas, EntradaPrimerNivel(cpu.pag))
    BY <1>2, <1>4 DEF TipoCpu
  <2>2. cpu.nueva = NADIE /\ cpu.pid \in Proceso /\ Ejecuta(cpu.pid) /\ cpu.pag \in Pagina
    BY <1>1 DEF IInv, CpuInv
  <2>3. cpu.pid \in Iniciados
    BY <2>2 DEF IInv, LlegadaInv, SinIniciar, Ejecuta
  <2>4. Tabla1 = tabla_1_l[cpu.pid + 1]  BY DEF Tabla1, Get
  <2>5. Tabla1.pid = cpu.pid
    <3>1. cpu.pid \in Nat /\ cpu.pid + 1 \in DOMAIN tabla_1_l
      BY <2>3, Filas DEF IInv, Tipos, LlegadaInv
    <3>2. \A i \in DOMAIN tabla_1_l : tabla_1_l[i].pid = i - 1
      BY DEF IInv, LlegadaInv
    <3>3. tabla_1_l[cpu.pid + 1].pid = (cpu.pid + 1) - 1  BY <3>1, <3>2
    <3>4. (cpu.pid + 1) - 1 = cpu.pid  BY <3>1
    <3>. QED  BY <3>3, <3>4, <2>4
  <2>6. cpu'.tabla2 \in TablasDe(cpu.pid)
    BY <2>1, <2>2, <2>3, <2>4, TablaDePagina
  <2>7. estado' = estado /\ UNCHANGED datos  BY <1>1 DEF hilos
  <2>8. (cpu.tabla2 \in TablasDe(cpu.pid))'
    BY <2>1, <2>6, <2>7 DEF TablasDe, datos
  <2>9. CpuInv'
    BY <2>1, <2>2, <2>5, <2>7, <2>8 DEF IInv, CpuInv, Ejecuta
  <2>10. TipoHilos'
    BY <1>1, <2>1 DEF IInv, Tipos, TipoHilos, hilos
  <2>. QED  BY <1>1, <2>1, <2>9, <2>10, PasoDeCpu
<1>. QED  BY <1>3, <1>4 DEF Entrada1, Morir

\* entrada2 of a page in memory.
LEMMA PasoEntradaPresente ==
    ASSUME IInv, EntradaPresente
    PROVE  IInv'
<1>1. UNCHANGED <<datos, bitMem, hilos>> /\ cpu.pc = "entrada2"
      /\ cpu' = [cpu EXCEPT !.pc = "responder", !.numero = NumeroPedido]
  BY DEF EntradaPresente, datos, hilos, tablas, ambiente, historia
<1>2. TipoCpu  BY DEF IInv, Tipos, TipoHilos
<1>3. /\ cpu'.pc = "responder" /\ cpu'.pid = cpu.pid /\ cpu'.pag = cpu.pag
      /\ cpu'.nueva = cpu.nueva /\ TipoCpu'
  BY <1>1, <1>2 DEF TipoCpu
<1>4. CpuInv'
  <2>1. estado' = estado  BY <1>1 DEF hilos
  <2>. QED  BY <1>1, <1>3, <2>1 DEF IInv, CpuInv, Ejecuta
<1>5. TipoHilos'
  BY <1>1, <1>3 DEF IInv, Tipos, TipoHilos, hilos
<1>. QED  BY <1>1, <1>3, <1>4, <1>5, PasoDeCpu

\* The frame is sent.
LEMMA PasoResponderMarco ==
    ASSUME IInv, ResponderMarco
    PROVE  IInv'
<1> DEFINE f == Get(tabla_2_l, cpu.numero).frame
<1>1. UNCHANGED <<datos, bitMem, hilos>> /\ cpu.pc = "responder"
      /\ cpu' = [cpu EXCEPT !.pc = "memcpy", !.marco = f, !.numero = NADIE,
                          !.tabla2 = NADIE]
  BY DEF ResponderMarco, datos, hilos, tablas, ambiente, historia
<1>. HIDE DEF f
<1>2. TipoCpu  BY DEF IInv, Tipos, TipoHilos
<1>3. /\ cpu'.pc = "memcpy" /\ cpu'.pid = cpu.pid /\ cpu'.pag = cpu.pag
      /\ cpu'.nueva = cpu.nueva /\ TipoCpu'
  BY <1>1, <1>2 DEF TipoCpu
<1>4. CpuInv'
  <2>1. estado' = estado  BY <1>1 DEF hilos
  <2>. QED  BY <1>1, <1>3, <2>1 DEF IInv, CpuInv, Ejecuta
<1>5. TipoHilos'
  BY <1>1, <1>3 DEF IInv, Tipos, TipoHilos, hilos
<1>. QED  BY <1>1, <1>3, <1>4, <1>5, PasoDeCpu

\* lectura and escritura touch the words only.
LEMMA PasoMemcpy ==
    ASSUME IInv, Lectura \/ Escritura
    PROVE  IInv'
<1>1. /\ UNCHANGED <<datos, bitMem, hilos>> /\ cpu.pc = "memcpy"
      /\ \E v : cpu' = [cpu EXCEPT !.pc = "marca", !.valor = v]
  <2>1. CASE Lectura
    BY <2>1 DEF Lectura, datos, hilos, tablas, ambiente, historia
  <2>2. CASE Escritura
    <3>1. cpu' = [cpu EXCEPT !.pc = "marca", !.valor = cpu.valor]
      BY <2>2 DEF Escritura, IInv, Tipos, TipoHilos, TipoCpu
    <3>. QED  BY <2>2, <3>1 DEF Escritura, datos, hilos, tablas, ambiente
  <2>. QED  BY <2>1, <2>2
<1>2. TipoCpu  BY DEF IInv, Tipos, TipoHilos
<1>3. /\ cpu'.pc = "marca" /\ cpu'.pid = cpu.pid /\ cpu'.pag = cpu.pag
      /\ cpu'.nueva = cpu.nueva /\ TipoCpu'
  BY <1>1, <1>2 DEF TipoCpu
<1>4. CpuInv'
  <2>1. estado' = estado  BY <1>1 DEF hilos
  <2>. QED  BY <1>1, <1>3, <2>1 DEF IInv, CpuInv, Ejecuta
<1>5. TipoHilos'
  BY <1>1, <1>3 DEF IInv, Tipos, TipoHilos, hilos
<1>. QED  BY <1>1, <1>3, <1>4, <1>5, PasoDeCpu

\* buscar_frame_libre finds a frame that is free, and the process may have one more.
LEMMA PasoBuscarFrameLibre ==
    ASSUME IInv, BuscarFrameLibre
    PROVE  IInv'
<1> DEFINE f == Min(Frame \ bitMem)
<1>1. UNCHANGED <<datos, bitMem, hilos>> /\ cpu.pc = "entrada2" /\ EnPageFault
      /\ ~ HayQueReemplazar
      /\ cpu' = [cpu EXCEPT !.pc = "tomar", !.numero = NumeroPedido, !.marco = f,
                            !.byte = bitMem \intersect Byte(f)]
  BY DEF BuscarFrameLibre, EnPageFault, datos, hilos, tablas, ambiente, historia
<1>2. f \in Frame \ bitMem
  <2>1. bitMem \subseteq Frame  BY DEF IInv, Tipos, TipoTablas
  <2>2. Frame \ bitMem # {} /\ Frame \ bitMem \subseteq Nat
    BY <1>1, <2>1, Marcos DEF HayQueReemplazar
  <2>. QED  BY <2>2, MinimoNat
<1>. HIDE DEF f
<1>3. TipoCpu  BY DEF IInv, Tipos, TipoHilos
<1>4. /\ cpu'.pc = "tomar" /\ cpu'.pid = cpu.pid /\ cpu'.pag = cpu.pag
      /\ cpu'.nueva = cpu.nueva /\ cpu'.pid_ = cpu.pid_ /\ cpu'.marco = f
      /\ cpu'.numero = NumeroPedido /\ TipoCpu'
  BY <1>1, <1>3 DEF TipoCpu, Byte
<1>5. cpu.nueva = NADIE /\ cpu.pid \in Proceso /\ Ejecuta(cpu.pid) /\ cpu.pag \in Pagina
  BY <1>1 DEF IInv, CpuInv
<1>6. /\ cpu.pid \in Iniciados /\ cpu.pid_ = cpu.pid
      /\ NumeroPedido \in EntradasDe(cpu.pid) /\ NumeroPedido + 1 \in DOMAIN tabla_2_l
  BY <1>1, PedidoPropio
<1>7. ~ Presente(NumeroPedido)
  BY <1>1 DEF EnPageFault, Presente, Get
<1>8. Len(PagMem(cpu.pid)) + 1 <= MARCOS_POR_PROCESO
  <2>1. Len(PagMem(cpu.pid)) # MARCOS_POR_PROCESO
    BY <1>1, <1>6 DEF HayQueReemplazar, Proceso_, PagMem
  <2>2. Len(PagMem(cpu.pid)) \in Nat
    BY <1>6, Filas DEF IInv, Tipos, LlegadaInv
  <2>3. ~ Creciendo(cpu.pid)
    BY <1>1, <1>5 DEF Creciendo
  <2>4. Len(PagMem(cpu.pid)) + 0 <= MARCOS_POR_PROCESO
    BY <1>6, <2>3 DEF IInv, PaginasInv
  <2>. QED  BY <2>1, <2>2, <2>4, MarcosAssumption
<1>9. CpuInv'
  <2>1. UNCHANGED datos /\ estado' = estado  BY <1>1 DEF hilos
  <2>2. PICK p : p = cpu.pid  OBVIOUS
  <2>3. PICK n : n = NumeroPedido  OBVIOUS
  <2>4. n \in EntradasDe(p)' /\ ~ Presente(n)'
    BY <1>6, <1>7, <2>1, <2>2, <2>3, DatosQuietos
  <2>5. cpu'.numero = n /\ cpu'.pid = p  BY <1>4, <2>2, <2>3
  <2>6. (cpu.numero \in EntradasDe(cpu.pid))' /\ ~ Presente(cpu.numero)'
    BY <2>4, <2>5 DEF EntradasDe, TablasDe, Presente
  <2>. QED
    BY <1>2, <1>4, <1>5, <1>6, <2>1, <2>6 DEF IInv, CpuInv, Ejecuta
<1>10. TipoHilos'
  BY <1>1, <1>4 DEF IInv, Tipos, TipoHilos, hilos
<1>11. \A p \in Iniciados : cpu'.pid = p /\ cpu'.pc = "tomar"
               => Len(PagMem(p)) + 1 <= MARCOS_POR_PROCESO
  BY <1>4, <1>8
<1>12. cpu'.marco \in Frame \ bitMem /\ cpu.pc # "traer" /\ cpu'.nueva = cpu.nueva
  BY <1>1, <1>2, <1>4
<1>. QED  BY <1>1, <1>9, <1>10, <1>11, <1>12, PasoDeCpu

\* A clock with nothing to look at.
LEMMA PasoReemplazarSinPaginas ==
    ASSUME IInv, ReemplazarSinPaginas
    PROVE  IInv'
<1>1. UNCHANGED <<datos, bitMem, hilos>> /\ cpu.pc = "entrada2"
  BY DEF ReemplazarSinPaginas, EnPageFault, Morir, datos, hilos, tablas, ambiente, historia
<1>2. TipoCpu  BY DEF IInv, Tipos, TipoHilos
<1>3. CASE UNCHANGED cpu
  BY <1>1, <1>3, PasoAjeno
<1>4. CASE cpu' = [cpu EXCEPT !.pc = "bucle"]
  <2>1. /\ cpu'.pc = "bucle" /\ cpu'.pid = cpu.pid /\ cpu'.pag = cpu.pag
        /\ cpu'.nueva = cpu.nueva /\ TipoCpu'
    BY <1>2, <1>4 DEF TipoCpu
  <2>2. cpu.nueva = NADIE  BY <1>1 DEF IInv, CpuInv
  <2>3. estado' = estado  BY <1>1 DEF hilos
  <2>4. CpuInv'
    BY <1>1, <2>1, <2>2, <2>3 DEF IInv, CpuInv, Ejecuta
  <2>5. TipoHilos'
    BY <1>1, <2>1 DEF IInv, Tipos, TipoHilos, hilos
  <2>. QED  BY <1>1, <2>1, <2>4, <2>5, PasoDeCpu
<1>. QED  BY <1>3, <1>4 DEF ReemplazarSinPaginas, Morir

-----------------------------------------------------------------------------
(* The Kernel.                                                              *)

\* A step of the Kernel: it tells Memoria something, or runs another process.
LEMMA PasoDelKernel ==
    ASSUME IInv, UNCHANGED <<datos, bitMem, kernel, cpu, carrera>>,
           TipoHilos', LlegadaInv', InicioInv', FinInv',
           \A p, q \in Proceso : Ejecuta(p)' /\ Ejecuta(q)' => p = q,
           \A p \in Proceso : cpu.pid = p /\ cpu.pc \notin {"libre", "marca"} /\ Ejecuta(p)
               => Ejecuta(p)',
           \A p \in Iniciados : Finalizado(p)' <=> Finalizado(p)
    PROVE  IInv'
<1>1. UNCHANGED datos /\ UNCHANGED bitMem /\ cpu' = cpu /\ kernel' = kernel
      /\ carrera' = carrera
  OBVIOUS
<1>2. TipoTablas'  BY <1>1, DatosQuietos DEF IInv, Tipos, TipoTablas
<1>3. TablasInv'  BY <1>1, DatosQuietos DEF IInv
<1>4. CpuInv'
  <2>1. \A p, q \in Proceso : estado'[p] = "exec" /\ estado'[q] = "exec" => p = q
    BY DEF Ejecuta
  <2>2. \A p \in Proceso : cpu.pid = p /\ cpu.pc \notin {"libre", "marca"}
            /\ estado[p] = "exec" => estado'[p] = "exec"
    BY DEF Ejecuta
  <2>. QED  BY <1>1, <2>1, <2>2, DatosQuietos DEF IInv, CpuInv, Ejecuta, datos
<1>5. PaginasInv'
  <2>1. \A n : Llega(n) <=> Llega(n)'  BY <1>1 DEF Llega
  <2>2. \A p : Creciendo(p)' <=> Creciendo(p)  BY <1>1 DEF Creciendo
  <2>. QED  BY <1>1, <2>1, <2>2, PaginasQuietas, DatosQuietos DEF IInv, Tipos, TipoTablas
<1>6. BorradoInv'  BY <1>1, DatosQuietos DEF IInv, BorradoInv
<1>7. MarcosInv => MarcosInv'
  <2>1. SUFFICES ASSUME MarcosInv PROVE MarcosInv'  OBVIOUS
  <2>2. cpu'.pc = "tomar" => cpu'.marco \in Frame \ bitMem
    BY <1>1, <2>1 DEF MarcosInv
  <2>3. EnLimpieza' = EnLimpieza  BY <1>1 DEF EnLimpieza
  <2>4. \A p : Borrando(p)' <=> Borrando(p)  BY <1>1 DEF Borrando
  <2>5. \A p \in Iniciados : \A n : Devuelta(p, n)' <=> Devuelta(p, n)
    BY <1>1, <2>4, DatosQuietos DEF Devuelta
  <2>. QED  BY <1>1, <2>1, <2>2, <2>3, <2>5, MarcosQuietos, DatosQuietos
<1>8. carrera' \/ MarcosInv'  BY <1>1, <1>7 DEF IInv
<1>. QED  BY <1>2, <1>3, <1>4, <1>5, <1>6, <1>8 DEF IInv, Tipos

\* What is in the socket are messages of the Kernel.
LEMMA MensajesEnEspera ==
    ASSUME IInv
    PROVE  \A i \in DOMAIN socket_kernel : socket_kernel[i] \in Mensaje
<1>1. socket_kernel \in Seq(Mensaje)  BY DEF IInv, Tipos, TipoHilos
<1>2. ASSUME NEW i \in DOMAIN socket_kernel PROVE socket_kernel[i] \in Mensaje
  BY <1>1, ElementOfSeq
<1>. QED  BY <1>2

\* A process goes from one queue of the Kernel to another.
LEMMA EstadosIguales ==
    ASSUME IInv, UNCHANGED <<datos, kernel>>,
           \A q \in Proceso : \A e \in {"new", "ini", "exit"} :
               estado'[q] = e <=> estado[q] = e
    PROVE  /\ LlegadaInv'
           /\ socket_kernel' = socket_kernel => InicioInv' /\ FinInv'
           /\ socket_kernel' = socket_kernel =>
                 \A p \in Proceso : Finalizado(p)' <=> Finalizado(p)
<1>1. kernel' = kernel /\ tabla_1_l' = tabla_1_l /\ procesos' = procesos
      /\ Iniciados' = Iniciados
  BY DatosQuietos DEF datos
<1>2. \A q \in Proceso : (SinIniciar(q)' <=> SinIniciar(q))
         /\ (estado'[q] = "new" <=> estado[q] = "new")
         /\ (estado'[q] = "ini" <=> estado[q] = "ini")
         /\ (estado'[q] = "exit" <=> estado[q] = "exit")
  BY DEF SinIniciar
<1>3. \A q : Creando(q)' <=> Creando(q)  BY <1>1 DEF Creando
<1>4. LlegadaInv'
  BY <1>1, <1>2, <1>3 DEF IInv, LlegadaInv
<1>5. ASSUME socket_kernel' = socket_kernel
      PROVE  InicioInv' /\ FinInv' /\ \A p \in Proceso : Finalizado(p)' <=> Finalizado(p)
  <2>1. \A i \in DOMAIN socket_kernel : socket_kernel[i].pid \in Proceso
    BY MensajesEnEspera DEF Mensaje
  <2>2. \A op, p : EnEspera(op, p)' <=> EnEspera(op, p)  BY <1>5 DEF EnEspera
  <2>3. kernel.pc # "libre" => kernel.pid \in Proceso  BY DEF IInv, LlegadaInv
  <2>4. InicioInv'
    BY <1>1, <1>2, <1>5, <2>1 DEF IInv, InicioInv
  <2>5. FinInv'
    <3>1. FinMensajes'
      <4>1. SUFFICES ASSUME NEW i \in DOMAIN socket_kernel
            PROVE  LET m == socket_kernel[i] IN
                   /\ m.op # "INICIALIZAR_PROCESO" => estado'[m.pid] \notin {"new", "ini"}
                   /\ m.op = "FINALIZAR_PROCESO" =>
                         /\ estado'[m.pid] = "exit"
                         /\ \A j \in DOMAIN socket_kernel :
                               i < j => socket_kernel[j].pid # m.pid
                   /\ m.op = "SUSPENDER_PROCESO" /\ estado'[m.pid] = "exit" =>
                         EnEspera("FINALIZAR_PROCESO", m.pid)
        BY <1>5 DEF FinMensajes, SinIniciar, EnEspera
      <4>2. PICK p \in Proceso : p = socket_kernel[i].pid  BY <2>1
      <4>3. /\ estado'[p] = "new" <=> estado[p] = "new"
            /\ estado'[p] = "ini" <=> estado[p] = "ini"
            /\ estado'[p] = "exit" <=> estado[p] = "exit"
        BY <1>2
      <4>. QED  BY <4>2, <4>3 DEF IInv, FinInv, FinMensajes, SinIniciar
    <3>2. FinSuspension'
      BY <1>1, <1>2, <1>5, <2>2, <2>3 DEF IInv, FinInv, FinSuspension
    <3>3. FinBorrado'
      BY <1>1, <1>2, <1>5, <2>3 DEF IInv, FinInv, FinBorrado
    <3>. QED  BY <3>1, <3>2, <3>3 DEF FinInv
  <2>6. \A p \in Proceso : Finalizado(p)' <=> Finalizado(p)
    BY <1>1, <1>2, <2>2 DEF Finalizado, Borrando
  <2>. QED  BY <2>4, <2>5, <2>6
<1>. QED  BY <1>4, <1>5

\* Dispatching, blocking and unblocking tell Memoria nothing.
LEMMA PasoDeCola ==
    ASSUME IInv, NEW p \in Proceso, Despachar(p) \/ Bloquear(p) \/ Desbloquear(p)
    PROVE  IInv'
<1>1. UNCHANGED <<datos, bitMem, kernel, cpu, carrera>> /\ UNCHANGED socket_kernel
  BY DEF Despachar, Bloquear, Desbloquear, datos, tablas, ambiente, historia
<1>2. estado \in [Proceso ->
                     {"new", "ini", "ready", "exec", "block", "susp", "exit"}]
  BY DEF IInv, Tipos, TipoHilos
<1>3. \E e \in {"ready", "exec", "block"} :
         /\ estado' = [estado EXCEPT ![p] = e]
         /\ estado[p] \in {"ready", "exec", "block", "susp"}
         /\ e = "exec" => \A q \in Proceso : estado[q] # "exec"
         /\ estado[p] = "exec" => cpu.pc \in {"libre", "marca"}
  BY DEF Despachar, Bloquear, Desbloquear, Ejecuta, CpuOciosa
<1>4. PICK e \in {"ready", "exec", "block"} :
         /\ estado' = [estado EXCEPT ![p] = e]
         /\ estado[p] \in {"ready", "exec", "block", "susp"}
         /\ e = "exec" => \A q \in Proceso : estado[q] # "exec"
         /\ estado[p] = "exec" => cpu.pc \in {"libre", "marca"}
  BY <1>3
<1>5. /\ \A q \in Proceso : estado'[q] = (IF q = p THEN e ELSE estado[q])
      /\ estado' \in [Proceso ->
                     {"new", "ini", "ready", "exec", "block", "susp", "exit"}]
  BY <1>2, <1>4
<1>6. \A q \in Proceso : \A s \in {"new", "ini", "exit"} :
               estado'[q] = s <=> estado[q] = s
  BY <1>4, <1>5
<1>7. TipoHilos'
  BY <1>1, <1>5 DEF IInv, Tipos, TipoHilos, TipoCpu
<1>8. LlegadaInv' /\ InicioInv' /\ FinInv'
      /\ \A q \in Proceso : Finalizado(q)' <=> Finalizado(q)
  BY <1>1, <1>6, EstadosIguales
<1>9. \A q, r \in Proceso : Ejecuta(q)' /\ Ejecuta(r)' => q = r
  BY <1>4, <1>5 DEF IInv, CpuInv, Ejecuta
<1>10. \A q \in Proceso : cpu.pid = q /\ cpu.pc \notin {"libre", "marca"} /\ Ejecuta(q)
               => Ejecuta(q)'
  BY <1>4, <1>5 DEF Ejecuta
<1>11. \A q \in Iniciados : q \in Proceso
  BY ProcesosAssumption DEF IInv, LlegadaInv, Iniciados, Proceso, Tipos, TipoTablas
<1>. QED  BY <1>1, <1>7, <1>8, <1>9, <1>10, <1>11, PasoDelKernel

\* Manda: a message after those that wait.
LEMMA UltimoMensaje ==
    ASSUME IInv, NEW op \in {"INICIALIZAR_PROCESO", "SUSPENDER_PROCESO", "FINALIZAR_PROCESO"},
           NEW p \in Proceso, Manda(op, p)
    PROVE  /\ socket_kernel' \in Seq(Mensaje)
           /\ DOMAIN socket_kernel' = 1 .. Len(socket_kernel) + 1
           /\ DOMAIN socket_kernel = 1 .. Len(socket_kernel) /\ Len(socket_kernel) \in Nat
           /\ \A i \in DOMAIN socket_kernel : socket_kernel'[i] = socket_kernel[i]
           /\ socket_kernel'[Len(socket_kernel) + 1] = [op |-> op, pid |-> p]
           /\ \A o, q : EnEspera(o, q)' <=> EnEspera(o, q) \/ (o = op /\ q = p)
<1> DEFINE m == [op |-> op, pid |-> p]
           k == Len(socket_kernel) + 1
<1>1. socket_kernel \in Seq(Mensaje) /\ m \in Mensaje /\ socket_kernel' = Append(socket_kernel, m)
  BY DEF IInv, Tipos, TipoHilos, Mensaje, Manda
<1>2. m.op = op /\ m.pid = p  OBVIOUS
<1>. HIDE DEF m
<1>3. /\ socket_kernel' \in Seq(Mensaje)
      /\ DOMAIN socket_kernel' = 1 .. k
      /\ DOMAIN socket_kernel = 1 .. Len(socket_kernel) /\ Len(socket_kernel) \in Nat
      /\ \A i \in DOMAIN socket_kernel : socket_kernel'[i] = socket_kernel[i]
      /\ socket_kernel'[k] = m
  BY <1>1
<1>4. \A i \in 1 .. k : i = k \/ i \in DOMAIN socket_kernel
  BY <1>3
<1>5. ASSUME NEW o, NEW q
      PROVE  EnEspera(o, q)' <=> EnEspera(o, q) \/ (o = op /\ q = p)
  <2>1. EnEspera(o, q)' <=> \E i \in 1 .. k : socket_kernel'[i].op = o /\ socket_kernel'[i].pid = q
    BY <1>3 DEF EnEspera
  <2>2. k \in 1 .. k  BY <1>3
  <2>3. DOMAIN socket_kernel \subseteq 1 .. k  BY <1>3
  <2>. HIDE DEF k
  <2>. QED  BY <2>1, <2>2, <2>3, <1>2, <1>3, <1>4 DEF EnEspera
<1>. QED  BY <1>3, <1>5 DEF m

\* What the Kernel has done with each process.
TipoEstado == estado \in [Proceso ->
                     {"new", "ini", "ready", "exec", "block", "susp", "exit"}]

\* A position in procesos is a pid.
LEMMA IniciadosProceso ==
    ASSUME IInv PROVE Iniciados \subseteq Proceso
  BY ProcesosAssumption DEF IInv, LlegadaInv, Iniciados, Proceso, Tipos, TipoTablas

\* pasar_a_ready: the next process is the one whose pid is its position.
LEMMA PasoPedirInicializar ==
    ASSUME IInv, OrdenDePids, PedirInicializar
    PROVE  IInv'
<1>1. UNCHANGED <<datos, bitMem, kernel, cpu, carrera>>
  BY DEF PedirInicializar, datos, tablas, ambiente, historia
<1>2. PICK i \in DOMAIN Orden :
        /\ estado[Orden[i]] = "new"
        /\ \A j \in 1 .. i - 1 : estado[Orden[j]] \notin {"new", "ini"}
        /\ Manda("INICIALIZAR_PROCESO", Orden[i])
        /\ estado' = [estado EXCEPT ![Orden[i]] = "ini"]
  BY DEF PedirInicializar
<1>3. PICK p \in Proceso : p = Orden[i] /\ p = i - 1
  BY OrdenAssumption, ElementOfSeq DEF OrdenDePids
<1>4. DOMAIN Orden = 1 .. CANT_PROCESOS /\ CANT_PROCESOS \in Nat /\ i \in Nat
  BY OrdenAssumption, ProcesosAssumption
<1>5. \A q \in Proceso : q < p => q + 1 \in 1 .. i - 1 /\ Orden[q + 1] = q
  BY <1>3, <1>4 DEF OrdenDePids, Proceso
<1>6. /\ estado[p] = "new"
      /\ \A q \in Proceso : q < p => ~ SinIniciar(q)
      /\ Manda("INICIALIZAR_PROCESO", p)
      /\ estado' = [estado EXCEPT ![p] = "ini"]
  BY <1>2, <1>3, <1>5 DEF SinIniciar
<1>7. TipoEstado  BY DEF IInv, Tipos, TipoHilos, TipoEstado
<1>8. /\ \A q \in Proceso : estado'[q] = (IF q = p THEN "ini" ELSE estado[q])
      /\ TipoEstado'
  BY <1>6, <1>7 DEF TipoEstado
<1>. DEFINE k == Len(socket_kernel) + 1
<1>9. /\ socket_kernel' \in Seq(Mensaje)
      /\ DOMAIN socket_kernel' = 1 .. k
      /\ DOMAIN socket_kernel = 1 .. Len(socket_kernel) /\ Len(socket_kernel) \in Nat
      /\ \A j \in DOMAIN socket_kernel : socket_kernel'[j] = socket_kernel[j]
      /\ socket_kernel'[k] = [op |-> "INICIALIZAR_PROCESO", pid |-> p]
      /\ \A o, q : EnEspera(o, q)' <=> EnEspera(o, q)
                       \/ (o = "INICIALIZAR_PROCESO" /\ q = p)
  BY <1>6, UltimoMensaje
<1>10. /\ \A j \in 1 .. k : j = k \/ j \in DOMAIN socket_kernel
       /\ \A j \in DOMAIN socket_kernel : j # k /\ j < k
       /\ socket_kernel'[k].op = "INICIALIZAR_PROCESO" /\ socket_kernel'[k].pid = p
       /\ k \in 1 .. k
  BY <1>9
<1>11. \A q \in Proceso : estado[q] # "ini"
  <2>1. SUFFICES ASSUME NEW q \in Proceso, estado[q] = "ini" PROVE FALSE  OBVIOUS
  <2>2. q # p /\ ~ q < p  BY <1>6, <2>1 DEF SinIniciar
  <2>3. p < q  BY <2>2 DEF Proceso
  <2>4. ~ SinIniciar(p)  BY <2>1, <2>3 DEF IInv, LlegadaInv
  <2>. QED  BY <2>4, <1>6 DEF SinIniciar
<1>. HIDE DEF k
<1>12. \A j \in DOMAIN socket_kernel : socket_kernel[j].pid \in Proceso
  BY MensajesEnEspera DEF Mensaje
<1>13. kernel.pc # "crear_archivo"
  BY <1>11 DEF IInv, LlegadaInv
<1>14. \A j \in DOMAIN socket_kernel : socket_kernel[j].op # "INICIALIZAR_PROCESO"
  BY <1>11, <1>12 DEF IInv, InicioInv
<1>15. \A j \in DOMAIN socket_kernel : socket_kernel[j].pid # p
  <2>1. SUFFICES ASSUME NEW j \in DOMAIN socket_kernel, socket_kernel[j].pid = p PROVE FALSE
    OBVIOUS
  <2>. QED  BY <1>6, <1>14, <2>1 DEF IInv, FinInv, FinMensajes, SinIniciar
<1>16. kernel.pid = p => kernel.pc = "libre"
  <2>1. kernel.pc \in {"libre", "crear_archivo", "liberar", "limpiar",
                         "borrar", "limpiar_fin"}
    BY DEF IInv, Tipos, TipoHilos
  <2>. QED  BY <1>6, <1>13, <2>1 DEF IInv, FinInv, FinSuspension, FinBorrado, SinIniciar
<1>17. LlegadaInv'
  <2>1. kernel' = kernel /\ tabla_1_l' = tabla_1_l /\ procesos' = procesos
      /\ Iniciados' = Iniciados
    BY <1>1, DatosQuietos DEF datos
  <2>2. \A q \in Proceso : (SinIniciar(q)' <=> SinIniciar(q))
          /\ (estado'[q] = "new" => estado[q] = "new")
          /\ (q # p => estado'[q] = estado[q]) /\ (Creando(q)' <=> Creando(q))
    BY <1>6, <1>8, <2>1 DEF SinIniciar, Creando
  <2>3. \A q, r \in Proceso : r < q /\ estado'[q] # "new" => ~ SinIniciar(r)
    BY <1>6, <2>2 DEF IInv, LlegadaInv
  <2>4. kernel'.pc # "crear_archivo"  BY <1>13, <2>1
  <2>. QED  BY <2>1, <2>2, <2>3, <2>4 DEF IInv, LlegadaInv
<1>18. InicioInv'
  BY <1>1, <1>8, <1>9, <1>10, <1>13, <1>14 DEF InicioInv
<1>19. FinInv'
  <2>1. FinMensajes'
    <3>1. SUFFICES ASSUME NEW j \in 1 .. k
          PROVE  LET m == socket_kernel'[j] IN
                 /\ m.op # "INICIALIZAR_PROCESO" => estado'[m.pid] \notin {"new", "ini"}
                 /\ m.op = "FINALIZAR_PROCESO" =>
                       /\ estado'[m.pid] = "exit"
                       /\ \A l \in 1 .. k : j < l => socket_kernel'[l].pid # m.pid
                 /\ m.op = "SUSPENDER_PROCESO" /\ estado'[m.pid] = "exit" =>
                       \E l \in 1 .. k : /\ socket_kernel'[l].op = "FINALIZAR_PROCESO"
                                         /\ socket_kernel'[l].pid = m.pid
      BY <1>9 DEF FinMensajes, SinIniciar, EnEspera
    <3>2. CASE j = k  BY <3>2, <1>10
    <3>3. CASE j \in DOMAIN socket_kernel
      <4>1. PICK q \in Proceso : q = socket_kernel[j].pid  BY <3>3, <1>12
      <4>2. q # p /\ estado'[q] = estado[q] /\ socket_kernel'[j] = socket_kernel[j]
        BY <3>3, <4>1, <1>8, <1>9, <1>15
      <4>3. \A l \in 1 .. k : j < l => l = k \/ (l \in DOMAIN socket_kernel
                                                 /\ socket_kernel'[l] = socket_kernel[l])
        BY <1>9, <1>10
      <4>4. \A l \in DOMAIN socket_kernel : l \in 1 .. k /\ socket_kernel'[l] = socket_kernel[l]
        BY <1>9 DEF k
      <4>5. /\ socket_kernel[j].op # "INICIALIZAR_PROCESO" => estado[q] \notin {"new", "ini"}
            /\ socket_kernel[j].op = "FINALIZAR_PROCESO" =>
                  /\ estado[q] = "exit"
                  /\ \A l \in DOMAIN socket_kernel : j < l => socket_kernel[l].pid # q
            /\ socket_kernel[j].op = "SUSPENDER_PROCESO" /\ estado[q] = "exit" =>
                  \E l \in DOMAIN socket_kernel :
                      socket_kernel[l].op = "FINALIZAR_PROCESO" /\ socket_kernel[l].pid = q
        BY <3>3, <4>1 DEF IInv, FinInv, FinMensajes, SinIniciar, EnEspera
      <4>. QED  BY <4>1, <4>2, <4>3, <4>4, <4>5, <1>10
    <3>. QED  BY <3>2, <3>3, <1>10
  <2>2. kernel' = kernel /\ (kernel.pc # "libre" => kernel.pid \in Proceso)
    BY <1>1 DEF IInv, LlegadaInv
  <2>3. kernel.pc # "libre" => estado'[kernel.pid] = estado[kernel.pid]
    BY <1>8, <1>16, <2>2
  <2>4. FinSuspension'
    <3>1. SUFFICES ASSUME kernel.pc \in {"liberar", "limpiar"}
          PROVE  (/\ ~ SinIniciar(kernel.pid)
                  /\ estado[kernel.pid] = "exit" => EnEspera("FINALIZAR_PROCESO", kernel.pid))'
      BY <2>2 DEF FinSuspension
    <3>2. PICK q : q = kernel.pid  OBVIOUS
    <3>3. estado'[q] = estado[q] /\ kernel'.pid = q  BY <3>1, <3>2, <2>2, <2>3
    <3>4. ~ SinIniciar(q)' /\ (estado'[q] = "exit" => EnEspera("FINALIZAR_PROCESO", q)')
      BY <3>1, <3>2, <3>3, <1>9 DEF IInv, FinInv, FinSuspension, SinIniciar
    <3>. QED  BY <3>3, <3>4 DEF SinIniciar, EnEspera
  <2>5. FinBorrado'
    BY <1>9, <1>10, <1>16, <2>2, <2>3 DEF IInv, FinInv, FinBorrado
  <2>. QED  BY <2>1, <2>4, <2>5 DEF FinInv
<1>20. TipoHilos'
  BY <1>1, <1>8, <1>9 DEF IInv, Tipos, TipoHilos, TipoCpu, TipoEstado
<1>21. \A q \in Proceso : Ejecuta(q)' <=> Ejecuta(q)
  BY <1>6, <1>8 DEF Ejecuta
<1>22. \A q \in Iniciados : Finalizado(q)' <=> Finalizado(q)
  <2>1. \A q \in Proceso : estado'[q] = "exit" <=> estado[q] = "exit"  BY <1>6, <1>8
  <2>2. kernel' = kernel  BY <1>1
  <2>. QED  BY <2>1, <2>2, <1>9, IniciadosProceso DEF Finalizado, Borrando
<1>23. \A q, r \in Proceso : Ejecuta(q)' /\ Ejecuta(r)' => q = r
  BY <1>21 DEF IInv, CpuInv
<1>. QED  BY <1>1, <1>17, <1>18, <1>19, <1>20, <1>21, <1>22, <1>23, PasoDelKernel

\* SUSPENDER_PROCESO of a blocked process, FINALIZAR_PROCESO of the one in the CPU.
LEMMA PasoAviso ==
    ASSUME IInv, NEW p \in Proceso, Suspender(p) \/ Terminar(p)
    PROVE  IInv'
<1>1. UNCHANGED <<datos, bitMem, kernel, cpu, carrera>>
  BY DEF Suspender, Terminar, datos, tablas, historia
<1>2. PICK op \in {"SUSPENDER_PROCESO", "FINALIZAR_PROCESO"}, e \in {"susp", "exit"} :
        /\ Manda(op, p)
        /\ estado' = [estado EXCEPT ![p] = e]
        /\ estado[p] \in {"block", "exec"}
        /\ op = "FINALIZAR_PROCESO" <=> e = "exit"
        /\ estado[p] = "exec" => cpu.pc \in {"libre", "marca"}
  BY DEF Suspender, Terminar, Ejecuta, CpuOciosa
<1>3. TipoEstado  BY DEF IInv, Tipos, TipoHilos, TipoEstado
<1>4. /\ \A q \in Proceso : estado'[q] = (IF q = p THEN e ELSE estado[q])
      /\ TipoEstado'
  BY <1>2, <1>3 DEF TipoEstado
<1>. DEFINE k == Len(socket_kernel) + 1
<1>5. /\ socket_kernel' \in Seq(Mensaje)
      /\ DOMAIN socket_kernel' = 1 .. k
      /\ DOMAIN socket_kernel = 1 .. Len(socket_kernel) /\ Len(socket_kernel) \in Nat
      /\ \A j \in DOMAIN socket_kernel : socket_kernel'[j] = socket_kernel[j]
      /\ socket_kernel'[k] = [op |-> op, pid |-> p]
      /\ \A o, q : EnEspera(o, q)' <=> EnEspera(o, q) \/ (o = op /\ q = p)
  BY <1>2, UltimoMensaje
<1>6. /\ \A j \in 1 .. k : j = k \/ j \in DOMAIN socket_kernel
      /\ \A j \in DOMAIN socket_kernel : j # k /\ j < k
      /\ socket_kernel'[k].op = op /\ socket_kernel'[k].pid = p
      /\ k \in 1 .. k
      /\ \A l \in 1 .. k : ~ k < l
  BY <1>5
<1>. HIDE DEF k
<1>7. \A j \in DOMAIN socket_kernel : socket_kernel[j].pid \in Proceso
  BY MensajesEnEspera DEF Mensaje
<1>8. kernel' = kernel /\ (kernel.pc # "libre" => kernel.pid \in Proceso)
  BY <1>1 DEF IInv, LlegadaInv
<1>9. LlegadaInv'
  <2>1. tabla_1_l' = tabla_1_l /\ procesos' = procesos /\ Iniciados' = Iniciados
    BY <1>1, DatosQuietos DEF datos
  <2>2. \A q \in Proceso : (SinIniciar(q)' <=> SinIniciar(q))
          /\ (estado'[q] = "new" <=> estado[q] = "new")
          /\ (estado'[q] = "ini" <=> estado[q] = "ini") /\ (Creando(q)' <=> Creando(q))
    BY <1>2, <1>4, <1>8 DEF SinIniciar, Creando
  <2>. QED  BY <1>8, <2>1, <2>2 DEF IInv, LlegadaInv
<1>10. InicioInv'
  <2>1. \A j \in DOMAIN socket_kernel : socket_kernel[j].op = "INICIALIZAR_PROCESO"
           => socket_kernel[j].pid # p
    BY <1>2 DEF IInv, InicioInv
  <2>. QED  BY <1>2, <1>4, <1>5, <1>6, <1>7, <1>8, <2>1 DEF IInv, InicioInv
<1>11. FinInv'
  <2>1. FinMensajes'
    <3>1. SUFFICES ASSUME NEW j \in 1 .. k
          PROVE  LET m == socket_kernel'[j] IN
                 /\ m.op # "INICIALIZAR_PROCESO" => estado'[m.pid] \notin {"new", "ini"}
                 /\ m.op = "FINALIZAR_PROCESO" =>
                       /\ estado'[m.pid] = "exit"
                       /\ \A l \in 1 .. k : j < l => socket_kernel'[l].pid # m.pid
                 /\ m.op = "SUSPENDER_PROCESO" /\ estado'[m.pid] = "exit" =>
                       \E l \in 1 .. k : /\ socket_kernel'[l].op = "FINALIZAR_PROCESO"
                                         /\ socket_kernel'[l].pid = m.pid
      BY <1>5 DEF FinMensajes, SinIniciar, EnEspera
    <3>2. CASE j = k
      <4>1. estado'[p] = e  BY <1>4
      <4>. QED  BY <3>2, <4>1, <1>2, <1>6
    <3>3. CASE j \in DOMAIN socket_kernel
      <4>1. PICK q \in Proceso : q = socket_kernel[j].pid  BY <3>3, <1>7
      <4>2. socket_kernel'[j] = socket_kernel[j] BY <3>3, <1>5
      <4>3. \A l \in 1 .. k : j < l => l = k \/ (l \in DOMAIN socket_kernel
                                                 /\ socket_kernel'[l] = socket_kernel[l])
        BY <1>5, <1>6
      <4>4. \A l \in DOMAIN socket_kernel : l \in 1 .. k /\ socket_kernel'[l] = socket_kernel[l]
        BY <1>5 DEF k
      <4>5. /\ socket_kernel[j].op # "INICIALIZAR_PROCESO" => estado[q] \notin {"new", "ini"}
            /\ socket_kernel[j].op = "FINALIZAR_PROCESO" =>
                  /\ estado[q] = "exit"
                  /\ \A l \in DOMAIN socket_kernel : j < l => socket_kernel[l].pid # q
            /\ socket_kernel[j].op = "SUSPENDER_PROCESO" /\ estado[q] = "exit" =>
                  \E l \in DOMAIN socket_kernel :
                      socket_kernel[l].op = "FINALIZAR_PROCESO" /\ socket_kernel[l].pid = q
        BY <3>3, <4>1 DEF IInv, FinInv, FinMensajes, SinIniciar, EnEspera
      <4>6. CASE q = p
        <5>1. socket_kernel[j].op # "FINALIZAR_PROCESO"  BY <4>5, <4>6, <1>2
        <5>2. estado'[q] = e  BY <4>6, <1>4
        <5>3. e = "exit" => socket_kernel'[k].op = "FINALIZAR_PROCESO"  BY <1>2, <1>6
        <5>. QED  BY <4>1, <4>2, <4>6, <5>1, <5>2, <5>3, <1>6
      <4>7. CASE q # p
        <5>1. estado'[q] = estado[q]  BY <4>7, <1>4
        <5>. QED  BY <4>1, <4>2, <4>3, <4>4, <4>5, <4>7, <5>1, <1>6
      <4>. QED  BY <4>6, <4>7
    <3>. QED  BY <3>2, <3>3, <1>6
  <2>2. FinSuspension'
    <3>1. SUFFICES ASSUME kernel.pc \in {"liberar", "limpiar"}
          PROVE  (/\ ~ SinIniciar(kernel.pid)
                  /\ estado[kernel.pid] = "exit" => EnEspera("FINALIZAR_PROCESO", kernel.pid))'
      BY <1>8 DEF FinSuspension
    <3>2. PICK q \in Proceso : q = kernel.pid  BY <1>8, <3>1
    <3>3. ~ SinIniciar(q)' /\ (estado'[q] = "exit" => EnEspera("FINALIZAR_PROCESO", q)')
      BY <3>1, <3>2, <1>2, <1>4, <1>5 DEF IInv, FinInv, FinSuspension, SinIniciar
    <3>. QED  BY <1>8, <3>2, <3>3 DEF SinIniciar, EnEspera
  <2>3. FinBorrado'
    <3>1. SUFFICES ASSUME kernel.pc \in {"borrar", "limpiar_fin"}
          PROVE  /\ estado'[kernel.pid] = "exit"
                 /\ \A j \in 1 .. k : socket_kernel'[j].pid # kernel.pid
      BY <1>5, <1>8 DEF FinBorrado
    <3>2. kernel.pid \in Proceso /\ kernel.pid # p /\ estado[kernel.pid] = "exit"
          /\ \A j \in DOMAIN socket_kernel : socket_kernel[j].pid # kernel.pid
      BY <3>1, <1>2, <1>8 DEF IInv, FinInv, FinBorrado
    <3>. QED  BY <3>2, <1>4, <1>5, <1>6
  <2>. QED  BY <2>1, <2>2, <2>3 DEF FinInv
<1>12. TipoHilos'
  BY <1>1, <1>4, <1>5 DEF IInv, Tipos, TipoHilos, TipoCpu, TipoEstado
<1>13. \A q \in Proceso : (Ejecuta(q)' => Ejecuta(q)) /\ (q # p /\ Ejecuta(q) => Ejecuta(q)')
  BY <1>4 DEF Ejecuta
<1>14. \A q \in Proceso : cpu.pid = q /\ cpu.pc \notin {"libre", "marca"} /\ Ejecuta(q)
               => Ejecuta(q)'
  BY <1>2, <1>13 DEF Ejecuta
<1>15. \A q \in Iniciados : Finalizado(q)' <=> Finalizado(q)
  <2>1. \A q \in Proceso : q # p => (estado'[q] = "exit" <=> estado[q] = "exit")  BY <1>4
  <2>2. ~ Finalizado(p)  BY <1>2 DEF Finalizado
  <2>3. ~ Finalizado(p)'
    BY <1>2, <1>4, <1>5 DEF Finalizado
  <2>. QED  BY <1>8, <2>1, <2>2, <2>3, <1>5, IniciadosProceso DEF Finalizado, Borrando
<1>16. \A q, r \in Proceso : Ejecuta(q)' /\ Ejecuta(r)' => q = r
  BY <1>13 DEF IInv, CpuInv
<1>. QED  BY <1>1, <1>9, <1>10, <1>11, <1>12, <1>14, <1>15, <1>16, PasoDelKernel

-----------------------------------------------------------------------------
(* funciones_kernel.                                                        *)

\* A step of funciones_kernel that changes no table.
LEMMA PasoSinTablas ==
    ASSUME IInv, UNCHANGED <<datos, cpu>>, bitMem' \subseteq Frame,
           TipoHilos', LlegadaInv', InicioInv', FinInv', BorradoInv',
           \A p \in Proceso : Ejecuta(p)' <=> Ejecuta(p),
           carrera' \/ MarcosInv'
    PROVE  IInv'
<1>1. UNCHANGED datos /\ cpu' = cpu
  OBVIOUS
<1>2. TipoTablas'  BY <1>1, DatosQuietos DEF IInv, Tipos
<1>3. TablasInv'  BY <1>1, DatosQuietos DEF IInv
<1>4. CpuInv'
  <2>1. \A p \in Proceso : estado'[p] = "exec" <=> estado[p] = "exec"
    BY DEF Ejecuta
  <2>. QED  BY <1>1, <2>1, DatosQuietos DEF IInv, CpuInv, Ejecuta, datos
<1>5. PaginasInv'
  <2>1. \A n : Llega(n) <=> Llega(n)'  BY <1>1 DEF Llega
  <2>2. \A p : Creciendo(p)' <=> Creciendo(p)  BY <1>1 DEF Creciendo
  <2>. QED  BY <1>1, <2>1, <2>2, PaginasQuietas, DatosQuietos DEF IInv, Tipos, TipoTablas
<1>. QED  BY <1>2, <1>3, <1>4, <1>5 DEF IInv, Tipos

\* One that gives no frame back.
LEMMA PasoDeFuncionesKernel ==
    ASSUME IInv, UNCHANGED <<datos, bitMem, cpu, carrera>>,
           TipoHilos', LlegadaInv', InicioInv', FinInv', BorradoInv',
           \A p \in Proceso : Ejecuta(p)' <=> Ejecuta(p),
           EnLimpieza' = EnLimpieza,
           \A p \in Iniciados : \A n \in EntradasDe(p) :
               Presente(n) => (Devuelta(p, n)' <=> Devuelta(p, n))
    PROVE  IInv'
<1>1. UNCHANGED datos /\ UNCHANGED bitMem /\ cpu' = cpu /\ carrera' = carrera
      /\ UNCHANGED <<datos, cpu>>
  OBVIOUS
<1>2. bitMem' \subseteq Frame  BY <1>1 DEF IInv, Tipos, TipoTablas
<1>3. MarcosInv => MarcosInv'
  <2>1. SUFFICES ASSUME MarcosInv PROVE MarcosInv'  OBVIOUS
  <2>2. cpu'.pc = "tomar" => cpu'.marco \in Frame \ bitMem
    BY <1>1, <2>1 DEF MarcosInv
  <2>. QED  BY <1>1, <2>1, <2>2, MarcosQuietos, DatosQuietos
<1>4. carrera' \/ MarcosInv'  BY <1>1, <1>3 DEF IInv
<1>. QED  BY <1>1, <1>2, <1>4, PasoSinTablas

\* Recibe: the message at the head.
LEMMA PrimerMensaje ==
    ASSUME IInv, NEW op, Recibe(op)
    PROVE  LET p == Head(socket_kernel).pid IN
           /\ kernel.pc = "libre" /\ p \in Proceso
           /\ 1 \in DOMAIN socket_kernel
           /\ socket_kernel[1].op = op /\ socket_kernel[1].pid = p
           /\ socket_kernel' \in Seq(Mensaje)
           /\ \A i \in DOMAIN socket_kernel' :
                 /\ i + 1 \in DOMAIN socket_kernel /\ i + 1 # 1
                 /\ socket_kernel'[i] = socket_kernel[i + 1]
           /\ \A i \in DOMAIN socket_kernel :
                 i = 1 \/ (/\ i - 1 \in DOMAIN socket_kernel'
                           /\ socket_kernel'[i - 1] = socket_kernel[i])
           /\ DOMAIN socket_kernel \subseteq Nat /\ DOMAIN socket_kernel' \subseteq Nat
<1>1. socket_kernel \in Seq(Mensaje) /\ socket_kernel # <<>>
      /\ socket_kernel' = Tail(socket_kernel) /\ Head(socket_kernel).op = op
      /\ kernel.pc = "libre"
  BY DEF Recibe, IInv, Tipos, TipoHilos
<1>2. 1 \in DOMAIN socket_kernel /\ Head(socket_kernel) = socket_kernel[1]
      /\ DOMAIN socket_kernel = 1 .. Len(socket_kernel) /\ Len(socket_kernel) \in Nat
  BY <1>1
<1>3. socket_kernel[1] \in Mensaje  BY <1>2, MensajesEnEspera
<1>4. Head(socket_kernel).pid \in Proceso  BY <1>2, <1>3 DEF Mensaje
<1>5. /\ socket_kernel' \in Seq(Mensaje)
      /\ DOMAIN socket_kernel' = 1 .. Len(socket_kernel) - 1
      /\ \A i \in 1 .. Len(socket_kernel) - 1 : socket_kernel'[i] = socket_kernel[i + 1]
  BY <1>1, <1>2, HeadTailProperties
<1>. QED  BY <1>1, <1>2, <1>4, <1>5

\* funciones_kernel is told to suspend or to end a process.
LEMMA EsperasTrasRecibir ==
    ASSUME IInv, NEW op, Recibe(op)
    PROVE  \A o, q : EnEspera(o, q) <=>
               EnEspera(o, q)' \/ (o = op /\ q = Head(socket_kernel).pid)
<1> DEFINE p == Head(socket_kernel).pid
<1>1. /\ 1 \in DOMAIN socket_kernel
      /\ socket_kernel[1].op = op /\ socket_kernel[1].pid = p
      /\ \A i \in DOMAIN socket_kernel' :
            i + 1 \in DOMAIN socket_kernel /\ socket_kernel'[i] = socket_kernel[i + 1]
      /\ \A i \in DOMAIN socket_kernel :
            i = 1 \/ (i - 1 \in DOMAIN socket_kernel'
                      /\ socket_kernel'[i - 1] = socket_kernel[i])
  BY PrimerMensaje
<1>. HIDE DEF p
<1>2. ASSUME NEW o, NEW q
      PROVE  EnEspera(o, q) <=> EnEspera(o, q)' \/ (o = op /\ q = p)
  <2>1. EnEspera(o, q)' => EnEspera(o, q)
    <3>1. SUFFICES ASSUME NEW i \in DOMAIN socket_kernel', socket_kernel'[i].op = o,
                          socket_kernel'[i].pid = q
          PROVE EnEspera(o, q)
      BY DEF EnEspera
    <3>. QED  BY <3>1, <1>1 DEF EnEspera
  <2>2. EnEspera(o, q) => EnEspera(o, q)' \/ (o = op /\ q = p)
    <3>1. SUFFICES ASSUME NEW i \in DOMAIN socket_kernel, socket_kernel[i].op = o,
                          socket_kernel[i].pid = q
          PROVE EnEspera(o, q)' \/ (o = op /\ q = p)
      BY DEF EnEspera
    <3>. QED  BY <3>1, <1>1 DEF EnEspera
  <2>3. (o = op /\ q = p) => EnEspera(o, q)  BY <1>1 DEF EnEspera
  <2>. QED  BY <2>1, <2>2, <2>3
<1>. QED  BY <1>2 DEF p

\* What is left to say of the messages once the first has been received.
LEMMA TrasRecibir ==
    ASSUME IInv, NEW op \in {"SUSPENDER_PROCESO", "FINALIZAR_PROCESO"}, Recibe(op),
           UNCHANGED datos, estado' = estado,
           kernel'.pc = (IF op = "SUSPENDER_PROCESO" THEN "liberar" ELSE "borrar"),
           kernel'.pid = Head(socket_kernel).pid
    PROVE  LlegadaInv' /\ InicioInv' /\ FinInv'
<1>1. PICK p \in Proceso : p = Head(socket_kernel).pid  BY PrimerMensaje
<1>2. /\ kernel.pc = "libre"
      /\ 1 \in DOMAIN socket_kernel
      /\ socket_kernel[1].op = op /\ socket_kernel[1].pid = p
      /\ \A i \in DOMAIN socket_kernel' :
            /\ i + 1 \in DOMAIN socket_kernel /\ i + 1 # 1
            /\ socket_kernel'[i] = socket_kernel[i + 1]
      /\ DOMAIN socket_kernel \subseteq Nat /\ DOMAIN socket_kernel' \subseteq Nat
  BY <1>1, PrimerMensaje
<1>3. \A o, q : EnEspera(o, q) <=> EnEspera(o, q)' \/ (o = op /\ q = p)
  BY <1>1, EsperasTrasRecibir
<1>4. kernel'.pid = p  BY <1>1
<1>5. ~ SinIniciar(p)
      /\ (op = "FINALIZAR_PROCESO" =>
            /\ estado[p] = "exit"
            /\ \A j \in DOMAIN socket_kernel : 1 < j => socket_kernel[j].pid # p)
      /\ (op = "SUSPENDER_PROCESO" /\ estado[p] = "exit" =>
            EnEspera("FINALIZAR_PROCESO", p))
  BY <1>2 DEF IInv, FinInv, FinMensajes
<1>6. LlegadaInv'
  <2>1. tabla_1_l' = tabla_1_l /\ procesos' = procesos /\ Iniciados' = Iniciados
    BY DatosQuietos DEF datos
  <2>2. \A q \in Proceso : (SinIniciar(q)' <=> SinIniciar(q)) /\ ~ Creando(q) /\ ~ Creando(q)'
    BY <1>2 DEF SinIniciar, Creando
  <2>. QED  BY <1>4, <2>1, <2>2 DEF IInv, LlegadaInv
<1>7. InicioInv'
  BY <1>2 DEF IInv, InicioInv
<1>8. FinMensajes'
  <2>1. SUFFICES ASSUME NEW i \in DOMAIN socket_kernel', NEW q, q = socket_kernel'[i].pid
        PROVE  /\ socket_kernel'[i].op # "INICIALIZAR_PROCESO" => estado[q] \notin {"new", "ini"}
               /\ socket_kernel'[i].op = "FINALIZAR_PROCESO" =>
                     /\ estado[q] = "exit"
                     /\ \A j \in DOMAIN socket_kernel' :
                           i < j => socket_kernel'[j].pid # q
               /\ socket_kernel'[i].op = "SUSPENDER_PROCESO" /\ estado[q] = "exit" =>
                     \E l \in DOMAIN socket_kernel' :
                           socket_kernel'[l].op = "FINALIZAR_PROCESO" /\ socket_kernel'[l].pid = q
    BY DEF FinMensajes, SinIniciar, EnEspera
  <2>2. /\ i + 1 \in DOMAIN socket_kernel /\ 1 < i + 1 /\ q = socket_kernel[i + 1].pid
        /\ socket_kernel'[i] = socket_kernel[i + 1] /\ i \in Nat
    BY <1>2, <2>1
  <2>3. /\ socket_kernel[i + 1].op # "INICIALIZAR_PROCESO" => ~ SinIniciar(q)
        /\ socket_kernel[i + 1].op = "FINALIZAR_PROCESO" =>
              /\ estado[q] = "exit"
              /\ \A j \in DOMAIN socket_kernel : i + 1 < j => socket_kernel[j].pid # q
        /\ socket_kernel[i + 1].op = "SUSPENDER_PROCESO" /\ estado[q] = "exit" =>
              EnEspera("FINALIZAR_PROCESO", q)
    BY <2>2 DEF IInv, FinInv, FinMensajes
  <2>4. op = "FINALIZAR_PROCESO" => q # p  BY <1>5, <2>2
  <2>5. EnEspera("FINALIZAR_PROCESO", q) => EnEspera("FINALIZAR_PROCESO", q)'
    BY <1>3, <2>4
  <2>6. \A j \in DOMAIN socket_kernel' : i < j => i + 1 < j + 1
    BY <1>2, <2>2
  <2>. QED  BY <1>2, <2>2, <2>3, <2>5, <2>6 DEF SinIniciar, EnEspera
<1>9. FinSuspension'
  <2>1. CASE op = "SUSPENDER_PROCESO"
    <3>1. ~ SinIniciar(p)' /\ (estado'[p] = "exit" => EnEspera("FINALIZAR_PROCESO", p)')
      BY <1>3, <1>5, <2>1 DEF SinIniciar
    <3>. QED  BY <1>4, <3>1 DEF FinSuspension, SinIniciar, EnEspera
  <2>2. CASE op = "FINALIZAR_PROCESO"
    BY <2>2 DEF FinSuspension
  <2>. QED  BY <2>1, <2>2
<1>10. FinBorrado'
  <2>1. CASE op = "SUSPENDER_PROCESO"
    BY <2>1 DEF FinBorrado
  <2>2. CASE op = "FINALIZAR_PROCESO"
    <3>1. \A i \in DOMAIN socket_kernel' : 1 < i + 1  BY <1>2
    <3>. QED  BY <1>2, <1>4, <1>5, <2>2, <3>1 DEF FinBorrado
  <2>. QED  BY <2>1, <2>2
<1>. QED  BY <1>6, <1>7, <1>8, <1>9, <1>10 DEF FinInv

\* suspender_proceso begins, and its pages stay.
LEMMA PasoSuspender_proceso ==
    ASSUME IInv, Suspender_proceso
    PROVE  IInv'
<1>1. UNCHANGED <<datos, bitMem, cpu, carrera>> /\ estado' = estado
      /\ Recibe("SUSPENDER_PROCESO")
      /\ kernel' = [kernel EXCEPT !.pc = "liberar", !.pid = Head(socket_kernel).pid]
  BY DEF Suspender_proceso, datos, tablas
<1>2. PICK p \in Proceso : p = Head(socket_kernel).pid  BY <1>1, PrimerMensaje
<1>3. kernel.pc = "libre" /\ socket_kernel' \in Seq(Mensaje)  BY <1>1, PrimerMensaje
<1>4. /\ kernel'.pc = "liberar" /\ kernel'.pid = p
      /\ TipoHilos'
  BY <1>1, <1>2, <1>3 DEF IInv, Tipos, TipoHilos, TipoCpu
<1>5. LlegadaInv' /\ InicioInv' /\ FinInv'
  BY <1>1, <1>2, <1>4, TrasRecibir
<1>6. BorradoInv' /\ EnLimpieza' = EnLimpieza
  BY <1>3, <1>4 DEF BorradoInv, EnLimpieza
<1>7. \A q \in Proceso : Ejecuta(q)' <=> Ejecuta(q)  BY <1>1 DEF Ejecuta
<1>8. \A q : ~ Borrando(q) /\ ~ Borrando(q)'  BY <1>3, <1>4 DEF Borrando
<1>9. \A q : Finalizado(q)' <=> Finalizado(q)
  <2>1. \A o, q : EnEspera(o, q) <=>
               EnEspera(o, q)' \/ (o = "SUSPENDER_PROCESO" /\ q = p)
    BY <1>1, <1>2, EsperasTrasRecibir
  <2>. QED  BY <1>1, <1>8, <2>1 DEF Finalizado
<1>10. \A q, n : Devuelta(q, n)' <=> Devuelta(q, n)
  BY <1>8, <1>9 DEF Devuelta
<1>. QED  BY <1>1, <1>4, <1>5, <1>6, <1>7, <1>10, PasoDeFuncionesKernel

\* finalizar_proceso begins: nothing has been given back yet.
LEMMA PasoFinalizar_proceso ==
    ASSUME IInv, Finalizar_proceso
    PROVE  IInv'
<1>1. UNCHANGED <<datos, bitMem, cpu, carrera>> /\ estado' = estado
      /\ Recibe("FINALIZAR_PROCESO") /\ EnLista(procesos, Head(socket_kernel).pid)
      /\ kernel' = [kernel EXCEPT !.pc = "borrar", !.pid = Head(socket_kernel).pid, !.i = 0]
  BY DEF Finalizar_proceso, datos, tablas, historia
<1>2. PICK p \in Proceso : p = Head(socket_kernel).pid  BY <1>1, PrimerMensaje
<1>3. kernel.pc = "libre" /\ socket_kernel' \in Seq(Mensaje)  BY <1>1, PrimerMensaje
<1>4. /\ kernel'.pc = "borrar" /\ kernel'.pid = p /\ kernel'.i = 0
      /\ TipoHilos'
  BY <1>1, <1>2, <1>3 DEF IInv, Tipos, TipoHilos, TipoCpu
<1>5. LlegadaInv' /\ InicioInv' /\ FinInv'
  BY <1>1, <1>2, <1>4, TrasRecibir
<1>6. p \in Iniciados
  <2>1. Len(procesos) \in Nat /\ DOMAIN procesos = 1 .. Len(procesos)
    BY DEF IInv, Tipos, TipoTablas
  <2>2. p \in Nat  BY ProcesosAssumption DEF Proceso
  <2>. QED  BY <1>1, <1>2, <2>1, <2>2 DEF EnLista, Iniciados
<1>7. BorradoInv' /\ EnLimpieza' = EnLimpieza
  <2>1. Len(PagMem(p)) \in Nat  BY <1>6, Filas DEF IInv, Tipos, LlegadaInv
  <2>2. 0 <= Len(PagMem(p)')
    BY <1>1, <2>1, DatosQuietos
  <2>3. (kernel.i <= Len(PagMem(kernel.pid)))'
    BY <1>4, <2>2 DEF PagMem, Get
  <2>. QED  BY <1>3, <1>4, <2>3 DEF BorradoInv, EnLimpieza
<1>8. \A q \in Proceso : Ejecuta(q)' <=> Ejecuta(q)  BY <1>1 DEF Ejecuta
<1>9. \A o, q : EnEspera(o, q) <=>
               EnEspera(o, q)' \/ (o = "FINALIZAR_PROCESO" /\ q = p)
  BY <1>1, <1>2, EsperasTrasRecibir
<1>10. \A q : ~ Borrando(q) /\ (Borrando(q)' <=> q = p)  BY <1>3, <1>4 DEF Borrando
<1>11. \A q : Finalizado(q)' <=> Finalizado(q)
  BY <1>1, <1>9, <1>10 DEF Finalizado
<1>12. \A q, n : Devuelta(q, n)' <=> Devuelta(q, n)
  BY <1>4, <1>10, <1>11 DEF Devuelta
<1>. QED  BY <1>1, <1>4, <1>5, <1>7, <1>8, <1>12, PasoDeFuncionesKernel

\* The process is ready, and has its place in the lists already.
LEMMA PasoCrear_archivo_swap ==
    ASSUME IInv, Crear_archivo_swap
    PROVE  IInv'
<1>1. UNCHANGED <<datos, bitMem, cpu, carrera>> /\ socket_kernel' = socket_kernel
      /\ kernel.pc = "crear_archivo"
      /\ kernel' = [kernel EXCEPT !.pc = "libre"]
      /\ estado' = [estado EXCEPT ![kernel.pid] = "ready"]
  BY DEF Crear_archivo_swap, datos, tablas, historia
<1>2. PICK p \in Proceso : p = kernel.pid /\ estado[p] = "ini"
  BY <1>1 DEF IInv, LlegadaInv
<1>3. TipoEstado  BY DEF IInv, Tipos, TipoHilos, TipoEstado
<1>4. /\ kernel'.pc = "libre"
      /\ \A q \in Proceso : estado'[q] = (IF q = p THEN "ready" ELSE estado[q])
      /\ TipoHilos'
  BY <1>1, <1>2, <1>3 DEF IInv, Tipos, TipoHilos, TipoCpu, TipoEstado
<1>5. \A q \in Proceso : (SinIniciar(q)' <=> SinIniciar(q) /\ q # p)
        /\ ~ Creando(q)' /\ (Creando(q) <=> q = p)
        /\ (estado'[q] = "new" <=> estado[q] = "new")
        /\ (estado'[q] = "exit" <=> estado[q] = "exit")
  BY <1>1, <1>2, <1>4 DEF SinIniciar, Creando
<1>6. LlegadaInv'
  <2>1. tabla_1_l' = tabla_1_l /\ procesos' = procesos /\ Iniciados' = Iniciados
    BY <1>1, DatosQuietos DEF datos
  <2>2. \A q, r \in Proceso : r < q /\ estado'[q] # "new" => ~ SinIniciar(r)'
    BY <1>5 DEF IInv, LlegadaInv
  <2>3. \A q \in Proceso : q \in Iniciados <=> ~ SinIniciar(q)' \/ Creando(q)'
    BY <1>5 DEF IInv, LlegadaInv
  <2>. QED  BY <1>4, <2>1, <2>2, <2>3 DEF IInv, LlegadaInv
<1>7. \A i \in DOMAIN socket_kernel : socket_kernel[i].op # "INICIALIZAR_PROCESO"
  BY <1>1 DEF IInv, InicioInv
<1>8. InicioInv'  BY <1>1, <1>7 DEF InicioInv
<1>9. FinInv'
  <2>1. FinMensajes'
    <3>1. SUFFICES ASSUME NEW i \in DOMAIN socket_kernel
          PROVE  LET m == socket_kernel[i] IN
                 /\ m.op # "INICIALIZAR_PROCESO" => estado'[m.pid] \notin {"new", "ini"}
                 /\ m.op = "FINALIZAR_PROCESO" =>
                       /\ estado'[m.pid] = "exit"
                       /\ \A j \in DOMAIN socket_kernel :
                             i < j => socket_kernel[j].pid # m.pid
                 /\ m.op = "SUSPENDER_PROCESO" /\ estado'[m.pid] = "exit" =>
                       EnEspera("FINALIZAR_PROCESO", m.pid)
      BY <1>1 DEF FinMensajes, SinIniciar, EnEspera
    <3>2. PICK q \in Proceso : q = socket_kernel[i].pid
      BY MensajesEnEspera DEF Mensaje
    <3>3. /\ estado'[q] = "exit" <=> estado[q] = "exit"
          /\ estado[q] \notin {"new", "ini"} => estado'[q] \notin {"new", "ini"}
      BY <1>4, <1>5
    <3>. QED  BY <3>2, <3>3 DEF IInv, FinInv, FinMensajes, SinIniciar
  <2>. QED  BY <1>4, <2>1 DEF FinInv, FinSuspension, FinBorrado
<1>10. BorradoInv' /\ EnLimpieza' = EnLimpieza
  BY <1>1, <1>4 DEF BorradoInv, EnLimpieza
<1>11. \A q \in Proceso : Ejecuta(q)' <=> Ejecuta(q)  BY <1>2, <1>4 DEF Ejecuta
<1>12. \A q \in Iniciados : Finalizado(q)' <=> Finalizado(q)
  BY <1>1, <1>4, <1>5, IniciadosProceso DEF Finalizado, Borrando, EnEspera
<1>13. \A q \in Iniciados : \A n : Devuelta(q, n)' <=> Devuelta(q, n)
  <2>1. \A q : ~ Borrando(q) /\ ~ Borrando(q)'  BY <1>1, <1>4 DEF Borrando
  <2>. QED  BY <1>12, <2>1 DEF Devuelta
<1>. QED  BY <1>1, <1>4, <1>6, <1>8, <1>9, <1>10, <1>11, <1>13, PasoDeFuncionesKernel

\* funciones_kernel goes on with what it was told, or is done with it.
LEMMA MismoPedido ==
    ASSUME IInv, UNCHANGED <<socket_kernel, estado>>, UNCHANGED tabla_1_l,
           Len(procesos') = Len(procesos), kernel.pc # "crear_archivo",
           \/ kernel'.pc = "libre"
           \/ kernel'.pid = kernel.pid /\ {kernel.pc, kernel'.pc} \subseteq {"liberar", "limpiar"}
           \/ kernel'.pid = kernel.pid /\ {kernel.pc, kernel'.pc} \subseteq {"borrar", "limpiar_fin"}
    PROVE  LlegadaInv' /\ InicioInv' /\ FinInv'
<1>0. estado' = estado /\ socket_kernel' = socket_kernel  OBVIOUS
<1>1. kernel'.pc # "crear_archivo" /\ (kernel'.pc # "libre" =>
         kernel.pc # "libre" /\ kernel'.pid = kernel.pid)
  OBVIOUS
<1>2. LlegadaInv'
  <2>1. tabla_1_l' = tabla_1_l /\ Len(procesos') = Len(procesos) /\ Iniciados' = Iniciados
    BY DEF Iniciados
  <2>2. \A q \in Proceso : (SinIniciar(q)' <=> SinIniciar(q)) /\ ~ Creando(q) /\ ~ Creando(q)'
    BY <1>0, <1>1 DEF SinIniciar, Creando
  <2>. QED  BY <1>0, <1>1, <2>1, <2>2 DEF IInv, LlegadaInv
<1>3. InicioInv'  BY <1>0, <1>1 DEF IInv, InicioInv
<1>4. FinMensajes'
  BY <1>0 DEF IInv, FinInv, FinMensajes, EnEspera, SinIniciar
<1>5. FinSuspension'
  BY <1>0, <1>1 DEF IInv, FinInv, FinSuspension, EnEspera, SinIniciar
<1>6. FinBorrado'
  BY <1>0, <1>1 DEF IInv, FinInv, FinBorrado
<1>. QED  BY <1>2, <1>3, <1>4, <1>5, <1>6 DEF FinInv

\* A suspension ends when pagMem is empty.
LEMMA PasoFinSuspender ==
    ASSUME IInv, FinSuspender
    PROVE  IInv'
<1>1. UNCHANGED <<datos, bitMem, cpu, carrera>> /\ UNCHANGED <<socket_kernel, estado>>
      /\ kernel.pc = "liberar" /\ kernel' = [kernel EXCEPT !.pc = "libre"]
  BY DEF FinSuspender, datos, tablas, historia, ambiente
<1>2. kernel'.pc = "libre" /\ TipoHilos'
  BY <1>1 DEF IInv, Tipos, TipoHilos, TipoCpu
<1>3. LlegadaInv' /\ InicioInv' /\ FinInv'
  BY <1>1, <1>2, MismoPedido DEF datos
<1>4. BorradoInv' /\ EnLimpieza' = EnLimpieza
  BY <1>1, <1>2 DEF BorradoInv, EnLimpieza
<1>5. \A q : ~ Borrando(q) /\ ~ Borrando(q)'  BY <1>1, <1>2 DEF Borrando
<1>6. \A q, n : Devuelta(q, n)' <=> Devuelta(q, n)
  BY <1>1, <1>5 DEF Devuelta, Finalizado, EnEspera
<1>7. \A q \in Proceso : Ejecuta(q)' <=> Ejecuta(q)  BY <1>1 DEF Ejecuta
<1>. QED  BY <1>1, <1>2, <1>3, <1>4, <1>6, <1>7, PasoDeFuncionesKernel

\* A page of pagMem has its entry among those of the process.
LEMMA EntradaListada ==
    ASSUME IInv, NEW p \in Iniciados, NEW k \in Posiciones(p)
    PROVE  LET n == EntradaDePag(p, k) IN
           /\ PagMem(p)[k] \in DOMAIN paginas
           /\ n \in EntradasDe(p) /\ Presente(n) /\ n \in Nat /\ n + 1 \in DOMAIN tabla_2_l
           /\ tabla_2_l[n + 1] \in EntradaTabla
           /\ MarcoDe(n) \in Frame \union {NADIE}
           /\ EntradaDe(PagMem(p)[k]) = tabla_2_l[n + 1]
           /\ n = paginas[PagMem(p)[k]].entrada
<1> DEFINE n == EntradaDePag(p, k)
<1>1. n \in EntradasDe(p) /\ Presente(n) /\ PagMem(p)[k] \in DOMAIN paginas
  BY DEF IInv, PaginasInv
<1>2. n = paginas[PagMem(p)[k]].entrada  BY DEF EntradaDePag
<1>3. EntradaDe(PagMem(p)[k]) = tabla_2_l[n + 1]
  BY <1>2 DEF EntradaDe, Get
<1>. HIDE DEF n
<1>4. tabla_2_l \in Seq(EntradaTabla)  BY DEF IInv, Tipos, TipoTablas
<1>5. n \in 0 .. Len(tabla_2_l) - 1 /\ Len(tabla_2_l) \in Nat
      /\ DOMAIN tabla_2_l = 1 .. Len(tabla_2_l)
  BY <1>1, <1>4 DEF EntradasDe
<1>6. n \in Nat /\ n + 1 \in DOMAIN tabla_2_l  BY <1>5
<1>7. tabla_2_l[n + 1] \in EntradaTabla  BY <1>4, <1>6, ElementOfSeq
<1>8. MarcoDe(n) \in Frame \union {NADIE}  BY <1>7 DEF MarcoDe, EntradaTabla
<1>. QED  BY <1>1, <1>2, <1>3, <1>6, <1>7, <1>8 DEF n

\* No two processes have an entry in common.
LEMMA EntradasPropias ==
    ASSUME IInv, NEW p \in Iniciados, NEW q \in Iniciados, p # q
    PROVE  EntradasDe(p) \cap EntradasDe(q) = {}
  BY DEF IInv, TablasInv, EntradasDe

\* The page that is being brought is one of the process in the CPU.
LEMMA PaginaQueLlega ==
    ASSUME IInv, NEW n, Llega(n)
    PROVE  /\ cpu.pid \in Iniciados /\ estado[cpu.pid] = "exec" /\ n \in EntradasDe(cpu.pid)
           /\ n \notin Listadas(cpu.pid)
<1>1. cpu.nueva # NADIE /\ cpu.numero = n /\ cpu.pc = "traer"
  BY DEF Llega, IInv, CpuInv
<1>2. cpu.pid \in Proceso /\ estado[cpu.pid] = "exec" /\ n \in EntradasDe(cpu.pid)
      /\ n \notin Listadas(cpu.pid)
  BY <1>1 DEF IInv, CpuInv, Ejecuta
<1>3. cpu.pid \in Iniciados
  BY <1>2 DEF IInv, LlegadaInv, SinIniciar
<1>. QED  BY <1>2, <1>3

\* The process that ends is none of the CPU.
LEMMA ProcesoQueTermina ==
    ASSUME IInv, kernel.pc \in {"borrar", "limpiar_fin"}
    PROVE  /\ kernel.pid \in Iniciados /\ estado[kernel.pid] = "exit"
           /\ \A n \in EntradasDe(kernel.pid) : Presente(n) => n \in Listadas(kernel.pid)
<1>1. kernel.pid \in Proceso /\ estado[kernel.pid] = "exit"
  BY DEF IInv, LlegadaInv, FinInv, FinBorrado
<1>2. kernel.pid \in Iniciados
  BY <1>1 DEF IInv, LlegadaInv, SinIniciar
<1>3. ASSUME NEW n \in EntradasDe(kernel.pid), Presente(n)
      PROVE  n \in Listadas(kernel.pid)
  <2>1. n \in Listadas(kernel.pid) \/ Llega(n)
    BY <1>2, <1>3 DEF IInv, PaginasInv
  <2>2. ~ Llega(n)
    <3>1. SUFFICES ASSUME Llega(n) PROVE FALSE  OBVIOUS
    <3>2. cpu.pid \in Iniciados /\ cpu.pid # kernel.pid /\ n \in EntradasDe(cpu.pid)
      BY <3>1, <1>1, PaginaQueLlega
    <3>. QED  BY <3>2, <1>2, <1>3, EntradasPropias
  <2>. QED  BY <2>1, <2>2
<1>. QED  BY <1>1, <1>2, <1>3

\* The next frame to give back is that of the next page of pagMem.
LEMMA PasoBorrarFrame ==
    ASSUME IInv, BorrarFrame
    PROVE  IInv'
<1> DEFINE f == EntradaDe(Get(PagMem(kernel.pid), kernel.i)).frame
<1>1. UNCHANGED <<datos, bitMem, cpu, carrera>> /\ UNCHANGED <<socket_kernel, estado>>
      /\ kernel.pc = "borrar" /\ kernel.i < Len(PagMem(kernel.pid))
      /\ kernel' = [kernel EXCEPT !.pc = "limpiar_fin", !.frame = f,
                                !.byte = bitMem \intersect Byte(f)]
  BY DEF BorrarFrame, datos, tablas, historia, ambiente
<1>2. PICK p : p = kernel.pid  OBVIOUS
<1>3. p \in Iniciados  BY <1>1, <1>2, ProcesoQueTermina
<1>4. kernel.i \in Nat  BY DEF IInv, Tipos, TipoHilos
<1>5. kernel.i + 1 \in Posiciones(p)
  <2>1. Posiciones(p) = 1 .. Len(PagMem(p)) /\ Len(PagMem(p)) \in Nat
    BY <1>3, Filas DEF IInv, Tipos, LlegadaInv
  <2>. QED  BY <1>1, <1>2, <1>4, <2>1
<1>6. f = MarcoDe(EntradaDePag(p, kernel.i + 1)) /\ f \in Frame \union {NADIE}
  <2>1. PICK k \in Posiciones(p) : k = kernel.i + 1  BY <1>5
  <2>2. f = EntradaDe(PagMem(p)[k]).frame  BY <1>2, <2>1 DEF Get
  <2>3. EntradaDe(PagMem(p)[k]) = tabla_2_l[EntradaDePag(p, k) + 1]
        /\ MarcoDe(EntradaDePag(p, k)) \in Frame \union {NADIE}
    BY <1>3, EntradaListada
  <2>. QED  BY <2>1, <2>2, <2>3 DEF MarcoDe
<1>. HIDE DEF f
<1>7. /\ kernel'.pc = "limpiar_fin" /\ kernel'.pid = p /\ kernel'.i = kernel.i
      /\ kernel'.frame = f /\ TipoHilos'
  <2>1. bitMem \intersect Byte(f) \subseteq Frame  BY DEF IInv, Tipos, TipoTablas
  <2>. QED  BY <1>1, <1>2, <1>6, <2>1 DEF IInv, Tipos, TipoHilos, TipoCpu
<1>8. LlegadaInv' /\ InicioInv' /\ FinInv'
  BY <1>1, <1>2, <1>7, MismoPedido DEF datos
<1>9. BorradoInv'
  <2>1. PagMem(p)' = PagMem(p) /\ (\A k : EntradaDePag(p, k)' = EntradaDePag(p, k))
        /\ (\A n : MarcoDe(n)' = MarcoDe(n))
    BY <1>1, DatosQuietos
  <2>2. Len(PagMem(p)) \in Nat  BY <1>3, Filas DEF IInv, Tipos, LlegadaInv
  <2>3. (kernel.i <= Len(PagMem(kernel.pid)) /\ kernel.i < Len(PagMem(kernel.pid)))'
    <3>1. kernel.i <= Len(PagMem(p)') /\ kernel.i < Len(PagMem(p)')
      BY <1>1, <1>2, <1>4, <2>1, <2>2
    <3>. QED  BY <1>7, <3>1 DEF PagMem, Get
  <2>4. PICK k : k = kernel.i + 1  OBVIOUS
  <2>5. PICK n : n = EntradaDePag(p, k)  OBVIOUS
  <2>6. f = MarcoDe(n)' /\ n = EntradaDePag(p, k)'
    BY <1>6, <2>1, <2>4, <2>5
  <2>7. (kernel.frame = MarcoDe(EntradaDePag(kernel.pid, kernel.i + 1)))'
    BY <1>7, <2>4, <2>6 DEF MarcoDe, EntradaDePag, PagMem, Get
  <2>. QED  BY <1>7, <2>3, <2>7 DEF BorradoInv
<1>10. EnLimpieza' = EnLimpieza  BY <1>1, <1>7 DEF EnLimpieza
<1>11. \A q : Borrando(q)' <=> Borrando(q)  BY <1>1, <1>2, <1>7 DEF Borrando
<1>12. \A q, n : Devuelta(q, n)' <=> Devuelta(q, n)
  <2>1. \A q : Finalizado(q)' <=> Finalizado(q)
    BY <1>1, <1>11 DEF Finalizado, EnEspera
  <2>. QED  BY <1>1, <1>7, <1>11, <2>1, DatosQuietos DEF Devuelta
<1>13. \A q \in Proceso : Ejecuta(q)' <=> Ejecuta(q)  BY <1>1 DEF Ejecuta
<1>. QED  BY <1>1, <1>7, <1>8, <1>9, <1>10, <1>12, <1>13, PasoDeFuncionesKernel

\* A process ends when all its frames have been given back.
LEMMA PasoEliminar_archivo_swap ==
    ASSUME IInv, Eliminar_archivo_swap
    PROVE  IInv'
<1>1. UNCHANGED <<datos, bitMem, cpu, carrera>> /\ UNCHANGED <<socket_kernel, estado>>
      /\ kernel.pc = "borrar" /\ kernel.i >= Len(PagMem(kernel.pid))
      /\ kernel' = [kernel EXCEPT !.pc = "libre"]
  BY DEF Eliminar_archivo_swap, datos, tablas, historia, ambiente
<1>2. kernel'.pc = "libre" /\ TipoHilos'
  BY <1>1 DEF IInv, Tipos, TipoHilos, TipoCpu
<1>3. LlegadaInv' /\ InicioInv' /\ FinInv'
  BY <1>1, <1>2, MismoPedido DEF datos
<1>4. BorradoInv' /\ EnLimpieza' = EnLimpieza
  BY <1>1, <1>2 DEF BorradoInv, EnLimpieza
<1>5. PICK p : p = kernel.pid  OBVIOUS
<1>6. p \in Iniciados /\ estado[p] = "exit"
      /\ \A n \in EntradasDe(p) : Presente(n) => n \in Listadas(p)
  BY <1>1, <1>5, ProcesoQueTermina
<1>7. \A q : (Borrando(q) <=> q = p) /\ ~ Borrando(q)'  BY <1>1, <1>2, <1>5 DEF Borrando
<1>8. \A o, q : EnEspera(o, q)' <=> EnEspera(o, q)  BY <1>1 DEF EnEspera
<1>9. ~ EnEspera("FINALIZAR_PROCESO", p)
  BY <1>1, <1>5 DEF IInv, FinInv, FinBorrado, EnEspera
<1>10. \A q, n : q # p => (Devuelta(q, n)' <=> Devuelta(q, n))
  BY <1>1, <1>7, <1>8 DEF Devuelta, Finalizado
<1>11. \A n \in EntradasDe(p) : Presente(n) => Devuelta(p, n)
  <2>1. SUFFICES ASSUME NEW n \in EntradasDe(p), Presente(n) PROVE Devuelta(p, n)
    OBVIOUS
  <2>2. PICK k \in Posiciones(p) : n = EntradaDePag(p, k)
    BY <1>6, <2>1 DEF Listadas
  <2>3. kernel.i \in Nat  BY DEF IInv, Tipos, TipoHilos
  <2>4. k \in 1 .. kernel.i
    <3>1. Posiciones(p) = 1 .. Len(PagMem(p)) /\ Len(PagMem(p)) \in Nat
      BY <1>6, Filas DEF IInv, Tipos, LlegadaInv
    <3>. QED  BY <1>1, <1>5, <2>3, <3>1
  <2>. QED  BY <1>7, <2>2, <2>4 DEF Devuelta
<1>12. \A n : Devuelta(p, n)'
  BY <1>1, <1>6, <1>7, <1>8, <1>9 DEF Devuelta, Finalizado
<1>13. \A q \in Iniciados : \A n \in EntradasDe(q) :
               Presente(n) => (Devuelta(q, n)' <=> Devuelta(q, n))
  BY <1>10, <1>11, <1>12
<1>14. \A q \in Proceso : Ejecuta(q)' <=> Ejecuta(q)  BY <1>1 DEF Ejecuta
<1>. QED  BY <1>1, <1>2, <1>3, <1>4, <1>13, <1>14, PasoDeFuncionesKernel

-----------------------------------------------------------------------------
(* The end of an access.                                                    *)

\* The bits of an entry, whose frame and presence do not change.
LEMMA PasoMarcar ==
    ASSUME IInv, Marcar
    PROVE  IInv'
<1> DEFINE i == Obtener_entrada(cpu.pag) + 1
<1>1. /\ UNCHANGED <<tabla_1_l, procesos, paginas>> /\ UNCHANGED <<bitMem, hilos>>
      /\ cpu.pc = "marca"
      /\ tabla_2_l' = [tabla_2_l EXCEPT ![i] = Accedida(@)]
      /\ cpu' = [CpuLibre EXCEPT !.backup_indice_1 = cpu.backup_indice_1,
                                 !.pid_ = cpu.pid_]
  BY DEF Marcar, hilos, tablas, historia, ambiente
<1>. HIDE DEF i
<1>2. tabla_2_l \in Seq(EntradaTabla)  BY DEF IInv, Tipos, TipoTablas
<1>3. \A e \in EntradaTabla : /\ Accedida(e) \in EntradaTabla
                              /\ Accedida(e).frame = e.frame /\ Accedida(e).bPres = e.bPres
  BY DEF Accedida, EntradaTabla
<1>4. /\ tabla_2_l' \in Seq(EntradaTabla) /\ Len(tabla_2_l') = Len(tabla_2_l)
      /\ \A j : tabla_2_l'[j].frame = tabla_2_l[j].frame
                /\ tabla_2_l'[j].bPres = tabla_2_l[j].bPres
  <2>1. CASE i \in DOMAIN tabla_2_l
    <3>1. tabla_2_l[i] \in EntradaTabla  BY <1>2, <2>1, ElementOfSeq
    <3>2. PICK e \in EntradaTabla : e = Accedida(tabla_2_l[i]) /\ e.frame = tabla_2_l[i].frame
             /\ e.bPres = tabla_2_l[i].bPres
      BY <1>3, <3>1
    <3>3. tabla_2_l' = [tabla_2_l EXCEPT ![i] = e]  BY <1>1, <3>2
    <3>4. /\ tabla_2_l' \in Seq(EntradaTabla) /\ Len(tabla_2_l') = Len(tabla_2_l)
          /\ DOMAIN tabla_2_l' = DOMAIN tabla_2_l
          /\ tabla_2_l'[i] = e
          /\ \A j \in DOMAIN tabla_2_l : j # i => tabla_2_l'[j] = tabla_2_l[j]
      BY <1>2, <2>1, <3>3, ExceptSeq
    <3>. QED  BY <3>2, <3>3, <3>4
  <2>2. CASE i \notin DOMAIN tabla_2_l
    <3>1. tabla_2_l' = tabla_2_l  BY <1>1, <1>2, <2>2
    <3>. QED  BY <1>2, <3>1
  <2>. QED  BY <2>1, <2>2
<1>5. MismosDatos
  BY <1>1, <1>4 DEF MismosDatos, Presente, MarcoDe
<1>6. TipoTablas'
  BY <1>1, <1>4 DEF IInv, Tipos, TipoTablas
<1>7. cpu'.pc = "libre" /\ cpu'.nueva = NADIE /\ TipoHilos' /\ cpu.nueva = NADIE
  BY <1>1 DEF IInv, CpuInv, Tipos, TipoHilos, TipoCpu, CpuLibre, hilos
<1>8. CpuInv'
  BY <1>1, <1>7 DEF IInv, CpuInv, Ejecuta, hilos
<1>. QED  BY <1>1, <1>5, <1>6, <1>7, <1>8, PasoSinMover

-----------------------------------------------------------------------------
(* A bit is cleared.                                                        *)

\* A byte that is written back as it was read, but for one bit.
LEMMA BitLimpio ==
    ASSUME NEW f, NEW byte, bitMem \subseteq Frame, ~ Vieja(byte, f)
    PROVE  SinBit(byte, f) = bitMem \ {f}
<1>1. byte = bitMem \cap Byte(f)  BY DEF Vieja
<1>2. f \in Frame => f \in Byte(f)  BY DEF Byte
<1>. QED  BY <1>1, <1>2 DEF SinBit

\* bitarray_clean_bit, at a suspension and at an end: one frame less.
LEMMA PasoLimpiarBit ==
    ASSUME IInv, LimpiarBit
    PROVE  IInv'
<1>1. /\ UNCHANGED <<datos, cpu>> /\ UNCHANGED datos /\ UNCHANGED <<socket_kernel, estado>>
      /\ kernel.pc \in {"limpiar", "limpiar_fin"}
      /\ bitMem' = SinBit(kernel.byte, kernel.frame)
      /\ carrera' = (carrera \/ Vieja(kernel.byte, kernel.frame))
      /\ kernel' = IF kernel.pc = "limpiar"
                 THEN [kernel EXCEPT !.pc = "liberar", !.byte = {}]
                 ELSE [kernel EXCEPT !.pc = "borrar", !.byte = {}, !.i = kernel.i + 1]
  BY DEF LimpiarBit, datos, tablas, historia, ambiente
<1>2. bitMem \subseteq Frame  BY DEF IInv, Tipos, TipoTablas
<1>3. bitMem' \subseteq Frame
  BY <1>1, <1>2 DEF SinBit, IInv, Tipos, TipoHilos
<1>4. carrera' \in BOOLEAN
  <2>1. carrera \in BOOLEAN  BY DEF IInv, Tipos, TipoHilos
  <2>. QED  BY <1>1, <2>1 DEF Vieja
<1>5. kernel'.pid = kernel.pid /\ kernel'.pc = (IF kernel.pc = "limpiar" THEN "liberar" ELSE "borrar")
      /\ kernel'.i = (IF kernel.pc = "limpiar" THEN kernel.i ELSE kernel.i + 1)
      /\ kernel' \in [pc : {"libre", "crear_archivo", "liberar", "limpiar",
                         "borrar", "limpiar_fin"},
                   pid : Proceso \union {NADIE}, i : Nat,
                   frame : Frame \union {NADIE}, byte : SUBSET Frame]
  <2>1. kernel \in [pc : {"libre", "crear_archivo", "liberar", "limpiar",
                         "borrar", "limpiar_fin"},
                   pid : Proceso \union {NADIE}, i : Nat,
                   frame : Frame \union {NADIE}, byte : SUBSET Frame]
    BY DEF IInv, Tipos, TipoHilos
  <2>2. CASE kernel.pc = "limpiar"
    <3>1. kernel' = [kernel EXCEPT !.pc = "liberar", !.byte = {}]  BY <1>1, <2>2
    <3>. QED  BY <2>1, <2>2, <3>1
  <2>3. CASE kernel.pc # "limpiar"
    <3>1. PICK j \in Nat : j = kernel.i + 1  BY <2>1
    <3>2. kernel' = [kernel EXCEPT !.pc = "borrar", !.byte = {}, !.i = j]
      BY <1>1, <2>3, <3>1
    <3>3. kernel'.pid = kernel.pid /\ kernel'.pc = "borrar" /\ kernel'.i = j
      BY <2>1, <3>2
    <3>. QED  BY <2>1, <2>3, <3>1, <3>2, <3>3
  <2>. QED  BY <2>2, <2>3
<1>6. TipoHilos'
  BY <1>1, <1>4, <1>5 DEF IInv, Tipos, TipoHilos, TipoCpu
<1>7. LlegadaInv' /\ InicioInv' /\ FinInv'
  BY <1>1, <1>5, MismoPedido DEF datos
<1>8. PICK p : p = kernel.pid  OBVIOUS
<1>9. \A q : Borrando(q)' <=> Borrando(q)
  BY <1>1, <1>5 DEF Borrando
<1>10. \A q : Finalizado(q)' <=> Finalizado(q)
  BY <1>1, <1>9 DEF Finalizado, EnEspera
<1>11. \A q \in Proceso : Ejecuta(q)' <=> Ejecuta(q)  BY <1>1 DEF Ejecuta
<1>12. CASE kernel.pc = "limpiar"
  <2>1. BorradoInv'  BY <1>5, <1>12 DEF BorradoInv
  <2>2. ASSUME ~ carrera' PROVE MarcosInv'
    <3>1. MarcosInv /\ bitMem' = bitMem \ {kernel.frame}
      <4>1. ~ carrera /\ ~ Vieja(kernel.byte, kernel.frame)  BY <1>1, <2>2
      <4>2. SinBit(kernel.byte, kernel.frame) = bitMem \ {kernel.frame}
        BY <1>2, <4>1, BitLimpio
      <4>. QED  BY <1>1, <4>1, <4>2 DEF IInv
    <3>2. EnLimpieza = {kernel.frame} /\ EnLimpieza' = {}
      BY <1>5, <1>12 DEF EnLimpieza
    <3>3. \A q, n : ~ Borrando(q) /\ (Devuelta(q, n)' <=> Devuelta(q, n))
      BY <1>9, <1>10, <1>12 DEF Devuelta, Borrando
    <3>4. \A q, n : Ocupa(q, n)' <=> Ocupa(q, n)
      BY <1>1, <3>3, DatosQuietos DEF Ocupa
    <3>5. Ocupadas' = Ocupadas
      BY <1>1, <3>4, DatosQuietos DEF Ocupadas, datos
    <3>6. \A n : MarcoDe(n)' = MarcoDe(n)  BY <1>1, DatosQuietos
    <3>. QED  BY <1>1, <3>1, <3>2, <3>5, <3>6 DEF MarcosInv
  <2>. QED  BY <1>1, <1>3, <1>6, <1>7, <1>11, <2>1, <2>2, PasoSinTablas
<1>13. CASE kernel.pc = "limpiar_fin"
  <2>. DEFINE i == kernel.i
              n0 == EntradaDePag(p, i + 1)
  <2>1. /\ p \in Iniciados /\ i \in Nat /\ i + 1 \in Posiciones(p)
        /\ kernel'.i = i + 1 /\ kernel'.pid = p /\ kernel'.pc = "borrar"
    BY <1>5, <1>8, <1>13, EntradaQueSeBorra
  <2>2. Posiciones(p) = 1 .. Len(PagMem(p)) /\ Len(PagMem(p)) \in Nat
    BY <2>1, Filas DEF IInv, Tipos, LlegadaInv
  <2>3. BorradoInv'
    <3>1. i + 1 <= Len(PagMem(p))  BY <2>1, <2>2
    <3>2. PagMem(p)' = PagMem(p)  BY <1>1, DatosQuietos
    <3>3. kernel'.i <= Len(PagMem(p)')  BY <2>1, <3>1, <3>2
    <3>4. (kernel.i <= Len(PagMem(kernel.pid)))'  BY <2>1, <3>3 DEF PagMem, Get
    <3>. QED  BY <2>1, <3>4 DEF BorradoInv
  <2>4. ASSUME ~ carrera' PROVE MarcosInv'
    <3>1. kernel.frame = MarcoDe(n0)
      BY <1>8, <1>13 DEF IInv, BorradoInv
    <3>2. MarcosInv /\ bitMem' = bitMem \ {MarcoDe(n0)}
      <4>1. ~ carrera /\ ~ Vieja(kernel.byte, kernel.frame)  BY <1>1, <2>4
      <4>2. SinBit(kernel.byte, kernel.frame) = bitMem \ {kernel.frame}
        BY <1>2, <4>1, BitLimpio
      <4>. QED  BY <1>1, <3>1, <4>1, <4>2 DEF IInv
    <3>3. EnLimpieza = {} /\ EnLimpieza' = {}
      BY <1>5, <1>13 DEF EnLimpieza
    <3>4. \A q : Borrando(q) <=> q = p  BY <1>8, <1>13 DEF Borrando
    <3>5. \A n : Devuelta(p, n)' <=> Devuelta(p, n) \/ n = n0
      <4>1. \A k : EntradaDePag(p, k)' = EntradaDePag(p, k)  BY <1>1, DatosQuietos
      <4>2. \A n : Devuelta(p, n)' <=> Finalizado(p) \/ \E k \in 1 .. i + 1 : EntradaDePag(p, k) = n
        BY <1>9, <1>10, <2>1, <3>4, <4>1 DEF Devuelta
      <4>3. \A n : Devuelta(p, n) <=> Finalizado(p) \/ \E k \in 1 .. i : EntradaDePag(p, k) = n
        BY <3>4 DEF Devuelta
      <4>4. \A k : k \in 1 .. i + 1 <=> k \in 1 .. i \/ k = i + 1  BY <2>1
      <4>. HIDE DEF i
      <4>. QED  BY <4>2, <4>3, <4>4
    <3>6. \A q, n : q # p => (Devuelta(q, n)' <=> Devuelta(q, n))
      BY <1>9, <1>10, <3>4 DEF Devuelta
    <3>7. n0 \in EntradasDe(p) /\ Presente(n0)
      BY <2>1 DEF IInv, PaginasInv
    <3>8. ~ Devuelta(p, n0)
      <4>1. ~ Finalizado(p)  BY <3>4 DEF Finalizado
      <4>2. \A k \in 1 .. i : k \in Posiciones(p) /\ k # i + 1
        BY <2>1, <2>2
      <4>3. \A k \in 1 .. i : EntradaDePag(p, k) # n0
        BY <2>1, <4>2 DEF IInv, PaginasInv
      <4>. QED  BY <4>1, <4>3 DEF Devuelta
    <3>. HIDE DEF n0, i
    <3>9. n0 \in Ocupadas
      BY <2>1, <3>7, <3>8 DEF Ocupadas, Ocupa, EntradasDe
    <3>10. \A q \in Iniciados : \A n : Ocupa(q, n)' <=> Ocupa(q, n) /\ n # n0
      <4>1. ASSUME NEW q \in Iniciados, NEW n
            PROVE  Ocupa(q, n)' <=> Ocupa(q, n) /\ n # n0
        <5>1. Ocupa(q, n)' <=> n \in EntradasDe(q) /\ Presente(n) /\ ~ Devuelta(q, n)'
          BY <1>1, DatosQuietos DEF Ocupa
        <5>2. q # p => n0 \notin EntradasDe(q)
          BY <2>1, <3>7, EntradasPropias
        <5>. QED  BY <3>5, <3>6, <5>1, <5>2 DEF Ocupa
      <4>. QED  BY <4>1
    <3>11. Ocupadas' = Ocupadas \ {n0}
      BY <1>1, <3>10, DatosQuietos DEF Ocupadas, datos
    <3>12. \A n : MarcoDe(n)' = MarcoDe(n)  BY <1>1, DatosQuietos
    <3>. QED  BY <1>1, <3>2, <3>3, <3>9, <3>11, <3>12 DEF MarcosInv
  <2>. QED  BY <1>1, <1>3, <1>6, <1>7, <1>11, <2>3, <2>4, PasoSinTablas
<1>. QED  BY <1>1, <1>12, <1>13

-----------------------------------------------------------------------------
(* A process is initialised.                                                *)

\* The process that is initialised comes after those that have been.
LEMMA ProcesoQueLlega ==
    ASSUME IInv, Recibe("INICIALIZAR_PROCESO")
    PROVE  LET p == Head(socket_kernel).pid IN
           /\ p \in Proceso /\ p = Len(procesos) /\ estado[p] = "ini"
           /\ Len(procesos) + 1 <= CANT_PROCESOS
           /\ \A i \in DOMAIN socket_kernel' : socket_kernel'[i].op # "INICIALIZAR_PROCESO"
<1>1. PICK p \in Proceso : p = Head(socket_kernel).pid  BY PrimerMensaje
<1>2. /\ kernel.pc = "libre"
      /\ 1 \in DOMAIN socket_kernel
      /\ socket_kernel[1].op = "INICIALIZAR_PROCESO" /\ socket_kernel[1].pid = p
      /\ \A i \in DOMAIN socket_kernel' :
            /\ i + 1 \in DOMAIN socket_kernel /\ i + 1 # 1
            /\ socket_kernel'[i] = socket_kernel[i + 1]
  BY <1>1, PrimerMensaje
<1>3. estado[p] = "ini"
      /\ \A j \in DOMAIN socket_kernel \ {1} : socket_kernel[j].op # "INICIALIZAR_PROCESO"
  BY <1>2 DEF IInv, InicioInv
<1>4. \A q \in Proceso : q < p => q \in Iniciados
  <2>1. \A q \in Proceso : q < p => ~ SinIniciar(q)
    BY <1>3 DEF IInv, LlegadaInv
  <2>. QED  BY <2>1 DEF IInv, LlegadaInv
<1>5. p \notin Iniciados
  BY <1>2, <1>3 DEF IInv, LlegadaInv, SinIniciar, Creando
<1>6. Len(procesos) \in Nat /\ CANT_PROCESOS \in Nat
  BY ProcesosAssumption DEF IInv, Tipos, TipoTablas
<1>7. p = Len(procesos) /\ Len(procesos) + 1 <= CANT_PROCESOS
  <2>1. p \in Nat /\ p < CANT_PROCESOS /\ p >= Len(procesos)
    BY <1>5, <1>6 DEF Iniciados, Proceso
  <2>2. p > Len(procesos) => Len(procesos) \in Proceso /\ Len(procesos) \notin Iniciados
    BY <1>6, <2>1 DEF Iniciados, Proceso
  <2>. QED  BY <1>4, <1>6, <2>1, <2>2
<1>. QED  BY <1>1, <1>2, <1>3, <1>7

\* Who has been initialised once the message has been handled.
LEMMA TrasIniciar ==
    ASSUME IInv, Inicializar_proceso
    PROVE  LlegadaInv' /\ InicioInv' /\ FinInv'
<1>1. PICK p \in Proceso : p = Head(socket_kernel).pid
  BY PrimerMensaje DEF Inicializar_proceso
<1>2. /\ Recibe("INICIALIZAR_PROCESO") /\ estado' = estado
      /\ kernel' = [kernel EXCEPT !.pc = "crear_archivo", !.pid = p]
      /\ \E es : tabla_1_l' = Append(tabla_1_l, [pid |-> p, entradas |-> es])
      /\ \E r : procesos' = Append(procesos, r)
  BY <1>1 DEF Inicializar_proceso
<1>3. /\ p = Len(procesos) /\ estado[p] = "ini" /\ Len(procesos) + 1 <= CANT_PROCESOS
      /\ \A i \in DOMAIN socket_kernel' : socket_kernel'[i].op # "INICIALIZAR_PROCESO"
  BY <1>1, <1>2, ProcesoQueLlega
<1>4. kernel.pc = "libre" /\ kernel'.pc = "crear_archivo" /\ kernel'.pid = p
  BY <1>2 DEF Recibe, IInv, Tipos, TipoHilos
<1>5. LlegadaInv'
  <2>1. /\ Len(tabla_1_l) = Len(procesos) /\ Len(procesos) \in Nat
        /\ \A i \in DOMAIN tabla_1_l : tabla_1_l[i].pid = i - 1
        /\ tabla_1_l \in Seq([pid : Proceso, entradas : Seq(Nat)])
        /\ procesos \in Seq(FilaProceso)
    BY DEF IInv, LlegadaInv, Tipos, TipoTablas, FilaProceso
  <2>2. /\ Len(tabla_1_l') = Len(tabla_1_l) + 1 /\ DOMAIN tabla_1_l' = 1 .. Len(tabla_1_l) + 1
        /\ \A i \in 1 .. Len(tabla_1_l) : tabla_1_l'[i] = tabla_1_l[i]
        /\ tabla_1_l'[Len(tabla_1_l) + 1].pid = p
    BY <1>2, <2>1
  <2>3. Len(procesos') = Len(procesos) + 1  BY <1>2, <2>1
  <2>4. \A i \in DOMAIN tabla_1_l' : tabla_1_l'[i].pid = i - 1
    <3>1. \A i \in DOMAIN tabla_1_l' : i \in DOMAIN tabla_1_l \/ i = Len(tabla_1_l) + 1
      BY <2>1, <2>2
    <3>2. p = (Len(tabla_1_l) + 1) - 1 /\ DOMAIN tabla_1_l = 1 .. Len(tabla_1_l)
      BY <1>3, <2>1
    <3>. QED  BY <2>1, <2>2, <3>1, <3>2
  <2>5. \A q \in Proceso : SinIniciar(q)' <=> SinIniciar(q)  BY <1>2 DEF SinIniciar
  <2>6. \A q \in Proceso : ~ Creando(q) /\ (Creando(q)' <=> q = p)
    BY <1>4 DEF Creando
  <2>7. \A q \in Proceso : q \in Iniciados' <=> q \in Iniciados \/ q = p
    BY <1>3, <2>1, <2>3, ProcesosAssumption DEF Iniciados, Proceso
  <2>8. \A q \in Proceso : q \in Iniciados' <=> ~ SinIniciar(q)' \/ Creando(q)'
    BY <2>5, <2>6, <2>7 DEF IInv, LlegadaInv
  <2>9. \A q, r \in Proceso : r < q /\ estado'[q] # "new" => ~ SinIniciar(r)'
    BY <1>2, <2>5 DEF IInv, LlegadaInv
  <2>. QED  BY <1>2, <1>3, <1>4, <2>1, <2>2, <2>3, <2>4, <2>8, <2>9 DEF LlegadaInv
<1>6. InicioInv'  BY <1>3 DEF InicioInv
<1>7. FinMensajes'
  <2>1. /\ \A i \in DOMAIN socket_kernel' :
              /\ i + 1 \in DOMAIN socket_kernel
              /\ socket_kernel'[i] = socket_kernel[i + 1]
        /\ DOMAIN socket_kernel \subseteq Nat /\ DOMAIN socket_kernel' \subseteq Nat
    BY <1>2, PrimerMensaje
  <2>2. \A q : EnEspera("FINALIZAR_PROCESO", q)' <=> EnEspera("FINALIZAR_PROCESO", q)
    BY <1>2, EsperasTrasRecibir
  <2>3. SUFFICES ASSUME NEW i \in DOMAIN socket_kernel', NEW q, q = socket_kernel'[i].pid
        PROVE  /\ socket_kernel'[i].op # "INICIALIZAR_PROCESO" => estado[q] \notin {"new", "ini"}
               /\ socket_kernel'[i].op = "FINALIZAR_PROCESO" =>
                     /\ estado[q] = "exit"
                     /\ \A j \in DOMAIN socket_kernel' :
                           i < j => socket_kernel'[j].pid # q
               /\ socket_kernel'[i].op = "SUSPENDER_PROCESO" /\ estado[q] = "exit" =>
                     \E l \in DOMAIN socket_kernel' :
                           socket_kernel'[l].op = "FINALIZAR_PROCESO" /\ socket_kernel'[l].pid = q
    BY <1>2 DEF FinMensajes, SinIniciar, EnEspera
  <2>4. /\ i + 1 \in DOMAIN socket_kernel /\ q = socket_kernel[i + 1].pid
        /\ socket_kernel'[i] = socket_kernel[i + 1] /\ i \in Nat
    BY <2>1, <2>3
  <2>5. /\ socket_kernel[i + 1].op # "INICIALIZAR_PROCESO" => ~ SinIniciar(q)
        /\ socket_kernel[i + 1].op = "FINALIZAR_PROCESO" =>
              /\ estado[q] = "exit"
              /\ \A j \in DOMAIN socket_kernel : i + 1 < j => socket_kernel[j].pid # q
        /\ socket_kernel[i + 1].op = "SUSPENDER_PROCESO" /\ estado[q] = "exit" =>
              EnEspera("FINALIZAR_PROCESO", q)
    BY <2>4 DEF IInv, FinInv, FinMensajes
  <2>6. \A j \in DOMAIN socket_kernel' : i < j => i + 1 < j + 1
    BY <2>1, <2>4
  <2>. QED  BY <2>1, <2>2, <2>4, <2>5, <2>6 DEF SinIniciar, EnEspera
<1>8. FinSuspension' /\ FinBorrado'
  BY <1>4 DEF FinSuspension, FinBorrado
<1>. QED  BY <1>5, <1>6, <1>7, <1>8 DEF FinInv

\* The tables of level 2 of a process that is initialised are new, and the
\* others keep theirs.
LEMMA TablasNuevas ==
    ASSUME IInv, NEW p \in Proceso, p = Len(procesos),
           tabla_1_l' = Append(tabla_1_l, [pid |-> p,
               entradas |-> [i \in 1 .. CantEntradas1 |->
                                Len(tabla_2_l) \div ENTRADAS_POR_TABLA + i - 1]]),
           tabla_2_l' = tabla_2_l \o
               [i \in 1 .. CantEntradas1 * ENTRADAS_POR_TABLA |-> EntradaVacia],
           procesos' = Append(procesos, [pid |-> p, puntero |-> 0, contador |-> 0,
                                         pagMem |-> <<>>]),
           UNCHANGED <<paginas, bitMem>>
    PROVE  /\ TipoTablas' /\ TablasInv'
           /\ Iniciados' = Iniciados \union {p} /\ p \notin Iniciados
           /\ \A q \in Iniciados : /\ PagMem(q)' = PagMem(q)
                                   /\ TablasDe(q)' = TablasDe(q)
                                   /\ EntradasDe(q)' = EntradasDe(q)
           /\ PagMem(p)' = <<>>
           /\ \A n \in EntradasDe(p)' : ~ Presente(n)'
           /\ \A n \in 0 .. Len(tabla_2_l) - 1 : tabla_2_l'[n + 1] = tabla_2_l[n + 1]
           /\ Len(tabla_2_l) \in Nat /\ Len(tabla_2_l') \in Nat
           /\ Len(tabla_2_l) <= Len(tabla_2_l')
<1> DEFINE b == ENTRADAS_POR_TABLA
           c == CantEntradas1
           l == Len(procesos)
           t0 == l * c
           primera == Len(tabla_2_l) \div b
           es == [i \in 1 .. c |-> primera + i - 1]
<1>1. b \in Nat \ {0} /\ c \in Nat /\ l \in Nat
  <2>1. b \in Nat \ {0} /\ Paginas + b - 1 \in Nat
    BY TablaAssumption, ProcesosAssumption
  <2>2. c \in Nat
    <3>. HIDE DEF b
    <3>1. (Paginas + b - 1) \div b \in Nat  BY <2>1, Resto
    <3>. QED  BY <3>1 DEF CantEntradas1, Division_entera, b
  <2>. QED  BY <2>1, <2>2 DEF IInv, Tipos, TipoTablas
<1>2. /\ tabla_1_l \in Seq(FilaTabla1) /\ procesos \in Seq(FilaProceso)
      /\ tabla_2_l \in Seq(EntradaTabla)
      /\ Len(tabla_1_l) = l
      /\ Len(tabla_2_l) = b * t0
  BY DEF IInv, Tipos, TipoTablas, LlegadaInv, TablasInv, FilaTabla1, FilaProceso
<1>3. /\ tabla_1_l' = Append(tabla_1_l, [pid |-> p, entradas |-> es])
      /\ tabla_2_l' = tabla_2_l \o [i \in 1 .. c * b |-> EntradaVacia]
  OBVIOUS
<1>4. p = l /\ p \in Nat  BY <1>1
<1>. HIDE DEF b, c, l
<1>5. t0 \in Nat /\ (l + 1) * c = t0 + c /\ b * t0 \in Nat /\ c * b \in Nat
  BY <1>1, SMT
<1>. HIDE DEF t0
<1>6. PICK m \in Nat : m = b * t0  BY <1>5
<1>60. PICK d \in Nat : d = c * b  BY <1>5
<1>61. b * (t0 + c) = m + d
  BY <1>1, <1>5, <1>6, <1>60, SMT
<1>62. Len(tabla_2_l) = m /\ tabla_2_l' = tabla_2_l \o [i \in 1 .. d |-> EntradaVacia]
  BY <1>2, <1>3, <1>6, <1>60
<1>63. m \in Nat /\ d \in Nat  OBVIOUS
<1>7. primera = t0
  <2>1. b * t0 <= b * t0 /\ b * t0 < b * t0 + b  BY <1>1, <1>5
  <2>. QED  BY <1>1, <1>2, <1>5, <2>1, Cociente
<1>. HIDE DEF primera
<1>8. es \in Seq(Nat) /\ Len(es) = c /\ DOMAIN es = 1 .. c
      /\ \A i \in 1 .. c : es[i] = t0 + i - 1 /\ es[i] \in Nat
  BY <1>1, <1>5, <1>7
<1>. HIDE DEF es
<1>9. [pid |-> p, entradas |-> es] \in FilaTabla1  BY <1>8 DEF FilaTabla1
<1>10. [pid |-> p, puntero |-> 0, contador |-> 0, pagMem |-> <<>>] \in FilaProceso
  BY DEF FilaProceso
<1>11. /\ tabla_1_l' \in Seq(FilaTabla1) /\ Len(tabla_1_l') = l + 1
       /\ \A i \in 1 .. l : tabla_1_l'[i] = tabla_1_l[i]
       /\ tabla_1_l'[l + 1] = [pid |-> p, entradas |-> es]
  BY <1>2, <1>3, <1>9, AppendProperties
<1>12. /\ procesos' \in Seq(FilaProceso) /\ Len(procesos') = l + 1
       /\ \A i \in 1 .. l : procesos'[i] = procesos[i]
       /\ procesos'[l + 1].pagMem = <<>>
  BY <1>2, <1>10, AppendProperties DEF l
<1>13. /\ tabla_2_l' \in Seq(EntradaTabla) /\ Len(tabla_2_l') = m + d
       /\ \A i \in 1 .. m : tabla_2_l'[i] = tabla_2_l[i]
       /\ \A i \in 1 .. m + d : m < i => tabla_2_l'[i] = EntradaVacia
  <2>. DEFINE v == [i \in 1 .. d |-> EntradaVacia]
  <2>1. EntradaVacia \in EntradaTabla  BY DEF EntradaVacia, EntradaTabla
  <2>2. v \in Seq(EntradaTabla) /\ Len(v) = d /\ \A i \in 1 .. d : v[i] = EntradaVacia
    BY <2>1
  <2>3. tabla_2_l' = tabla_2_l \o v  BY <1>62
  <2>. HIDE DEF v
  <2>4. /\ tabla_2_l' \in Seq(EntradaTabla) /\ Len(tabla_2_l') = m + d
        /\ \A i \in 1 .. m + d : tabla_2_l'[i] =
              IF i <= m THEN tabla_2_l[i] ELSE v[i - m]
    <3>1. tabla_2_l \in Seq(EntradaTabla) /\ Len(tabla_2_l) = m  BY <1>2, <1>62
    <3>. QED  BY ONLY <3>1, <1>63, <2>2, <2>3, ConcatProperties
  <2>. QED  BY ONLY <1>63, <2>2, <2>4
<1>14. TipoTablas'
  <2>1. paginas \in Seq([numero : Nat, entrada : Nat]) /\ bitMem \subseteq Frame
    BY DEF IInv, Tipos, TipoTablas
  <2>. QED  BY <1>11, <1>12, <1>13, <2>1 DEF TipoTablas, FilaTabla1, FilaProceso
<1>15. Iniciados = 0 .. l - 1 /\ Iniciados' = 0 .. l
  BY <1>1, <1>12 DEF Iniciados, l
<1>16. Iniciados' = Iniciados \union {p} /\ p \notin Iniciados
  BY <1>1, <1>4, <1>15
<1>17. \A q \in Iniciados : q \in Nat /\ q + 1 \in 1 .. l  BY <1>1, <1>15
<1>18. \A q \in Iniciados : PagMem(q)' = PagMem(q) /\ TablasDe(q)' = TablasDe(q)
  BY <1>11, <1>12, <1>17 DEF PagMem, Get, TablasDe
<1>19. PagMem(p)' = <<>>  BY <1>4, <1>12 DEF PagMem, Get
<1>20. \A t : t \in TablasDe(p)' <=> t \in t0 .. t0 + c - 1
  <2>1. TablasDe(p)' = ToSet(es)  BY ONLY <1>1, <1>4, <1>11 DEF TablasDe, ToSet
  <2>2. \A t : t \in ToSet(es) <=> \E i \in 1 .. c : t = t0 + i - 1
    BY <1>8 DEF ToSet
  <2>3. \A t \in t0 .. t0 + c - 1 : t - t0 + 1 \in 1 .. c /\ t = t0 + (t - t0 + 1) - 1
    BY <1>1, <1>5
  <2>4. \A i \in 1 .. c : t0 + i - 1 \in t0 .. t0 + c - 1
    BY <1>1, <1>5
  <2>. QED  BY <2>1, <2>2, <2>3, <2>4
<1>21. \A q \in Iniciados : \A t \in TablasDe(q) : t \in Nat /\ t < t0 /\ b * t + b <= m
  <2>1. SUFFICES ASSUME NEW q \in Iniciados, NEW t \in TablasDe(q)
        PROVE  t \in Nat /\ t < t0 /\ b * t + b <= m
    OBVIOUS
  <2>2. tabla_1_l[q + 1].entradas \in Seq(Nat)
    BY Filas DEF IInv, Tipos, LlegadaInv
  <2>3. t \in Nat  BY <2>2 DEF TablasDe, ToSet
  <2>4. b * t + b <= m  BY <1>62 DEF IInv, TablasInv, b
  <2>5. ~ t0 <= t
    <3>1. t0 = t => FALSE  BY <1>1, <1>6, <2>4
    <3>2. t0 < t => m + b <= b * t  BY <1>1, <1>5, <1>6, <2>3, Producto
    <3>3. b * t \in Nat  BY <1>1, <2>3, SMT
    <3>4. m + b <= b * t => FALSE  BY <1>1, <1>5, <2>4, <3>3
    <3>. QED  BY <1>5, <2>3, <3>1, <3>2, <3>4
  <2>. QED  BY <1>5, <2>3, <2>4, <2>5
<1>22. TablasInv'
  <2>1. Len(tabla_2_l') = b * (Len(procesos') * c)
    BY <1>5, <1>61, <1>12, <1>13
  <2>2. \A q \in Iniciados' : Len(tabla_1_l'[q + 1].entradas) = c
    BY <1>4, <1>8, <1>11, <1>16, <1>17 DEF IInv, TablasInv, c
  <2>3. \A q \in Iniciados' : \A t \in TablasDe(q)' : b * t + b <= Len(tabla_2_l')
    <3>1. SUFFICES ASSUME NEW q \in Iniciados', NEW t \in TablasDe(q)'
          PROVE  b * t + b <= m + d
      BY <1>13
    <3>2. CASE q \in Iniciados
      <4>1. t \in Nat /\ b * t + b <= m  BY <1>18, <1>21, <3>1, <3>2
      <4>2. b * t \in Nat  BY <1>1, <4>1, SMT
      <4>. QED  BY <1>1, <1>5, <4>1, <4>2
    <3>3. CASE q = p
      <4>1. t \in Nat /\ t < t0 + c /\ t0 + c \in Nat  BY <1>1, <1>5, <1>20, <3>1, <3>3
      <4>2. b * t + b <= b * (t0 + c)  BY <1>1, <4>1, Producto
      <4>. QED  BY <1>61, <4>2
    <3>. QED  BY <1>16, <3>1, <3>2, <3>3
  <2>4. \A q \in Iniciados : TablasDe(q)' \cap TablasDe(p)' = {}
    <3>1. \A t : t < t0 => t \notin t0 .. t0 + c - 1  BY <1>1, <1>5
    <3>. QED  BY <1>18, <1>20, <1>21, <3>1
  <2>5. \A q, r \in Iniciados' : q # r => TablasDe(q)' \cap TablasDe(r)' = {}
    BY <1>16, <1>18, <2>4 DEF IInv, TablasInv
  <2>. QED  BY <2>1, <2>2, <2>3, <2>5 DEF TablasInv, b, c
<1>23. Len(tabla_2_l) \in Nat /\ Len(tabla_2_l') \in Nat
           /\ Len(tabla_2_l) <= Len(tabla_2_l')
  BY ONLY <1>62, <1>63, <1>13
<1>24. \A n \in 0 .. Len(tabla_2_l) - 1 : n + 1 \in 1 .. m
  BY <1>62
<1>25. \A q \in Iniciados : EntradasDe(q)' = EntradasDe(q)
  <2>1. SUFFICES ASSUME NEW q \in Iniciados, NEW n
        PROVE  n \in EntradasDe(q)' <=> n \in EntradasDe(q)
    OBVIOUS
  <2>2. TablasDe(q)' = TablasDe(q)  BY <1>18
  <2>3. n \in EntradasDe(q)' <=> n \in 0 .. Len(tabla_2_l') - 1 /\ n \div b \in TablasDe(q)
    BY <2>2 DEF EntradasDe, b
  <2>4. n \in EntradasDe(q) <=> n \in 0 .. Len(tabla_2_l) - 1 /\ n \div b \in TablasDe(q)
    BY DEF EntradasDe, b
  <2>5. ASSUME n \in 0 .. Len(tabla_2_l') - 1, n \div b \in TablasDe(q)
        PROVE  n \in 0 .. Len(tabla_2_l) - 1
    <3>1. n \in Nat  BY <2>5
    <3>2. n < b * (n \div b) + b  BY <3>1, <1>1, Resto
    <3>3. b * (n \div b) + b <= m /\ n \div b \in Nat  BY <2>5, <1>21
    <3>4. b * (n \div b) \in Nat  BY <1>1, <3>3, SMT
    <3>5. n < m  BY <1>1, <1>5, <3>1, <3>2, <3>3, <3>4
    <3>. QED  BY <1>62, <3>1, <3>5
  <2>6. 0 .. Len(tabla_2_l) - 1 \subseteq 0 .. Len(tabla_2_l') - 1  BY ONLY <1>23
  <2>. QED  BY <2>3, <2>4, <2>5, <2>6
<1>26. \A n \in EntradasDe(p)' : ~ Presente(n)'
  <2>1. SUFFICES ASSUME NEW n \in EntradasDe(p)' PROVE ~ Presente(n)'
    OBVIOUS
  <2>2. n \in 0 .. Len(tabla_2_l') - 1 /\ n \div b \in TablasDe(p)'
    BY DEF EntradasDe, b
  <2>3. n \in Nat  BY <2>2
  <2>4. b * (n \div b) <= n /\ n \div b \in Nat  BY <2>3, <1>1, Resto
  <2>5. t0 <= n \div b  BY <1>1, <1>5, <1>20, <2>2
  <2>6. m <= n
    <3>1. PICK t \in Nat : t = n \div b  BY <2>4
    <3>2. t0 < t => m + b <= b * t  BY <1>1, <1>5, <1>6, <3>1, Producto
    <3>3. b * t \in Nat  BY <1>1, <3>1, SMT
    <3>4. t0 = t => m = b * t  BY <1>6
    <3>5. t0 = t \/ t0 < t  BY <1>5, <2>5, <3>1
    <3>6. b * t <= n  BY <2>4, <3>1
    <3>. QED  BY <1>1, <1>5, <2>3, <3>2, <3>3, <3>4, <3>5, <3>6
  <2>7. n + 1 \in 1 .. m + d /\ m < n + 1
    BY ONLY <1>13, <1>63, <2>2, <2>3, <2>6
  <2>8. tabla_2_l'[n + 1] = EntradaVacia  BY <1>13, <2>7
  <2>. QED  BY ONLY <2>8 DEF Presente, EntradaVacia
<1>27. \A n \in 0 .. Len(tabla_2_l) - 1 : tabla_2_l'[n + 1] = tabla_2_l[n + 1]
  BY <1>13, <1>24
<1>. QED  BY <1>14, <1>16, <1>18, <1>19, <1>22, <1>23, <1>25, <1>26, <1>27

\* crear_proceso gives the process tables of its own, with no page in memory.
LEMMA PasoInicializar_proceso ==
    ASSUME IInv, Inicializar_proceso
    PROVE  IInv'
<1>1. PICK p \in Proceso : p = Head(socket_kernel).pid
  BY PrimerMensaje DEF Inicializar_proceso
<1>2. /\ Recibe("INICIALIZAR_PROCESO") /\ estado' = estado /\ paginas' = paginas
      /\ bitMem' = bitMem /\ cpu' = cpu /\ carrera' = carrera
      /\ kernel' = [kernel EXCEPT !.pc = "crear_archivo", !.pid = p]
      /\ UNCHANGED <<paginas, bitMem>>
  BY <1>1 DEF Inicializar_proceso, historia
<1>3. p = Len(procesos)
  BY <1>1, <1>2, ProcesoQueLlega
<1>4. /\ TipoTablas' /\ TablasInv'
      /\ Iniciados' = Iniciados \union {p} /\ p \notin Iniciados
      /\ \A q \in Iniciados : /\ PagMem(q)' = PagMem(q)
                              /\ TablasDe(q)' = TablasDe(q)
                              /\ EntradasDe(q)' = EntradasDe(q)
      /\ PagMem(p)' = <<>>
      /\ \A n \in EntradasDe(p)' : ~ Presente(n)'
      /\ \A n \in 0 .. Len(tabla_2_l) - 1 : tabla_2_l'[n + 1] = tabla_2_l[n + 1]
      /\ Len(tabla_2_l) \in Nat /\ Len(tabla_2_l') \in Nat
      /\ Len(tabla_2_l) <= Len(tabla_2_l')
  BY <1>1, <1>2, <1>3, TablasNuevas DEF Inicializar_proceso
<1>5. /\ kernel.pc = "libre" /\ kernel'.pc = "crear_archivo" /\ kernel'.pid = p
      /\ socket_kernel' \in Seq(Mensaje)
      /\ TipoHilos'
  <2>1. kernel.pc = "libre" /\ socket_kernel' \in Seq(Mensaje)  BY <1>2, PrimerMensaje
  <2>. QED  BY <1>2, <2>1 DEF IInv, Tipos, TipoHilos, TipoCpu
<1>6. LlegadaInv' /\ InicioInv' /\ FinInv'  BY TrasIniciar
<1>7. BorradoInv'  BY <1>5 DEF BorradoInv
<1>8. \A n \in 0 .. Len(tabla_2_l) - 1 :
         (Presente(n)' <=> Presente(n)) /\ MarcoDe(n)' = MarcoDe(n)
  BY <1>4 DEF Presente, MarcoDe
<1>9. \A q \in Iniciados : \A n \in EntradasDe(q) : n \in 0 .. Len(tabla_2_l) - 1
  BY DEF EntradasDe
<1>10. \A q \in Iniciados : /\ Posiciones(q)' = Posiciones(q)
                            /\ \A k : EntradaDePag(q, k)' = EntradaDePag(q, k)
                            /\ Listadas(q)' = Listadas(q)
  BY <1>2, <1>4 DEF Posiciones, EntradaDePag, Listadas
<1>11. CpuInv'
  <2>1. \A q \in Proceso : Ejecuta(q)' <=> Ejecuta(q)  BY <1>2 DEF Ejecuta
  <2>2. PICK q : q = cpu.pid  OBVIOUS
  <2>3. PICK n : n = cpu.numero  OBVIOUS
  <2>4. cpu.pc \notin {"libre", "marca"} => q \in Iniciados
    BY <2>2 DEF IInv, CpuInv, LlegadaInv, SinIniciar, Ejecuta
  <2>5. cpu.pc = "entrada2" => (cpu.tabla2 \in TablasDe(cpu.pid))'
    <3>1. cpu.pc = "entrada2" => cpu.tabla2 \in TablasDe(q)'
      BY <1>4, <2>2, <2>4 DEF IInv, CpuInv
    <3>. QED  BY <1>2, <2>2, <3>1 DEF TablasDe
  <2>6. cpu.pc \in {"tomar", "traer"} =>
           n \in EntradasDe(q) /\ n \in EntradasDe(q)' /\ q \in Iniciados
    BY <1>4, <2>2, <2>3, <2>4 DEF IInv, CpuInv
  <2>7. cpu.pc \in {"tomar", "traer"} => (cpu.numero \in EntradasDe(cpu.pid))'
    BY <1>2, <2>2, <2>3, <2>6 DEF EntradasDe, TablasDe
  <2>8. cpu.pc = "tomar" => (~ Presente(cpu.numero) /\ cpu.marco \in Frame)'
    <3>1. cpu.pc = "tomar" => ~ Presente(n)' /\ cpu.marco \in Frame
      BY <1>8, <1>9, <2>3, <2>6 DEF IInv, CpuInv
    <3>. QED  BY <1>2, <2>3, <3>1 DEF Presente
  <2>9. cpu.nueva # NADIE => (/\ cpu.pc = "traer"
                              /\ cpu.nueva \in DOMAIN paginas
                              /\ paginas[cpu.nueva].entrada = cpu.numero
                              /\ Presente(cpu.numero)
                              /\ cpu.numero \notin Listadas(cpu.pid))'
    <3>1. SUFFICES ASSUME cpu.nueva # NADIE
          PROVE  (/\ cpu.pc = "traer"
                  /\ cpu.nueva \in DOMAIN paginas
                  /\ paginas[cpu.nueva].entrada = cpu.numero
                  /\ Presente(cpu.numero)
                  /\ cpu.numero \notin Listadas(cpu.pid))'
      OBVIOUS
    <3>2. cpu.pc = "traer" /\ cpu.nueva \in DOMAIN paginas
          /\ paginas[cpu.nueva].entrada = n /\ Presente(n) /\ n \notin Listadas(q)
      BY <2>2, <2>3, <3>1 DEF IInv, CpuInv
    <3>3. Presente(n)' /\ n \notin Listadas(q)'
      BY <1>8, <1>9, <1>10, <2>6, <3>2
    <3>4. Presente(cpu.numero)'  BY <1>2, <2>3, <3>3 DEF Presente
    <3>5. (cpu.numero \notin Listadas(cpu.pid))'
      BY <1>2, <2>2, <2>3, <3>3 DEF Listadas, Posiciones, EntradaDePag, PagMem, Get
    <3>. QED  BY <1>2, <2>3, <3>2, <3>4, <3>5
  <2>. QED  BY <1>2, <2>1, <2>5, <2>7, <2>8, <2>9 DEF IInv, CpuInv, Ejecuta
<1>12. PaginasInv'
  <2>1. \A n : Llega(n)' <=> Llega(n)  BY <1>2 DEF Llega
  <2>2. \A q : Creciendo(q)' <=> Creciendo(q)  BY <1>2 DEF Creciendo
  <2>3. SUFFICES ASSUME NEW q \in Iniciados \union {p}
        PROVE  /\ \A k \in Posiciones(q)' :
                     /\ PagMem(q)'[k] \in DOMAIN paginas
                     /\ EntradaDePag(q, k)' \in EntradasDe(q)'
                     /\ Presente(EntradaDePag(q, k))'
               /\ \A j, k \in Posiciones(q)' :
                     EntradaDePag(q, j)' = EntradaDePag(q, k)' => j = k
               /\ \A n \in EntradasDe(q)' : Presente(n)' => n \in Listadas(q)' \/ Llega(n)
               /\ Len(PagMem(q)') + (IF Creciendo(q) THEN 1 ELSE 0) <= MARCOS_POR_PROCESO
    BY <1>2, <1>4, <2>1, <2>2 DEF PaginasInv
  <2>4. CASE q \in Iniciados
    <3>1. ASSUME NEW k \in Posiciones(q) PROVE Presente(EntradaDePag(q, k))'
      <4>1. PICK n : n = EntradaDePag(q, k)  OBVIOUS
      <4>2. n \in EntradasDe(q) /\ Presente(n)  BY <2>4, <3>1, <4>1 DEF IInv, PaginasInv
      <4>3. Presente(n)'  BY <1>8, <1>9, <2>4, <4>2
      <4>4. EntradaDePag(q, k)' = n  BY <1>10, <2>4, <4>1
      <4>. QED  BY <4>3, <4>4 DEF Presente
    <3>2. \A n \in EntradasDe(q) : Presente(n)' <=> Presente(n)  BY <1>8, <1>9, <2>4
    <3>. QED  BY <1>4, <1>10, <2>4, <3>1, <3>2 DEF IInv, PaginasInv
  <2>5. CASE q = p
    <3>1. PagMem(q)' = <<>> /\ Posiciones(q)' = {} /\ Len(PagMem(q)') = 0
      BY <1>4, <2>5 DEF Posiciones
    <3>. QED  BY <1>4, <2>5, <3>1, MarcosAssumption
  <2>. QED  BY <2>3, <2>4, <2>5
<1>13. MarcosInv => MarcosInv'
  <2>1. \A q : ~ Borrando(q) /\ ~ Borrando(q)'  BY <1>5 DEF Borrando
  <2>2. \A q : EnEspera("FINALIZAR_PROCESO", q)' <=> EnEspera("FINALIZAR_PROCESO", q)
    BY <1>2, EsperasTrasRecibir
  <2>3. \A q, n : Devuelta(q, n)' <=> Devuelta(q, n)
    BY <1>2, <2>1, <2>2 DEF Devuelta, Finalizado
  <2>4. \A q \in Iniciados : \A n : Ocupa(q, n)' <=> Ocupa(q, n)
    BY <1>4, <1>8, <1>9, <2>3 DEF Ocupa
  <2>5. \A n : ~ Ocupa(p, n)'  BY <1>4 DEF Ocupa
  <2>6. \A n : n \in Ocupadas' <=> n \in Ocupadas
    <3>1. \A n : n \in Ocupadas' <=> n \in 0 .. Len(tabla_2_l') - 1
                                    /\ \E q \in Iniciados : Ocupa(q, n)
      BY <1>4, <2>4, <2>5 DEF Ocupadas
    <3>2. \A n : n \in Ocupadas <=> n \in 0 .. Len(tabla_2_l) - 1
                                    /\ \E q \in Iniciados : Ocupa(q, n)
      BY DEF Ocupadas
    <3>3. \A n : (\E q \in Iniciados : Ocupa(q, n)) => n \in 0 .. Len(tabla_2_l) - 1
      BY <1>9 DEF Ocupa
    <3>4. 0 .. Len(tabla_2_l) - 1 \subseteq 0 .. Len(tabla_2_l') - 1  BY <1>4
    <3>. QED  BY <3>1, <3>2, <3>3, <3>4
  <2>7. \A n \in Ocupadas : MarcoDe(n)' = MarcoDe(n)  BY <1>8 DEF Ocupadas
  <2>8. EnLimpieza' = EnLimpieza  BY <1>5 DEF EnLimpieza
  <2>9. Ocupadas' = Ocupadas  BY <2>6
  <2>. QED  BY <1>2, <2>7, <2>8, <2>9 DEF MarcosInv
<1>. QED  BY <1>2, <1>4, <1>5, <1>6, <1>7, <1>11, <1>12, <1>13 DEF IInv, Tipos

-----------------------------------------------------------------------------
(* A suspension takes a page.                                               *)

\* Who is being suspended.
LEMMA ProcesoQueSeSuspende ==
    ASSUME IInv, kernel.pc \in {"liberar", "limpiar"}
    PROVE  kernel.pid \in Iniciados /\ ~ Finalizado(kernel.pid)
<1>1. kernel.pid \in Proceso /\ ~ SinIniciar(kernel.pid)
      /\ (estado[kernel.pid] = "exit" => EnEspera("FINALIZAR_PROCESO", kernel.pid))
  BY DEF IInv, LlegadaInv, FinInv, FinSuspension
<1>2. kernel.pid \in Iniciados  BY <1>1 DEF IInv, LlegadaInv
<1>. QED  BY <1>1, <1>2 DEF Finalizado

\* The tables after the first page of p goes away.
LEMMA SinLaPrimera ==
    ASSUME IInv, NEW p \in Iniciados, PagMem(p) # <<>>,
           procesos' = [procesos EXCEPT ![p + 1].pagMem = Tail(PagMem(p))],
           NEW n0, n0 = EntradaDePag(p, 1),
           tabla_2_l' = [tabla_2_l EXCEPT ![n0 + 1].bPres = 0],
           UNCHANGED <<tabla_1_l, paginas, bitMem>>
    PROVE  /\ TipoTablas' /\ TablasInv' /\ Iniciados' = Iniciados
           /\ Len(procesos') = Len(procesos)
           /\ Len(tabla_2_l') = Len(tabla_2_l)
           /\ \A q : TablasDe(q)' = TablasDe(q) /\ EntradasDe(q)' = EntradasDe(q)
           /\ n0 \in EntradasDe(p) /\ Presente(n0) /\ n0 \in Listadas(p)
           /\ \A n \in 0 .. Len(tabla_2_l) - 1 :
                 (Presente(n)' <=> Presente(n) /\ n # n0) /\ MarcoDe(n)' = MarcoDe(n)
           /\ \A q \in Iniciados \ {p} :
                 /\ PagMem(q)' = PagMem(q) /\ Posiciones(q)' = Posiciones(q)
                 /\ \A k : EntradaDePag(q, k)' = EntradaDePag(q, k)
                 /\ Listadas(q)' = Listadas(q)
           /\ Len(PagMem(p)') = Len(PagMem(p)) - 1 /\ Len(PagMem(p)) \in Nat
           /\ \A k \in Posiciones(p)' : /\ k + 1 \in Posiciones(p) /\ k + 1 # 1 /\ k \in Nat
                                        /\ PagMem(p)'[k] = PagMem(p)[k + 1]
                                        /\ EntradaDePag(p, k)' = EntradaDePag(p, k + 1)
           /\ Listadas(p)' = Listadas(p) \ {n0}
<1>1. /\ p \in Nat /\ p + 1 \in DOMAIN procesos
      /\ procesos[p + 1] \in FilaProceso
      /\ PagMem(p) = procesos[p + 1].pagMem /\ PagMem(p) \in Seq(Nat)
      /\ Len(PagMem(p)) \in Nat /\ Posiciones(p) = 1 .. Len(PagMem(p))
  BY Filas DEF IInv, Tipos, LlegadaInv
<1>2. procesos \in Seq(FilaProceso) /\ tabla_2_l \in Seq(EntradaTabla)
  BY DEF IInv, Tipos, TipoTablas, FilaProceso
<1>3. 1 \in Posiciones(p)  BY <1>1
<1>4. n0 \in EntradasDe(p) /\ Presente(n0) /\ n0 \in Nat /\ n0 + 1 \in DOMAIN tabla_2_l
      /\ tabla_2_l[n0 + 1] \in EntradaTabla /\ n0 \in Listadas(p)
  BY <1>3, EntradaListada DEF Listadas
<1>5. PICK ys \in Seq(Nat) : /\ ys = Tail(PagMem(p)) /\ Len(ys) = Len(PagMem(p)) - 1
                             /\ \A i \in 1 .. Len(ys) : ys[i] = PagMem(p)[i + 1]
  <2>1. PICK xs \in Seq(Nat) : xs = PagMem(p)  BY <1>1
  <2>2. xs # <<>>  BY <2>1
  <2>3. /\ Tail(xs) \in Seq(Nat) /\ Len(Tail(xs)) = Len(xs) - 1
        /\ \A i \in 1 .. Len(Tail(xs)) : Tail(xs)[i] = xs[i + 1]
    BY ONLY <2>2, HeadTailProperties
  <2>. QED  BY ONLY <2>1, <2>3
<1>6. /\ procesos' \in Seq(FilaProceso) /\ Len(procesos') = Len(procesos)
      /\ procesos'[p + 1].pagMem = ys
      /\ \A i \in DOMAIN procesos : i # p + 1 => procesos'[i] = procesos[i]
  <2>1. procesos' = [procesos EXCEPT ![p + 1].pagMem = ys]  BY <1>5
  <2>2. PICK i : i = p + 1  OBVIOUS
  <2>3. i \in DOMAIN procesos /\ procesos' = [procesos EXCEPT ![i].pagMem = ys]
    BY <1>1, <2>1, <2>2
  <2>4. PICK r0 \in FilaProceso : r0 = procesos[i]  BY <1>1, <2>2
  <2>5. PICK r \in FilaProceso : r = [r0 EXCEPT !.pagMem = ys] /\ r.pagMem = ys
    <3>1. ys \in Seq(Nat)  OBVIOUS
    <3>2. r0 \in FilaProceso  OBVIOUS
    <3>3. [r0 EXCEPT !.pagMem = ys] \in FilaProceso /\ [r0 EXCEPT !.pagMem = ys].pagMem = ys
      BY ONLY <3>1, <3>2 DEF FilaProceso
    <3>. QED  BY ONLY <3>3
  <2>6. procesos' = [procesos EXCEPT ![i] = r]  BY ONLY <2>3, <2>4, <2>5
  <2>7. i \in 1 .. Len(procesos) /\ DOMAIN procesos = 1 .. Len(procesos)
    BY ONLY <1>2, <2>3
  <2>8. r \in FilaProceso  OBVIOUS
  <2>9. procesos' \in Seq(FilaProceso) /\ Len(procesos') = Len(procesos)
        /\ \A j \in 1 .. Len(procesos) : procesos'[j] = IF j = i THEN r ELSE procesos[j]
    BY ONLY <1>2, <2>6, <2>7, <2>8, ExceptSeq
  <2>. QED  BY ONLY <2>2, <2>5, <2>7, <2>9
<1>7. /\ tabla_2_l' \in Seq(EntradaTabla) /\ Len(tabla_2_l') = Len(tabla_2_l)
      /\ tabla_2_l'[n0 + 1].bPres = 0 /\ tabla_2_l'[n0 + 1].frame = tabla_2_l[n0 + 1].frame
      /\ \A i \in DOMAIN tabla_2_l : i # n0 + 1 => tabla_2_l'[i] = tabla_2_l[i]
  <2>1. PICK i : i = n0 + 1  OBVIOUS
  <2>2. tabla_2_l' = [tabla_2_l EXCEPT ![i].bPres = 0]  BY <2>1
  <2>3. PICK e0 \in EntradaTabla : e0 = tabla_2_l[i]  BY <1>4, <2>1
  <2>4. PICK e \in EntradaTabla : e = [e0 EXCEPT !.bPres = 0] /\ e.bPres = 0 /\ e.frame = e0.frame
    <3>1. e0 \in EntradaTabla  OBVIOUS
    <3>2. [e0 EXCEPT !.bPres = 0] \in EntradaTabla /\ [e0 EXCEPT !.bPres = 0].bPres = 0
          /\ [e0 EXCEPT !.bPres = 0].frame = e0.frame
      BY ONLY <3>1 DEF EntradaTabla
    <3>. QED  BY ONLY <3>2
  <2>5. tabla_2_l' = [tabla_2_l EXCEPT ![i] = e]  BY ONLY <2>2, <2>3, <2>4
  <2>6. i \in 1 .. Len(tabla_2_l) /\ DOMAIN tabla_2_l = 1 .. Len(tabla_2_l)
    BY <1>2, <1>4, <2>1
  <2>7. e \in EntradaTabla  OBVIOUS
  <2>8. tabla_2_l' \in Seq(EntradaTabla) /\ Len(tabla_2_l') = Len(tabla_2_l)
        /\ \A j \in 1 .. Len(tabla_2_l) : tabla_2_l'[j] = IF j = i THEN e ELSE tabla_2_l[j]
    BY ONLY <1>2, <2>5, <2>6, <2>7, ExceptSeq
  <2>. QED  BY ONLY <2>1, <2>3, <2>4, <2>6, <2>8
<1>8. TipoTablas'
  BY <1>6, <1>7 DEF IInv, Tipos, TipoTablas, FilaProceso
<1>9. Iniciados' = Iniciados /\ \A q : TablasDe(q)' = TablasDe(q)
  BY <1>6 DEF Iniciados, TablasDe
<1>10. \A q : EntradasDe(q)' = EntradasDe(q)
  BY <1>7, <1>9 DEF EntradasDe
<1>11. TablasInv'
  BY <1>6, <1>7, <1>9 DEF IInv, TablasInv
<1>12. \A n \in 0 .. Len(tabla_2_l) - 1 :
          (Presente(n)' <=> Presente(n) /\ n # n0) /\ MarcoDe(n)' = MarcoDe(n)
  <2>1. SUFFICES ASSUME NEW n \in 0 .. Len(tabla_2_l) - 1
        PROVE  (Presente(n)' <=> Presente(n) /\ n # n0) /\ MarcoDe(n)' = MarcoDe(n)
    OBVIOUS
  <2>2. n \in Nat /\ n + 1 \in DOMAIN tabla_2_l /\ (n # n0 => n + 1 # n0 + 1)
    BY <1>2, <1>4
  <2>3. CASE n = n0  BY <1>7, <2>3 DEF Presente, MarcoDe
  <2>4. CASE n # n0  BY <1>7, <2>2, <2>4 DEF Presente, MarcoDe
  <2>. QED  BY <2>3, <2>4
<1>13. \A q \in Iniciados \ {p} :
          /\ PagMem(q)' = PagMem(q) /\ Posiciones(q)' = Posiciones(q)
          /\ \A k : EntradaDePag(q, k)' = EntradaDePag(q, k)
          /\ Listadas(q)' = Listadas(q)
  <2>1. \A q \in Iniciados \ {p} : q + 1 \in DOMAIN procesos /\ q + 1 # p + 1
    <3>1. p \in Nat /\ procesos \in Seq(FilaProceso)  BY <1>1, <1>2
    <3>. QED  BY ONLY <3>1 DEF Iniciados
  <2>2. \A q \in Iniciados \ {p} : PagMem(q)' = PagMem(q)
    BY <1>6, <2>1 DEF PagMem, Get
  <2>. QED  BY <2>2 DEF Posiciones, EntradaDePag, Listadas
<1>14. PagMem(p)' = ys  BY <1>6 DEF PagMem, Get
<1>15. \A k \in Posiciones(p)' : /\ k + 1 \in Posiciones(p) /\ k + 1 # 1 /\ k \in Nat
                                 /\ PagMem(p)'[k] = PagMem(p)[k + 1]
                                 /\ EntradaDePag(p, k)' = EntradaDePag(p, k + 1)
  <2>1. Posiciones(p)' = 1 .. Len(ys)  BY <1>14 DEF Posiciones
  <2>2. \A k \in 1 .. Len(ys) : k + 1 \in Posiciones(p) /\ k + 1 # 1 /\ k \in Nat
    BY <1>1, <1>5
  <2>3. \A k \in Posiciones(p)' : PagMem(p)'[k] = PagMem(p)[k + 1]
    BY <1>5, <1>14, <2>1
  <2>. QED  BY <2>1, <2>2, <2>3 DEF EntradaDePag
<1>16. Listadas(p)' = Listadas(p) \ {n0}
  <2>1. ASSUME NEW n \in Listadas(p)' PROVE n \in Listadas(p) \ {n0}
    <3>1. PICK k \in Posiciones(p)' : n = EntradaDePag(p, k)'  BY <2>1 DEF Listadas
    <3>2. PICK j : j = k + 1  OBVIOUS
    <3>3. j \in Posiciones(p) /\ j # 1 /\ n = EntradaDePag(p, j)
      BY <1>15, <3>1, <3>2
    <3>4. EntradaDePag(p, j) # EntradaDePag(p, 1)
      BY <1>3, <3>3 DEF IInv, PaginasInv
    <3>. QED  BY <3>3, <3>4 DEF Listadas
  <2>2. ASSUME NEW n \in Listadas(p) \ {n0} PROVE n \in Listadas(p)'
    <3>1. PICK j \in Posiciones(p) : n = EntradaDePag(p, j) /\ j # 1  BY <2>2 DEF Listadas
    <3>2. PICK k : k = j - 1  OBVIOUS
    <3>3. k \in 1 .. Len(ys) /\ k + 1 = j  BY <1>1, <1>5, <3>1, <3>2
    <3>4. k \in Posiciones(p)'  BY <1>14, <3>3 DEF Posiciones
    <3>5. EntradaDePag(p, k)' = n  BY <1>15, <3>1, <3>3, <3>4
    <3>. QED  BY <3>4, <3>5 DEF Listadas
  <2>. QED  BY <2>1, <2>2
<1>17. Len(PagMem(p)') = Len(PagMem(p)) - 1  BY <1>5, <1>14
<1>. QED  BY <1>1, <1>4, <1>6, <1>7, <1>8, <1>9, <1>10, <1>11, <1>12, <1>13, <1>15, <1>16, <1>17

\* A suspension takes the first page from pagMem, and its frame is about to be freed.
LEMMA PasoLiberarPagina ==
    ASSUME IInv, LiberarPagina
    PROVE  IInv'
<1>1. PICK p : p = kernel.pid  OBVIOUS
<1>2. PICK n0 : n0 = EntradaDePag(p, 1)  OBVIOUS
<1>3. /\ kernel.pc = "liberar" /\ PagMem(p) # <<>>
      /\ p \in Iniciados /\ ~ Finalizado(p)
  BY <1>1, ProcesoQueSeSuspende DEF LiberarPagina
<1>4. /\ p \in Nat /\ PagMem(p) \in Seq(Nat)
      /\ Len(PagMem(p)) \in Nat /\ Posiciones(p) = 1 .. Len(PagMem(p))
  BY <1>3, Filas DEF IInv, Tipos, LlegadaInv
<1>5. Head(PagMem(p)) = PagMem(p)[1] /\ 1 \in Posiciones(p)  BY <1>3, <1>4
<1>6. paginas[Head(PagMem(p))].entrada = n0 /\ MarcoDe(n0) \in Frame \union {NADIE}
  BY <1>2, <1>3, <1>5, EntradaListada DEF EntradaDePag
<1>7. /\ procesos' = [procesos EXCEPT ![p + 1].pagMem = Tail(PagMem(p))]
      /\ tabla_2_l' = [tabla_2_l EXCEPT ![n0 + 1].bPres = 0]
      /\ kernel' = [kernel EXCEPT !.pc = "limpiar", !.frame = MarcoDe(n0),
                                  !.byte = bitMem \intersect Byte(MarcoDe(n0))]
      /\ UNCHANGED <<tabla_1_l, paginas, bitMem>> /\ UNCHANGED <<socket_kernel, estado>>
      /\ cpu' = cpu /\ carrera' = carrera
  BY <1>1, <1>6 DEF LiberarPagina, MarcoDe, Get, ambiente, historia
<1>8. /\ kernel'.pc = "limpiar" /\ kernel'.pid = p /\ kernel'.frame = MarcoDe(n0)
      /\ TipoHilos'
  <2>1. PICK bs \in SUBSET Frame : bs = bitMem \intersect Byte(MarcoDe(n0))
    BY DEF IInv, Tipos, TipoTablas
  <2>2. kernel' = [kernel EXCEPT !.pc = "limpiar", !.frame = MarcoDe(n0), !.byte = bs]
    BY <1>7, <2>1
  <2>. QED  BY <1>1, <1>6, <1>7, <2>2 DEF IInv, Tipos, TipoHilos, TipoCpu
<1>9. /\ TipoTablas' /\ TablasInv' /\ Iniciados' = Iniciados
      /\ Len(procesos') = Len(procesos)
      /\ Len(tabla_2_l') = Len(tabla_2_l)
      /\ \A q : TablasDe(q)' = TablasDe(q) /\ EntradasDe(q)' = EntradasDe(q)
      /\ n0 \in EntradasDe(p) /\ Presente(n0) /\ n0 \in Listadas(p)
      /\ \A n \in 0 .. Len(tabla_2_l) - 1 :
            (Presente(n)' <=> Presente(n) /\ n # n0) /\ MarcoDe(n)' = MarcoDe(n)
      /\ \A q \in Iniciados \ {p} :
            /\ PagMem(q)' = PagMem(q) /\ Posiciones(q)' = Posiciones(q)
            /\ \A k : EntradaDePag(q, k)' = EntradaDePag(q, k)
            /\ Listadas(q)' = Listadas(q)
      /\ Len(PagMem(p)') = Len(PagMem(p)) - 1
      /\ \A k \in Posiciones(p)' : /\ k + 1 \in Posiciones(p) /\ k + 1 # 1 /\ k \in Nat
                                   /\ PagMem(p)'[k] = PagMem(p)[k + 1]
                                   /\ EntradaDePag(p, k)' = EntradaDePag(p, k + 1)
      /\ Listadas(p)' = Listadas(p) \ {n0}
  BY <1>2, <1>3, <1>7, SinLaPrimera
<1>10. LlegadaInv' /\ InicioInv' /\ FinInv'
  BY <1>1, <1>3, <1>7, <1>8, <1>9, MismoPedido
<1>11. BorradoInv'  BY <1>8 DEF BorradoInv
<1>12. \A q \in Iniciados : \A n \in EntradasDe(q) :
          n \in 0 .. Len(tabla_2_l) - 1 /\ (q # p => n # n0)
  BY <1>3, <1>9, EntradasPropias DEF EntradasDe
<1>13. \A n : Llega(n) => n # n0
  BY <1>9, <1>12, PaginaQueLlega
<1>14. CpuInv'
  <2>1. PICK q : q = cpu.pid  OBVIOUS
  <2>2. PICK n : n = cpu.numero  OBVIOUS
  <2>3. cpu.pc \notin {"libre", "marca"} => q \in Iniciados
    BY <2>1 DEF IInv, CpuInv, LlegadaInv, SinIniciar, Ejecuta
  <2>4. cpu.pc = "entrada2" => (cpu.tabla2 \in TablasDe(cpu.pid))'
    <3>1. cpu.pc = "entrada2" => cpu.tabla2 \in TablasDe(q)'
      BY <1>9, <2>1 DEF IInv, CpuInv
    <3>. QED  BY <1>7, <2>1, <3>1 DEF TablasDe
  <2>5. cpu.pc \in {"tomar", "traer"} => n \in EntradasDe(q) /\ q \in Iniciados
    BY <2>1, <2>2, <2>3 DEF IInv, CpuInv
  <2>6. cpu.pc \in {"tomar", "traer"} => (cpu.numero \in EntradasDe(cpu.pid))'
    <3>1. cpu.pc \in {"tomar", "traer"} => n \in EntradasDe(q)'  BY <1>9, <2>5
    <3>. QED  BY <1>7, <2>1, <2>2, <3>1 DEF EntradasDe, TablasDe
  <2>7. cpu.pc = "tomar" => (~ Presente(cpu.numero) /\ cpu.marco \in Frame)'
    <3>1. cpu.pc = "tomar" => ~ Presente(n)' /\ cpu.marco \in Frame
      BY <1>9, <1>12, <2>2, <2>5 DEF IInv, CpuInv
    <3>. QED  BY <1>7, <2>2, <3>1 DEF Presente
  <2>8. cpu.nueva # NADIE => (/\ cpu.pc = "traer"
                              /\ cpu.nueva \in DOMAIN paginas
                              /\ paginas[cpu.nueva].entrada = cpu.numero
                              /\ Presente(cpu.numero)
                              /\ cpu.numero \notin Listadas(cpu.pid))'
    <3>1. SUFFICES ASSUME cpu.nueva # NADIE
          PROVE  (/\ cpu.pc = "traer"
                  /\ cpu.nueva \in DOMAIN paginas
                  /\ paginas[cpu.nueva].entrada = cpu.numero
                  /\ Presente(cpu.numero)
                  /\ cpu.numero \notin Listadas(cpu.pid))'
      BY <1>7
    <3>2. cpu.pc = "traer" /\ cpu.nueva \in DOMAIN paginas
          /\ paginas[cpu.nueva].entrada = n /\ Presente(n) /\ n \notin Listadas(q)
      BY <2>1, <2>2, <3>1 DEF IInv, CpuInv
    <3>3. n # n0  BY <1>13, <2>2, <3>1 DEF Llega
    <3>4. Presente(n)' /\ n \notin Listadas(q)'
      BY <1>9, <1>12, <2>5, <3>2, <3>3
    <3>5. Presente(cpu.numero)'  BY <1>7, <2>2, <3>4 DEF Presente
    <3>6. (cpu.numero \notin Listadas(cpu.pid))'
      BY <1>7, <2>1, <2>2, <3>4 DEF Listadas, Posiciones, EntradaDePag, PagMem, Get
    <3>. QED  BY <1>7, <2>2, <3>2, <3>5, <3>6
  <2>. QED  BY <1>7, <2>4, <2>6, <2>7, <2>8 DEF IInv, CpuInv, Ejecuta
<1>15. PaginasInv'
  <2>1. \A n : Llega(n)' <=> Llega(n)  BY <1>7 DEF Llega
  <2>2. \A q : Creciendo(q)' <=> Creciendo(q)  BY <1>7 DEF Creciendo
  <2>3. SUFFICES ASSUME NEW q \in Iniciados
        PROVE  /\ \A k \in Posiciones(q)' :
                     /\ PagMem(q)'[k] \in DOMAIN paginas
                     /\ EntradaDePag(q, k)' \in EntradasDe(q)
                     /\ Presente(EntradaDePag(q, k))'
               /\ \A j, k \in Posiciones(q)' :
                     EntradaDePag(q, j)' = EntradaDePag(q, k)' => j = k
               /\ \A n \in EntradasDe(q) : Presente(n)' => n \in Listadas(q)' \/ Llega(n)
               /\ Len(PagMem(q)') + (IF Creciendo(q) THEN 1 ELSE 0) <= MARCOS_POR_PROCESO
    BY <1>7, <1>9, <2>1, <2>2 DEF PaginasInv
  <2>4. CASE q # p
    <3>1. ASSUME NEW k \in Posiciones(q) PROVE Presente(EntradaDePag(q, k))'
      <4>1. PICK n : n = EntradaDePag(q, k)  OBVIOUS
      <4>2. n \in EntradasDe(q) /\ Presente(n)  BY <3>1, <4>1 DEF IInv, PaginasInv
      <4>3. Presente(n)'  BY <1>9, <1>12, <2>4, <4>2
      <4>4. EntradaDePag(q, k)' = n  BY <1>9, <2>4, <4>1
      <4>. QED  BY <4>3, <4>4 DEF Presente
    <3>2. \A n \in EntradasDe(q) : Presente(n)' <=> Presente(n)  BY <1>9, <1>12, <2>4
    <3>. QED  BY <1>9, <2>4, <3>1, <3>2 DEF IInv, PaginasInv
  <2>5. CASE q = p
    <3>1. ASSUME NEW k \in Posiciones(p)'
          PROVE  /\ PagMem(p)'[k] \in DOMAIN paginas
                 /\ EntradaDePag(p, k)' \in EntradasDe(p)
                 /\ Presente(EntradaDePag(p, k))'
      <4>1. PICK j : j = k + 1  OBVIOUS
      <4>2. j \in Posiciones(p) /\ j # 1 /\ PagMem(p)'[k] = PagMem(p)[j]
            /\ EntradaDePag(p, k)' = EntradaDePag(p, j)
        BY <1>9, <3>1, <4>1
      <4>3. PICK n : n = EntradaDePag(p, j)  OBVIOUS
      <4>4. PagMem(p)[j] \in DOMAIN paginas /\ n \in EntradasDe(p) /\ Presente(n) /\ n # n0
        BY <1>2, <1>3, <1>5, <4>2, <4>3 DEF IInv, PaginasInv
      <4>5. Presente(n)'  BY <1>3, <1>9, <1>12, <4>4
      <4>6. EntradaDePag(p, k)' = n  BY <4>2, <4>3
      <4>. QED  BY <4>2, <4>4, <4>5, <4>6 DEF Presente
    <3>2. \A j, k \in Posiciones(p)' : EntradaDePag(p, j)' = EntradaDePag(p, k)' => j = k
      <4>1. SUFFICES ASSUME NEW j \in Posiciones(p)', NEW k \in Posiciones(p)',
                            EntradaDePag(p, j)' = EntradaDePag(p, k)'
            PROVE  j = k
        OBVIOUS
      <4>2. j + 1 \in Posiciones(p) /\ k + 1 \in Posiciones(p) /\ j \in Nat /\ k \in Nat
            /\ EntradaDePag(p, j + 1) = EntradaDePag(p, k + 1)
        BY <1>9, <4>1
      <4>3. j + 1 = k + 1  BY <1>3, <4>2 DEF IInv, PaginasInv
      <4>. QED  BY <4>2, <4>3
    <3>3. \A n \in EntradasDe(p) : Presente(n)' => n \in Listadas(p)' \/ Llega(n)
      BY <1>3, <1>9, <1>12 DEF IInv, PaginasInv
    <3>4. Len(PagMem(p)) + (IF Creciendo(p) THEN 1 ELSE 0) <= MARCOS_POR_PROCESO
      BY <1>3 DEF IInv, PaginasInv
    <3>5. Len(PagMem(p)') + (IF Creciendo(p) THEN 1 ELSE 0) <= MARCOS_POR_PROCESO
      BY <1>4, <1>9, <3>4, MarcosAssumption
    <3>. QED  BY <2>5, <3>1, <3>2, <3>3, <3>5
  <2>. QED  BY <2>4, <2>5
<1>16. MarcosInv => MarcosInv'
  <2>1. \A q : ~ Borrando(q) /\ ~ Borrando(q)'  BY <1>3, <1>8 DEF Borrando
  <2>2. \A q : Finalizado(q)' <=> Finalizado(q)
    BY <1>7, <2>1 DEF Finalizado, EnEspera
  <2>3. \A q, n : (Devuelta(q, n)' <=> Devuelta(q, n)) /\ (Devuelta(q, n) <=> Finalizado(q))
    BY <2>1, <2>2 DEF Devuelta
  <2>4. \A q \in Iniciados : \A n : Ocupa(q, n)' <=> Ocupa(q, n) /\ n # n0
    BY <1>9, <1>12, <2>3 DEF Ocupa
  <2>5. Ocupadas' = Ocupadas \ {n0}  BY <1>9, <2>4 DEF Ocupadas
  <2>6. n0 \in Ocupadas
    BY <1>3, <1>9, <1>12, <2>3 DEF Ocupadas, Ocupa
  <2>7. \A n \in Ocupadas : MarcoDe(n)' = MarcoDe(n)  BY <1>9 DEF Ocupadas
  <2>8. EnLimpieza = {} /\ EnLimpieza' = {MarcoDe(n0)}  BY <1>3, <1>8 DEF EnLimpieza
  <2>9. SUFFICES ASSUME MarcosInv PROVE MarcosInv'  OBVIOUS
  <2>10. /\ \A n \in Ocupadas : MarcoDe(n) \in Frame
         /\ \A n, m \in Ocupadas : MarcoDe(n) = MarcoDe(m) => n = m
         /\ bitMem = {MarcoDe(n) : n \in Ocupadas}
         /\ cpu.pc = "tomar" => cpu.marco \in Frame \ bitMem
    BY <2>8, <2>9 DEF MarcosInv
  <2>11. {MarcoDe(n)' : n \in Ocupadas'} = {MarcoDe(n) : n \in Ocupadas \ {n0}}
    BY <2>5, <2>7
  <2>. QED  BY <1>7, <2>5, <2>6, <2>7, <2>8, <2>10, <2>11 DEF MarcosInv
<1>. QED  BY <1>7, <1>8, <1>9, <1>10, <1>11, <1>14, <1>15, <1>16 DEF IInv, Tipos

-----------------------------------------------------------------------------
(* A page fault with a free frame.                                          *)

\* A byte that is written back as it was read, with one bit more.
LEMMA BitPuesto ==
    ASSUME NEW f, NEW byte, bitMem \subseteq Frame, ~ Vieja(byte, f)
    PROVE  ConBit(byte, f) = bitMem \union {f}
<1>1. byte = bitMem \cap Byte(f)  BY DEF Vieja
<1>. QED  BY <1>1 DEF ConBit

\* The Kernel and funciones_kernel do nothing, and no process is added.
LEMMA HilosQuietos ==
    ASSUME IInv, UNCHANGED <<socket_kernel, kernel, estado>>,
           UNCHANGED tabla_1_l, Len(procesos') = Len(procesos)
    PROVE  /\ LlegadaInv' /\ InicioInv' /\ FinInv' /\ Iniciados' = Iniciados
           /\ \A q : (Finalizado(q)' <=> Finalizado(q)) /\ (Borrando(q)' <=> Borrando(q))
           /\ EnLimpieza' = EnLimpieza
<1>0. kernel' = kernel /\ estado' = estado /\ socket_kernel' = socket_kernel
      /\ tabla_1_l' = tabla_1_l /\ Iniciados' = Iniciados
  BY DEF Iniciados
<1>1. \A op, p : EnEspera(op, p)' <=> EnEspera(op, p)  BY <1>0 DEF EnEspera
<1>2. \A p : Borrando(p)' <=> Borrando(p)  BY <1>0 DEF Borrando
<1>3. \A p : Finalizado(p)' <=> Finalizado(p)  BY <1>0, <1>1, <1>2 DEF Finalizado
<1>4. EnLimpieza' = EnLimpieza  BY <1>0 DEF EnLimpieza
<1>5. LlegadaInv'
  BY <1>0 DEF IInv, LlegadaInv, SinIniciar, Creando
<1>6. InicioInv'  BY <1>0 DEF IInv, InicioInv
<1>7. FinInv'
  BY <1>0, <1>1 DEF IInv, FinInv, FinMensajes, FinSuspension, FinBorrado, SinIniciar
<1>. QED  BY <1>0, <1>2, <1>3, <1>4, <1>5, <1>6, <1>7

\* A sequence of records with fields of one of them changed.
LEMMA FilaCambiada ==
    ASSUME NEW S, NEW s \in Seq(S), NEW i \in DOMAIN s, NEW r \in S, NEW t,
           t = [s EXCEPT ![i] = r]
    PROVE  /\ t \in Seq(S) /\ Len(t) = Len(s) /\ DOMAIN t = DOMAIN s
           /\ t[i] = r /\ \A j \in DOMAIN s : j # i => t[j] = s[j]
<1>1. DOMAIN s = 1 .. Len(s) /\ i \in 1 .. Len(s)  OBVIOUS
<1>. QED  BY <1>1, ExceptSeq

\* The clock of p has moved, and its pages are where they were.
LEMMA RelojMovido ==
    ASSUME TipoTablas, Len(tabla_1_l) = Len(procesos), NEW p \in Iniciados,
           NEW c \in Nat, NEW d \in Nat,
           procesos' = [procesos EXCEPT ![p + 1].contador = c, ![p + 1].puntero = d]
    PROVE  /\ procesos' \in Seq(FilaProceso) /\ Len(procesos') = Len(procesos)
           /\ \A q \in Iniciados : PagMem(q)' = PagMem(q)
<1>1. p \in Nat /\ p + 1 \in DOMAIN procesos /\ procesos[p + 1] \in FilaProceso
      /\ procesos \in Seq(FilaProceso)
  BY Filas DEF TipoTablas, FilaProceso
<1>2. PICK r0 \in FilaProceso : r0 = procesos[p + 1]  BY <1>1
<1>3. PICK i \in DOMAIN procesos : i = p + 1  BY <1>1
<1>. DEFINE r == [r0 EXCEPT !.contador = c, !.puntero = d]
<1>4. r \in FilaProceso /\ r.pagMem = r0.pagMem
  <2>1. r0 \in FilaProceso /\ c \in Nat /\ d \in Nat  OBVIOUS
  <2>. QED  BY ONLY <2>1 DEF FilaProceso
<1>5. procesos' = [procesos EXCEPT ![i] = r]
  <2>1. procesos' = [procesos EXCEPT ![i].contador = c, ![i].puntero = d]  BY <1>3
  <2>2. i \in DOMAIN procesos  OBVIOUS
  <2>3. r0 = procesos[i]  BY <1>2, <1>3
  <2>. QED  BY ONLY <1>1, <2>1, <2>2, <2>3
<1>. HIDE DEF r
<1>6. /\ procesos' \in Seq(FilaProceso) /\ Len(procesos') = Len(procesos)
      /\ procesos'[i] = r /\ \A j \in DOMAIN procesos : j # i => procesos'[j] = procesos[j]
  <2>1. i \in DOMAIN procesos  OBVIOUS
  <2>. QED  BY ONLY <1>1, <1>4, <1>5, <2>1, FilaCambiada
<1>7. \A q \in Iniciados : procesos'[q + 1].pagMem = procesos[q + 1].pagMem
  <2>1. \A q \in Iniciados : q + 1 \in DOMAIN procesos  BY <1>1 DEF Iniciados
  <2>. QED  BY <1>2, <1>3, <1>4, <1>6, <2>1
<1>. QED  BY <1>6, <1>7 DEF PagMem, Get

\* bitarray_set_bit: the frame that was free is that of the new page.
LEMMA PasoTomarFrame ==
    ASSUME IInv, TomarFrame
    PROVE  IInv'
<1>1. PICK p : p = cpu.pid  OBVIOUS
<1>2. PICK nu : nu = cpu.numero  OBVIOUS
<1>3. PICK f : f = cpu.marco  OBVIOUS
<1>4. /\ cpu.pc = "tomar" /\ cpu.pid_ = p /\ p \in Proceso /\ estado[p] = "exec"
      /\ nu \in EntradasDe(p) /\ ~ Presente(nu) /\ f \in Frame
      /\ cpu.nueva = NADIE
  BY <1>1, <1>2, <1>3 DEF TomarFrame, IInv, CpuInv, Ejecuta
<1>5. p \in Iniciados  BY <1>4 DEF IInv, LlegadaInv, SinIniciar
<1>6. /\ p \in Nat /\ p + 1 \in DOMAIN procesos
      /\ procesos[p + 1] \in FilaProceso
      /\ PagMem(p) = procesos[p + 1].pagMem
      /\ Len(PagMem(p)) \in Nat
  BY <1>5, Filas DEF IInv, Tipos, LlegadaInv
<1>7. /\ paginas \in Seq([numero : Nat, entrada : Nat]) /\ tabla_2_l \in Seq(EntradaTabla)
      /\ bitMem \subseteq Frame /\ cpu.byte \subseteq Frame
  BY DEF IInv, Tipos, TipoTablas, TipoHilos, TipoCpu
<1>8. nu \in Nat /\ nu + 1 \in DOMAIN tabla_2_l /\ nu \in 0 .. Len(tabla_2_l) - 1
  <2>1. nu \in 0 .. Len(tabla_2_l) - 1  BY <1>4 DEF EntradasDe
  <2>2. DOMAIN tabla_2_l = 1 .. Len(tabla_2_l) /\ Len(tabla_2_l) \in Nat  BY <1>7
  <2>. QED  BY ONLY <2>1, <2>2
<1>9. PICK c \in Nat, d \in Nat :
         procesos' = [procesos EXCEPT ![p + 1].contador = c, ![p + 1].puntero = d]
  <2>1. PICK c \in Nat : c = procesos[p + 1].contador + 1
    BY <1>6 DEF FilaProceso
  <2>2. PICK l \in Nat \ {0} : l = Len(PagMem(p)) + 1  BY <1>6
  <2>3. c % l \in Nat  BY Resto
  <2>4. PICK d \in Nat : d = IF c >= MARCOS_POR_PROCESO THEN c % l ELSE c
    BY <2>3
  <2>5. procesos' = [procesos EXCEPT ![p + 1].contador = c, ![p + 1].puntero = d]
    BY <1>4, <1>6, <2>1, <2>2, <2>4 DEF TomarFrame, Proceso_, Get
  <2>. QED  BY <2>5
<1>10. /\ tabla_2_l' = [tabla_2_l EXCEPT ![nu + 1] =
                           [frame |-> f, bUso |-> 1, bMod |-> 0, bPres |-> 1]]
       /\ paginas' = Append(paginas, [numero |-> nu, entrada |-> nu])
       /\ bitMem' = ConBit(cpu.byte, f)
       /\ carrera' = (carrera \/ Vieja(cpu.byte, f))
       /\ cpu' = [cpu EXCEPT !.pc = "traer", !.byte = {}, !.nueva = Len(paginas')]
       /\ UNCHANGED <<socket_kernel, kernel, estado>> /\ UNCHANGED tabla_1_l
  BY <1>2, <1>3 DEF TomarFrame, ambiente
<1>11. /\ procesos' \in Seq(FilaProceso) /\ Len(procesos') = Len(procesos)
       /\ \A q \in Iniciados : PagMem(q)' = PagMem(q)
  BY <1>5, <1>9, RelojMovido DEF IInv, Tipos, LlegadaInv
<1>12. /\ tabla_2_l' \in Seq(EntradaTabla) /\ Len(tabla_2_l') = Len(tabla_2_l)
       /\ tabla_2_l'[nu + 1].bPres = 1 /\ tabla_2_l'[nu + 1].frame = f
       /\ \A i \in DOMAIN tabla_2_l : i # nu + 1 => tabla_2_l'[i] = tabla_2_l[i]
  <2>1. PICK e \in EntradaTabla : e = [frame |-> f, bUso |-> 1, bMod |-> 0, bPres |-> 1]
                                  /\ e.bPres = 1 /\ e.frame = f
    <3>1. [frame |-> f, bUso |-> 1, bMod |-> 0, bPres |-> 1] \in EntradaTabla
      BY <1>4 DEF EntradaTabla
    <3>. QED  BY ONLY <3>1
  <2>2. tabla_2_l' = [tabla_2_l EXCEPT ![nu + 1] = e]  BY <1>10, <2>1
  <2>. QED  BY <1>7, <1>8, <2>1, <2>2, FilaCambiada
<1>13. PICK w \in Nat : w = Len(paginas) + 1  BY <1>7
<1>14. /\ paginas' \in Seq([numero : Nat, entrada : Nat])
       /\ Len(paginas') = w /\ w \in DOMAIN paginas' /\ paginas'[w].entrada = nu
       /\ \A x \in DOMAIN paginas : x \in DOMAIN paginas' /\ paginas'[x] = paginas[x]
  <2>1. PICK r \in [numero : Nat, entrada : Nat] :
            r = [numero |-> nu, entrada |-> nu] /\ r.entrada = nu
    <3>1. [numero |-> nu, entrada |-> nu] \in [numero : Nat, entrada : Nat]  BY <1>8
    <3>. QED  BY ONLY <3>1
  <2>2. paginas' = Append(paginas, r)  BY <1>10, <2>1
  <2>3. /\ paginas' \in Seq([numero : Nat, entrada : Nat]) /\ Len(paginas') = w
        /\ \A x \in 1 .. Len(paginas) : paginas'[x] = paginas[x]
        /\ paginas'[w] = r
    BY <1>7, <1>13, <2>2, AppendProperties
  <2>4. DOMAIN paginas = 1 .. Len(paginas) /\ DOMAIN paginas' = 1 .. w
    BY <1>7, <2>3
  <2>. QED  BY <1>7, <1>13, <2>1, <2>3, <2>4
<1>15. bitMem' \subseteq Frame
  BY <1>4, <1>7, <1>10 DEF ConBit
<1>16. TipoTablas'
  BY <1>10, <1>11, <1>12, <1>14, <1>15 DEF IInv, Tipos, TipoTablas, FilaProceso
<1>17. /\ cpu'.pc = "traer" /\ cpu'.pid = p /\ cpu'.pid_ = p /\ cpu'.numero = nu
       /\ cpu'.nueva = w /\ cpu'.nueva # NADIE
       /\ TipoHilos'
  <2>1. TipoCpu  BY DEF IInv, Tipos, TipoHilos
  <2>2. cpu' = [cpu EXCEPT !.pc = "traer", !.byte = {}, !.nueva = w]
    BY <1>10, <1>14
  <2>3. /\ cpu'.pc = "traer" /\ cpu'.pid = p /\ cpu'.pid_ = p /\ cpu'.numero = nu
        /\ cpu'.nueva = w /\ TipoCpu'
    <3>1. w \in Nat  OBVIOUS
    <3>2. /\ cpu'.pc = "traer" /\ cpu'.pid = cpu.pid /\ cpu'.pid_ = cpu.pid_
          /\ cpu'.numero = cpu.numero /\ cpu'.nueva = w /\ TipoCpu'
      BY ONLY <2>1, <2>2, <3>1 DEF TipoCpu
    <3>. QED  BY <1>1, <1>2, <1>4, <3>2
  <2>4. carrera' \in BOOLEAN
    <3>1. carrera \in BOOLEAN  BY DEF IInv, Tipos, TipoHilos
    <3>. QED  BY <1>10, <3>1 DEF Vieja
  <2>5. w # NADIE  BY DEF NADIE
  <2>. QED  BY <1>10, <2>3, <2>4, <2>5 DEF IInv, Tipos, TipoHilos
<1>18. /\ LlegadaInv' /\ InicioInv' /\ FinInv' /\ Iniciados' = Iniciados
       /\ \A q : (Finalizado(q)' <=> Finalizado(q)) /\ (Borrando(q)' <=> Borrando(q))
       /\ EnLimpieza' = EnLimpieza
  BY <1>10, <1>11, HilosQuietos
<1>19. \A q : TablasDe(q)' = TablasDe(q) /\ EntradasDe(q)' = EntradasDe(q)
  <2>1. \A q : TablasDe(q)' = TablasDe(q)  BY <1>10 DEF TablasDe
  <2>. QED  BY <1>12, <2>1 DEF EntradasDe
<1>20. TablasInv'
  BY <1>10, <1>11, <1>12, <1>18, <1>19 DEF IInv, TablasInv
<1>21. \A n \in 0 .. Len(tabla_2_l) - 1 : /\ Presente(n)' <=> Presente(n) \/ n = nu
                                          /\ n # nu => MarcoDe(n)' = MarcoDe(n)
  <2>1. SUFFICES ASSUME NEW n \in 0 .. Len(tabla_2_l) - 1
        PROVE  (Presente(n)' <=> Presente(n) \/ n = nu) /\ (n # nu => MarcoDe(n)' = MarcoDe(n))
    OBVIOUS
  <2>2. n \in Nat /\ n + 1 \in DOMAIN tabla_2_l /\ (n # nu => n + 1 # nu + 1)
    BY <1>7, <1>8
  <2>3. CASE n = nu  BY <1>12, <2>3 DEF Presente
  <2>4. CASE n # nu  BY <1>12, <2>2, <2>4 DEF Presente, MarcoDe
  <2>. QED  BY <2>3, <2>4
<1>22. MarcoDe(nu)' = f  BY <1>12 DEF MarcoDe
<1>23. \A q \in Iniciados :
          /\ Posiciones(q)' = Posiciones(q)
          /\ \A k \in Posiciones(q) : EntradaDePag(q, k)' = EntradaDePag(q, k)
          /\ Listadas(q)' = Listadas(q)
  <2>1. \A q \in Iniciados : Posiciones(q)' = Posiciones(q)  BY <1>11 DEF Posiciones
  <2>2. \A q \in Iniciados : \A k \in Posiciones(q) : PagMem(q)[k] \in DOMAIN paginas
    BY DEF IInv, PaginasInv
  <2>3. \A q \in Iniciados : \A k \in Posiciones(q) : EntradaDePag(q, k)' = EntradaDePag(q, k)
    BY <1>11, <1>14, <2>2 DEF EntradaDePag
  <2>. QED  BY <2>1, <2>3 DEF Listadas
<1>24. \A q \in Iniciados : \A n \in EntradasDe(q) :
          n \in 0 .. Len(tabla_2_l) - 1 /\ (q # p => n # nu)
  BY <1>4, <1>5, EntradasPropias DEF EntradasDe
<1>25. nu \notin Listadas(p)
  BY <1>4, <1>5 DEF IInv, PaginasInv, Listadas
<1>26. CpuInv'
  <2>1. \A q \in Proceso : Ejecuta(q)' <=> Ejecuta(q)  BY <1>10 DEF Ejecuta
  <2>2. (cpu.numero \in EntradasDe(cpu.pid))'
    BY <1>4, <1>17, <1>19 DEF EntradasDe, TablasDe
  <2>3. Presente(cpu.numero)'  BY <1>8, <1>17, <1>21 DEF Presente
  <2>4. nu \notin Listadas(p)'  BY <1>5, <1>23, <1>25
  <2>5. (cpu.numero \notin Listadas(cpu.pid))'
    BY <1>17, <2>4 DEF Listadas, Posiciones, EntradaDePag, PagMem, Get
  <2>6. cpu'.pag = cpu.pag /\ cpu.pag \in Pagina
    BY <1>4, <1>10 DEF IInv, CpuInv
  <2>7. cpu'.nueva \in DOMAIN paginas' /\ paginas'[cpu'.nueva].entrada = cpu'.numero
    BY <1>14, <1>17
  <2>8. \A q, r \in Proceso : Ejecuta(q)' /\ Ejecuta(r)' => q = r
    BY <2>1 DEF IInv, CpuInv
  <2>9. Ejecuta(cpu.pid)'  BY <1>4, <1>10, <1>17 DEF Ejecuta
  <2>. QED  BY <1>4, <1>17, <2>2, <2>3, <2>5, <2>6, <2>7, <2>8, <2>9 DEF CpuInv
<1>27. PaginasInv'
  <2>1. \A n : ~ Llega(n) /\ (Llega(n)' <=> n = nu)  BY <1>4, <1>17 DEF Llega
  <2>2. \A q : (Creciendo(q)' <=> q = p) /\ (Creciendo(q) <=> q = p)
    BY <1>1, <1>4, <1>17 DEF Creciendo
  <2>3. SUFFICES ASSUME NEW q \in Iniciados
        PROVE  /\ \A k \in Posiciones(q) :
                     /\ PagMem(q)[k] \in DOMAIN paginas'
                     /\ EntradaDePag(q, k)' \in EntradasDe(q)
                     /\ Presente(EntradaDePag(q, k))'
               /\ \A j, k \in Posiciones(q) :
                     EntradaDePag(q, j)' = EntradaDePag(q, k)' => j = k
               /\ \A n \in EntradasDe(q) : Presente(n)' => n \in Listadas(q) \/ n = nu
               /\ Len(PagMem(q)) + (IF Creciendo(q) THEN 1 ELSE 0) <= MARCOS_POR_PROCESO
    BY <1>11, <1>18, <1>19, <1>23, <2>1, <2>2 DEF PaginasInv
  <2>4. ASSUME NEW k \in Posiciones(q)
        PROVE  /\ PagMem(q)[k] \in DOMAIN paginas'
               /\ EntradaDePag(q, k)' \in EntradasDe(q)
               /\ Presente(EntradaDePag(q, k))'
    <3>1. PICK n : n = EntradaDePag(q, k)  OBVIOUS
    <3>2. n \in EntradasDe(q) /\ Presente(n) /\ PagMem(q)[k] \in DOMAIN paginas
      BY <2>4, <3>1 DEF IInv, PaginasInv
    <3>3. Presente(n)'  BY <1>21, <1>24, <3>2
    <3>4. EntradaDePag(q, k)' = n  BY <1>23, <3>1
    <3>. QED  BY <1>14, <3>2, <3>3, <3>4 DEF Presente
  <2>5. \A j, k \in Posiciones(q) : EntradaDePag(q, j)' = EntradaDePag(q, k)' => j = k
    BY <1>23 DEF IInv, PaginasInv
  <2>6. \A n \in EntradasDe(q) : Presente(n)' => n \in Listadas(q) \/ n = nu
    BY <1>21, <1>24, <2>1 DEF IInv, PaginasInv
  <2>7. Len(PagMem(q)) + (IF Creciendo(q) THEN 1 ELSE 0) <= MARCOS_POR_PROCESO
    BY DEF IInv, PaginasInv
  <2>. QED  BY <2>4, <2>5, <2>6, <2>7
<1>28. BorradoInv'
  <2>1. SUFFICES ASSUME kernel.pc \in {"borrar", "limpiar_fin"} PROVE BorradoInv'
    BY <1>10 DEF BorradoInv
  <2>2. PICK q : q = kernel.pid  OBVIOUS
  <2>3. q \in Iniciados  BY <2>1, <2>2, ProcesoQueTermina
  <2>4. (kernel.i <= Len(PagMem(kernel.pid)))'
        /\ (kernel.pc = "limpiar_fin" => (kernel.i < Len(PagMem(kernel.pid)))')
    <3>1. kernel.i <= Len(PagMem(q)') /\ (kernel.pc = "limpiar_fin" => kernel.i < Len(PagMem(q)'))
      BY <1>11, <2>1, <2>2, <2>3 DEF IInv, BorradoInv
    <3>. QED  BY <1>10, <2>2, <3>1 DEF PagMem, Get
  <2>5. kernel.pc = "limpiar_fin" =>
           (kernel.frame = MarcoDe(EntradaDePag(kernel.pid, kernel.i + 1)))'
    <3>1. SUFFICES ASSUME kernel.pc = "limpiar_fin"
          PROVE  (kernel.frame = MarcoDe(EntradaDePag(kernel.pid, kernel.i + 1)))'
      OBVIOUS
    <3>2. PICK k : k = kernel.i + 1  OBVIOUS
    <3>3. k \in Posiciones(q)  BY <2>2, <3>1, <3>2, EntradaQueSeBorra
    <3>4. PICK n : n = EntradaDePag(q, k)  OBVIOUS
    <3>5. n \in EntradasDe(q) /\ Presente(n) /\ n # nu
      BY <1>4, <2>3, <3>3, <3>4 DEF IInv, PaginasInv
    <3>6. MarcoDe(n)' = MarcoDe(n) /\ EntradaDePag(q, k)' = n
      BY <1>21, <1>23, <1>24, <2>3, <3>3, <3>4, <3>5
    <3>7. kernel.frame = MarcoDe(n)  BY <2>2, <3>1, <3>2, <3>4 DEF IInv, BorradoInv
    <3>. QED  BY <1>10, <2>2, <3>2, <3>6, <3>7 DEF MarcoDe, EntradaDePag, PagMem, Get
  <2>. QED  BY <1>10, <2>4, <2>5 DEF BorradoInv
<1>29. ASSUME ~ carrera' PROVE MarcosInv'
  <2>1. MarcosInv /\ bitMem' = bitMem \union {f}
    <3>1. ~ carrera /\ ~ Vieja(cpu.byte, f)  BY <1>10, <1>29
    <3>2. ConBit(cpu.byte, f) = bitMem \union {f}  BY <1>7, <3>1, BitPuesto
    <3>. QED  BY <1>10, <3>1, <3>2 DEF IInv
  <2>2. \A q \in Iniciados : \A n : Devuelta(q, n)' <=> Devuelta(q, n)
    <3>1. ASSUME NEW q \in Iniciados, Borrando(q)
          PROVE  \A k \in 1 .. kernel.i : EntradaDePag(q, k)' = EntradaDePag(q, k)
      <4>1. q = kernel.pid /\ kernel.pc \in {"borrar", "limpiar_fin"}  BY <3>1 DEF Borrando
      <4>2. kernel.i <= Len(PagMem(q)) /\ kernel.i \in Nat
        BY <4>1 DEF IInv, BorradoInv, Tipos, TipoHilos
      <4>3. Posiciones(q) = 1 .. Len(PagMem(q)) /\ Len(PagMem(q)) \in Nat
        BY <3>1, Filas DEF IInv, Tipos, LlegadaInv
      <4>4. \A k \in 1 .. kernel.i : k \in Posiciones(q)
        BY ONLY <4>2, <4>3
      <4>. QED  BY <1>23, <3>1, <4>4
    <3>2. kernel'.i = kernel.i  BY <1>10
    <3>. QED  BY <1>18, <3>1, <3>2 DEF Devuelta
  <2>3. \A n : ~ Devuelta(p, n)
    <3>1. ~ Finalizado(p)  BY <1>4 DEF Finalizado
    <3>2. ~ Borrando(p)
      BY <1>4, ProcesoQueTermina DEF Borrando
    <3>. QED  BY <3>1, <3>2 DEF Devuelta
  <2>4. \A q \in Iniciados : \A n : Ocupa(q, n)' <=> Ocupa(q, n) \/ (q = p /\ n = nu)
    <3>1. SUFFICES ASSUME NEW q \in Iniciados, NEW n
          PROVE  Ocupa(q, n)' <=> Ocupa(q, n) \/ (q = p /\ n = nu)
      OBVIOUS
    <3>2. Ocupa(q, n)' <=> n \in EntradasDe(q) /\ Presente(n)' /\ ~ Devuelta(q, n)
      BY <1>19, <2>2, <3>1 DEF Ocupa
    <3>. QED  BY <1>4, <1>21, <1>24, <2>3, <3>2 DEF Ocupa
  <2>5. Ocupadas' = Ocupadas \union {nu} /\ nu \notin Ocupadas
    <3>1. nu \notin Ocupadas  BY <1>4 DEF Ocupadas, Ocupa
    <3>2. \A n : n \in Ocupadas' <=> n \in 0 .. Len(tabla_2_l) - 1
                       /\ \E q \in Iniciados : Ocupa(q, n) \/ (q = p /\ n = nu)
      BY <1>12, <1>18, <2>4 DEF Ocupadas
    <3>. QED  BY <1>5, <1>8, <3>1, <3>2 DEF Ocupadas
  <2>6. \A n \in Ocupadas : MarcoDe(n)' = MarcoDe(n)
    BY <1>21, <2>5 DEF Ocupadas
  <2>7. /\ \A n \in Ocupadas : MarcoDe(n) \in Frame \ EnLimpieza
        /\ \A n, m \in Ocupadas : MarcoDe(n) = MarcoDe(m) => n = m
        /\ EnLimpieza \subseteq Frame
        /\ bitMem = {MarcoDe(n) : n \in Ocupadas} \union EnLimpieza
        /\ f \in Frame \ bitMem
    BY <1>3, <1>4, <2>1 DEF MarcosInv
  <2>8. f \notin EnLimpieza /\ \A n \in Ocupadas : MarcoDe(n) # f  BY <2>7
  <2>9. \A n \in Ocupadas' : MarcoDe(n)' = (IF n = nu THEN f ELSE MarcoDe(n))
    BY <1>22, <2>5, <2>6
  <2>10. \A n \in Ocupadas' : MarcoDe(n)' \in Frame \ EnLimpieza
    BY <2>5, <2>7, <2>8, <2>9
  <2>11. \A n, m \in Ocupadas' : MarcoDe(n)' = MarcoDe(m)' => n = m
    BY <2>5, <2>7, <2>8, <2>9
  <2>12. bitMem' = {MarcoDe(n)' : n \in Ocupadas'} \union EnLimpieza
    BY <2>1, <2>5, <2>7, <2>9
  <2>. QED  BY <1>17, <1>18, <2>7, <2>10, <2>11, <2>12 DEF MarcosInv
<1>. QED  BY <1>16, <1>17, <1>18, <1>20, <1>26, <1>27, <1>28, <1>29 DEF IInv, Tipos

-----------------------------------------------------------------------------
(* The page is brought and listed.                                          *)

\* A sequence with one element more.
LEMMA Insertada ==
    ASSUME NEW xs \in Seq(Nat), NEW x \in Nat, NEW i \in 1 .. Len(xs) + 1
    PROVE  /\ InsertAt(xs, i, x) \in Seq(Nat) /\ Len(InsertAt(xs, i, x)) = Len(xs) + 1
           /\ \A k \in 1 .. Len(xs) + 1 : InsertAt(xs, i, x)[k] =
                 IF k < i THEN xs[k] ELSE IF k = i THEN x ELSE xs[k - 1]
<1>1. Len(xs) \in Nat /\ i \in Nat /\ i - 1 \in Int /\ \A j \in 1 .. Len(xs) : xs[j] \in Nat
  BY ElementOfSeq
<1>. DEFINE a == SubSeq(xs, 1, i - 1)
            b == SubSeq(xs, i, Len(xs))
<1>2. /\ a \in Seq(Nat) /\ Len(a) = i - 1 /\ \A k \in 1 .. i - 1 : a[k] = xs[k]
  <2>1. \A j \in 1 .. i - 1 : xs[j] \in Nat  BY <1>1
  <2>2. /\ a \in Seq(Nat) /\ Len(a) = (IF 1 <= i - 1 THEN (i - 1) - 1 + 1 ELSE 0)
        /\ \A k \in 1 .. (i - 1) - 1 + 1 : a[k] = xs[1 + k - 1]
    BY <1>1, <2>1, SubSeqProperties
  <2>. HIDE DEF a
  <2>. QED  BY <1>1, <2>2
<1>3. /\ b \in Seq(Nat) /\ Len(b) = Len(xs) - i + 1
      /\ \A k \in 1 .. Len(xs) - i + 1 : b[k] = xs[i + k - 1]
  <2>1. \A j \in i .. Len(xs) : xs[j] \in Nat  BY <1>1
  <2>2. /\ b \in Seq(Nat) /\ Len(b) = (IF i <= Len(xs) THEN Len(xs) - i + 1 ELSE 0)
        /\ \A k \in 1 .. Len(xs) - i + 1 : b[k] = xs[i + k - 1]
    BY <1>1, <2>1, SubSeqProperties
  <2>. HIDE DEF b
  <2>. QED  BY <1>1, <2>2
<1>4. InsertAt(xs, i, x) = a \o <<x>> \o b  BY DEF InsertAt
<1>. HIDE DEF a, b
<1>5. <<x>> \in Seq(Nat) /\ Len(<<x>>) = 1 /\ <<x>>[1] = x  OBVIOUS
<1>6. /\ a \o <<x>> \in Seq(Nat) /\ Len(a \o <<x>>) = i
      /\ \A k \in 1 .. i : (a \o <<x>>)[k] = IF k < i THEN xs[k] ELSE x
  <2>1. /\ a \o <<x>> \in Seq(Nat) /\ Len(a \o <<x>>) = Len(a) + Len(<<x>>)
        /\ \A k \in 1 .. Len(a) + Len(<<x>>) :
              (a \o <<x>>)[k] = IF k <= Len(a) THEN a[k] ELSE <<x>>[k - Len(a)]
    BY <1>2, <1>5, ConcatProperties
  <2>2. /\ a \o <<x>> \in Seq(Nat) /\ Len(a \o <<x>>) = i
        /\ \A k \in 1 .. i : (a \o <<x>>)[k] = IF k <= i - 1 THEN a[k] ELSE <<x>>[k - (i - 1)]
    BY ONLY <1>1, <1>2, <1>5, <2>1
  <2>3. \A k \in 1 .. i : (k <= i - 1 <=> k < i) /\ (k <= i - 1 => k \in 1 .. i - 1)
                          /\ (~ k < i => k - (i - 1) = 1)
    BY <1>1
  <2>. QED  BY ONLY <1>2, <1>5, <2>2, <2>3
<1>. DEFINE s == a \o <<x>>
<1>7. s \in Seq(Nat) /\ Len(s) = i /\ \A k \in 1 .. i : s[k] = IF k < i THEN xs[k] ELSE x
  BY <1>6
<1>8. InsertAt(xs, i, x) = s \o b  BY <1>4
<1>. HIDE DEF s
<1>9. /\ s \o b \in Seq(Nat) /\ Len(s \o b) = Len(xs) + 1
      /\ \A k \in 1 .. Len(xs) + 1 :
            (s \o b)[k] = IF k <= i THEN s[k] ELSE b[k - i]
  <2>1. /\ s \o b \in Seq(Nat) /\ Len(s \o b) = Len(s) + Len(b)
        /\ \A k \in 1 .. Len(s) + Len(b) : (s \o b)[k] = IF k <= Len(s) THEN s[k] ELSE b[k - Len(s)]
    BY <1>3, <1>7, ConcatProperties
  <2>2. Len(s) + Len(b) = Len(xs) + 1  BY <1>1, <1>3, <1>7
  <2>. QED  BY ONLY <1>7, <2>1, <2>2
<1>10. ASSUME NEW k \in 1 .. Len(xs) + 1
       PROVE  (s \o b)[k] = IF k < i THEN xs[k] ELSE IF k = i THEN x ELSE xs[k - 1]
  <2>1. CASE k <= i
    <3>1. k \in 1 .. i /\ (k < i \/ k = i) /\ (k = i => ~ k < i)  BY <1>1, <2>1
    <3>. QED  BY <1>7, <1>9, <2>1, <3>1
  <2>2. CASE ~ k <= i
    <3>1. k - i \in 1 .. Len(xs) - i + 1 /\ i + (k - i) - 1 = k - 1 /\ ~ k < i /\ k # i
      BY <1>1, <2>2
    <3>. QED  BY <1>3, <1>9, <2>2, <3>1
  <2>. QED  BY <2>1, <2>2
<1>. QED  BY <1>8, <1>9, <1>10

\* list_add_sorted puts the new page somewhere, and moves the ones behind it.
LEMMA PaginaAgregada ==
    ASSUME NEW xs \in Seq(Nat), NEW x \in Nat
    PROVE  \E i \in 1 .. Len(xs) + 1 :
              /\ AgregarOrdenada(xs, x) \in Seq(Nat)
              /\ Len(AgregarOrdenada(xs, x)) = Len(xs) + 1
              /\ \A k \in 1 .. Len(xs) + 1 :
                    AgregarOrdenada(xs, x)[k] =
                       IF k < i THEN xs[k] ELSE IF k = i THEN x ELSE xs[k - 1]
<1> DEFINE marco(y) == EntradaDe(y).frame
           noMenores == {i \in DOMAIN xs : ~ (marco(xs[i]) < marco(x))}
           i0 == Min(noMenores \union {Len(xs) + 1})
<1>1. Len(xs) \in Nat /\ DOMAIN xs = 1 .. Len(xs)  OBVIOUS
<1>2. noMenores \subseteq 1 .. Len(xs)  BY <1>1
<1>. HIDE DEF noMenores
<1>3. /\ noMenores \union {Len(xs) + 1} \subseteq 1 .. Len(xs) + 1
      /\ noMenores \union {Len(xs) + 1} \subseteq Nat
      /\ noMenores \union {Len(xs) + 1} # {}
  <2>1. Len(xs) + 1 \in 1 .. Len(xs) + 1 /\ 1 .. Len(xs) \subseteq 1 .. Len(xs) + 1
        /\ 1 .. Len(xs) + 1 \subseteq Nat
    BY <1>1
  <2>. QED  BY ONLY <1>2, <2>1
<1>4. i0 \in 1 .. Len(xs) + 1
  <2>1. i0 \in noMenores \union {Len(xs) + 1}  BY ONLY <1>3, MinimoNat
  <2>. QED  BY ONLY <1>3, <2>1
<1>5. AgregarOrdenada(xs, x) = InsertAt(xs, i0, x)
  BY DEF AgregarOrdenada, noMenores
<1>. HIDE DEF i0
<1>6. PICK i \in 1 .. Len(xs) + 1 : i = i0  BY <1>4
<1>7. AgregarOrdenada(xs, x) = InsertAt(xs, i, x)  BY ONLY <1>5, <1>6
<1>8. /\ InsertAt(xs, i, x) \in Seq(Nat) /\ Len(InsertAt(xs, i, x)) = Len(xs) + 1
      /\ \A k \in 1 .. Len(xs) + 1 : InsertAt(xs, i, x)[k] =
            IF k < i THEN xs[k] ELSE IF k = i THEN x ELSE xs[k - 1]
  <2>1. xs \in Seq(Nat) /\ x \in Nat /\ i \in 1 .. Len(xs) + 1  OBVIOUS
  <2>. QED  BY ONLY <2>1, Insertada
<1>. QED  BY ONLY <1>7, <1>8, <1>6

\* The tables after a page that is in memory is added to those of p.
LEMMA ConUnaMas ==
    ASSUME IInv, NEW p \in Iniciados, NEW x \in DOMAIN paginas,
           NEW n0, n0 = paginas[x].entrada, n0 \notin Listadas(p),
           procesos' = [procesos EXCEPT ![p + 1].pagMem = AgregarOrdenada(@, x)],
           UNCHANGED <<tabla_1_l, tabla_2_l, paginas, bitMem>>
    PROVE  /\ TipoTablas' /\ TablasInv' /\ Iniciados' = Iniciados
           /\ Len(procesos') = Len(procesos)
           /\ \A q : TablasDe(q)' = TablasDe(q) /\ EntradasDe(q)' = EntradasDe(q)
           /\ \A n : (Presente(n)' <=> Presente(n)) /\ MarcoDe(n)' = MarcoDe(n)
           /\ \A q \in Iniciados \ {p} :
                 /\ PagMem(q)' = PagMem(q) /\ Posiciones(q)' = Posiciones(q)
                 /\ \A k : EntradaDePag(q, k)' = EntradaDePag(q, k)
                 /\ Listadas(q)' = Listadas(q)
           /\ Len(PagMem(p)') = Len(PagMem(p)) + 1 /\ Len(PagMem(p)) \in Nat
           /\ \A k \in Posiciones(p)' :
                 /\ PagMem(p)'[k] \in DOMAIN paginas
                 /\ EntradaDePag(p, k)' \in Listadas(p) \union {n0}
           /\ \A j, k \in Posiciones(p)' :
                 EntradaDePag(p, j)' = EntradaDePag(p, k)' => j = k
           /\ Listadas(p) \union {n0} \subseteq Listadas(p)'
<1>1. /\ p \in Nat /\ p + 1 \in DOMAIN procesos
      /\ procesos[p + 1] \in FilaProceso
      /\ PagMem(p) = procesos[p + 1].pagMem /\ PagMem(p) \in Seq(Nat)
      /\ Len(PagMem(p)) \in Nat /\ Posiciones(p) = 1 .. Len(PagMem(p))
  BY Filas DEF IInv, Tipos, LlegadaInv
<1>2. procesos \in Seq(FilaProceso) /\ paginas \in Seq([numero : Nat, entrada : Nat])
  BY DEF IInv, Tipos, TipoTablas, FilaProceso
<1>3. PICK xs \in Seq(Nat) : xs = PagMem(p)  BY <1>1
<1>4. x \in Nat  BY <1>2
<1>5. PICK i \in 1 .. Len(xs) + 1 :
              /\ AgregarOrdenada(xs, x) \in Seq(Nat)
              /\ Len(AgregarOrdenada(xs, x)) = Len(xs) + 1
              /\ \A k \in 1 .. Len(xs) + 1 :
                    AgregarOrdenada(xs, x)[k] =
                       IF k < i THEN xs[k] ELSE IF k = i THEN x ELSE xs[k - 1]
  BY <1>4, PaginaAgregada
<1>6. PICK ys \in Seq(Nat) : /\ ys = AgregarOrdenada(xs, x) /\ Len(ys) = Len(xs) + 1
                             /\ \A k \in 1 .. Len(xs) + 1 : ys[k] =
                                   IF k < i THEN xs[k] ELSE IF k = i THEN x ELSE xs[k - 1]
  BY ONLY <1>5
<1>7. /\ procesos' \in Seq(FilaProceso) /\ Len(procesos') = Len(procesos)
      /\ procesos'[p + 1].pagMem = ys
      /\ \A j \in DOMAIN procesos : j # p + 1 => procesos'[j] = procesos[j]
  <2>1. PICK j \in DOMAIN procesos : j = p + 1  BY <1>1
  <2>2. procesos' = [procesos EXCEPT ![j].pagMem = AgregarOrdenada(@, x)]  BY <2>1
  <2>3. PICK r0 \in FilaProceso : r0 = procesos[j] /\ r0.pagMem = xs  BY <1>1, <1>3, <2>1
  <2>4. procesos' = [procesos EXCEPT ![j].pagMem = ys]
    BY <1>2, <1>6, <2>2, <2>3
  <2>5. PICK r \in FilaProceso : r = [r0 EXCEPT !.pagMem = ys] /\ r.pagMem = ys
    <3>1. ys \in Seq(Nat) /\ r0 \in FilaProceso  OBVIOUS
    <3>2. [r0 EXCEPT !.pagMem = ys] \in FilaProceso /\ [r0 EXCEPT !.pagMem = ys].pagMem = ys
      BY ONLY <3>1 DEF FilaProceso
    <3>. QED  BY ONLY <3>2
  <2>6. procesos' = [procesos EXCEPT ![j] = r]  BY ONLY <2>3, <2>4, <2>5
  <2>7. /\ procesos' \in Seq(FilaProceso) /\ Len(procesos') = Len(procesos)
        /\ procesos'[j] = r /\ \A l \in DOMAIN procesos : l # j => procesos'[l] = procesos[l]
    <3>1. j \in DOMAIN procesos /\ r \in FilaProceso  OBVIOUS
    <3>. QED  BY ONLY <1>2, <2>6, <3>1, FilaCambiada
  <2>. QED  BY ONLY <2>1, <2>5, <2>7
<1>8. TipoTablas'
  BY <1>7 DEF IInv, Tipos, TipoTablas, FilaProceso
<1>9. Iniciados' = Iniciados /\ \A q : TablasDe(q)' = TablasDe(q)
  BY <1>7 DEF Iniciados, TablasDe
<1>10. \A q : EntradasDe(q)' = EntradasDe(q)
  BY <1>9 DEF EntradasDe
<1>11. TablasInv'
  BY <1>7, <1>9 DEF IInv, TablasInv
<1>12. \A n : (Presente(n)' <=> Presente(n)) /\ MarcoDe(n)' = MarcoDe(n)
  BY DEF Presente, MarcoDe
<1>13. \A q \in Iniciados \ {p} :
          /\ PagMem(q)' = PagMem(q) /\ Posiciones(q)' = Posiciones(q)
          /\ \A k : EntradaDePag(q, k)' = EntradaDePag(q, k)
          /\ Listadas(q)' = Listadas(q)
  <2>1. \A q \in Iniciados \ {p} : q + 1 \in DOMAIN procesos /\ q + 1 # p + 1
    <3>1. p \in Nat /\ procesos \in Seq(FilaProceso)  BY <1>1, <1>2
    <3>. QED  BY ONLY <3>1 DEF Iniciados
  <2>2. \A q \in Iniciados \ {p} : PagMem(q)' = PagMem(q)
    BY <1>7, <2>1 DEF PagMem, Get
  <2>. QED  BY <2>2 DEF Posiciones, EntradaDePag, Listadas
<1>14. PagMem(p)' = ys  BY <1>7 DEF PagMem, Get
<1>15. /\ Len(xs) \in Nat /\ i \in Nat /\ 1 <= i /\ i <= Len(xs) + 1
       /\ Posiciones(p)' = 1 .. Len(xs) + 1 /\ Posiciones(p) = 1 .. Len(xs)
  <2>1. DOMAIN ys = 1 .. Len(xs) + 1  BY <1>6
  <2>. QED  BY <1>1, <1>3, <1>14, <2>1 DEF Posiciones
<1>16. \A k : EntradaDePag(p, k)' = paginas[ys[k]].entrada
  BY <1>14 DEF EntradaDePag
<1>17. \A k : EntradaDePag(p, k) = paginas[xs[k]].entrada
  BY <1>3 DEF EntradaDePag
<1>18. \A k \in Posiciones(p)' :
          \/ k = i /\ ys[k] = x /\ EntradaDePag(p, k)' = n0
          \/ k < i /\ k \in Posiciones(p) /\ ys[k] = xs[k] /\ EntradaDePag(p, k)' = EntradaDePag(p, k)
          \/ i < k /\ k - 1 \in Posiciones(p) /\ ys[k] = xs[k - 1]
                /\ EntradaDePag(p, k)' = EntradaDePag(p, k - 1)
  <2>1. \A k \in Posiciones(p)' : \/ k = i /\ ys[k] = x
                                  \/ k < i /\ k \in 1 .. Len(xs) /\ ys[k] = xs[k]
                                  \/ i < k /\ k - 1 \in 1 .. Len(xs) /\ ys[k] = xs[k - 1]
    <3>1. ASSUME NEW k \in 1 .. Len(xs) + 1
          PROVE  \/ k = i /\ ~ k < i
                 \/ k < i /\ k \in 1 .. Len(xs)
                 \/ i < k /\ ~ k < i /\ k # i /\ k - 1 \in 1 .. Len(xs)
      BY <1>15
    <3>2. \A k \in 1 .. Len(xs) + 1 : ys[k] = IF k < i THEN xs[k] ELSE IF k = i THEN x ELSE xs[k - 1]
      BY <1>6
    <3>. QED  BY ONLY <1>15, <3>1, <3>2
  <2>2. SUFFICES ASSUME NEW k \in Posiciones(p)'
        PROVE  \/ k = i /\ ys[k] = x /\ EntradaDePag(p, k)' = n0
               \/ k < i /\ k \in Posiciones(p) /\ ys[k] = xs[k]
                     /\ EntradaDePag(p, k)' = EntradaDePag(p, k)
               \/ i < k /\ k - 1 \in Posiciones(p) /\ ys[k] = xs[k - 1]
                     /\ EntradaDePag(p, k)' = EntradaDePag(p, k - 1)
    OBVIOUS
  <2>3. EntradaDePag(p, k)' = paginas[ys[k]].entrada  BY <1>16
  <2>4. EntradaDePag(p, k) = paginas[xs[k]].entrada
        /\ EntradaDePag(p, k - 1) = paginas[xs[k - 1]].entrada
    BY <1>17
  <2>5. paginas[x].entrada = n0  OBVIOUS
  <2>6. \/ k = i /\ ys[k] = x
        \/ k < i /\ k \in 1 .. Len(xs) /\ ys[k] = xs[k]
        \/ i < k /\ k - 1 \in 1 .. Len(xs) /\ ys[k] = xs[k - 1]
    BY <2>1, <2>2
  <2>. QED  BY ONLY <1>15, <2>3, <2>4, <2>5, <2>6
<1>19. \A k \in Posiciones(p)' : /\ PagMem(p)'[k] \in DOMAIN paginas
                                 /\ EntradaDePag(p, k)' \in Listadas(p) \union {n0}
  <2>1. \A k \in Posiciones(p) : xs[k] \in DOMAIN paginas /\ EntradaDePag(p, k) \in Listadas(p)
    BY <1>3 DEF IInv, PaginasInv, Listadas
  <2>. QED  BY <1>14, <1>18, <2>1
<1>20. \A j, k \in Posiciones(p)' : EntradaDePag(p, j)' = EntradaDePag(p, k)' => j = k
  <2>1. SUFFICES ASSUME NEW j \in Posiciones(p)', NEW k \in Posiciones(p)',
                        EntradaDePag(p, j)' = EntradaDePag(p, k)'
        PROVE  j = k
    OBVIOUS
  <2>2. \A l \in Posiciones(p) : EntradaDePag(p, l) # n0  BY DEF Listadas
  <2>3. \A l, m \in Posiciones(p) : EntradaDePag(p, l) = EntradaDePag(p, m) => l = m
    BY DEF IInv, PaginasInv
  <2>4. j \in Nat /\ k \in Nat  BY <1>15, <2>1
  <2>5. PICK e : e = EntradaDePag(p, j)' /\ e = EntradaDePag(p, k)'  BY <2>1
  <2>6. \/ j = i /\ e = n0
        \/ j < i /\ j \in Posiciones(p) /\ e = EntradaDePag(p, j)
        \/ i < j /\ j - 1 \in Posiciones(p) /\ e = EntradaDePag(p, j - 1)
    BY <1>18, <2>1, <2>5
  <2>7. \/ k = i /\ e = n0
        \/ k < i /\ k \in Posiciones(p) /\ e = EntradaDePag(p, k)
        \/ i < k /\ k - 1 \in Posiciones(p) /\ e = EntradaDePag(p, k - 1)
    BY <1>18, <2>1, <2>5
  <2>8. \/ j = i /\ k = i
        \/ j < i /\ k < i /\ j = k
        \/ i < j /\ i < k /\ j - 1 = k - 1
        \/ j < i /\ i < k /\ j = k - 1
        \/ i < j /\ k < i /\ j - 1 = k
    BY ONLY <2>2, <2>3, <2>6, <2>7
  <2>9. i \in Nat  BY <1>15
  <2>. QED  BY ONLY <2>4, <2>8, <2>9
<1>21. Listadas(p) \union {n0} \subseteq Listadas(p)'
  <2>1. n0 \in Listadas(p)'
    <3>1. i \in Posiciones(p)'  BY <1>15
    <3>2. EntradaDePag(p, i)' = n0  BY <1>15, <1>18, <3>1
    <3>. QED  BY <3>1, <3>2 DEF Listadas
  <2>2. ASSUME NEW n \in Listadas(p) PROVE n \in Listadas(p)'
    <3>1. PICK j \in Posiciones(p) : n = EntradaDePag(p, j)  BY <2>2 DEF Listadas
    <3>2. PICK k \in Nat : k = IF j < i THEN j ELSE j + 1  BY <1>15
    <3>3. k \in Posiciones(p)' /\ k # i /\ (k < i => k = j) /\ (i < k => k - 1 = j)
      <4>1. j \in 1 .. Len(xs) /\ j \in Nat  BY <1>15
      <4>. QED  BY ONLY <1>15, <3>2, <4>1
    <3>4. EntradaDePag(p, k)' = n
      <4>1. \/ k < i /\ EntradaDePag(p, k)' = EntradaDePag(p, k)
            \/ i < k /\ EntradaDePag(p, k)' = EntradaDePag(p, k - 1)
        BY <1>18, <3>3
      <4>. QED  BY ONLY <3>1, <3>3, <4>1
    <3>. QED  BY <3>3, <3>4 DEF Listadas
  <2>. QED  BY <2>1, <2>2
<1>22. Len(PagMem(p)') = Len(PagMem(p)) + 1  BY <1>3, <1>6, <1>14
<1>. QED  BY <1>1, <1>7, <1>8, <1>9, <1>10, <1>11, <1>12, <1>13, <1>19, <1>20, <1>21, <1>22

\* traer_a_memoria: the page that was coming is listed.
LEMMA PasoTraer_a_memoria ==
    ASSUME IInv, Traer_a_memoria
    PROVE  IInv'
<1>1. CASE UNCHANGED <<datos, bitMem, hilos, cpu>>
  BY <1>1, PasoAjeno
<1>2. CASE /\ procesos' = IF cpu.nueva = NADIE THEN procesos
                 ELSE [procesos EXCEPT ![cpu.pid_ + 1].pagMem =
                                          AgregarOrdenada(@, cpu.nueva)]
           /\ cpu' = [cpu EXCEPT !.pc = "responder", !.nueva = NADIE]
           /\ UNCHANGED <<tabla_1_l, tabla_2_l, paginas, bitMem>>
           /\ UNCHANGED <<socket_kernel, kernel, estado, carrera>>
  <2>1. /\ cpu'.pc = "responder" /\ cpu'.nueva = NADIE /\ cpu'.pid = cpu.pid
        /\ cpu'.pag = cpu.pag /\ TipoHilos'
    <3>1. TipoCpu  BY DEF IInv, Tipos, TipoHilos
    <3>2. /\ cpu'.pc = "responder" /\ cpu'.nueva = NADIE /\ cpu'.pid = cpu.pid
          /\ cpu'.pag = cpu.pag /\ TipoCpu'
      BY <1>2, <3>1 DEF TipoCpu
    <3>. QED  BY <1>2, <3>2 DEF IInv, Tipos, TipoHilos
  <2>2. cpu.pc = "traer" /\ cpu.pid \in Proceso /\ estado[cpu.pid] = "exec"
        /\ cpu.pag \in Pagina /\ cpu.pid_ = cpu.pid
    BY DEF Traer_a_memoria, IInv, CpuInv, Ejecuta
  <2>3. CpuInv'
    BY <1>2, <2>1, <2>2 DEF IInv, CpuInv, Ejecuta
  <2>4. CASE cpu.nueva = NADIE
    <3>1. UNCHANGED datos /\ UNCHANGED <<bitMem, hilos>>  BY <1>2, <2>4 DEF datos, hilos
    <3>2. MismosDatos /\ TipoTablas'
      BY <3>1, DatosQuietos DEF IInv, Tipos, TipoTablas
    <3>. QED  BY <2>1, <2>3, <2>4, <3>1, <3>2, PasoSinMover
  <2>5. CASE cpu.nueva # NADIE
    <3>1. PICK p : p = cpu.pid  OBVIOUS
    <3>2. PICK x \in DOMAIN paginas : x = cpu.nueva
      BY <2>5 DEF IInv, CpuInv
    <3>3. PICK n0 : n0 = paginas[x].entrada  OBVIOUS
    <3>4. /\ cpu.numero = n0 /\ Presente(n0) /\ n0 \notin Listadas(p)
          /\ n0 \in EntradasDe(p) /\ p \in Iniciados
      <4>1. cpu.numero = n0 /\ Presente(n0) /\ n0 \notin Listadas(p) /\ n0 \in EntradasDe(p)
        BY <2>2, <2>5, <3>1, <3>2, <3>3 DEF IInv, CpuInv
      <4>2. p \in Iniciados  BY <2>2, <3>1 DEF IInv, LlegadaInv, SinIniciar
      <4>. QED  BY <4>1, <4>2
    <3>5. /\ TipoTablas' /\ TablasInv' /\ Iniciados' = Iniciados
          /\ Len(procesos') = Len(procesos)
          /\ \A q : TablasDe(q)' = TablasDe(q) /\ EntradasDe(q)' = EntradasDe(q)
          /\ \A n : (Presente(n)' <=> Presente(n)) /\ MarcoDe(n)' = MarcoDe(n)
          /\ \A q \in Iniciados \ {p} :
                /\ PagMem(q)' = PagMem(q) /\ Posiciones(q)' = Posiciones(q)
                /\ \A k : EntradaDePag(q, k)' = EntradaDePag(q, k)
                /\ Listadas(q)' = Listadas(q)
          /\ Len(PagMem(p)') = Len(PagMem(p)) + 1 /\ Len(PagMem(p)) \in Nat
          /\ \A k \in Posiciones(p)' :
                /\ PagMem(p)'[k] \in DOMAIN paginas
                /\ EntradaDePag(p, k)' \in Listadas(p) \union {n0}
          /\ \A j, k \in Posiciones(p)' :
                EntradaDePag(p, j)' = EntradaDePag(p, k)' => j = k
          /\ Listadas(p) \union {n0} \subseteq Listadas(p)'
      <4>1. procesos' = [procesos EXCEPT ![p + 1].pagMem = AgregarOrdenada(@, x)]
        BY <1>2, <2>2, <2>5, <3>1, <3>2
      <4>. QED  BY <1>2, <3>3, <3>4, <4>1, ConUnaMas
    <3>6. /\ LlegadaInv' /\ InicioInv' /\ FinInv'
          /\ \A q : (Finalizado(q)' <=> Finalizado(q)) /\ (Borrando(q)' <=> Borrando(q))
          /\ EnLimpieza' = EnLimpieza
      BY <1>2, <3>5, HilosQuietos
    <3>7. PaginasInv'
      <4>1. \A n : ~ Llega(n)' /\ (Llega(n) => n = n0)  BY <2>1, <3>4 DEF Llega
      <4>2. \A q : ~ Creciendo(q)'  BY <2>1 DEF Creciendo
      <4>3. SUFFICES ASSUME NEW q \in Iniciados
            PROVE  /\ \A k \in Posiciones(q)' :
                         /\ PagMem(q)'[k] \in DOMAIN paginas
                         /\ EntradaDePag(q, k)' \in EntradasDe(q)
                         /\ Presente(EntradaDePag(q, k))'
                   /\ \A j, k \in Posiciones(q)' :
                         EntradaDePag(q, j)' = EntradaDePag(q, k)' => j = k
                   /\ \A n \in EntradasDe(q) : Presente(n) => n \in Listadas(q)'
                   /\ Len(PagMem(q)') + 0 <= MARCOS_POR_PROCESO
        BY <1>2, <3>5, <4>1, <4>2 DEF PaginasInv
      <4>4. CASE q # p
        <5>1. ASSUME NEW k \in Posiciones(q) PROVE Presente(EntradaDePag(q, k))'
          <6>1. PICK n : n = EntradaDePag(q, k)  OBVIOUS
          <6>2. Presente(n)'  BY <3>5, <5>1, <6>1 DEF IInv, PaginasInv
          <6>3. EntradaDePag(q, k)' = n  BY <3>5, <4>4, <6>1
          <6>. QED  BY <6>2, <6>3 DEF Presente
        <5>2. Len(PagMem(q)) + 0 <= MARCOS_POR_PROCESO
          <6>1. Len(PagMem(q)) + (IF Creciendo(q) THEN 1 ELSE 0) <= MARCOS_POR_PROCESO
            BY DEF IInv, PaginasInv
          <6>2. ~ Creciendo(q)  BY <3>1, <4>4 DEF Creciendo
          <6>. QED  BY <6>1, <6>2
        <5>3. \A n \in EntradasDe(q) : Presente(n) => n \in Listadas(q)
          BY <3>4, <4>1, <4>4, EntradasPropias DEF IInv, PaginasInv
        <5>. QED  BY <3>5, <4>4, <5>1, <5>2, <5>3 DEF IInv, PaginasInv
      <4>5. CASE q = p
        <5>1. \A n \in Listadas(p) \union {n0} : n \in EntradasDe(p) /\ Presente(n)
          BY <3>4 DEF IInv, PaginasInv, Listadas
        <5>2. ASSUME NEW k \in Posiciones(p)'
              PROVE  EntradaDePag(p, k)' \in EntradasDe(p) /\ Presente(EntradaDePag(p, k))'
          <6>1. PICK n \in Listadas(p) \union {n0} : n = EntradaDePag(p, k)'
            BY <3>5, <5>2
          <6>2. n \in EntradasDe(p) /\ Presente(n)'  BY <3>5, <5>1, <6>1
          <6>. QED  BY <6>1, <6>2 DEF Presente
        <5>3. \A n \in EntradasDe(p) : Presente(n) => n \in Listadas(p)'
          BY <3>4, <3>5, <4>1 DEF IInv, PaginasInv
        <5>4. Len(PagMem(p)) + 1 <= MARCOS_POR_PROCESO
          <6>1. Creciendo(p)  BY <2>5, <3>1 DEF Creciendo
          <6>. QED  BY <3>4, <6>1 DEF IInv, PaginasInv
        <5>5. Len(PagMem(p)') + 0 <= MARCOS_POR_PROCESO
          BY <3>5, <5>4
        <5>. QED  BY <3>5, <4>5, <5>2, <5>3, <5>5
      <4>. QED  BY <4>4, <4>5
    <3>8. \A q \in Iniciados : Borrando(q) \/ Finalizado(q) => q # p
      BY <2>2, <3>1, ProcesoQueTermina DEF Borrando, Finalizado
    <3>9. BorradoInv'
      <4>1. SUFFICES ASSUME kernel.pc \in {"borrar", "limpiar_fin"} PROVE BorradoInv'
        BY <1>2 DEF BorradoInv
      <4>2. PICK q : q = kernel.pid  OBVIOUS
      <4>3. q \in Iniciados /\ q # p
        BY <2>2, <3>1, <4>1, <4>2, ProcesoQueTermina
      <4>4. (kernel.i <= Len(PagMem(kernel.pid)))'
            /\ (kernel.pc = "limpiar_fin" => (kernel.i < Len(PagMem(kernel.pid)))')
        <5>1. kernel.i <= Len(PagMem(q)') /\ (kernel.pc = "limpiar_fin" => kernel.i < Len(PagMem(q)'))
          BY <3>5, <4>1, <4>2, <4>3 DEF IInv, BorradoInv
        <5>. QED  BY <1>2, <4>2, <5>1 DEF PagMem, Get
      <4>5. kernel.pc = "limpiar_fin" =>
               (kernel.frame = MarcoDe(EntradaDePag(kernel.pid, kernel.i + 1)))'
        <5>1. SUFFICES ASSUME kernel.pc = "limpiar_fin"
              PROVE  (kernel.frame = MarcoDe(EntradaDePag(kernel.pid, kernel.i + 1)))'
          OBVIOUS
        <5>2. PICK k : k = kernel.i + 1  OBVIOUS
        <5>3. PICK n : n = EntradaDePag(q, k)  OBVIOUS
        <5>4. MarcoDe(n)' = MarcoDe(n) /\ EntradaDePag(q, k)' = n
          BY <3>5, <4>3, <5>3
        <5>5. kernel.frame = MarcoDe(n)  BY <4>2, <5>1, <5>2, <5>3 DEF IInv, BorradoInv
        <5>. QED  BY <1>2, <4>2, <5>2, <5>4, <5>5 DEF MarcoDe, EntradaDePag, PagMem, Get
      <4>. QED  BY <1>2, <4>4, <4>5 DEF BorradoInv
    <3>10. MarcosInv => MarcosInv'
      <4>1. \A q \in Iniciados : \A n : Devuelta(q, n)' <=> Devuelta(q, n)
        <5>1. kernel'.i = kernel.i  BY <1>2
        <5>. QED  BY <3>5, <3>6, <3>8, <5>1 DEF Devuelta
      <4>2. Len(tabla_2_l') = Len(tabla_2_l)  BY <1>2
      <4>3. Ocupadas' = Ocupadas
        <5>1. \A q \in Iniciados : \A n : Ocupa(q, n)' <=> Ocupa(q, n)
          BY <3>5, <4>1 DEF Ocupa
        <5>. QED  BY <3>5, <4>2, <5>1 DEF Ocupadas
      <4>. QED  BY <1>2, <2>1, <3>5, <3>6, <4>3 DEF MarcosInv
    <3>11. carrera' = carrera  BY <1>2
    <3>. QED  BY <2>1, <2>3, <3>5, <3>6, <3>7, <3>9, <3>10, <3>11 DEF IInv, Tipos
  <2>. QED  BY <2>4, <2>5
<1>3. Traer_a_memoria => \/ UNCHANGED <<datos, bitMem, hilos, cpu>>
                         \/ /\ procesos' = IF cpu.nueva = NADIE THEN procesos
                               ELSE [procesos EXCEPT ![cpu.pid_ + 1].pagMem =
                                          AgregarOrdenada(@, cpu.nueva)]
                            /\ cpu' = [cpu EXCEPT !.pc = "responder", !.nueva = NADIE]
                            /\ UNCHANGED <<tabla_1_l, tabla_2_l, paginas, bitMem>>
                            /\ UNCHANGED <<socket_kernel, kernel, estado, carrera>>
  BY DEF Traer_a_memoria, Morir, datos, hilos, ambiente, historia
<1>. QED  BY <1>1, <1>2, <1>3

-----------------------------------------------------------------------------
(* A page fault with a victim.                                              *)

\* The pages of p are in its entries.
LEMMA PaginaListada ==
    ASSUME IInv, NEW p \in Iniciados, NEW j \in Posiciones(p)
    PROVE  /\ PagMem(p)[j] \in DOMAIN paginas
           /\ EntradaDePag(p, j) \in EntradasDe(p) /\ Presente(EntradaDePag(p, j))
           /\ EntradaDePag(p, j) + 1 \in DOMAIN tabla_2_l
           /\ EntradaDePag(p, j) \in 0 .. Len(tabla_2_l) - 1
<1>1. PICK n : n = EntradaDePag(p, j)  OBVIOUS
<1>2. PagMem(p)[j] \in DOMAIN paginas /\ n \in EntradasDe(p) /\ Presente(n)
  BY <1>1 DEF IInv, PaginasInv
<1>3. n \in 0 .. Len(tabla_2_l) - 1  BY <1>2 DEF EntradasDe
<1>4. DOMAIN tabla_2_l = 1 .. Len(tabla_2_l) /\ Len(tabla_2_l) \in Nat
  BY DEF IInv, Tipos, TipoTablas
<1>5. n + 1 \in DOMAIN tabla_2_l  BY ONLY <1>3, <1>4
<1>. QED  BY <1>1, <1>2, <1>3, <1>5

\* The hand of the clock finds a victim before its fifth round.
LEMMA HayVictima ==
    ASSUME IInv, NEW p \in Iniciados, NEW pr \in FilaProceso,
           pr.pagMem = PagMem(p), EnLista(pr.pagMem, pr.puntero)
    PROVE  /\ Turno(pr) \in Nat /\ Posicion(pr, Turno(pr)) + 1 \in Posiciones(p)
           /\ Turno(pr) <= 3 * Len(pr.pagMem) /\ EsVictima(pr, Turno(pr))
           /\ \A k \in Nat : k < Turno(pr) => ~ EsVictima(pr, k)
<1>1. PICK l \in Nat : l = Len(pr.pagMem)  BY DEF FilaProceso
<1>2. PICK c \in Nat : c = pr.contador  BY DEF FilaProceso
<1>3. PICK d \in Nat : d = pr.puntero  BY DEF FilaProceso
<1>4. Posiciones(p) = 1 .. l /\ d + 1 \in 1 .. l
  <2>1. DOMAIN pr.pagMem = 1 .. l  BY <1>1 DEF FilaProceso
  <2>. QED  BY <1>3, <2>1 DEF EnLista, Posiciones
<1>5. l \in Nat \ {0} /\ 0 < l /\ d \in 0 .. l - 1  BY <1>4
<1>6. \A k \in Nat : Posicion(pr, k) = IF k = 0 THEN d ELSE (c + k) % l
  BY <1>1, <1>2, <1>3 DEF Posicion
<1>7. \A k \in Nat : Posicion(pr, k) \in 0 .. l - 1
  <2>1. \A k \in Nat : c + k \in Nat /\ (c + k) % l \in 0 .. l - 1  BY <1>5, Resto
  <2>. QED  BY <1>5, <1>6, <2>1
<1>8. \A k \in Nat : Posicion(pr, k) + 1 \in Posiciones(p)
  <2>1. \A i \in 0 .. l - 1 : i + 1 \in 1 .. l  BY <1>5
  <2>. QED  BY ONLY <1>4, <1>7, <2>1
<1>9. PICK m \in Nat : m = l + l  OBVIOUS
<1>10. PICK t \in Nat : t = l + m  OBVIOUS
<1>11. l # 0 /\ m # 0 /\ t # 0 /\ l < m /\ l < t /\ m \in 0 .. 4 * l /\ t \in 0 .. 4 * l
       /\ l \in 0 .. m - 1 /\ l \in 0 .. t - 1
  BY <1>5, <1>9, <1>10
<1>12. Posicion(pr, m) = Posicion(pr, l) /\ Posicion(pr, t) = Posicion(pr, l)
  <2>1. PICK e \in Nat : e = c + l  OBVIOUS
  <2>2. PICK f \in Nat : f = e + l  OBVIOUS
  <2>3. c + l = e /\ c + m = f /\ c + t = f + l  BY <1>9, <1>10, <2>1, <2>2
  <2>4. (e + l) % l = e % l /\ (f + l) % l = f % l  BY <1>5, Vuelta
  <2>. QED  BY ONLY <1>6, <1>11, <2>2, <2>3, <2>4
<1>13. (l \div l) % 2 = 1 /\ (m \div l) % 2 = 0 /\ (t \div l) % 2 = 1
  <2>1. l \div l = 1
    <3>1. l * 1 <= l /\ l < l * 1 + l /\ 1 \in Nat  BY <1>5
    <3>. QED  BY <1>5, <3>1, Cociente
  <2>2. m \div l = 2
    <3>1. l * 2 <= m /\ m < l * 2 + l /\ 2 \in Nat  BY <1>5, <1>9
    <3>. QED  BY <1>5, <3>1, Cociente
  <2>3. t \div l = 3
    <3>1. l * 3 <= t /\ t < l * 3 + l /\ 3 \in Nat  BY <1>5, <1>9, <1>10
    <3>. QED  BY <1>5, <3>1, Cociente
  <2>4. 1 % 2 = 1 /\ 2 % 2 = 0 /\ 3 % 2 = 1  BY SMT
  <2>. QED  BY ONLY <2>1, <2>2, <2>3, <2>4
<1>14. Borra(pr, l)  BY <1>1, <1>13 DEF Borra
<1>15. PICK b : b = EntradaEn(pr, m).bMod /\ b = EntradaEn(pr, t).bMod /\ b \in {0, 1}
  <2>1. EntradaEn(pr, m) = EntradaEn(pr, t)  BY <1>12 DEF EntradaEn
  <2>2. PICK j \in Posiciones(p) : j = Posicion(pr, m) + 1  BY <1>8
  <2>3. PICK n : n = EntradaDePag(p, j) /\ n + 1 \in DOMAIN tabla_2_l
    BY PaginaListada
  <2>4. EntradaEn(pr, m) = tabla_2_l[n + 1]
    BY <2>2, <2>3 DEF EntradaEn, EntradaDe, EntradaDePag, Get
  <2>5. tabla_2_l[n + 1].bMod \in {0, 1}
    <3>1. tabla_2_l \in Seq(EntradaTabla)  BY DEF IInv, Tipos, TipoTablas
    <3>2. PICK i \in DOMAIN tabla_2_l : i = n + 1  BY <2>3
    <3>3. tabla_2_l[i] \in EntradaTabla  BY <3>1
    <3>. QED  BY ONLY <3>2, <3>3 DEF EntradaTabla
  <2>. QED  BY <2>1, <2>4, <2>5
<1>. DEFINE V == {k \in 0 .. 4 * l : EsVictima(pr, k)}
<1>16. \E k \in V : k <= 3 * l
  <2>1. CASE b = 0
    <3>1. EsVictima(pr, m)  BY <1>1, <1>11, <1>12, <1>13, <1>14, <1>15, <2>1 DEF EsVictima
    <3>. QED  BY <1>9, <1>10, <1>11, <3>1
  <2>2. CASE b = 1
    <3>1. EsVictima(pr, t)  BY <1>1, <1>11, <1>12, <1>13, <1>14, <1>15, <2>2 DEF EsVictima
    <3>. QED  BY <1>9, <1>10, <1>11, <3>1
  <2>. QED  BY <1>15, <2>1, <2>2
<1>17. V \subseteq Nat
  <2>1. 0 .. 4 * l \subseteq Nat  BY <1>1
  <2>. QED  BY <2>1
<1>18. Turno(pr) = Min(V)  BY <1>1 DEF Turno
<1>19. Turno(pr) \in V /\ \A k \in V : Turno(pr) <= k
  <2>. HIDE DEF V
  <2>. QED  BY <1>16, <1>17, <1>18, MinimoNat
<1>20. PICK t0 \in Nat : t0 = Turno(pr)  BY <1>17, <1>19
<1>21. t0 <= 3 * l /\ EsVictima(pr, t0)
  <2>1. PICK k \in V : k <= 3 * l  BY <1>16
  <2>2. k \in Nat /\ t0 <= k  BY <1>17, <1>19, <1>20
  <2>. QED  BY <1>19, <1>20, <2>1, <2>2
<1>22. ASSUME NEW k \in Nat, k < t0 PROVE ~ EsVictima(pr, k)
  <2>1. k \in 0 .. 4 * l  BY <1>20, <1>21, <1>22
  <2>2. k \in V => t0 <= k  BY <1>19, <1>20
  <2>. QED  BY <1>22, <2>1, <2>2
<1>. QED  BY <1>1, <1>8, <1>20, <1>21, <1>22

\* What a replacement does to the tables: the page of u takes the frame and the
\* place of the page of v, which is at position j0 of pagMem.
Reemplaza(p, j0, u, v) ==
    /\ p = cpu.pid /\ p \in Proceso /\ cpu.pid_ = p /\ estado[p] = "exec"
    /\ cpu.pc = "entrada2" /\ cpu.pag \in Pagina
    /\ ~ Presente(u) /\ u = NumeroPedido /\ v = EntradaDePag(p, j0)
    /\ cpu' = [cpu EXCEPT !.pc = "traer", !.numero = u, !.marco = MarcoDe(v),
                          !.nueva = NADIE]
    /\ \E c \in Nat, d \in Nat :
          procesos' = [procesos EXCEPT ![p + 1].contador = c, ![p + 1].puntero = d]
    /\ paginas' = [paginas EXCEPT ![PagMem(p)[j0]].entrada = u]
    /\ tabla_2_l' \in Seq(EntradaTabla) /\ Len(tabla_2_l') = Len(tabla_2_l)
    /\ tabla_2_l'[u + 1].bPres = 1 /\ tabla_2_l'[u + 1].bMod = 0
    /\ tabla_2_l'[u + 1].frame = tabla_2_l[v + 1].frame
    /\ tabla_2_l'[v + 1].bPres = 0
    /\ \A n \in 0 .. Len(tabla_2_l) - 1 : n # u =>
          /\ tabla_2_l'[n + 1].frame = tabla_2_l[n + 1].frame
          /\ tabla_2_l'[n + 1].bMod = tabla_2_l[n + 1].bMod
          /\ n # v => tabla_2_l'[n + 1].bPres = tabla_2_l[n + 1].bPres
    /\ IF tabla_2_l[v + 1].bMod = 1
       THEN Encolar(Pedido(p, <<PagMem(p)[j0]>>), {})
       ELSE UNCHANGED <<pedidos_swap_l, s_swap, sinCopiar, fiel>>
    /\ UNCHANGED <<socket_kernel, kernel, estado>> /\ UNCHANGED tabla_1_l
    /\ UNCHANGED bitMem /\ UNCHANGED carrera
    /\ UNCHANGED <<memoria, archivo, swap, enCpu, suspensiones, escrito, caida>>

LEMMA TrasReemplazar ==
    ASSUME IInv, Reemplazar
    PROVE  \E p \in Iniciados : \E j0 \in Posiciones(p) :
           \E u \in EntradasDe(p), v \in EntradasDe(p) : Reemplaza(p, j0, u, v)
<1> DEFINE pr0 == Chequeado(Proceso_)
           k0 == Turno(pr0)
           c0 == pr0.contador + k0 + 1
           x0 == Get(pr0.pagMem, Posicion(pr0, k0))
           v0 == paginas[x0].entrada
           borradas == {paginas[Get(pr0.pagMem, Posicion(pr0, j))].entrada :
                           j \in {i \in 0 .. k0 - 1 : Borra(pr0, i)}}
           Nueva(n) ==
               IF n = NumeroPedido
               THEN [frame |-> EntradaDe(x0).frame, bUso |-> 1, bMod |-> 0, bPres |-> 1]
               ELSE [Get(tabla_2_l, n) EXCEPT
                        !.bUso = IF n \in borradas THEN 0 ELSE @,
                        !.bPres = IF n = v0 THEN 0 ELSE @]
<1>1. /\ cpu.pc = "entrada2" /\ Get(tabla_2_l, NumeroPedido).bPres = 0
      /\ EnLista(pr0.pagMem, pr0.puntero)
      /\ tabla_2_l' = [i \in DOMAIN tabla_2_l |-> Nueva(i - 1)]
      /\ paginas' = [paginas EXCEPT ![x0].entrada = NumeroPedido]
      /\ procesos' = [procesos EXCEPT ![cpu.pid_ + 1].contador = c0,
                         ![cpu.pid_ + 1].puntero = c0 % Len(pr0.pagMem)]
      /\ cpu' = [cpu EXCEPT !.pc = "traer", !.numero = NumeroPedido,
                            !.marco = EntradaDe(x0).frame, !.nueva = NADIE]
      /\ UNCHANGED <<socket_kernel, kernel, estado>> /\ UNCHANGED tabla_1_l
      /\ UNCHANGED bitMem /\ UNCHANGED carrera
      /\ UNCHANGED <<memoria, archivo, swap, enCpu, suspensiones, escrito, caida>>
      /\ IF EntradaDe(x0).bMod = 1
         THEN Encolar(Pedido(cpu.pid_, <<x0>>), {})
         ELSE UNCHANGED <<pedidos_swap_l, s_swap, sinCopiar, fiel>>
  BY DEF Reemplazar, EnPageFault, ambiente
<1>2. PICK p \in Iniciados : p = cpu.pid  BY <1>1, PedidoPropio
<1>3. PICK u \in EntradasDe(p) : u = NumeroPedido  BY <1>1, <1>2, PedidoPropio
<1>4. u \in Nat /\ u + 1 \in DOMAIN tabla_2_l  BY <1>1, <1>3, PedidoPropio
<1>5. cpu.pid_ = p /\ p \in Proceso /\ estado[p] = "exec" /\ cpu.pag \in Pagina
  BY <1>1, <1>2 DEF IInv, CpuInv, Ejecuta
<1>6. p \in Nat /\ p + 1 \in DOMAIN procesos /\ procesos[p + 1] \in FilaProceso
      /\ PagMem(p) = procesos[p + 1].pagMem
  BY Filas DEF IInv, Tipos, LlegadaInv
<1>7. PICK pr \in FilaProceso : pr = pr0 /\ pr.pagMem = PagMem(p)
  <2>1. PICK r \in FilaProceso : r = Proceso_ /\ r.pagMem = PagMem(p)
    BY <1>5, <1>6 DEF Proceso_, Get
  <2>2. /\ [r EXCEPT !.puntero = 0] \in FilaProceso
        /\ [r EXCEPT !.puntero = 0].pagMem = r.pagMem
    <3>1. r \in FilaProceso  OBVIOUS
    <3>. QED  BY ONLY <3>1 DEF FilaProceso
  <2>3. Chequeado(r) \in FilaProceso /\ Chequeado(r).pagMem = r.pagMem
    BY <2>2 DEF Chequeado
  <2>. QED  BY <2>1, <2>3
<1>8. k0 \in Nat /\ Posicion(pr0, k0) + 1 \in Posiciones(p)
  BY <1>1, <1>7, HayVictima
<1>9. PICK j0 \in Posiciones(p) : j0 = Posicion(pr0, k0) + 1  BY <1>8
<1>10. x0 = PagMem(p)[j0]  BY <1>7, <1>9 DEF Get
<1>11. PICK v \in EntradasDe(p) : v = EntradaDePag(p, j0)  BY PaginaListada
<1>12. v0 = v  BY <1>10, <1>11 DEF EntradaDePag
<1>13. v + 1 \in DOMAIN tabla_2_l /\ v \in 0 .. Len(tabla_2_l) - 1 /\ Presente(v)
  BY <1>11, PaginaListada
<1>14. EntradaDe(x0) = tabla_2_l[v + 1]  BY <1>12 DEF EntradaDe, Get
<1>15. \E c \in Nat, d \in Nat :
          procesos' = [procesos EXCEPT ![p + 1].contador = c, ![p + 1].puntero = d]
  <2>1. PICK c \in Nat : c = c0
    <3>1. pr0.contador \in Nat  BY <1>7 DEF FilaProceso
    <3>. QED  BY <1>8, <3>1
  <2>2. PICK l \in Nat \ {0} : l = Len(pr0.pagMem)
    <3>1. pr0.pagMem = PagMem(p) /\ Len(PagMem(p)) \in Nat
          /\ Posiciones(p) = 1 .. Len(PagMem(p))
      BY <1>7, Filas DEF IInv, Tipos, LlegadaInv
    <3>. QED  BY <1>8, <3>1
  <2>3. PICK d \in Nat : d = c % l  BY Resto
  <2>. QED  BY <1>1, <1>5, <2>1, <2>2, <2>3
<1>16. u # v /\ ~ Presente(u)
  <2>1. tabla_2_l[u + 1].bPres = 0
    <3>1. Get(tabla_2_l, NumeroPedido).bPres = 0  BY <1>1
    <3>. QED  BY ONLY <1>3, <3>1 DEF Get
  <2>2. ~ Presente(u)  BY ONLY <2>1 DEF Presente
  <2>. QED  BY <1>13, <2>2
<1>17. tabla_2_l \in Seq(EntradaTabla)  BY DEF IInv, Tipos, TipoTablas
<1>18. PICK t \in EntradaTabla : t = tabla_2_l[v + 1]
  <2>1. PICK i \in DOMAIN tabla_2_l : i = v + 1  BY <1>13
  <2>. QED  BY <1>17, <2>1
<1>. DEFINE nueva == [frame |-> t.frame, bUso |-> 1, bMod |-> 0, bPres |-> 1]
            Igual(i) == [tabla_2_l[i] EXCEPT
                            !.bUso = IF i - 1 \in borradas THEN 0 ELSE @,
                            !.bPres = IF i - 1 = v THEN 0 ELSE @]
<1>19. \A i \in DOMAIN tabla_2_l : /\ i = u + 1 => tabla_2_l'[i] = nueva
                                   /\ i # u + 1 => tabla_2_l'[i] = Igual(i)
  <2>1. SUFFICES ASSUME NEW i \in DOMAIN tabla_2_l
        PROVE  /\ i = u + 1 => tabla_2_l'[i] = nueva
               /\ i # u + 1 => tabla_2_l'[i] = Igual(i)
    OBVIOUS
  <2>2. i \in Nat /\ (i - 1) + 1 = i /\ (i - 1 = u <=> i = u + 1)
    BY <1>4, <1>17
  <2>3. tabla_2_l'[i] = Nueva(i - 1)  BY <1>1
  <2>. HIDE DEF borradas
  <2>4. Get(tabla_2_l, i - 1) = tabla_2_l[i]  BY <2>2 DEF Get
  <2>. QED  BY <1>3, <1>12, <1>14, <1>18, <2>2, <2>3, <2>4
<1>20. DOMAIN tabla_2_l' = DOMAIN tabla_2_l  BY <1>1
<1>. HIDE DEF borradas, Nueva
<1>21. nueva \in EntradaTabla /\ nueva.bPres = 1 /\ nueva.frame = t.frame
       /\ nueva.bMod = 0
  <2>1. t \in EntradaTabla  OBVIOUS
  <2>. QED  BY ONLY <2>1 DEF EntradaTabla
<1>22. \A i \in DOMAIN tabla_2_l :
          /\ Igual(i) \in EntradaTabla /\ Igual(i).frame = tabla_2_l[i].frame
          /\ Igual(i).bMod = tabla_2_l[i].bMod
          /\ Igual(i).bPres = IF i - 1 = v THEN 0 ELSE tabla_2_l[i].bPres
  <2>1. SUFFICES ASSUME NEW i \in DOMAIN tabla_2_l
        PROVE  /\ Igual(i) \in EntradaTabla /\ Igual(i).frame = tabla_2_l[i].frame
               /\ Igual(i).bMod = tabla_2_l[i].bMod
               /\ Igual(i).bPres = IF i - 1 = v THEN 0 ELSE tabla_2_l[i].bPres
    OBVIOUS
  <2>2. PICK e \in EntradaTabla : e = tabla_2_l[i]  BY <1>17
  <2>3. PICK b \in {0, 1} : b = IF i - 1 \in borradas THEN 0 ELSE e.bUso
    BY <2>2 DEF EntradaTabla
  <2>4. PICK g \in {0, 1} : g = IF i - 1 = v THEN 0 ELSE e.bPres
    BY <2>2 DEF EntradaTabla
  <2>5. Igual(i) = [e EXCEPT !.bUso = b, !.bPres = g]
    BY <2>2, <2>3, <2>4 DEF EntradaTabla
  <2>6. /\ [e EXCEPT !.bUso = b, !.bPres = g] \in EntradaTabla
        /\ [e EXCEPT !.bUso = b, !.bPres = g].frame = e.frame
        /\ [e EXCEPT !.bUso = b, !.bPres = g].bMod = e.bMod
        /\ [e EXCEPT !.bUso = b, !.bPres = g].bPres = g
    <3>1. e \in EntradaTabla /\ b \in {0, 1} /\ g \in {0, 1}  OBVIOUS
    <3>. QED  BY ONLY <3>1 DEF EntradaTabla
  <2>. QED  BY ONLY <2>2, <2>4, <2>5, <2>6
<1>. HIDE DEF nueva, Igual
<1>23. tabla_2_l' \in Seq(EntradaTabla) /\ Len(tabla_2_l') = Len(tabla_2_l)
  <2>1. DOMAIN tabla_2_l = 1 .. Len(tabla_2_l) /\ Len(tabla_2_l) \in Nat  BY <1>17
  <2>2. \A i \in 1 .. Len(tabla_2_l) : tabla_2_l'[i] \in EntradaTabla
    BY <1>19, <1>21, <1>22, <2>1
  <2>3. PICK l \in Nat : l = Len(tabla_2_l)  BY <2>1
  <2>4. tabla_2_l' = [i \in 1 .. l |-> tabla_2_l'[i]]  BY <1>1, <2>1, <2>3
  <2>5. tabla_2_l' \in [1 .. l -> EntradaTabla]
    BY ONLY <2>2, <2>3, <2>4
  <2>. QED  BY ONLY <2>3, <2>5
<1>24. \A n \in 0 .. Len(tabla_2_l) - 1 : n # u =>
          /\ tabla_2_l'[n + 1].frame = tabla_2_l[n + 1].frame
          /\ tabla_2_l'[n + 1].bMod = tabla_2_l[n + 1].bMod
          /\ n # v => tabla_2_l'[n + 1].bPres = tabla_2_l[n + 1].bPres
  <2>1. SUFFICES ASSUME NEW n \in 0 .. Len(tabla_2_l) - 1, n # u
        PROVE  /\ tabla_2_l'[n + 1].frame = tabla_2_l[n + 1].frame
               /\ tabla_2_l'[n + 1].bMod = tabla_2_l[n + 1].bMod
               /\ n # v => tabla_2_l'[n + 1].bPres = tabla_2_l[n + 1].bPres
    OBVIOUS
  <2>2. n + 1 \in DOMAIN tabla_2_l /\ n + 1 # u + 1 /\ (n + 1) - 1 = n
    BY <1>4, <1>17, <2>1
  <2>3. PICK i \in DOMAIN tabla_2_l : i = n + 1 /\ i # u + 1 /\ i - 1 = n  BY <2>2
  <2>. QED  BY ONLY <1>19, <1>22, <2>3
<1>25. tabla_2_l'[v + 1].bPres = 0
  <2>1. v + 1 # u + 1 /\ (v + 1) - 1 = v  BY <1>4, <1>13, <1>16, <1>17
  <2>. QED  BY <1>13, <1>19, <1>22, <2>1
<1>26. tabla_2_l'[u + 1].bPres = 1 /\ tabla_2_l'[u + 1].frame = tabla_2_l[v + 1].frame
       /\ tabla_2_l'[u + 1].bMod = 0
  BY <1>4, <1>18, <1>19, <1>21
<1>27. cpu' = [cpu EXCEPT !.pc = "traer", !.numero = u, !.marco = MarcoDe(v), !.nueva = NADIE]
  BY <1>1, <1>3, <1>14 DEF MarcoDe
<1>28. paginas' = [paginas EXCEPT ![PagMem(p)[j0]].entrada = u]
  BY <1>1, <1>3, <1>10
<1>29. /\ cpu.pc = "entrada2"
       /\ UNCHANGED <<socket_kernel, kernel, estado>> /\ UNCHANGED tabla_1_l
       /\ UNCHANGED bitMem /\ UNCHANGED carrera
       /\ UNCHANGED <<memoria, archivo, swap, enCpu, suspensiones, escrito, caida>>
       /\ IF tabla_2_l[v + 1].bMod = 1
          THEN Encolar(Pedido(p, <<PagMem(p)[j0]>>), {})
          ELSE UNCHANGED <<pedidos_swap_l, s_swap, sinCopiar, fiel>>
  BY <1>1, <1>5, <1>10, <1>14
<1>. HIDE DEF pr0, k0, c0, x0, v0
<1>30. Reemplaza(p, j0, u, v)
  BY ONLY <1>2, <1>3, <1>5, <1>11, <1>15, <1>16, <1>23, <1>24, <1>25, <1>26, <1>27,
          <1>28, <1>29
     DEF Reemplaza
<1>31. u \in EntradasDe(p) /\ v \in EntradasDe(p) /\ j0 \in Posiciones(p)
       /\ p \in Iniciados
  OBVIOUS
<1>. QED  BY ONLY <1>30, <1>31

\* A replacement moves a frame from the entry of the victim to the one asked for.
LEMMA PasoReemplazar ==
    ASSUME IInv, Reemplazar
    PROVE  IInv'
<1>1. PICK p \in Iniciados : \E j0 \in Posiciones(p) :
           \E u \in EntradasDe(p), v \in EntradasDe(p) : Reemplaza(p, j0, u, v)
  BY TrasReemplazar
<1>. PICK j0 \in Posiciones(p), u \in EntradasDe(p), v \in EntradasDe(p) :
          Reemplaza(p, j0, u, v)
  BY ONLY <1>1
<1>2. /\ p = cpu.pid /\ p \in Proceso /\ cpu.pid_ = p /\ estado[p] = "exec"
      /\ cpu.pc = "entrada2" /\ cpu.pag \in Pagina
      /\ ~ Presente(u) /\ v = EntradaDePag(p, j0)
      /\ \E f : cpu' = [cpu EXCEPT !.pc = "traer", !.numero = u, !.marco = f,
                                   !.nueva = NADIE]
      /\ \E c \in Nat, d \in Nat :
            procesos' = [procesos EXCEPT ![p + 1].contador = c,
                                         ![p + 1].puntero = d]
      /\ paginas' = [paginas EXCEPT ![PagMem(p)[j0]].entrada = u]
      /\ tabla_2_l' \in Seq(EntradaTabla) /\ Len(tabla_2_l') = Len(tabla_2_l)
      /\ tabla_2_l'[u + 1].bPres = 1
      /\ tabla_2_l'[u + 1].frame = tabla_2_l[v + 1].frame
      /\ tabla_2_l'[v + 1].bPres = 0
      /\ \A n \in 0 .. Len(tabla_2_l) - 1 : n # u =>
            /\ tabla_2_l'[n + 1].frame = tabla_2_l[n + 1].frame
            /\ n # v => tabla_2_l'[n + 1].bPres = tabla_2_l[n + 1].bPres
      /\ UNCHANGED <<socket_kernel, kernel, estado>> /\ UNCHANGED tabla_1_l
      /\ UNCHANGED bitMem /\ UNCHANGED carrera
  BY DEF Reemplaza
<1>3. cpu.nueva = NADIE  BY <1>2 DEF IInv, CpuInv
<1>4. /\ u \in 0 .. Len(tabla_2_l) - 1 /\ v \in 0 .. Len(tabla_2_l) - 1 /\ u # v
      /\ Presente(v) /\ u \in Nat /\ PagMem(p)[j0] \in DOMAIN paginas
  <2>1. u \in 0 .. Len(tabla_2_l) - 1 /\ v \in 0 .. Len(tabla_2_l) - 1
    BY DEF EntradasDe
  <2>2. Presente(v) /\ PagMem(p)[j0] \in DOMAIN paginas  BY <1>2, PaginaListada
  <2>3. u \in Nat  BY <2>1
  <2>. QED  BY <1>2, <2>1, <2>2, <2>3
<1>5. PICK x \in DOMAIN paginas : x = PagMem(p)[j0]  BY <1>4
<1>6. /\ procesos' \in Seq(FilaProceso) /\ Len(procesos') = Len(procesos)
      /\ \A q \in Iniciados : PagMem(q)' = PagMem(q)
  <2>1. PICK c \in Nat, d \in Nat :
           procesos' = [procesos EXCEPT ![p + 1].contador = c, ![p + 1].puntero = d]
    BY <1>2
  <2>. QED  BY <2>1, RelojMovido DEF IInv, Tipos, LlegadaInv
<1>7. /\ paginas' \in Seq([numero : Nat, entrada : Nat]) /\ Len(paginas') = Len(paginas)
      /\ DOMAIN paginas' = DOMAIN paginas
      /\ paginas'[x].entrada = u
      /\ \A y \in DOMAIN paginas : y # x => paginas'[y] = paginas[y]
  <2>1. paginas \in Seq([numero : Nat, entrada : Nat])  BY DEF IInv, Tipos, TipoTablas
  <2>2. PICK r0 \in [numero : Nat, entrada : Nat] : r0 = paginas[x]
    <3>1. x \in 1 .. Len(paginas)  BY <2>1
    <3>. QED  BY ONLY <2>1, <3>1, ElementOfSeq
  <2>3. PICK r \in [numero : Nat, entrada : Nat] : r = [r0 EXCEPT !.entrada = u] /\ r.entrada = u
    <3>1. u \in Nat /\ r0 \in [numero : Nat, entrada : Nat]  BY <1>4
    <3>2. [r0 EXCEPT !.entrada = u] \in [numero : Nat, entrada : Nat]
          /\ [r0 EXCEPT !.entrada = u].entrada = u
      BY ONLY <3>1
    <3>. QED  BY ONLY <3>2
  <2>4. paginas' = [paginas EXCEPT ![x] = r]
    <3>1. paginas' = [paginas EXCEPT ![x].entrada = u]  BY <1>2, <1>5
    <3>. QED  BY ONLY <2>2, <2>3, <3>1
  <2>5. x \in DOMAIN paginas /\ r \in [numero : Nat, entrada : Nat]  OBVIOUS
  <2>. QED  BY ONLY <2>1, <2>3, <2>4, <2>5, FilaCambiada
<1>8. TipoTablas'
  BY <1>2, <1>6, <1>7 DEF IInv, Tipos, TipoTablas, FilaProceso, EntradaTabla
<1>9. /\ cpu'.pc = "traer" /\ cpu'.pid = p /\ cpu'.pid_ = p /\ cpu'.numero = u
      /\ cpu'.nueva = NADIE /\ cpu'.pag = cpu.pag /\ TipoHilos'
  <2>1. TipoCpu  BY DEF IInv, Tipos, TipoHilos
  <2>2. PICK f : cpu' = [cpu EXCEPT !.pc = "traer", !.numero = u, !.marco = f,
                                    !.nueva = NADIE]
    BY <1>2
  <2>3. /\ cpu'.pc = "traer" /\ cpu'.pid = cpu.pid /\ cpu'.pid_ = cpu.pid_
        /\ cpu'.numero = u /\ cpu'.nueva = NADIE /\ cpu'.pag = cpu.pag /\ TipoCpu'
    BY ONLY <2>1, <2>2 DEF TipoCpu
  <2>. QED  BY <1>2, <2>3 DEF IInv, Tipos, TipoHilos
<1>10. /\ LlegadaInv' /\ InicioInv' /\ FinInv' /\ Iniciados' = Iniciados
       /\ \A q : (Finalizado(q)' <=> Finalizado(q)) /\ (Borrando(q)' <=> Borrando(q))
       /\ EnLimpieza' = EnLimpieza
  BY <1>2, <1>6, HilosQuietos
<1>11. \A q : TablasDe(q)' = TablasDe(q) /\ EntradasDe(q)' = EntradasDe(q)
  <2>1. \A q : TablasDe(q)' = TablasDe(q)  BY <1>2 DEF TablasDe
  <2>. QED  BY <1>2, <2>1 DEF EntradasDe
<1>12. TablasInv'
  BY <1>2, <1>6, <1>10, <1>11 DEF IInv, TablasInv
<1>13. \A n \in 0 .. Len(tabla_2_l) - 1 :
          /\ Presente(n)' <=> n = u \/ (Presente(n) /\ n # v)
          /\ n # u => MarcoDe(n)' = MarcoDe(n)
  <2>1. /\ u # v /\ tabla_2_l'[u + 1].bPres = 1 /\ tabla_2_l'[v + 1].bPres = 0
        /\ \A n \in 0 .. Len(tabla_2_l) - 1 : n # u =>
              /\ tabla_2_l'[n + 1].frame = tabla_2_l[n + 1].frame
              /\ n # v => tabla_2_l'[n + 1].bPres = tabla_2_l[n + 1].bPres
    BY <1>2, <1>4
  <2>. QED  BY ONLY <2>1 DEF Presente, MarcoDe
<1>14. MarcoDe(u)' = MarcoDe(v)  BY <1>2 DEF MarcoDe
<1>15. \A q \in Iniciados : \A n \in EntradasDe(q) :
          n \in 0 .. Len(tabla_2_l) - 1 /\ (q # p => n # u /\ n # v)
  BY EntradasPropias DEF EntradasDe
<1>16. \A q \in Iniciados : \A k \in Posiciones(q) :
          /\ PagMem(q)[k] \in DOMAIN paginas
          /\ EntradaDePag(q, k) \in EntradasDe(q) /\ Presente(EntradaDePag(q, k))
          /\ EntradaDePag(q, k) \in 0 .. Len(tabla_2_l) - 1
  BY PaginaListada
<1>17. \A q \in Iniciados : \A k \in Posiciones(q) :
          /\ PagMem(q)[k] = x <=> q = p /\ k = j0
          /\ EntradaDePag(q, k) = v <=> q = p /\ k = j0
          /\ EntradaDePag(q, k) # u
  <2>1. SUFFICES ASSUME NEW q \in Iniciados, NEW k \in Posiciones(q)
        PROVE  /\ PagMem(q)[k] = x <=> q = p /\ k = j0
               /\ EntradaDePag(q, k) = v <=> q = p /\ k = j0
               /\ EntradaDePag(q, k) # u
    OBVIOUS
  <2>2. PICK n : n = EntradaDePag(q, k)  OBVIOUS
  <2>3. n \in EntradasDe(q) /\ Presente(n)  BY <1>16, <2>2
  <2>4. n # u  BY <1>2, <2>3
  <2>5. q # p => n # v  BY <1>15, <2>3
  <2>6. q = p /\ n = v => k = j0
    BY <1>2, <2>2 DEF IInv, PaginasInv
  <2>7. PagMem(q)[k] = x => n = v
    BY <1>2, <1>5, <2>2 DEF EntradaDePag
  <2>8. q = p /\ k = j0 => PagMem(q)[k] = x /\ n = v  BY <1>2, <1>5, <2>2
  <2>. QED  BY ONLY <2>2, <2>4, <2>5, <2>6, <2>7, <2>8
<1>18. \A q \in Iniciados :
          /\ Posiciones(q)' = Posiciones(q)
          /\ \A k \in Posiciones(q) :
                /\ q = p /\ k = j0 => EntradaDePag(q, k)' = u
                /\ ~ (q = p /\ k = j0) => EntradaDePag(q, k)' = EntradaDePag(q, k)
  <2>1. \A q \in Iniciados : Posiciones(q)' = Posiciones(q)  BY <1>6 DEF Posiciones
  <2>2. ASSUME NEW q \in Iniciados, NEW k \in Posiciones(q)
        PROVE  /\ q = p /\ k = j0 => EntradaDePag(q, k)' = u
               /\ ~ (q = p /\ k = j0) => EntradaDePag(q, k)' = EntradaDePag(q, k)
    <3>1. PICK y \in DOMAIN paginas : y = PagMem(q)[k]  BY <1>16
    <3>2. y = x <=> q = p /\ k = j0  BY <1>17, <3>1
    <3>3. EntradaDePag(q, k)' = paginas'[y].entrada /\ EntradaDePag(q, k) = paginas[y].entrada
      BY <1>6, <3>1 DEF EntradaDePag
    <3>. QED  BY <1>7, <3>2, <3>3
  <2>. QED  BY <2>1, <2>2
<1>19. CpuInv'
  <2>1. \A q \in Proceso : Ejecuta(q)' <=> Ejecuta(q)  BY <1>2 DEF Ejecuta
  <2>2. (cpu.numero \in EntradasDe(cpu.pid))'
    <3>1. u \in EntradasDe(p)'  BY <1>11
    <3>. QED  BY <1>9, <3>1 DEF EntradasDe, TablasDe
  <2>3. \A q, r \in Proceso : Ejecuta(q)' /\ Ejecuta(r)' => q = r
    BY <2>1 DEF IInv, CpuInv
  <2>4. Ejecuta(cpu.pid)'  BY <1>2, <1>9 DEF Ejecuta
  <2>. QED  BY <1>2, <1>9, <2>2, <2>3, <2>4 DEF CpuInv
<1>20. PaginasInv'
  <2>1. \A n : ~ Llega(n) /\ ~ Llega(n)'  BY <1>3, <1>9 DEF Llega
  <2>2. \A q : ~ Creciendo(q) /\ ~ Creciendo(q)'
    BY <1>2, <1>3, <1>9 DEF Creciendo
  <2>3. SUFFICES ASSUME NEW q \in Iniciados
        PROVE  /\ \A k \in Posiciones(q) :
                     /\ PagMem(q)[k] \in DOMAIN paginas
                     /\ EntradaDePag(q, k)' \in EntradasDe(q)
                     /\ Presente(EntradaDePag(q, k))'
               /\ \A j, k \in Posiciones(q) :
                     EntradaDePag(q, j)' = EntradaDePag(q, k)' => j = k
               /\ \A n \in EntradasDe(q) : Presente(n)' =>
                     \E k \in Posiciones(q) : n = EntradaDePag(q, k)'
               /\ Len(PagMem(q)) + 0 <= MARCOS_POR_PROCESO
    BY <1>6, <1>7, <1>10, <1>11, <1>18, <2>1, <2>2 DEF PaginasInv, Listadas
  <2>4. ASSUME NEW k \in Posiciones(q)
        PROVE  EntradaDePag(q, k)' \in EntradasDe(q) /\ Presente(EntradaDePag(q, k))'
    <3>1. PICK m : m = EntradaDePag(q, k)'  OBVIOUS
    <3>2. m \in EntradasDe(q) /\ Presente(m)'
      <4>1. CASE q = p /\ k = j0
        <5>1. m = u  BY <1>18, <3>1, <4>1
        <5>. QED  BY <1>4, <1>13, <4>1, <5>1
      <4>2. CASE ~ (q = p /\ k = j0)
        <5>1. m = EntradaDePag(q, k)  BY <1>18, <3>1, <4>2
        <5>2. m \in EntradasDe(q) /\ Presente(m) /\ m # v  BY <1>16, <1>17, <4>2, <5>1
        <5>. QED  BY <1>13, <1>15, <5>2
      <4>. QED  BY <4>1, <4>2
    <3>. QED  BY <3>1, <3>2 DEF Presente
  <2>5. \A j, k \in Posiciones(q) : EntradaDePag(q, j)' = EntradaDePag(q, k)' => j = k
    <3>1. \A j, k \in Posiciones(q) : EntradaDePag(q, j) = EntradaDePag(q, k) => j = k
      BY DEF IInv, PaginasInv
    <3>. QED  BY <1>17, <1>18, <3>1
  <2>6. ASSUME NEW n \in EntradasDe(q), Presente(n)'
        PROVE  \E k \in Posiciones(q) : n = EntradaDePag(q, k)'
    <3>1. CASE n = u
      <4>1. q = p  BY <1>15, <3>1
      <4>. QED  BY <1>18, <3>1, <4>1
    <3>2. CASE n # u
      <4>1. Presente(n) /\ n # v  BY <1>13, <1>15, <2>6, <3>2
      <4>2. n \in Listadas(q)  BY <2>1, <4>1 DEF IInv, PaginasInv
      <4>3. PICK k \in Posiciones(q) : n = EntradaDePag(q, k)  BY <4>2 DEF Listadas
      <4>. QED  BY <1>17, <1>18, <4>1, <4>3
    <3>. QED  BY <3>1, <3>2
  <2>7. Len(PagMem(q)) + 0 <= MARCOS_POR_PROCESO
    <3>1. Len(PagMem(q)) + (IF Creciendo(q) THEN 1 ELSE 0) <= MARCOS_POR_PROCESO
      BY DEF IInv, PaginasInv
    <3>. QED  BY <2>2, <3>1
  <2>. QED  BY <1>16, <2>4, <2>5, <2>6, <2>7
<1>21. \A q \in Iniciados : Borrando(q) \/ Finalizado(q) => q # p
  BY <1>2, ProcesoQueTermina DEF Borrando, Finalizado
<1>22. BorradoInv'
  <2>1. SUFFICES ASSUME kernel.pc \in {"borrar", "limpiar_fin"} PROVE BorradoInv'
    BY <1>2 DEF BorradoInv
  <2>2. PICK q : q = kernel.pid  OBVIOUS
  <2>3. q \in Iniciados /\ q # p
    BY <1>2, <2>1, <2>2, ProcesoQueTermina
  <2>4. (kernel.i <= Len(PagMem(kernel.pid)))'
        /\ (kernel.pc = "limpiar_fin" => (kernel.i < Len(PagMem(kernel.pid)))')
    <3>1. kernel.i <= Len(PagMem(q)') /\ (kernel.pc = "limpiar_fin" => kernel.i < Len(PagMem(q)'))
      BY <1>6, <2>1, <2>2, <2>3 DEF IInv, BorradoInv
    <3>. QED  BY <1>2, <2>2, <3>1 DEF PagMem, Get
  <2>5. kernel.pc = "limpiar_fin" =>
           (kernel.frame = MarcoDe(EntradaDePag(kernel.pid, kernel.i + 1)))'
    <3>1. SUFFICES ASSUME kernel.pc = "limpiar_fin"
          PROVE  (kernel.frame = MarcoDe(EntradaDePag(kernel.pid, kernel.i + 1)))'
      OBVIOUS
    <3>2. PICK k : k = kernel.i + 1  OBVIOUS
    <3>3. k \in Posiciones(q)  BY <2>2, <3>1, <3>2, EntradaQueSeBorra
    <3>4. PICK n : n = EntradaDePag(q, k)  OBVIOUS
    <3>5. n \in EntradasDe(q)  BY <1>16, <2>3, <3>3, <3>4
    <3>6. MarcoDe(n)' = MarcoDe(n) /\ EntradaDePag(q, k)' = n
      BY <1>13, <1>15, <1>18, <2>3, <3>3, <3>4, <3>5
    <3>7. kernel.frame = MarcoDe(n)  BY <2>2, <3>1, <3>2, <3>4 DEF IInv, BorradoInv
    <3>. QED  BY <1>2, <2>2, <3>2, <3>6, <3>7 DEF MarcoDe, EntradaDePag, PagMem, Get
  <2>. QED  BY <1>2, <2>4, <2>5 DEF BorradoInv
<1>23. MarcosInv => MarcosInv'
  <2>1. SUFFICES ASSUME MarcosInv PROVE MarcosInv'  OBVIOUS
  <2>2. \A q \in Iniciados : \A n : Devuelta(q, n)' <=> Devuelta(q, n)
    <3>1. ASSUME NEW q \in Iniciados, Borrando(q)
          PROVE  \A k \in 1 .. kernel.i : EntradaDePag(q, k)' = EntradaDePag(q, k)
      <4>1. q = kernel.pid /\ kernel.pc \in {"borrar", "limpiar_fin"} /\ q # p
        BY <1>21, <3>1 DEF Borrando
      <4>2. kernel.i <= Len(PagMem(q)) /\ kernel.i \in Nat
        BY <4>1 DEF IInv, BorradoInv, Tipos, TipoHilos
      <4>3. Posiciones(q) = 1 .. Len(PagMem(q)) /\ Len(PagMem(q)) \in Nat
        BY <3>1, Filas DEF IInv, Tipos, LlegadaInv
      <4>4. \A k \in 1 .. kernel.i : k \in Posiciones(q)
        BY ONLY <4>2, <4>3
      <4>. QED  BY <1>18, <3>1, <4>1, <4>4
    <3>2. kernel'.i = kernel.i  BY <1>2
    <3>. QED  BY <1>10, <3>1, <3>2 DEF Devuelta
  <2>3. \A n : ~ Devuelta(p, n)  BY <1>21 DEF Devuelta
  <2>4. \A q \in Iniciados : \A n :
           Ocupa(q, n)' <=> (Ocupa(q, n) /\ n # v) \/ (q = p /\ n = u)
    <3>1. SUFFICES ASSUME NEW q \in Iniciados, NEW n
          PROVE  Ocupa(q, n)' <=> (Ocupa(q, n) /\ n # v) \/ (q = p /\ n = u)
      OBVIOUS
    <3>2. Ocupa(q, n)' <=> n \in EntradasDe(q) /\ Presente(n)' /\ ~ Devuelta(q, n)
      BY <1>11, <2>2, <3>1 DEF Ocupa
    <3>. QED  BY <1>13, <1>15, <2>3, <3>2 DEF Ocupa
  <2>5. v \in Ocupadas /\ u \notin Ocupadas
    <3>1. Ocupa(p, v)  BY <1>4, <2>3 DEF Ocupa
    <3>. QED  BY <1>2, <1>4, <3>1 DEF Ocupadas, Ocupa
  <2>6. Ocupadas' = (Ocupadas \ {v}) \union {u}
    <3>1. \A n : n \in Ocupadas' <=> n \in 0 .. Len(tabla_2_l) - 1
             /\ \E q \in Iniciados : (Ocupa(q, n) /\ n # v) \/ (q = p /\ n = u)
      BY <1>2, <1>10, <2>4 DEF Ocupadas
    <3>. QED  BY <1>4, <3>1 DEF Ocupadas
  <2>7. \A n \in Ocupadas' : MarcoDe(n)' = (IF n = u THEN MarcoDe(v) ELSE MarcoDe(n))
    BY <1>13, <1>14, <2>6 DEF Ocupadas
  <2>8. /\ \A n \in Ocupadas : MarcoDe(n) \in Frame \ EnLimpieza
        /\ \A n, m \in Ocupadas : MarcoDe(n) = MarcoDe(m) => n = m
        /\ EnLimpieza \subseteq Frame
        /\ bitMem = {MarcoDe(n) : n \in Ocupadas} \union EnLimpieza
    BY <2>1 DEF MarcosInv
  <2>9. \A n \in Ocupadas' : MarcoDe(n)' \in Frame \ EnLimpieza
    BY <2>5, <2>6, <2>7, <2>8
  <2>10. \A n, m \in Ocupadas' : MarcoDe(n)' = MarcoDe(m)' => n = m
    BY <2>5, <2>6, <2>7, <2>8
  <2>11. {MarcoDe(n)' : n \in Ocupadas'} = {MarcoDe(n) : n \in Ocupadas}
    <3>1. ASSUME NEW n \in Ocupadas PROVE \E m \in Ocupadas' : MarcoDe(m)' = MarcoDe(n)
      <4>1. CASE n = v  BY <2>6, <2>7, <4>1
      <4>2. CASE n # v  BY <2>5, <2>6, <2>7, <3>1, <4>2
      <4>. QED  BY <4>1, <4>2
    <3>2. ASSUME NEW m \in Ocupadas' PROVE \E n \in Ocupadas : MarcoDe(m)' = MarcoDe(n)
      BY <2>5, <2>6, <2>7
    <3>. QED  BY <3>1, <3>2
  <2>12. bitMem' = {MarcoDe(n)' : n \in Ocupadas'} \union EnLimpieza
    BY <1>2, <2>8, <2>11
  <2>. QED  BY <1>9, <1>10, <2>8, <2>9, <2>10, <2>12 DEF MarcosInv
<1>24. carrera' = carrera  BY <1>2
<1>. QED  BY <1>8, <1>9, <1>10, <1>12, <1>19, <1>20, <1>22, <1>23, <1>24 DEF IInv, Tipos

-----------------------------------------------------------------------------
(* Every step.                                                              *)

\* swap_ and the deaths of Memoria touch nothing of this.
LEMMA PasoDeSwap ==
    ASSUME IInv, Swap_ \/ MuereKernel
    PROVE  IInv'
<1>1. UNCHANGED <<datos, bitMem, hilos, cpu>>
  <2>1. CASE TomarPedido
    BY <2>1 DEF TomarPedido, Morir, datos, hilos, tablas, ambiente, historia
  <2>2. CASE QuitarPedido
    BY <2>2 DEF QuitarPedido, datos, hilos, tablas, ambiente, historia
  <2>3. CASE CopiarPedido
    BY <2>3 DEF CopiarPedido, datos, hilos, tablas, ambiente
  <2>4. CASE CopiarSinArchivo
    BY <2>4 DEF CopiarSinArchivo, Morir, datos, hilos, tablas, ambiente, historia
  <2>5. CASE MuereKernel
    BY <2>5 DEF MuereKernel, Morir, datos, hilos, tablas, ambiente, historia
  <2>. QED  BY <2>1, <2>2, <2>3, <2>4, <2>5 DEF Swap_
<1>. QED  BY <1>1, PasoAjeno

\* Every step keeps the invariant.
LEMMA IInvPaso ==
    ASSUME IInv, OrdenDePids, [Next]_vars
    PROVE  IInv'
<1>1. CASE UNCHANGED vars
  <2>1. UNCHANGED <<datos, bitMem, hilos, cpu>>
    BY <1>1 DEF vars, datos, hilos
  <2>. QED  BY <2>1, PasoAjeno
<1>2. CASE KernelYCpu
  <2>1. CASE PedirInicializar  BY <2>1, PasoPedirInicializar
  <2>2. ASSUME NEW p \in Proceso, Despachar(p) \/ Bloquear(p) \/ Desbloquear(p)
        PROVE  IInv'
    BY <2>2, PasoDeCola
  <2>3. ASSUME NEW p \in Proceso, Suspender(p) \/ Terminar(p)
        PROVE  IInv'
    BY <2>3, PasoAviso
  <2>4. ASSUME NEW p \in Proceso, NEW n \in Pagina, NEW op \in INSTRUCCIONES,
               Acceso(p, n, op)
        PROVE  IInv'
    BY <2>4, PasoAcceso
  <2>. QED  BY <1>2, <2>1, <2>2, <2>3, <2>4 DEF KernelYCpu
<1>3. CASE Funciones_kernel
  <2>1. CASE Inicializar_proceso    BY <2>1, PasoInicializar_proceso
  <2>2. CASE Crear_archivo_swap     BY <2>2, PasoCrear_archivo_swap
  <2>3. CASE Suspender_proceso      BY <2>3, PasoSuspender_proceso
  <2>4. CASE LiberarPagina          BY <2>4, PasoLiberarPagina
  <2>5. CASE LimpiarBit             BY <2>5, PasoLimpiarBit
  <2>6. CASE FinSuspender           BY <2>6, PasoFinSuspender
  <2>7. CASE Finalizar_proceso      BY <2>7, PasoFinalizar_proceso
  <2>8. CASE BorrarFrame            BY <2>8, PasoBorrarFrame
  <2>9. CASE Eliminar_archivo_swap  BY <2>9, PasoEliminar_archivo_swap
  <2>10. CASE MuereKernel           BY <2>10, PasoDeSwap
  <2>. QED
    BY <1>3, <2>1, <2>2, <2>3, <2>4, <2>5, <2>6, <2>7, <2>8, <2>9, <2>10
       DEF Funciones_kernel
<1>4. CASE Funciones_cpu
  <2>1. CASE Entrada1               BY <2>1, PasoEntrada1
  <2>2. CASE EntradaPresente        BY <2>2, PasoEntradaPresente
  <2>3. CASE BuscarFrameLibre       BY <2>3, PasoBuscarFrameLibre
  <2>4. CASE TomarFrame             BY <2>4, PasoTomarFrame
  <2>5. CASE Reemplazar             BY <2>5, PasoReemplazar
  <2>6. CASE ReemplazarSinPaginas   BY <2>6, PasoReemplazarSinPaginas
  <2>7. CASE Traer_a_memoria        BY <2>7, PasoTraer_a_memoria
  <2>8. CASE ResponderMarco         BY <2>8, PasoResponderMarco
  <2>9. CASE Lectura \/ Escritura   BY <2>9, PasoMemcpy
  <2>10. CASE Marcar                BY <2>10, PasoMarcar
  <2>. QED
    BY <1>4, <2>1, <2>2, <2>3, <2>4, <2>5, <2>6, <2>7, <2>8, <2>9, <2>10
       DEF Funciones_cpu
<1>5. CASE Swap_  BY <1>5, PasoDeSwap
<1>. QED  BY <1>1, <1>2, <1>3, <1>4, <1>5 DEF Next, Viva

\* The entries that the processes that have not ended have in memory.
LEMMA PresentesOcupadas ==
    ASSUME IInv
    PROVE  /\ Presentes \subseteq Ocupadas
           /\ \A p \in Iniciados : estado[p] # "exit" =>
                 {n \in Presentes : n \div ENTRADAS_POR_TABLA \in TablasDe(p)}
                    = {n \in EntradasDe(p) : Presente(n)}
           /\ kernel.pc = "libre" /\ socket_kernel = <<>> => Ocupadas \subseteq Presentes
<1>1. \A p \in Iniciados : /\ p + 1 \in DOMAIN tabla_1_l /\ tabla_1_l[p + 1].pid = p
                           /\ tabla_1_l[p + 1] \in ToSet(tabla_1_l) /\ p \in Proceso
  <2>1. SUFFICES ASSUME NEW p \in Iniciados
        PROVE  /\ p + 1 \in DOMAIN tabla_1_l /\ tabla_1_l[p + 1].pid = p
               /\ tabla_1_l[p + 1] \in ToSet(tabla_1_l) /\ p \in Proceso
    OBVIOUS
  <2>2. PICK i \in DOMAIN tabla_1_l : i = p + 1
    BY Filas DEF IInv, Tipos, LlegadaInv
  <2>3. p \in Nat  BY Filas DEF IInv, Tipos, LlegadaInv
  <2>4. tabla_1_l[i].pid = p  BY <2>2, <2>3 DEF IInv, LlegadaInv
  <2>5. tabla_1_l[i] \in ToSet(tabla_1_l)  BY DEF ToSet
  <2>6. p \in Proceso
    <3>1. Len(procesos) <= CANT_PROCESOS /\ CANT_PROCESOS \in Nat /\ Len(procesos) \in Nat
      BY ProcesosAssumption DEF IInv, LlegadaInv, Tipos, TipoTablas
    <3>. QED  BY <3>1 DEF Iniciados, Proceso
  <2>. QED  BY <2>2, <2>4, <2>5, <2>6
<1>2. ASSUME NEW t \in ToSet(tabla_1_l)
      PROVE  t.pid \in Iniciados /\ ToSet(t.entradas) = TablasDe(t.pid)
  <2>1. PICK i \in DOMAIN tabla_1_l : t = tabla_1_l[i]  BY DEF ToSet
  <2>2. DOMAIN tabla_1_l = 1 .. Len(procesos) /\ Len(procesos) \in Nat
    BY DEF IInv, Tipos, TipoTablas, LlegadaInv
  <2>3. t.pid = i - 1  BY <2>1 DEF IInv, LlegadaInv
  <2>4. i - 1 \in 0 .. Len(procesos) - 1 /\ (i - 1) + 1 = i  BY <2>2
  <2>. QED  BY <2>1, <2>3, <2>4 DEF Iniciados, TablasDe
<1>3. \A n : n \in Presentes <=> /\ n \in 0 .. Len(tabla_2_l) - 1 /\ Presente(n)
                                 /\ \E p \in Iniciados : n \in EntradasDe(p) /\ estado[p] # "exit"
  <2>1. SUFFICES ASSUME NEW n \in 0 .. Len(tabla_2_l) - 1
        PROVE  (\E t \in ToSet(tabla_1_l) : /\ n \div ENTRADAS_POR_TABLA \in ToSet(t.entradas)
                                            /\ estado[t.pid] # "exit")
               <=> \E p \in Iniciados : n \in EntradasDe(p) /\ estado[p] # "exit"
    BY DEF Presentes, Presente, Get
  <2>. QED  BY <1>1, <1>2 DEF EntradasDe, TablasDe
<1>4. \A p \in Iniciados : estado[p] # "exit" => \A n : ~ Devuelta(p, n)
  BY ProcesoQueTermina DEF Devuelta, Finalizado, Borrando
<1>5. Presentes \subseteq Ocupadas
  BY <1>3, <1>4 DEF Ocupadas, Ocupa
<1>6. ASSUME NEW p \in Iniciados, estado[p] # "exit"
      PROVE  {n \in Presentes : n \div ENTRADAS_POR_TABLA \in TablasDe(p)}
                = {n \in EntradasDe(p) : Presente(n)}
  BY <1>3, <1>6 DEF EntradasDe
<1>7. ASSUME kernel.pc = "libre", socket_kernel = <<>>
      PROVE  Ocupadas \subseteq Presentes
  <2>1. \A p : estado[p] = "exit" => Finalizado(p)
    BY <1>7 DEF Finalizado, EnEspera, Borrando
  <2>. QED  BY <1>3, <2>1 DEF Ocupadas, Ocupa, Devuelta
<1>. QED  BY <1>5, <1>6, <1>7

\* A list of different pages has as many entries as it is long.
LEMMA PaginasContadas ==
    ASSUME IInv, NEW p \in Iniciados
    PROVE  /\ IsFiniteSet(Listadas(p)) /\ Cardinality(Listadas(p)) = Len(PagMem(p))
           /\ Listadas(p) = {paginas[x].entrada : x \in ToSet(PagMem(p))}
<1>1. PICK l \in Nat : l = Len(PagMem(p))  BY Filas DEF IInv, Tipos, LlegadaInv
<1>2. Posiciones(p) = 1 .. l  BY <1>1, Filas DEF IInv, Tipos, LlegadaInv
<1>. DEFINE f == [k \in 1 .. l |-> EntradaDePag(p, k)]
<1>3. IsFiniteSet(1 .. l) /\ Cardinality(1 .. l) = l
  <2>1. 1 \in Int /\ l \in Int  OBVIOUS
  <2>2. IsFiniteSet(1 .. l) /\ Cardinality(1 .. l) = IF 1 > l THEN 0 ELSE l - 1 + 1
    BY <2>1, FS_Interval
  <2>. QED  BY <2>2
<1>4. f \in Bijection(1 .. l, Listadas(p))
  <2>1. \A j, k \in 1 .. l : EntradaDePag(p, j) = EntradaDePag(p, k) => j = k
    BY <1>2 DEF IInv, PaginasInv
  <2>2. Listadas(p) = {EntradaDePag(p, k) : k \in 1 .. l}  BY <1>2 DEF Listadas
  <2>. QED  BY <2>1, <2>2 DEF Bijection, Injection, Surjection, IsInjective
<1>5. ExistsBijection(1 .. l, Listadas(p))  BY <1>4 DEF ExistsBijection
<1>6. IsFiniteSet(Listadas(p)) /\ Cardinality(Listadas(p)) = l
  BY <1>3, <1>5, FS_Bijection
<1>7. Listadas(p) = {paginas[x].entrada : x \in ToSet(PagMem(p))}
  BY DEF Listadas, Posiciones, EntradaDePag, ToSet
<1>. QED  BY <1>1, <1>6, <1>7

-----------------------------------------------------------------------------
(* Theorems.                                                                *)

\* The inductive invariant holds in every state of every instance with
\* processes in the order of their pids.
THEOREM Invariante == ASSUME OrdenDePids PROVE Spec => []IInv
BY IInvInicio, IInvPaso, PTL DEF Spec

\* No two pages in memory share a frame, and every frame in use has its bit set,
\* until a byte of bitMem is written back stale (funciones_cpu.c:511,
\* funciones_kernel.c:103,133).
THEOREM MarcosSinDosDuenos == ASSUME OrdenDePids PROVE Spec => []MarcosExclusivos
<1>1. IInv => MarcosExclusivos
  <2> SUFFICES ASSUME IInv, ~ carrera PROVE MarcosExclusivos
    BY DEF MarcosExclusivos
  <2>1. MarcosInv  BY DEF IInv
  <2>2. \A n : MarcoDe(n) = Get(tabla_2_l, n).frame  BY DEF MarcoDe, Get
  <2>. QED  BY <2>1, <2>2, PresentesOcupadas DEF MarcosExclusivos, MarcosInv
<1>. QED  BY <1>1, Invariante, PTL

\* pagMem of a process that has not ended lists its pages in memory, each once,
\* and they are MARCOS_POR_PROCESO at most (funciones_cpu.c:178,206).
THEOREM PagMemCierta == ASSUME OrdenDePids PROVE Spec => []PagMemFiel
<1>1. IInv => PagMemFiel
  <2> SUFFICES ASSUME IInv, NEW t \in ToSet(tabla_1_l), estado[t.pid] # "exit"
      PROVE  LET xs == PagMem(t.pid)
                 suyas == {n \in Presentes : n \div ENTRADAS_POR_TABLA \in ToSet(t.entradas)}
                 enLista == {paginas[x].entrada : x \in ToSet(xs)}
                 llegando == IF cpu.nueva # NADIE THEN {cpu.numero} ELSE {}
             IN  /\ Cardinality(suyas) <= MARCOS_POR_PROCESO
                 /\ Cardinality(enLista) = Len(xs)
                 /\ suyas \ llegando = enLista
    BY DEF PagMemFiel
  <2>1. PICK i \in DOMAIN tabla_1_l : t = tabla_1_l[i]  BY DEF ToSet
  <2>2. PICK p \in Iniciados : p = t.pid /\ tabla_1_l[p + 1] = t
    <3>1. DOMAIN tabla_1_l = 1 .. Len(procesos) /\ Len(procesos) \in Nat
      BY DEF IInv, Tipos, TipoTablas, LlegadaInv
    <3>2. t.pid = i - 1  BY <2>1 DEF IInv, LlegadaInv
    <3>3. i - 1 \in 0 .. Len(procesos) - 1 /\ (i - 1) + 1 = i  BY <3>1
    <3>. QED  BY <2>1, <3>2, <3>3 DEF Iniciados
  <2> DEFINE suyas == {n \in EntradasDe(p) : Presente(n)}
             llegando == IF cpu.nueva # NADIE THEN {cpu.numero} ELSE {}
  <2>3. {n \in Presentes : n \div ENTRADAS_POR_TABLA \in ToSet(t.entradas)} = suyas
    BY <2>2, PresentesOcupadas DEF TablasDe
  <2>4. /\ IsFiniteSet(Listadas(p)) /\ Cardinality(Listadas(p)) = Len(PagMem(p))
        /\ Listadas(p) = {paginas[x].entrada : x \in ToSet(PagMem(p))}
        /\ Len(PagMem(p)) \in Nat
    BY PaginasContadas, Filas DEF IInv, Tipos, LlegadaInv
  <2>5. Listadas(p) \subseteq suyas
    BY DEF IInv, PaginasInv, Listadas
  <2>6. \A n \in suyas : n \in Listadas(p) \/ Llega(n)
    BY DEF IInv, PaginasInv
  <2>7. \A n : Llega(n) <=> n \in llegando  BY DEF Llega
  <2>8. cpu.nueva # NADIE => /\ cpu.pid \in Iniciados
                             /\ cpu.numero \in EntradasDe(cpu.pid)
                             /\ cpu.numero \notin Listadas(cpu.pid)
    BY PaginaQueLlega DEF IInv, CpuInv, Llega
  <2>9. llegando \cap Listadas(p) = {}
    <3>1. Listadas(p) \subseteq EntradasDe(p)  BY <2>5
    <3>. QED  BY <2>8, <3>1, EntradasPropias
  <2>10. suyas \ llegando = Listadas(p)
    BY <2>5, <2>6, <2>7, <2>9
  <2>11. Cardinality(suyas) <= MARCOS_POR_PROCESO
    <3>1. Len(PagMem(p)) + (IF Creciendo(p) THEN 1 ELSE 0) <= MARCOS_POR_PROCESO
      BY DEF IInv, PaginasInv
    <3>2. CASE suyas = Listadas(p)
      <4>1. Len(PagMem(p)) <= MARCOS_POR_PROCESO
        <5>1. MARCOS_POR_PROCESO \in Nat  BY MarcosAssumption
        <5>. QED  BY <2>4, <3>1, <5>1
      <4>. QED  BY <2>4, <3>2, <4>1
    <3>3. CASE suyas # Listadas(p)
      <4>1. PICK n \in suyas : Llega(n) /\ n \notin Listadas(p)  BY <2>5, <2>6, <3>3
      <4>2. suyas = Listadas(p) \union {n}  BY <2>5, <2>6, <4>1 DEF Llega
      <4>3. Cardinality(suyas) = Len(PagMem(p)) + 1
        <5>1. Cardinality(Listadas(p) \union {n}) =
                 IF n \in Listadas(p) THEN Cardinality(Listadas(p))
                 ELSE Cardinality(Listadas(p)) + 1
          BY <2>4, FS_AddElement
        <5>. QED  BY ONLY <2>4, <4>1, <4>2, <5>1
      <4>4. Creciendo(p)
        BY <2>8, <4>1, EntradasPropias DEF Llega, Creciendo
      <4>. QED  BY <3>1, <4>3, <4>4
    <3>. QED  BY <3>2, <3>3
  <2>. HIDE DEF suyas, llegando
  <2>12. /\ Cardinality(suyas) <= MARCOS_POR_PROCESO
         /\ Cardinality(Listadas(p)) = Len(PagMem(p))
         /\ suyas \ llegando = Listadas(p)
    BY <2>4, <2>10, <2>11
  <2>. QED  BY <2>2, <2>3, <2>4, <2>12 DEF llegando
<1>. QED  BY <1>1, Invariante, PTL

\* When Memoria has nothing to do every frame taken is that of a page in memory
\* of a process that has not ended: suspending and ending leave none behind
\* (funciones_kernel.c:95-140).
THEOREM NingunMarcoPerdido == ASSUME OrdenDePids PROVE Spec => []SinFugas
<1>1. IInv => SinFugas
  <2> SUFFICES ASSUME IInv, kernel.pc = "libre", socket_kernel = <<>>, ~ carrera
      PROVE  bitMem = {Get(tabla_2_l, n).frame : n \in Presentes}
    BY DEF SinFugas
  <2>1. bitMem = {MarcoDe(n) : n \in Ocupadas} \union EnLimpieza  BY DEF IInv, MarcosInv
  <2>2. EnLimpieza = {}  BY DEF EnLimpieza
  <2>3. Ocupadas = Presentes  BY PresentesOcupadas
  <2>. QED  BY <2>1, <2>2, <2>3 DEF MarcoDe, Get
<1>. QED  BY <1>1, Invariante, PTL
=============================================================================
