--------------------------- MODULE Kernel_proofs ---------------------------
(***************************************************************************)
(* What the threads that both short-term schedulers share keep: their types, *)
(* the accounts of the counters (CuentasKernel) and that a PCB that was     *)
(* looked up is still there (BusquedaVigente).  The three need one another: *)
(* a step keeps the types only if no list_remove finds its list empty,      *)
(* which the counters say, and the counters are only right if what io takes *)
(* off susp_block_l is in it.  None of these threads disturbs what the      *)
(* short-term scheduler counts (PcpIgual), so KernelFifo_proofs and         *)
(* KernelSrt_proofs add only the steps of their own.                        *)
(*                                                                          *)
(* First come the facts they rest on: finiteness, what a list operation     *)
(* does to a list, where each thread can be, and what the three kinds of    *)
(* step most threads are made of (Esperar, Avisar, Entregar) do to the      *)
(* numbers that the invariants count.  The numbers are kept behind the      *)
(* operators Largo, Valor, En, Iniciados, Despachados and Devueltos, so     *)
(* that the arithmetic never sees the lists and the functions.              *)
(***************************************************************************)
EXTENDS Kernel, SequenceTheorems, FiniteSetTheorems, WellFoundedInduction,
        TLAPS

-----------------------------------------------------------------------------
(* Finite sets and the least element.                                       *)

\* Finitely many consoles connect.
LEMMA ProcesoFinito == IsFiniteSet(Proceso)
BY ConsolasAssumption, FS_Interval DEF Proceso

\* Finitely many PCB objects are ever created.
LEMMA PcbFinito == IsFiniteSet(PCB)
<1> DEFINE De(p) == [pid : {p}, pc : 0 .. Len(Programa[p])]
           f == [p \in Proceso |-> De(p)]
           T == {De(p) : p \in Proceso}
<1>1. IsFiniteSet(T)
  <2>1. f \in Surjection(Proceso, T)
    BY DEF Surjection
  <2> QED BY <2>1, ProcesoFinito, FS_Surjection
<1>2. ASSUME NEW p \in Proceso PROVE IsFiniteSet(De(p))
  <2> DEFINE n == Len(Programa[p])
             g == [i \in 0 .. n |-> [pid |-> p, pc |-> i]]
  <2>1. n \in Nat BY ProgramaAssumption
  <2>2. g \in Surjection(0 .. n, De(p))
    <3>1. \A x \in De(p) : x.pc \in 0 .. n /\ x = [pid |-> p, pc |-> x.pc]
      OBVIOUS
    <3>2. \A x \in De(p) : \E i \in 0 .. n : g[i] = x
      BY <3>1
    <3>3. g \in [0 .. n -> De(p)]
      OBVIOUS
    <3> QED BY <3>2, <3>3 DEF Surjection
  <2>3. IsFiniteSet(0 .. n) BY <2>1, FS_Interval
  <2> QED BY <2>2, <2>3, FS_Surjection
<1> HIDE DEF De
<1>3. \A X \in T : IsFiniteSet(X) BY <1>2
<1>4. PCB = UNION T BY DEF PCB, De
<1> QED BY <1>1, <1>3, <1>4, FS_UNION

\* A set of naturals that is not empty has a least element.
LEMMA MenorNatural ==
    ASSUME NEW T, T \subseteq Nat, T # {}
    PROVE  \E n \in T : \A m \in T : ~(m < n)
<1>1. \E n \in T : \A m \in T : ~(<<m, n>> \in OpToRel(<, Nat))
  BY NatLessThanWellFounded, WFMin
<1> QED BY <1>1 DEF OpToRel

\* remover_de_lista of a pid that is in the list takes one element off it
\* (fifo.c:113-121).
LEMMA RemoverTipo ==
    ASSUME NEW S, NEW l \in Seq(S), NEW x, EstaPcb(l, x)
    PROVE  /\ RemoverDeLista(l, x) \in Seq(S)
           /\ Len(RemoverDeLista(l, x)) = Len(l) - 1
<1> DEFINE T == {i \in 1 .. Len(l) : l[i].pid = x.pid}
           k == CHOOSE i \in DOMAIN l :
                   /\ l[i].pid = x.pid
                   /\ \A j \in 1 .. i - 1 : l[j].pid # x.pid
<1>1. PICK n \in T : \A m \in T : ~(m < n)
  <2>1. T \subseteq Nat /\ T # {} BY DEF EstaPcb
  <2> QED BY <2>1, MenorNatural
<1>2. \A j \in 1 .. n - 1 : l[j].pid # x.pid
  BY <1>1
<1>3. n \in DOMAIN l /\ l[n].pid = x.pid
  BY <1>1
<1>4. k \in 1 .. Len(l)
  <2>1. \E i \in DOMAIN l : l[i].pid = x.pid /\ \A j \in 1 .. i - 1 : l[j].pid # x.pid
    BY <1>2, <1>3
  <2>2. k \in DOMAIN l BY <2>1
  <2> QED BY <2>2
<1> HIDE DEF k
<1>5. /\ SubSeq(l, 1, k - 1) \in Seq(S)
      /\ Len(SubSeq(l, 1, k - 1)) = k - 1
  BY <1>4, SubSeqProperties
<1>6. /\ SubSeq(l, k + 1, Len(l)) \in Seq(S)
      /\ Len(SubSeq(l, k + 1, Len(l))) = Len(l) - k
  BY <1>4, SubSeqProperties
<1>7. RemoverDeLista(l, x) = SubSeq(l, 1, k - 1) \o SubSeq(l, k + 1, Len(l))
  BY DEF RemoverDeLista, RemoveAt, k
<1>8. /\ RemoverDeLista(l, x) \in Seq(S)
      /\ Len(RemoverDeLista(l, x)) = (k - 1) + (Len(l) - k)
  BY ONLY <1>5, <1>6, <1>7, ConcatProperties
<1>9. Len(l) \in Nat /\ k \in Nat
  BY <1>4, LenProperties
<1> QED BY ONLY <1>8, <1>9

-----------------------------------------------------------------------------
(* Types.                                                                   *)

\* The labels of each thread.
LEMMA EtapasDe ==
    /\ Etapas["pasar_a_ready"] = {"inicio", "s_grado", "newM_l", "post"}
    /\ Etapas["finalizar_procesos"] =
         {"inicio", "buscar", "quitar", "despertar", "post"}
    /\ Etapas["suspender_proceso"] =
         {"inicio", "susp_block_l", "estado", "enviar", "post"}
    /\ Etapas["avisar_proceso_susp_ready"] =
         {"inicio", "s_grado", "susp_readyM_l", "post"}
    /\ Etapas["agregar_a_ready"] =
         {"inicio", "susp_readyM_l", "unblock_l", "newM_l", "ready_l",
          "proceso_ejecutando", "interrumpir", "enviar_intr",
          "s_interrupcion_atendida", "interrumpidos_l",
          "post_replanificacion", "post_cpu", "interrupcion", "mostrar",
          "recorrer", "post"}
    /\ Etapas["enviar_a_ejecutar"] =
         {"inicio", "s_proceso_ejecutando", "s_cpu", "ready_l", "enviar"}
    /\ Etapas["recibir_proceso_de_cpu"] =
         {"inicio", "finalizado_l", "post_finalizado", "block_l",
          "post_io_pendiente", "interrumpidos_l", "post_interrumpido",
          "s_espero_replanificacion", "if_interrupcion", "post_atendida",
          "descartar", "post", "muerto"}
    /\ Etapas["planificador_io"] = {"inicio", "quitar", "block_pend_l", "post"}
    /\ Etapas["io"] =
         {"inicio", "durmiendo", "cancelar", "unblock_l", "post_ready",
          "susp_block_l", "susp_ready_l", "post_susp_ready"}
BY DEF Etapas, Hilos

\* The labels at which each thread carries a PCB.
LEMMA CargaDe ==
    /\ Carga["pasar_a_ready"] = {"newM_l"}
    /\ Carga["finalizar_procesos"] = {"buscar", "quitar", "despertar"}
    /\ Carga["suspender_proceso"] = {"susp_block_l", "estado", "enviar"}
    /\ Carga["avisar_proceso_susp_ready"] = {"susp_readyM_l"}
    /\ Carga["agregar_a_ready"] = {"ready_l"}
    /\ Carga["enviar_a_ejecutar"] = {"enviar"}
    /\ Carga["recibir_proceso_de_cpu"] =
         {"finalizado_l", "block_l", "interrumpidos_l", "descartar", "muerto"}
    /\ Carga["planificador_io"] = {"quitar", "block_pend_l"}
    /\ Carga["io"] = {"durmiendo", "cancelar", "unblock_l", "susp_block_l",
                      "susp_ready_l"}
BY DEF Carga, Hilos

\* The constants that the types are made of do not change.
LEMMA TiposConstantes ==
    UNCHANGED <<PCB, PCBViva, PCBFin, Etapas, Carga>>
    /\ \A h, e : Lleva(h, e)' = Lleva(h, e)
    /\ \A l : Cabe(l)' = Cabe(l)
BY DEF PCB, PCBViva, PCBFin, Etapas, Carga, Lleva, Cabe

\* A thread carries a PCB at the labels of its Carga, and nowhere else; its
\* PCBs have a pid.
LEMMA PcbDeHilo ==
    ASSUME TipoKernel, NEW h \in Hilos
    PROVE  /\ pc[h] \in Carga[h] <=> pcb[h] # NULO
           /\ pc[h] \in Carga[h] => pcb[h] \in PCB /\ pcb[h].pid \in Proceso
           /\ pc[h] \in Carga[h] /\ h # "finalizar_procesos"
                 /\ pc[h] # "finalizado_l" => pcb[h] \in PCBViva
           /\ pc[h] \in Carga[h] /\ pc[h] = "finalizado_l" => pcb[h] \in PCBFin
           /\ pc[h] \in Carga[h] /\ h = "finalizar_procesos" => pcb[h] \in PCBFin
<1>1. pcb[h] \in Lleva(h, pc[h])
  BY DEF TipoKernel, TipoHilos
<1>2. PCBFin \subseteq PCB /\ PCBViva \subseteq PCB
  BY DEF PCBFin, PCBViva
<1>3. \A x \in PCB : x.pid \in Proceso /\ x # NULO
  BY NuloAssumption DEF PCB
<1> QED BY <1>1, <1>2, <1>3 DEF Lleva

\* A thread moves to a label with what it carries there.
LEMMA TipoMover ==
    ASSUME TipoHilos, NEW h \in Hilos, NEW e \in Etapas[h],
           NEW x \in Lleva(h, e),
           pc' = [pc EXCEPT ![h] = e],
           pcb' = [pcb EXCEPT ![h] = x]
    PROVE  TipoHilos'
<1>1. pc' \in [Hilos -> UNION {Etapas[g] : g \in Hilos}]
  <2>1. e \in UNION {Etapas[g] : g \in Hilos}
    OBVIOUS
  <2> QED BY <2>1 DEF TipoHilos
<1>2. pcb' \in [Hilos -> PCB \cup {NULO}]
  <2>1. x \in PCB \cup {NULO}
    BY DEF Lleva, PCBFin, PCBViva
  <2> QED BY <2>1 DEF TipoHilos
<1>3. /\ pc'[h] = e /\ pcb'[h] = x
      /\ \A g \in Hilos \ {h} : pc'[g] = pc[g] /\ pcb'[g] = pcb[g]
  BY DEF TipoHilos
<1>4. \A g \in Hilos : pc'[g] \in Etapas[g]
  BY <1>3 DEF TipoHilos
<1>5. \A g \in Hilos : pcb'[g] \in Lleva(g, pc'[g])
  BY <1>3 DEF TipoHilos
<1> QED BY <1>1, <1>2, <1>4, <1>5, TiposConstantes DEF TipoHilos

\* A step that leaves these variables alone keeps their types.
LEMMA TipoIgual ==
    /\ TipoListas /\ UNCHANGED lista => TipoListas'
    /\ TipoHilos /\ UNCHANGED <<pc, pcb>> => TipoHilos'
    /\ TipoIo /\ UNCHANGED varsIo => TipoIo'
    /\ TipoPlp /\ UNCHANGED varsPlp => TipoPlp'
    /\ TipoMemoria /\ UNCHANGED varsMemoria => TipoMemoria'
    /\ TipoCpu /\ UNCHANGED varsSocket => TipoCpu'
BY TiposConstantes
   DEF TipoListas, TipoHilos, TipoIo, TipoPlp, TipoMemoria, TipoCpu, varsIo,
       varsPlp, varsMemoria, varsSocket

\* A sem_wait or a sem_post keeps the semaphores natural.
LEMMA SemTipo ==
    ASSUME TipoKernel, NEW x \in Semaforos, Wait(x) \/ Post(x) \/ UNCHANGED sem
    PROVE  sem' \in [Semaforos -> Nat]
BY DEF TipoKernel, Wait, Post

\* A list that changes for one of what it may hold keeps the types.
LEMMA TipoCambiar ==
    ASSUME TipoListas, NEW l \in Listas, NEW q \in Seq(Cabe(l)),
           lista' = [lista EXCEPT ![l] = q]
    PROVE  TipoListas'
<1>1. Cabe(l) \subseteq PCB
  BY DEF Cabe, PCBFin, PCBViva
<1>2. q \in Seq(PCB)
  BY <1>1
<1>3. lista' \in [Listas -> Seq(PCB)]
  BY <1>2 DEF TipoListas
<1>4. \A k \in Listas : lista'[k] \in Seq(Cabe(k))
  BY DEF TipoListas
<1> QED BY <1>3, <1>4, TiposConstantes DEF TipoListas

\* A thread that carries nothing at e goes there without a PCB.
LEMMA LlevaNada ==
    ASSUME NEW h \in Hilos, NEW e, e \notin Carga[h]
    PROVE  NULO \in Lleva(h, e) /\ Lleva(h, e) = {NULO}
BY DEF Lleva

\* Esperar keeps the types.
LEMMA TipoEsperar ==
    ASSUME TipoKernel, NEW h \in Hilos, NEW x \in Semaforos,
           NEW e \in Etapas[h], e \notin Carga[h], "inicio" \notin Carga[h],
           Esperar(h, x, e), UNCHANGED varsSocket
    PROVE  TipoKernel'
<1> USE DEF Esperar
<1>1. TipoHilos'
  <2>1. TipoHilos /\ pcb[h] \in {NULO} /\ pcb' = [pcb EXCEPT ![h] = pcb[h]]
    BY LlevaNada DEF TipoKernel, TipoHilos
  <2> QED BY <2>1, LlevaNada, TipoMover DEF Ir
<1> QED BY <1>1, TipoIgual, SemTipo DEF TipoKernel

\* Avisar keeps the types.
LEMMA TipoAvisar ==
    ASSUME TipoKernel, NEW h \in Hilos, NEW x \in Semaforos,
           NEW e \in Etapas[h], e \notin Carga[h],
           NEW d, d \notin Carga[h],
           Avisar(h, d, x, e), UNCHANGED varsSocket
    PROVE  TipoKernel'
<1> USE DEF Avisar
<1>1. TipoHilos'
  <2>1. TipoHilos /\ pcb[h] \in {NULO} /\ pcb' = [pcb EXCEPT ![h] = pcb[h]]
    BY LlevaNada DEF TipoKernel, TipoHilos
  <2> QED BY <2>1, LlevaNada, TipoMover DEF Ir
<1> QED BY <1>1, TipoIgual, SemTipo DEF TipoKernel

\* A thread that stops carrying its PCB keeps the types.
LEMMA TipoSoltar ==
    ASSUME TipoHilos, NEW h \in Hilos, NEW e \in Etapas[h], e \notin Carga[h],
           Ir(h, e), pcb' = [pcb EXCEPT ![h] = NULO]
    PROVE  TipoHilos'
BY LlevaNada, TipoMover DEF Ir

\* A list_add of a PCB that suits the list keeps the types.
LEMMA TipoAgregar ==
    ASSUME TipoListas, NEW l \in Listas, NEW x \in Cabe(l),
           lista' = [lista EXCEPT ![l] = Append(@, x)]
    PROVE  TipoListas'
<1>1. lista[l] \in Seq(Cabe(l))
  BY DEF TipoListas
<1>2. Append(lista[l], x) \in Seq(Cabe(l))
  BY <1>1, AppendProperties
<1>3. lista' = [lista EXCEPT ![l] = Append(lista[l], x)]
  OBVIOUS
<1> QED BY ONLY <1>2, <1>3, TipoListas, l \in Listas, TipoCambiar

\* Entregar keeps the types.
LEMMA TipoEntregar ==
    ASSUME TipoKernel, NEW h \in Hilos, NEW l \in Listas,
           NEW e \in Etapas[h], e \notin Carga[h],
           pcb[h] \in Cabe(l), Entregar(h, l, e), UNCHANGED varsSocket
    PROVE  TipoKernel'
<1> USE DEF Entregar, Dejar
<1>1. TipoListas'
  BY TipoAgregar DEF TipoKernel
<1>2. TipoHilos'
  BY TipoSoltar DEF TipoKernel
<1> QED BY <1>1, <1>2, TipoIgual, SemTipo DEF TipoKernel, Semaforos

\* A thread that goes on with the PCB it carries keeps the types.
LEMMA TipoSeguir ==
    ASSUME TipoHilos, NEW h \in Hilos, NEW e \in Etapas[h], Ir(h, e),
           UNCHANGED pcb, Lleva(h, e) = Lleva(h, pc[h])
    PROVE  TipoHilos'
<1>1. pcb[h] \in Lleva(h, e) /\ pcb' = [pcb EXCEPT ![h] = pcb[h]]
  BY DEF TipoHilos
<1> QED BY <1>1, TipoMover DEF Ir

\* A list has length 0 when it is empty and only then.
LEMMA NoVaciaLista ==
    ASSUME TipoKernel, NEW l \in Listas
    PROVE  /\ Largo(l) \in Nat
           /\ Largo(l) > 0 <=> lista[l] # <<>>
           /\ Largo(l) = 0 <=> lista[l] = <<>>
<1>1. lista[l] \in Seq(PCB)
  BY DEF TipoKernel, TipoListas
<1>2. Len(lista[l]) \in Nat /\ (Len(lista[l]) = 0 <=> lista[l] = <<>>)
  BY <1>1, EmptySeq, LenProperties
<1> QED BY <1>2 DEF Largo

\* The head of a sequence that is not empty.
LEMMA CabezaTipo ==
    ASSUME NEW S, NEW l \in Seq(S), l # <<>>
    PROVE  /\ Head(l) \in S /\ Head(l) = l[1] /\ Tail(l) \in Seq(S)
           /\ Len(l) \in Nat /\ Len(l) > 0
BY HeadTailProperties, EmptySeq, LenProperties

\* What a list_remove(l, 0) gives.
LEMMA CabezaLista ==
    ASSUME TipoKernel, NEW l \in Listas, Largo(l) > 0
    PROVE  /\ Head(lista[l]) \in Cabe(l) /\ Head(lista[l]) \in PCB
           /\ Head(lista[l]).pid \in Proceso
           /\ Tail(lista[l]) \in Seq(Cabe(l))
<1>1. lista[l] \in Seq(Cabe(l)) /\ lista[l] # <<>>
  BY NoVaciaLista DEF TipoKernel, TipoListas
<1>2. Head(lista[l]) \in Cabe(l) /\ Tail(lista[l]) \in Seq(Cabe(l))
  BY <1>1, CabezaTipo
<1>3. Cabe(l) \subseteq PCB
  BY DEF Cabe, PCBFin, PCBViva
<1>4. \A x \in PCB : x.pid \in Proceso
  BY DEF PCB
<1> QED BY <1>2, <1>3, <1>4

\* A list_remove(l, 0) of a list that is not empty keeps the types.
LEMMA TipoTomar ==
    ASSUME TipoKernel, NEW h \in Hilos, NEW l \in Listas, Largo(l) > 0,
           NEW e \in Etapas[h], Cabe(l) \subseteq Lleva(h, e), Tomar(h, l, e)
    PROVE  /\ TipoListas' /\ TipoHilos'
           /\ Head(lista[l]).pid \in Proceso
<1> USE DEF Tomar
<1>1. Head(lista[l]) \in Lleva(h, e) /\ Head(lista[l]).pid \in Proceso
  BY CabezaLista
<1>2. TipoListas'
  <2>1. TipoListas /\ Tail(lista[l]) \in Seq(Cabe(l))
        /\ lista' = [lista EXCEPT ![l] = Tail(lista[l])]
    BY CabezaLista DEF TipoKernel
  <2> QED BY ONLY <2>1, l \in Listas, TipoCambiar
<1>3. TipoHilos'
  BY <1>1, TipoMover DEF TipoKernel, Ir
<1> QED BY <1>1, <1>2, <1>3

-----------------------------------------------------------------------------
(* The dispatch socket and the CPU.                                         *)

\* The instruction the CPU executes of a PCB that has more to run exists, and
\* the PCB that comes out of it is past an EXIT if it was one.
LEMMA SiguienteTipo ==
    ASSUME NEW x \in PCBViva, NEW y, y = [x EXCEPT !.pc = @ + 1]
    PROVE  /\ y \in PCB /\ y.pid = x.pid /\ y.pc = x.pc + 1
           /\ x.pid \in Proceso /\ x.pc + 1 \in 1 .. Len(Programa[x.pid])
           /\ Programa[x.pid] \in Seq(Operacion)
           /\ Programa[x.pid][x.pc + 1] \in Operacion
           /\ y \in PCBFin <=> Programa[x.pid][x.pc + 1] = "EXIT"
<1>1. /\ x.pid \in Proceso /\ x.pc \in Nat /\ x.pc < Len(Programa[x.pid])
      /\ x \in [pid : {x.pid}, pc : 0 .. Len(Programa[x.pid])]
  BY ProgramaAssumption DEF PCBViva, PCB
<1>2. Len(Programa[x.pid]) \in Nat /\ Programa[x.pid] \in Seq(Operacion)
  BY <1>1, ProgramaAssumption
<1>3. y = [pid |-> x.pid, pc |-> x.pc + 1]
  BY <1>1
<1>4. y \in PCB
  BY <1>1, <1>2, <1>3 DEF PCB
<1>5. x.pc + 1 \in 1 .. Len(Programa[x.pid])
  BY <1>1, <1>2
<1>6. Programa[x.pid][x.pc + 1] \in Operacion
  BY <1>2, <1>5
<1>7. y \in PCBFin <=> Programa[x.pid][x.pc + 1] = "EXIT"
  BY <1>1, <1>3, <1>4 DEF PCBViva, PCBFin
<1> QED BY <1>1, <1>2, <1>3, <1>4, <1>5, <1>6, <1>7

\* A PCB on its way to the CPU, and one on its way back.
Enviado == [pcb : PCBViva, estado : Estado \ {"FINALIZADO"}]

Devuelto == [pcb : PCB, estado : Estado]

\* What is sent back keeps the type of the socket.
LEMMA DevolverTipo ==
    ASSUME TipoCpu, NEW m \in Devuelto, m.estado = "FINALIZADO" <=> m.pcb \in PCBFin
    PROVE  LET q == Append(desdeCpu, m)
           IN  /\ q \in Seq(Devuelto) /\ Len(q) = Len(desdeCpu) + 1
               /\ Len(desdeCpu) \in Nat
               /\ \A i \in DOMAIN q :
                     q[i].estado = "FINALIZADO" <=> q[i].pcb \in PCBFin
<1> DEFINE q == Append(desdeCpu, m)
<1>1. /\ desdeCpu \in Seq(Devuelto)
      /\ \A i \in 1 .. Len(desdeCpu) :
            desdeCpu[i].estado = "FINALIZADO" <=> desdeCpu[i].pcb \in PCBFin
  BY DEF TipoCpu, Devuelto
<1>2. /\ q \in Seq(Devuelto) /\ Len(q) = Len(desdeCpu) + 1
      /\ \A i \in 1 .. Len(desdeCpu) : q[i] = desdeCpu[i]
      /\ q[Len(desdeCpu) + 1] = m /\ Len(desdeCpu) \in Nat
  BY <1>1, AppendProperties, LenProperties
<1> HIDE DEF q
<1>3. ASSUME NEW i \in 1 .. Len(q)
      PROVE  q[i].estado = "FINALIZADO" <=> q[i].pcb \in PCBFin
  <2>1. CASE i \in 1 .. Len(desdeCpu)
    BY <1>1, <1>2, <2>1
  <2>2. CASE i = Len(desdeCpu) + 1
    BY <1>2, <2>2
  <2> QED BY <1>2, <1>3, <2>1, <2>2
<1>4. DOMAIN q = 1 .. Len(q)
  BY <1>2
<1> QED BY <1>2, <1>3, <1>4 DEF q

\* What is received leaves the rest as it was.
LEMMA RecibirTipo ==
    ASSUME TipoCpu, desdeCpu # <<>>
    PROVE  LET q == Tail(desdeCpu)
               m == Head(desdeCpu)
           IN  /\ q \in Seq(Devuelto) /\ Len(q) = Len(desdeCpu) - 1
               /\ Len(desdeCpu) \in Nat /\ Len(desdeCpu) > 0
               /\ \A i \in DOMAIN q :
                     q[i].estado = "FINALIZADO" <=> q[i].pcb \in PCBFin
               /\ \A i \in DOMAIN q : q[i] = desdeCpu[i + 1]
               /\ m = desdeCpu[1]
               /\ m \in Devuelto /\ m.pcb \in PCB /\ m.estado \in Estado
               /\ m.estado = "FINALIZADO" <=> m.pcb \in PCBFin
<1> DEFINE q == Tail(desdeCpu)
<1>1. /\ desdeCpu \in Seq(Devuelto)
      /\ \A i \in 1 .. Len(desdeCpu) :
            desdeCpu[i].estado = "FINALIZADO" <=> desdeCpu[i].pcb \in PCBFin
  BY DEF TipoCpu, Devuelto
<1>2. /\ q \in Seq(Devuelto) /\ Len(q) = Len(desdeCpu) - 1
      /\ \A i \in 1 .. Len(q) : q[i] = desdeCpu[i + 1]
      /\ Len(desdeCpu) \in Nat /\ Len(desdeCpu) > 0
      /\ Head(desdeCpu) = desdeCpu[1]
  BY <1>1, CabezaTipo, HeadTailProperties
<1>3. DOMAIN q = 1 .. Len(q)
  BY <1>2
<1> HIDE DEF q
<1>4. \A i \in DOMAIN q : q[i].estado = "FINALIZADO" <=> q[i].pcb \in PCBFin
  BY <1>1, <1>2, <1>3
<1>5. /\ Head(desdeCpu) \in Devuelto
      /\ Head(desdeCpu).estado = "FINALIZADO" <=> Head(desdeCpu).pcb \in PCBFin
  BY <1>1, <1>2
<1>6. Head(desdeCpu).pcb \in PCB /\ Head(desdeCpu).estado \in Estado
  BY <1>5 DEF Devuelto
<1> QED BY <1>2, <1>3, <1>4, <1>5, <1>6 DEF q

\* What is dispatched suits the socket.
LEMMA DespacharTipo ==
    ASSUME TipoCpu, TipoIo, NEW x \in PCBViva
    PROVE  LET q == Append(haciaCpu, [pcb |-> x, estado |-> estado[x]])
           IN  /\ q \in Seq(Enviado) /\ Len(q) = Len(haciaCpu) + 1
               /\ Len(haciaCpu) \in Nat
<1>1. x \in PCB /\ estado[x] \in Estado \ {"FINALIZADO"}
  BY DEF TipoIo, PCBViva, PCBFin
<1>2. /\ [pcb |-> x, estado |-> estado[x]] \in Enviado
      /\ haciaCpu \in Seq(Enviado)
  BY <1>1 DEF TipoCpu, Enviado
<1> QED BY <1>2, AppendProperties, LenProperties

\* The types of the socket after a step.
LEMMA TipoCpuPaso ==
    ASSUME haciaCpu' \in Seq(Enviado), desdeCpu' \in Seq(Devuelto),
           \A i \in DOMAIN desdeCpu' :
              desdeCpu'[i].estado = "FINALIZADO" <=> desdeCpu'[i].pcb \in PCBFin
    PROVE  TipoCpu'
BY TiposConstantes DEF TipoCpu, Enviado, Devuelto

-----------------------------------------------------------------------------
(* What the invariants count, and how a step changes it.                    *)

\* What the invariants count is a natural number.
LEMMA CantidadesNaturales ==
    ASSUME TipoKernel
    PROVE  /\ \A l \in Listas : Len(lista[l]) \in Nat
           /\ \A x \in Semaforos : sem[x] \in Nat
           /\ Len(procesos) \in Nat /\ Len(haciaCpu) \in Nat
           /\ Len(desdeCpu) \in Nat
           /\ IsFiniteSet(NewSinAvisar) /\ Cardinality(NewSinAvisar) \in Nat
           /\ IsFiniteSet(SuspSinAvisar) /\ Cardinality(SuspSinAvisar) \in Nat
           /\ GRADO_MULTIPROGRAMACION \in Nat
<1>1. \A l \in Listas : Len(lista[l]) \in Nat
  BY LenProperties DEF TipoKernel, TipoListas
<1>2. /\ Len(procesos) \in Nat /\ Len(haciaCpu) \in Nat
      /\ Len(desdeCpu) \in Nat
  BY LenProperties DEF TipoKernel, TipoMemoria, TipoCpu
<1>3. NewSinAvisar \subseteq Proceso /\ SuspSinAvisar \subseteq PCB
  BY DEF NewSinAvisar, SuspSinAvisar
<1>4. IsFiniteSet(NewSinAvisar) /\ IsFiniteSet(SuspSinAvisar)
  BY <1>3, ProcesoFinito, PcbFinito, FS_Subset
<1>5. /\ Cardinality(NewSinAvisar) \in Nat /\ Cardinality(SuspSinAvisar) \in Nat
  BY <1>4, FS_CardinalityType
<1> QED BY <1>1, <1>2, <1>4, <1>5, GradoAssumption DEF TipoKernel

Naturales ==
    /\ \A l \in Listas : Largo(l) \in Nat
    /\ \A x \in Semaforos : Valor(x) \in Nat
    /\ \A h, E : En(h, E) \in Nat
    /\ Iniciados \in Nat /\ Despachados \in Nat /\ Devueltos \in Nat
    /\ Cardinality(NewSinAvisar) \in Nat
    /\ Cardinality(SuspSinAvisar) \in Nat
    /\ GRADO_MULTIPROGRAMACION \in Nat

\* The same through the operators that hide the state.
LEMMA NaturalesTipo == TipoKernel => Naturales
BY CantidadesNaturales
   DEF Naturales, Largo, Valor, En, Iniciados, Despachados, Devueltos

\* Thread h, and no other, goes from label d to label e.
Pasa(h, d, e) ==
    /\ \A E : En(h, E) = IF d \in E THEN 1 ELSE 0
    /\ \A E : En(h, E)' = IF e \in E THEN 1 ELSE 0
    /\ \A g \in Hilos \ {h} : \A E : En(g, E)' = En(g, E)

NadiePasa == \A g \in Hilos : \A E : En(g, E)' = En(g, E)

Suma(x) ==
    /\ Valor(x)' = Valor(x) + 1
    /\ \A y \in Semaforos \ {x} : Valor(y)' = Valor(y)

Resta(x) ==
    /\ Valor(x) > 0
    /\ Valor(x)' = Valor(x) - 1
    /\ \A y \in Semaforos \ {x} : Valor(y)' = Valor(y)

SemaforosIguales == \A y \in Semaforos : Valor(y)' = Valor(y)

Crece(l) ==
    /\ Largo(l)' = Largo(l) + 1
    /\ \A k \in Listas \ {l} : Largo(k)' = Largo(k)

Decrece(l) ==
    /\ Largo(l)' = Largo(l) - 1
    /\ \A k \in Listas \ {l} : Largo(k)' = Largo(k)

ListasIguales == \A l \in Listas : Largo(l)' = Largo(l)

SocketIgual == Despachados' = Despachados /\ Devueltos' = Devueltos

AnunciosIguales ==
    /\ Cardinality(NewSinAvisar)' = Cardinality(NewSinAvisar)
    /\ Cardinality(SuspSinAvisar)' = Cardinality(SuspSinAvisar)

\* The step changes no label, semaphore or list.
RestoIgual == Iniciados' = Iniciados /\ SocketIgual /\ AnunciosIguales

\* A step that assigns one label moves one thread.
LEMMA IrPasa ==
    ASSUME TipoKernel, NEW h \in Hilos, NEW d, NEW e, pc[h] = d, Ir(h, e)
    PROVE  Pasa(h, d, e)
BY DEF TipoKernel, TipoHilos, Ir, En, Pasa

\* sem_post.
LEMMA PostSuma ==
    ASSUME TipoKernel, NEW x \in Semaforos, Post(x)
    PROVE  Suma(x)
BY DEF TipoKernel, Post, Valor, Suma

\* sem_wait.
LEMMA WaitResta ==
    ASSUME TipoKernel, NEW x \in Semaforos, Wait(x)
    PROVE  Resta(x)
BY DEF TipoKernel, Wait, Valor, Resta

\* list_add.
LEMMA AppendCrece ==
    ASSUME TipoKernel, NEW l \in Listas, NEW x \in PCB,
           lista' = [lista EXCEPT ![l] = Append(@, x)]
    PROVE  Crece(l)
BY AppendProperties DEF TipoKernel, TipoListas, Largo, Crece

\* list_remove(l, 0).
LEMMA TailDecrece ==
    ASSUME TipoKernel, NEW l \in Listas, Largo(l) > 0,
           lista' = [lista EXCEPT ![l] = Tail(@)]
    PROVE  Decrece(l)
BY HeadTailProperties DEF TipoKernel, TipoListas, Largo, Decrece

\* A step that leaves these variables alone changes none of the numbers.
LEMMA SinCambios ==
    /\ UNCHANGED pc => NadiePasa
    /\ UNCHANGED sem => SemaforosIguales
    /\ UNCHANGED lista => ListasIguales
    /\ UNCHANGED varsSocket => SocketIgual
    /\ UNCHANGED procesos => Iniciados' = Iniciados
    /\ UNCHANGED consola =>
          Cardinality(NewSinAvisar)' = Cardinality(NewSinAvisar)
    /\ UNCHANGED contador =>
          Cardinality(SuspSinAvisar)' = Cardinality(SuspSinAvisar)
BY DEF NadiePasa, SemaforosIguales, ListasIguales, SocketIgual, varsSocket, En,
       Valor, Largo, Despachados, Devueltos, Iniciados, NewSinAvisar,
       SuspSinAvisar, PCB

\* What Esperar does to the numbers.
LEMMA EsperarCuenta ==
    ASSUME TipoKernel, NEW h \in Hilos, NEW x \in Semaforos, NEW e,
           Esperar(h, x, e), UNCHANGED varsSocket
    PROVE  Pasa(h, "inicio", e) /\ Resta(x) /\ ListasIguales /\ RestoIgual
<1> USE DEF Esperar, varsPlp, varsIo, varsMemoria
<1>1. Pasa(h, "inicio", e) BY IrPasa
<1>2. Resta(x) BY WaitResta
<1> QED BY <1>1, <1>2, SinCambios DEF RestoIgual, AnunciosIguales

\* What Avisar does to the numbers.
LEMMA AvisarCuenta ==
    ASSUME TipoKernel, NEW h \in Hilos, NEW d, NEW x \in Semaforos, NEW e,
           Avisar(h, d, x, e), UNCHANGED varsSocket
    PROVE  Pasa(h, d, e) /\ Suma(x) /\ ListasIguales /\ RestoIgual
<1> USE DEF Avisar, varsPlp, varsIo, varsMemoria
<1>1. Pasa(h, d, e) BY IrPasa
<1>2. Suma(x) BY PostSuma
<1> QED BY <1>1, <1>2, SinCambios DEF RestoIgual, AnunciosIguales

\* What Entregar does to the numbers.
LEMMA EntregarCuenta ==
    ASSUME TipoKernel, NEW h \in Hilos, NEW l \in Listas, l \in Carga[h], NEW e,
           Entregar(h, l, e), UNCHANGED varsSocket
    PROVE  Pasa(h, l, e) /\ Crece(l) /\ SemaforosIguales /\ RestoIgual
<1> USE DEF Entregar, Dejar, varsPlp, varsIo, varsMemoria
<1>1. Pasa(h, l, e) BY IrPasa
<1>2. pcb[h] \in PCB BY PcbDeHilo
<1>3. Crece(l) BY <1>2, AppendCrece
<1> QED BY <1>1, <1>3, SinCambios DEF RestoIgual, AnunciosIguales

-----------------------------------------------------------------------------
(* The shared threads.                                                      *)

\* The threads of the short-term scheduler.
HilosPcp == {"agregar_a_ready", "enviar_a_ejecutar", "recibir_proceso_de_cpu"}

\* What the short-term scheduler counts does not change.
PcpIgual ==
    /\ Largo("ready_l")' = Largo("ready_l")
    /\ Valor("s_cpu")' = Valor("s_cpu")
    /\ Valor("s_proceso_ejecutando")' = Valor("s_proceso_ejecutando")
    /\ SocketIgual
    /\ \A h \in HilosPcp : \A E : En(h, E)' = En(h, E)

\* A thread that is about to take the head of a list finds one.
LEMMA NuncaVacia ==
    ASSUME TipoKernel, CuentasKernel
    PROVE  /\ pc["pasar_a_ready"] = "s_grado" => Largo("new_l") > 0
           /\ sem["s_proceso_finalizado"] > 0 => Largo("finalizado_l") > 0
           /\ sem["s_proceso_susp"] > 0 => Largo("susp_block_buffer_l") > 0
           /\ pc["avisar_proceso_susp_ready"] = "s_grado" =>
                 Largo("susp_ready_l") > 0
           /\ pc["planificador_io"] = "quitar" => Largo("block_l") > 0
           /\ sem["s_io"] > 0 => Largo("block_pend_l") > 0
           /\ pc["agregar_a_ready"] = "newM_l" => Largo("newM_l") > 0
<1>1. Naturales
  BY NaturalesTipo
<1>2. /\ pc["pasar_a_ready"] = "s_grado" => En("pasar_a_ready", {"s_grado"}) = 1
      /\ pc["avisar_proceso_susp_ready"] = "s_grado" =>
            En("avisar_proceso_susp_ready", {"s_grado"}) = 1
      /\ pc["planificador_io"] = "quitar" =>
            En("planificador_io", {"quitar"}) = 1
      /\ pc["agregar_a_ready"] = "newM_l" =>
            En("agregar_a_ready", {"newM_l"}) = 1
  BY DEF En
<1>3. /\ En("pasar_a_ready", {"s_grado"}) = 1 => Largo("new_l") > 0
      /\ Valor("s_proceso_finalizado") > 0 => Largo("finalizado_l") > 0
      /\ Valor("s_proceso_susp") > 0 => Largo("susp_block_buffer_l") > 0
      /\ En("avisar_proceso_susp_ready", {"s_grado"}) = 1 =>
            Largo("susp_ready_l") > 0
      /\ En("planificador_io", {"quitar"}) = 1 => Largo("block_l") > 0
      /\ Valor("s_io") > 0 => Largo("block_pend_l") > 0
      /\ En("agregar_a_ready", {"newM_l"}) = 1 => Largo("newM_l") > 0
  BY ONLY CuentasKernel, <1>1
  DEF CuentasKernel, TokensNew, TokensReady, TokensIo, TokensSusp,
      TokensFinalizado, Naturales, Listas, Semaforos
<1> QED BY <1>2, <1>3 DEF Valor

-----------------------------------------------------------------------------
(* The accounts.                                                            *)

\* A console thread keeps the accounts: it announces what it added to new_l.
LEMMA CuentasGestionarComunicacion ==
    ASSUME TipoKernel, CuentasKernel, NEW p \in Proceso, GestionarComunicacion(p),
           UNCHANGED varsSocket
    PROVE  CuentasKernel' /\ PcpIgual
<1>1. Naturales
  BY NaturalesTipo
<1>2. ASSUME AceptarConsola(p)
     PROVE  /\ NadiePasa /\ SemaforosIguales
            /\ ListasIguales /\ Iniciados' = Iniciados /\ SocketIgual
            /\ AnunciosIguales
  <2> USE <1>2 DEF AceptarConsola
  <2>1. NewSinAvisar' = NewSinAvisar
    BY DEF TipoKernel, TipoPlp, NewSinAvisar
  <2>2. /\ NadiePasa /\ SemaforosIguales
        /\ ListasIguales /\ Iniciados' = Iniciados /\ SocketIgual
        /\ Cardinality(SuspSinAvisar)' = Cardinality(SuspSinAvisar)
    BY SinCambios DEF varsIo, varsMemoria
  <2>3. AnunciosIguales
    BY <2>1, <2>2 DEF AnunciosIguales
  <2> QED BY <2>1, <2>2, <2>3
<1>3. ASSUME AgregarANew(p)
     PROVE  /\ NadiePasa /\ SemaforosIguales /\ Crece("new_l")
            /\ Iniciados' = Iniciados /\ SocketIgual
            /\ Cardinality(NewSinAvisar)' = Cardinality(NewSinAvisar) + 1
            /\ Cardinality(SuspSinAvisar)' = Cardinality(SuspSinAvisar)
  <2> USE <1>3 DEF AgregarANew
  <2>1. /\ NewSinAvisar' = NewSinAvisar \cup {p}
        /\ p \notin NewSinAvisar
    BY DEF TipoKernel, TipoPlp, NewSinAvisar
  <2>2. Cardinality(NewSinAvisar)' = Cardinality(NewSinAvisar) + 1
    BY <2>1, CantidadesNaturales, FS_AddElement
  <2>3. [pid |-> p, pc |-> 0] \in PCB
    BY ProgramaAssumption DEF PCB
  <2>4. Crece("new_l")
    BY <2>3, AppendCrece DEF Listas
  <2>5. /\ NadiePasa /\ SemaforosIguales
        /\ Iniciados' = Iniciados /\ SocketIgual
        /\ Cardinality(SuspSinAvisar)' = Cardinality(SuspSinAvisar)
    BY SinCambios DEF varsIo, varsMemoria
  <2> QED BY <2>1, <2>2, <2>3, <2>4, <2>5
<1>4. ASSUME RegistrarComunicacion(p)
     PROVE  /\ NadiePasa /\ SemaforosIguales
            /\ ListasIguales /\ Iniciados' = Iniciados /\ SocketIgual
            /\ AnunciosIguales
  <2> USE <1>4 DEF RegistrarComunicacion
  <2>1. NewSinAvisar' = NewSinAvisar
    BY DEF TipoKernel, TipoPlp, NewSinAvisar
  <2>2. /\ NadiePasa /\ SemaforosIguales
        /\ ListasIguales /\ Iniciados' = Iniciados /\ SocketIgual
        /\ Cardinality(SuspSinAvisar)' = Cardinality(SuspSinAvisar)
    BY SinCambios DEF varsIo, varsMemoria
  <2>3. AnunciosIguales
    BY <2>1, <2>2 DEF AnunciosIguales
  <2> QED BY <2>1, <2>2, <2>3
<1>5. ASSUME AvisarNew(p)
     PROVE  /\ NadiePasa /\ Suma("s_proceso_new") /\ ListasIguales
            /\ Iniciados' = Iniciados /\ SocketIgual
            /\ Cardinality(NewSinAvisar)' = Cardinality(NewSinAvisar) - 1
            /\ Cardinality(SuspSinAvisar)' = Cardinality(SuspSinAvisar)
  <2> USE <1>5 DEF AvisarNew
  <2>1. /\ NewSinAvisar' = NewSinAvisar \ {p}
        /\ p \in NewSinAvisar
    BY DEF TipoKernel, TipoPlp, NewSinAvisar
  <2>2. Cardinality(NewSinAvisar)' = Cardinality(NewSinAvisar) - 1
    BY <2>1, CantidadesNaturales, FS_RemoveElement
  <2>3. Suma("s_proceso_new")
    BY PostSuma DEF Semaforos
  <2>4. /\ NadiePasa /\ ListasIguales
        /\ Iniciados' = Iniciados /\ SocketIgual
        /\ Cardinality(SuspSinAvisar)' = Cardinality(SuspSinAvisar)
    BY SinCambios DEF varsIo, varsMemoria
  <2> QED BY <2>1, <2>2, <2>3, <2>4
<1>6. ASSUME AvisarConsola(p)
     PROVE  /\ NadiePasa /\ SemaforosIguales
            /\ ListasIguales /\ Iniciados' = Iniciados /\ SocketIgual
            /\ AnunciosIguales
  <2> USE <1>6 DEF AvisarConsola
  <2>1. NewSinAvisar' = NewSinAvisar
    BY DEF TipoKernel, TipoPlp, NewSinAvisar
  <2>2. /\ NadiePasa /\ SemaforosIguales
        /\ ListasIguales /\ Iniciados' = Iniciados /\ SocketIgual
        /\ Cardinality(SuspSinAvisar)' = Cardinality(SuspSinAvisar)
    BY SinCambios DEF varsIo, varsMemoria
  <2>3. AnunciosIguales
    BY <2>1, <2>2 DEF AnunciosIguales
  <2> QED BY <2>1, <2>2, <2>3
<1> USE DEF CuentasKernel, TokensNew, TokensReady, TokensIo, TokensSusp,
        TokensFinalizado, BalanceGrado, PcpIgual, HilosPcp, Naturales, Listas, Semaforos, Hilos, Pasa, NadiePasa, Suma, Resta,
        SemaforosIguales, Crece, Decrece, ListasIguales, SocketIgual,
        AnunciosIguales, RestoIgual
<1>7. CASE AceptarConsola(p)
  BY ONLY CuentasKernel, <1>1, <1>2, <1>7
<1>8. CASE AgregarANew(p)
  BY ONLY CuentasKernel, <1>1, <1>3, <1>8
<1>9. CASE RegistrarComunicacion(p)
  BY ONLY CuentasKernel, <1>1, <1>4, <1>9
<1>10. CASE AvisarNew(p)
  BY ONLY CuentasKernel, <1>1, <1>5, <1>10
<1>11. CASE AvisarConsola(p)
  BY ONLY CuentasKernel, <1>1, <1>6, <1>11
<1> QED BY <1>7, <1>8, <1>9, <1>10, <1>11 DEF GestionarComunicacion

\* pasar_a_ready keeps the accounts.
LEMMA CuentasPasarAReady ==
    ASSUME TipoKernel, CuentasKernel, PasarAReady, UNCHANGED varsSocket
    PROVE  CuentasKernel' /\ PcpIgual
<1>1. Naturales
  BY NaturalesTipo
<1>2. PasarEsperar =>
        /\ Pasa("pasar_a_ready", "inicio", "s_grado")
        /\ Resta("s_proceso_new") /\ ListasIguales /\ RestoIgual
  BY EsperarCuenta DEF PasarEsperar, Hilos, Semaforos
<1>3. ASSUME PasarInicializar
     PROVE  /\ Pasa("pasar_a_ready", "s_grado", "newM_l")
            /\ Resta("s_grado_multiprogramacion") /\ Decrece("new_l")
            /\ Iniciados' = Iniciados + 1 /\ SocketIgual /\ AnunciosIguales
  <2> USE <1>3 DEF PasarInicializar
  <2>1. Pasa("pasar_a_ready", "s_grado", "newM_l")
    BY IrPasa DEF Tomar, Hilos
  <2>2. Resta("s_grado_multiprogramacion")
    BY WaitResta DEF Semaforos
  <2>3. Largo("new_l") > 0
    BY ONLY CuentasKernel, <1>1, <2>1, <2>2 DEF CuentasKernel,
         TokensNew, Naturales, Pasa, Resta, Listas, Semaforos, Hilos
  <2>4. Decrece("new_l")
    BY <2>3, TailDecrece DEF Tomar, Listas
  <2>5. Iniciados' = Iniciados + 1
    BY AppendProperties DEF TipoKernel, TipoMemoria, Iniciados
  <2>6. SocketIgual /\ AnunciosIguales
    BY SinCambios DEF varsPlp, varsIo, AnunciosIguales
  <2> QED BY <2>1, <2>2, <2>4, <2>5, <2>6
<1>4. PasarEntregar =>
        /\ Pasa("pasar_a_ready", "newM_l", "post")
        /\ Crece("newM_l") /\ SemaforosIguales /\ RestoIgual
  BY CargaDe, EntregarCuenta DEF PasarEntregar, Hilos, Listas
<1>5. PasarAvisar =>
        /\ Pasa("pasar_a_ready", "post", "inicio")
        /\ Suma("s_proceso_ready") /\ ListasIguales /\ RestoIgual
  BY AvisarCuenta DEF PasarAvisar, Hilos, Semaforos
<1> USE DEF CuentasKernel, TokensNew, TokensReady, TokensIo, TokensSusp,
        TokensFinalizado, BalanceGrado, PcpIgual, HilosPcp, Naturales, Listas, Semaforos, Hilos, Pasa, NadiePasa, Suma, Resta,
        SemaforosIguales, Crece, Decrece, ListasIguales, SocketIgual,
        AnunciosIguales, RestoIgual
<1>6. CASE PasarEsperar
  BY ONLY CuentasKernel, <1>1, <1>2, <1>6
<1>7. CASE PasarInicializar
  <2>1. TokensNew' BY ONLY TokensNew, <1>1, <1>3, <1>7
  <2>2. TokensReady' BY ONLY TokensReady, <1>1, <1>3, <1>7
  <2>3. PcpIgual BY ONLY <1>1, <1>3, <1>7
  <2>4. TokensIo' BY ONLY TokensIo, <1>1, <1>3, <1>7
  <2>5. TokensSusp' BY ONLY TokensSusp, <1>1, <1>3, <1>7
  <2>6. TokensFinalizado' BY ONLY TokensFinalizado, <1>1, <1>3, <1>7
  <2>7. BalanceGrado' BY ONLY BalanceGrado, <1>1, <1>3, <1>7
  <2> QED BY <2>1, <2>2, <2>3, <2>4, <2>5, <2>6, <2>7
<1>8. CASE PasarEntregar
  BY ONLY CuentasKernel, <1>1, <1>4, <1>8
<1>9. CASE PasarAvisar
  BY ONLY CuentasKernel, <1>1, <1>5, <1>9
<1> QED BY <1>6, <1>7, <1>8, <1>9 DEF PasarAReady

\* finalizar_procesos keeps the accounts.
LEMMA CuentasFinalizarProcesos ==
    ASSUME TipoKernel, CuentasKernel, FinalizarProcesos, UNCHANGED varsSocket
    PROVE  CuentasKernel' /\ PcpIgual
<1>1. Naturales
  BY NaturalesTipo
<1>2. ASSUME FinalizarEnMemoria
     PROVE  /\ Pasa("finalizar_procesos", "inicio", "buscar")
            /\ Resta("s_proceso_finalizado") /\ Decrece("finalizado_l")
            /\ RestoIgual
  <2> USE <1>2 DEF FinalizarEnMemoria
  <2>1. Pasa("finalizar_procesos", "inicio", "buscar")
    BY IrPasa DEF Tomar, Hilos
  <2>2. Resta("s_proceso_finalizado")
    BY WaitResta DEF Semaforos
  <2>3. Largo("finalizado_l") > 0
    BY ONLY CuentasKernel, <1>1, <2>1, <2>2 DEF CuentasKernel,
         TokensFinalizado, Naturales, Pasa, Resta, Listas, Semaforos, Hilos
  <2>4. Decrece("finalizado_l")
    BY <2>3, TailDecrece DEF Tomar, Listas
  <2>5. RestoIgual
    BY SinCambios DEF RestoIgual, AnunciosIguales, varsPlp, varsIo,
         varsMemoria
  <2> QED BY <2>1, <2>2, <2>4, <2>5
<1>3. ASSUME BuscarComunicacion
     PROVE  /\ Pasa("finalizar_procesos", "buscar", "quitar") \/ NadiePasa
            /\ SemaforosIguales /\ ListasIguales /\ RestoIgual
  <2> USE <1>3 DEF BuscarComunicacion
  <2>1. Pasa("finalizar_procesos", "buscar", "quitar") \/ NadiePasa
    BY IrPasa, SinCambios DEF Hilos
  <2>2. SemaforosIguales /\ ListasIguales /\ RestoIgual
    BY SinCambios DEF RestoIgual, AnunciosIguales, varsPlp, varsIo,
         varsMemoria
  <2> QED BY <2>1, <2>2
<1>4. ASSUME QuitarComunicacion
     PROVE  /\ Pasa("finalizar_procesos", "quitar", "despertar")
            /\ SemaforosIguales /\ ListasIguales /\ RestoIgual
  <2> USE <1>4 DEF QuitarComunicacion
  <2>1. Pasa("finalizar_procesos", "quitar", "despertar")
    BY IrPasa DEF Hilos
  <2>2. SemaforosIguales /\ ListasIguales /\ RestoIgual
    BY SinCambios DEF RestoIgual, AnunciosIguales, varsPlp, varsIo,
         varsMemoria
  <2> QED BY <2>1, <2>2
<1>5. ASSUME DespertarComunicacion
     PROVE  /\ Pasa("finalizar_procesos", "despertar", "post")
            /\ Crece("exit_l") /\ SemaforosIguales /\ RestoIgual
  <2> USE <1>5 DEF DespertarComunicacion
  <2>1. Pasa("finalizar_procesos", "despertar", "post")
    BY IrPasa DEF Dejar, Hilos
  <2>2. pcb["finalizar_procesos"] \in PCB
    BY CargaDe, PcbDeHilo DEF Hilos
  <2>3. Crece("exit_l")
    BY <2>2, AppendCrece DEF Dejar, Listas
  <2>4. SemaforosIguales /\ RestoIgual
    BY SinCambios DEF RestoIgual, AnunciosIguales, varsPlp, varsIo,
         varsMemoria
  <2> QED BY <2>1, <2>2, <2>3, <2>4
<1>6. LiberarGrado =>
        /\ Pasa("finalizar_procesos", "post", "inicio")
        /\ Suma("s_grado_multiprogramacion") /\ ListasIguales /\ RestoIgual
  BY AvisarCuenta DEF LiberarGrado, Hilos, Semaforos
<1> USE DEF CuentasKernel, TokensNew, TokensReady, TokensIo, TokensSusp,
        TokensFinalizado, BalanceGrado, PcpIgual, HilosPcp, Naturales, Listas, Semaforos, Hilos, Pasa, NadiePasa, Suma, Resta,
        SemaforosIguales, Crece, Decrece, ListasIguales, SocketIgual,
        AnunciosIguales, RestoIgual
<1>7. CASE FinalizarEnMemoria
  BY ONLY CuentasKernel, <1>1, <1>2, <1>7
<1>8. CASE BuscarComunicacion
  BY ONLY CuentasKernel, <1>1, <1>3, <1>8
<1>9. CASE QuitarComunicacion
  BY ONLY CuentasKernel, <1>1, <1>4, <1>9
<1>10. CASE DespertarComunicacion
  BY ONLY CuentasKernel, <1>1, <1>5, <1>10
<1>11. CASE LiberarGrado
  BY ONLY CuentasKernel, <1>1, <1>6, <1>11
<1> QED BY <1>7, <1>8, <1>9, <1>10, <1>11 DEF FinalizarProcesos

\* suspender_proceso keeps the accounts.
LEMMA CuentasSuspenderProceso ==
    ASSUME TipoKernel, CuentasKernel, SuspenderProceso, UNCHANGED varsSocket
    PROVE  CuentasKernel' /\ PcpIgual
<1>1. Naturales
  BY NaturalesTipo
<1>2. ASSUME SuspenderTomar
     PROVE  /\ Pasa("suspender_proceso", "inicio", "susp_block_l")
            /\ Resta("s_proceso_susp") /\ Decrece("susp_block_buffer_l")
            /\ RestoIgual
  <2> USE <1>2 DEF SuspenderTomar
  <2>1. Pasa("suspender_proceso", "inicio", "susp_block_l")
    BY IrPasa DEF Tomar, Hilos
  <2>2. Resta("s_proceso_susp")
    BY WaitResta DEF Semaforos
  <2>3. Largo("susp_block_buffer_l") > 0
    BY ONLY CuentasKernel, <1>1, <2>1, <2>2 DEF CuentasKernel,
         TokensSusp, Naturales, Pasa, Resta, Listas, Semaforos, Hilos
  <2>4. Decrece("susp_block_buffer_l")
    BY <2>3, TailDecrece DEF Tomar, Listas
  <2>5. RestoIgual
    BY SinCambios DEF RestoIgual, AnunciosIguales, varsPlp, varsIo,
         varsMemoria
  <2> QED BY <2>1, <2>2, <2>4, <2>5
<1>3. ASSUME SuspenderMarcar
     PROVE  /\ Pasa("suspender_proceso", "susp_block_l", "estado")
            /\ Crece("susp_block_l") /\ SemaforosIguales /\ RestoIgual
  <2> USE <1>3 DEF SuspenderMarcar
  <2>1. Pasa("suspender_proceso", "susp_block_l", "estado")
    BY IrPasa DEF Hilos
  <2>2. pcb["suspender_proceso"] \in PCB
    BY CargaDe, PcbDeHilo DEF Hilos
  <2>3. Crece("susp_block_l")
    BY <2>2, AppendCrece DEF Listas
  <2>4. SemaforosIguales /\ RestoIgual
    BY SinCambios DEF RestoIgual, AnunciosIguales, varsPlp, varsIo,
         varsMemoria
  <2> QED BY <2>1, <2>2, <2>3, <2>4
<1>4. ASSUME SuspenderEstado
     PROVE  /\ Pasa("suspender_proceso", "estado", "enviar")
            /\ SemaforosIguales /\ ListasIguales /\ RestoIgual
  <2> USE <1>4 DEF SuspenderEstado
  <2>1. Pasa("suspender_proceso", "estado", "enviar")
    BY IrPasa DEF Hilos
  <2>2. SemaforosIguales /\ ListasIguales /\ RestoIgual
    BY SinCambios DEF RestoIgual, AnunciosIguales, varsPlp, varsIo,
         varsMemoria
  <2> QED BY <2>1, <2>2
<1>5. ASSUME SuspenderEnviar
     PROVE  /\ Pasa("suspender_proceso", "enviar", "post")
            /\ SemaforosIguales /\ ListasIguales /\ RestoIgual
  <2> USE <1>5 DEF SuspenderEnviar
  <2>1. Pasa("suspender_proceso", "enviar", "post")
    BY IrPasa DEF Hilos
  <2>2. SemaforosIguales /\ ListasIguales /\ RestoIgual
    BY SinCambios DEF RestoIgual, AnunciosIguales, varsPlp, varsIo,
         varsMemoria
  <2> QED BY <2>1, <2>2
<1>6. SuspenderLiberar =>
        /\ Pasa("suspender_proceso", "post", "inicio")
        /\ Suma("s_grado_multiprogramacion") /\ ListasIguales /\ RestoIgual
  BY AvisarCuenta DEF SuspenderLiberar, Hilos, Semaforos
<1> USE DEF CuentasKernel, TokensNew, TokensReady, TokensIo, TokensSusp,
        TokensFinalizado, BalanceGrado, PcpIgual, HilosPcp, Naturales, Listas, Semaforos, Hilos, Pasa, NadiePasa, Suma, Resta,
        SemaforosIguales, Crece, Decrece, ListasIguales, SocketIgual,
        AnunciosIguales, RestoIgual
<1>7. CASE SuspenderTomar
  BY ONLY CuentasKernel, <1>1, <1>2, <1>7
<1>8. CASE SuspenderMarcar
  BY ONLY CuentasKernel, <1>1, <1>3, <1>8
<1>9. CASE SuspenderEstado
  BY ONLY CuentasKernel, <1>1, <1>4, <1>9
<1>10. CASE SuspenderEnviar
  BY ONLY CuentasKernel, <1>1, <1>5, <1>10
<1>11. CASE SuspenderLiberar
  BY ONLY CuentasKernel, <1>1, <1>6, <1>11
<1> QED BY <1>7, <1>8, <1>9, <1>10, <1>11 DEF SuspenderProceso

\* avisar_proceso_susp_ready keeps the accounts.
LEMMA CuentasAvisarProcesoSuspReady ==
    ASSUME TipoKernel, CuentasKernel, AvisarProcesoSuspReady, UNCHANGED varsSocket
    PROVE  CuentasKernel' /\ PcpIgual
<1>1. Naturales
  BY NaturalesTipo
<1>2. ReanudarEsperar =>
        /\ Pasa("avisar_proceso_susp_ready", "inicio", "s_grado")
        /\ Resta("s_proceso_susp_ready") /\ ListasIguales /\ RestoIgual
  BY EsperarCuenta DEF ReanudarEsperar, Hilos, Semaforos
<1>3. ASSUME ReanudarTomar
     PROVE  /\ Pasa("avisar_proceso_susp_ready", "s_grado", "susp_readyM_l")
            /\ Resta("s_grado_multiprogramacion") /\ Decrece("susp_ready_l")
            /\ RestoIgual
  <2> USE <1>3 DEF ReanudarTomar
  <2>1. Pasa("avisar_proceso_susp_ready", "s_grado", "susp_readyM_l")
    BY IrPasa DEF Tomar, Hilos
  <2>2. Resta("s_grado_multiprogramacion")
    BY WaitResta DEF Semaforos
  <2>3. Largo("susp_ready_l") > 0
    BY ONLY CuentasKernel, <1>1, <2>1, <2>2 DEF CuentasKernel,
         TokensSusp, Naturales, Pasa, Resta, Listas, Semaforos, Hilos
  <2>4. Decrece("susp_ready_l")
    BY <2>3, TailDecrece DEF Tomar, Listas
  <2>5. RestoIgual
    BY SinCambios DEF RestoIgual, AnunciosIguales, varsPlp, varsIo,
         varsMemoria
  <2> QED BY <2>1, <2>2, <2>4, <2>5
<1>4. ReanudarEntregar =>
        /\ Pasa("avisar_proceso_susp_ready", "susp_readyM_l", "post")
        /\ Crece("susp_readyM_l") /\ SemaforosIguales /\ RestoIgual
  BY CargaDe, EntregarCuenta DEF ReanudarEntregar, Hilos, Listas
<1>5. ReanudarAvisar =>
        /\ Pasa("avisar_proceso_susp_ready", "post", "inicio")
        /\ Suma("s_proceso_ready") /\ ListasIguales /\ RestoIgual
  BY AvisarCuenta DEF ReanudarAvisar, Hilos, Semaforos
<1> USE DEF CuentasKernel, TokensNew, TokensReady, TokensIo, TokensSusp,
        TokensFinalizado, BalanceGrado, PcpIgual, HilosPcp, Naturales, Listas, Semaforos, Hilos, Pasa, NadiePasa, Suma, Resta,
        SemaforosIguales, Crece, Decrece, ListasIguales, SocketIgual,
        AnunciosIguales, RestoIgual
<1>6. CASE ReanudarEsperar
  BY ONLY CuentasKernel, <1>1, <1>2, <1>6
<1>7. CASE ReanudarTomar
  <2>1. TokensNew' BY ONLY TokensNew, <1>1, <1>3, <1>7
  <2>2. TokensReady' BY ONLY TokensReady, <1>1, <1>3, <1>7
  <2>3. PcpIgual BY ONLY <1>1, <1>3, <1>7
  <2>4. TokensIo' BY ONLY TokensIo, <1>1, <1>3, <1>7
  <2>5. TokensSusp' BY ONLY TokensSusp, <1>1, <1>3, <1>7
  <2>6. TokensFinalizado' BY ONLY TokensFinalizado, <1>1, <1>3, <1>7
  <2>7. BalanceGrado'
    <3>1. /\ Valor("s_grado_multiprogramacion")' =
                Valor("s_grado_multiprogramacion") - 1
          /\ Largo("susp_ready_l")' = Largo("susp_ready_l") - 1
          /\ Largo("exit_l")' = Largo("exit_l")
          /\ Largo("susp_block_l")' = Largo("susp_block_l")
          /\ Iniciados' = Iniciados
      BY ONLY <1>3, <1>7
    <3>2. /\ En("finalizar_procesos", {"post"})' =
                En("finalizar_procesos", {"post"})
          /\ En("suspender_proceso", {"estado", "enviar", "post"})' =
                En("suspender_proceso", {"estado", "enviar", "post"})
          /\ En("io", {"susp_ready_l"})' = En("io", {"susp_ready_l"})
      BY ONLY <1>3, <1>7
    <3>3. /\ Valor("s_grado_multiprogramacion") \in Nat
          /\ Largo("susp_ready_l") \in Nat /\ Largo("exit_l") \in Nat
          /\ Largo("susp_block_l") \in Nat /\ Iniciados \in Nat
          /\ \A h, E : En(h, E) \in Nat
          /\ GRADO_MULTIPROGRAMACION \in Nat
      BY ONLY <1>1
    <3> QED BY ONLY BalanceGrado, <3>1, <3>2, <3>3
  <2> QED BY <2>1, <2>2, <2>3, <2>4, <2>5, <2>6, <2>7
<1>8. CASE ReanudarEntregar
  <2>1. TokensNew' BY ONLY TokensNew, <1>1, <1>4, <1>8
  <2>2. TokensReady' BY ONLY TokensReady, <1>1, <1>4, <1>8
  <2>3. PcpIgual BY ONLY <1>1, <1>4, <1>8
  <2>4. TokensIo' BY ONLY TokensIo, <1>1, <1>4, <1>8
  <2>5. TokensSusp' BY ONLY TokensSusp, <1>1, <1>4, <1>8
  <2>6. TokensFinalizado' BY ONLY TokensFinalizado, <1>1, <1>4, <1>8
  <2>7. BalanceGrado' BY ONLY BalanceGrado, <1>1, <1>4, <1>8
  <2> QED BY <2>1, <2>2, <2>3, <2>4, <2>5, <2>6, <2>7
<1>9. CASE ReanudarAvisar
  <2>1. TokensNew' BY ONLY TokensNew, <1>1, <1>5, <1>9
  <2>2. TokensReady' BY ONLY TokensReady, <1>1, <1>5, <1>9
  <2>3. PcpIgual BY ONLY <1>1, <1>5, <1>9
  <2>4. TokensIo' BY ONLY TokensIo, <1>1, <1>5, <1>9
  <2>5. TokensSusp' BY ONLY TokensSusp, <1>1, <1>5, <1>9
  <2>6. TokensFinalizado' BY ONLY TokensFinalizado, <1>1, <1>5, <1>9
  <2>7. BalanceGrado' BY ONLY BalanceGrado, <1>1, <1>5, <1>9
  <2> QED BY <2>1, <2>2, <2>3, <2>4, <2>5, <2>6, <2>7
<1> QED BY <1>6, <1>7, <1>8, <1>9 DEF AvisarProcesoSuspReady

\* planificador_io keeps the accounts.
LEMMA CuentasPlanificadorIo ==
    ASSUME TipoKernel, CuentasKernel, PlanificadorIo, UNCHANGED varsSocket
    PROVE  CuentasKernel' /\ PcpIgual
<1>1. Naturales
  BY NaturalesTipo
<1>2. ASSUME PlanificadorIoTomar
     PROVE  /\ \/ /\ Pasa("planificador_io", "inicio", "quitar")
                  /\ Largo("block_l") > 0
               \/ NadiePasa /\ Largo("block_l") = 0
            /\ Resta("s_io_pendiente") /\ ListasIguales /\ RestoIgual
  <2> USE <1>2 DEF PlanificadorIoTomar
  <2>1. Resta("s_io_pendiente")
    BY WaitResta DEF Semaforos
  <2>2. Largo("block_l") = 0 <=> lista["block_l"] = <<>>
    BY EmptySeq DEF TipoKernel, TipoListas, Listas, Largo
  <2>3. Largo("block_l") \in Nat
    BY <1>1 DEF Naturales, Listas
  <2>4. lista["block_l"] # <<>> =>
          Pasa("planificador_io", "inicio", "quitar")
    BY IrPasa DEF Hilos
  <2>5. lista["block_l"] = <<>> => NadiePasa
    BY SinCambios
  <2>6. \/ Pasa("planificador_io", "inicio", "quitar") /\ Largo("block_l") > 0
        \/ NadiePasa /\ Largo("block_l") = 0
    BY <2>2, <2>3, <2>4, <2>5
  <2>7. ListasIguales /\ RestoIgual
    BY SinCambios DEF RestoIgual, AnunciosIguales, varsPlp, varsIo,
         varsMemoria
  <2> QED BY <2>1, <2>6, <2>7
<1>3. ASSUME PlanificadorIoDisparar
     PROVE  /\ Pasa("planificador_io", "quitar", "block_pend_l")
            /\ Decrece("block_l") /\ SemaforosIguales
            /\ Iniciados' = Iniciados /\ SocketIgual
            /\ Cardinality(NewSinAvisar)' = Cardinality(NewSinAvisar)
            /\ Cardinality(SuspSinAvisar)' <= Cardinality(SuspSinAvisar)
            /\ Cardinality(SuspSinAvisar)' \in Nat
  <2> USE <1>3 DEF PlanificadorIoDisparar
  <2>1. Pasa("planificador_io", "quitar", "block_pend_l")
    BY IrPasa DEF Hilos
  <2>2. Largo("block_l") > 0
    BY ONLY CuentasKernel, <1>1, <2>1 DEF CuentasKernel, TokensIo,
         Naturales, Pasa, Listas, Semaforos, Hilos
  <2>3. Decrece("block_l")
    BY <2>2, TailDecrece DEF Listas
  <2>4. SuspSinAvisar' \subseteq SuspSinAvisar
    BY DEF TipoKernel, TipoIo, SuspSinAvisar, PCB
  <2>5. /\ Cardinality(SuspSinAvisar)' <= Cardinality(SuspSinAvisar)
        /\ Cardinality(SuspSinAvisar)' \in Nat
    BY <2>4, CantidadesNaturales, FS_Subset, FS_CardinalityType
  <2>6. /\ SemaforosIguales /\ Iniciados' = Iniciados /\ SocketIgual
        /\ Cardinality(NewSinAvisar)' = Cardinality(NewSinAvisar)
    BY SinCambios DEF varsPlp, varsMemoria
  <2> QED BY <2>1, <2>3, <2>5, <2>6
<1>4. PlanificadorIoEntregar =>
        /\ Pasa("planificador_io", "block_pend_l", "post")
        /\ Crece("block_pend_l") /\ SemaforosIguales /\ RestoIgual
  BY CargaDe, EntregarCuenta DEF PlanificadorIoEntregar, Hilos, Listas
<1>5. PlanificadorIoAvisar =>
        /\ Pasa("planificador_io", "post", "inicio")
        /\ Suma("s_io") /\ ListasIguales /\ RestoIgual
  BY AvisarCuenta DEF PlanificadorIoAvisar, Hilos, Semaforos
<1> USE DEF CuentasKernel, TokensNew, TokensReady, TokensIo, TokensSusp,
        TokensFinalizado, BalanceGrado, PcpIgual, HilosPcp, Naturales, Listas, Semaforos, Hilos, Pasa, NadiePasa, Suma, Resta,
        SemaforosIguales, Crece, Decrece, ListasIguales, SocketIgual,
        AnunciosIguales, RestoIgual
<1>6. CASE PlanificadorIoTomar
  BY ONLY CuentasKernel, <1>1, <1>2, <1>6
<1>7. CASE PlanificadorIoDisparar
  <2>1. TokensNew' BY ONLY TokensNew, <1>1, <1>3, <1>7
  <2>2. TokensReady' BY ONLY TokensReady, <1>1, <1>3, <1>7
  <2>3. PcpIgual BY ONLY <1>1, <1>3, <1>7
  <2>4. TokensIo' BY ONLY TokensIo, <1>1, <1>3, <1>7
  <2>5. TokensSusp' BY ONLY TokensSusp, <1>1, <1>3, <1>7
  <2>6. TokensFinalizado' BY ONLY TokensFinalizado, <1>1, <1>3, <1>7
  <2>7. BalanceGrado' BY ONLY BalanceGrado, <1>1, <1>3, <1>7
  <2> QED BY <2>1, <2>2, <2>3, <2>4, <2>5, <2>6, <2>7
<1>8. CASE PlanificadorIoEntregar
  BY ONLY CuentasKernel, <1>1, <1>4, <1>8
<1>9. CASE PlanificadorIoAvisar
  BY ONLY CuentasKernel, <1>1, <1>5, <1>9
<1> QED BY <1>6, <1>7, <1>8, <1>9 DEF PlanificadorIo

\* A timer keeps the accounts: it announces what it added to
\* susp_block_buffer_l.
LEMMA CuentasSuspencion ==
    ASSUME TipoKernel, CuentasKernel, NEW x \in PCB, Suspencion(x),
           UNCHANGED varsSocket
    PROVE  CuentasKernel' /\ PcpIgual
<1>1. Naturales
  BY NaturalesTipo
<1>2. ASSUME ContadorDespertar(x)
     PROVE  /\ NadiePasa /\ SemaforosIguales
            /\ ListasIguales /\ Iniciados' = Iniciados /\ SocketIgual
            /\ AnunciosIguales
  <2> USE <1>2 DEF ContadorDespertar
  <2>1. SuspSinAvisar' = SuspSinAvisar
    BY DEF TipoKernel, TipoIo, SuspSinAvisar, PCB
  <2>2. /\ NadiePasa /\ SemaforosIguales
        /\ ListasIguales /\ Iniciados' = Iniciados /\ SocketIgual
        /\ Cardinality(NewSinAvisar)' = Cardinality(NewSinAvisar)
    BY SinCambios DEF varsPlp, varsMemoria
  <2>3. AnunciosIguales
    BY <2>1, <2>2 DEF AnunciosIguales
  <2> QED BY <2>2, <2>3
<1>3. ASSUME ContadorAgregar(x)
     PROVE  /\ NadiePasa /\ SemaforosIguales /\ Crece("susp_block_buffer_l")
            /\ Iniciados' = Iniciados /\ SocketIgual
            /\ Cardinality(NewSinAvisar)' = Cardinality(NewSinAvisar)
            /\ Cardinality(SuspSinAvisar)' = Cardinality(SuspSinAvisar) + 1
  <2> USE <1>3 DEF ContadorAgregar
  <2>1. /\ SuspSinAvisar' = SuspSinAvisar \cup {x}
        /\ x \notin SuspSinAvisar
    BY DEF TipoKernel, TipoIo, SuspSinAvisar, PCB
  <2>2. Cardinality(SuspSinAvisar)' = Cardinality(SuspSinAvisar) + 1
    BY <2>1, CantidadesNaturales, FS_AddElement
  <2>3. Crece("susp_block_buffer_l")
    BY AppendCrece DEF Listas
  <2>4. /\ NadiePasa /\ SemaforosIguales
        /\ Iniciados' = Iniciados /\ SocketIgual
        /\ Cardinality(NewSinAvisar)' = Cardinality(NewSinAvisar)
    BY SinCambios DEF varsPlp, varsMemoria
  <2> QED BY <2>2, <2>3, <2>4
<1>4. ASSUME ContadorAvisar(x)
     PROVE  /\ NadiePasa /\ Suma("s_proceso_susp") /\ ListasIguales
            /\ Iniciados' = Iniciados /\ SocketIgual
            /\ Cardinality(NewSinAvisar)' = Cardinality(NewSinAvisar)
            /\ Cardinality(SuspSinAvisar)' = Cardinality(SuspSinAvisar) - 1
  <2> USE <1>4 DEF ContadorAvisar
  <2>1. /\ SuspSinAvisar' = SuspSinAvisar \ {x}
        /\ x \in SuspSinAvisar
    BY DEF TipoKernel, TipoIo, SuspSinAvisar, PCB
  <2>2. Cardinality(SuspSinAvisar)' = Cardinality(SuspSinAvisar) - 1
    BY <2>1, CantidadesNaturales, FS_RemoveElement
  <2>3. Suma("s_proceso_susp")
    BY PostSuma DEF Semaforos
  <2>4. /\ NadiePasa /\ ListasIguales
        /\ Iniciados' = Iniciados /\ SocketIgual
        /\ Cardinality(NewSinAvisar)' = Cardinality(NewSinAvisar)
    BY SinCambios DEF varsPlp, varsMemoria
  <2> QED BY <2>2, <2>3, <2>4
<1> USE DEF CuentasKernel, TokensNew, TokensReady, TokensIo, TokensSusp,
        TokensFinalizado, BalanceGrado, PcpIgual, HilosPcp, Naturales, Listas, Semaforos, Hilos, Pasa, NadiePasa, Suma, Resta,
        SemaforosIguales, Crece, Decrece, ListasIguales, SocketIgual,
        AnunciosIguales, RestoIgual
<1>5. CASE ContadorDespertar(x)
  BY ONLY CuentasKernel, <1>1, <1>2, <1>5
<1>6. CASE ContadorAgregar(x)
  BY ONLY CuentasKernel, <1>1, <1>3, <1>6
<1>7. CASE ContadorAvisar(x)
  BY ONLY CuentasKernel, <1>1, <1>4, <1>7
<1> QED BY <1>5, <1>6, <1>7 DEF Suspencion

\* io keeps the accounts; the mark it takes off was still there.
LEMMA CuentasIo ==
    ASSUME TipoKernel, CuentasKernel, BusquedaVigente, Io,
           UNCHANGED varsSocket
    PROVE  CuentasKernel' /\ PcpIgual
<1>1. Naturales
  BY NaturalesTipo
<1>2. ASSUME IoTomar
     PROVE  /\ Pasa("io", "inicio", "durmiendo")
            /\ Resta("s_io") /\ Decrece("block_pend_l")
            /\ RestoIgual
  <2> USE <1>2 DEF IoTomar
  <2>1. Pasa("io", "inicio", "durmiendo")
    BY IrPasa DEF Tomar, Hilos
  <2>2. Resta("s_io")
    BY WaitResta DEF Semaforos
  <2>3. Largo("block_pend_l") > 0
    BY ONLY CuentasKernel, <1>1, <2>1, <2>2 DEF CuentasKernel,
         TokensIo, Naturales, Pasa, Resta, Listas, Semaforos, Hilos
  <2>4. Decrece("block_pend_l")
    BY <2>3, TailDecrece DEF Tomar, Listas
  <2>5. RestoIgual
    BY SinCambios DEF RestoIgual, AnunciosIguales, varsPlp, varsIo,
         varsMemoria
  <2> QED BY <2>1, <2>2, <2>4, <2>5
<1>3. ASSUME IoDespertar
     PROVE  /\ \/ Pasa("io", "durmiendo", "susp_block_l")
               \/ Pasa("io", "durmiendo", "cancelar")
            /\ SemaforosIguales /\ ListasIguales /\ RestoIgual
  <2> USE <1>3 DEF IoDespertar
  <2>1. \/ Pasa("io", "durmiendo", "susp_block_l")
        \/ Pasa("io", "durmiendo", "cancelar")
    BY IrPasa DEF Hilos
  <2>2. SemaforosIguales /\ ListasIguales /\ RestoIgual
    BY SinCambios DEF RestoIgual, AnunciosIguales, varsPlp, varsIo,
         varsMemoria
  <2> QED BY <2>1, <2>2
<1>4. ASSUME IoCancelar
     PROVE  /\ Pasa("io", "cancelar", "unblock_l")
            /\ SemaforosIguales /\ ListasIguales /\ RestoIgual
  <2> USE <1>4 DEF IoCancelar
  <2>1. Pasa("io", "cancelar", "unblock_l")
    BY IrPasa DEF Hilos
  <2>2. SuspSinAvisar' = SuspSinAvisar
    BY DEF TipoKernel, TipoIo, SuspSinAvisar, Cancelados, PCB
  <2>3. /\ SemaforosIguales /\ ListasIguales /\ Iniciados' = Iniciados
        /\ SocketIgual /\ Cardinality(NewSinAvisar)' = Cardinality(NewSinAvisar)
    BY SinCambios DEF varsPlp, varsMemoria
  <2>4. RestoIgual
    BY <2>2, <2>3 DEF RestoIgual, AnunciosIguales
  <2> QED BY <2>1, <2>3, <2>4
<1>5. IoDesbloquear =>
        /\ Pasa("io", "unblock_l", "post_ready")
        /\ Crece("unblock_l") /\ SemaforosIguales /\ RestoIgual
  BY CargaDe, EntregarCuenta DEF IoDesbloquear, Hilos, Listas
<1>6. IoAvisarReady =>
        /\ Pasa("io", "post_ready", "inicio")
        /\ Suma("s_proceso_ready") /\ ListasIguales /\ RestoIgual
  BY AvisarCuenta DEF IoAvisarReady, Hilos, Semaforos
<1>7. ASSUME IoDesmarcar
     PROVE  /\ Pasa("io", "susp_block_l", "susp_ready_l")
            /\ Decrece("susp_block_l") /\ SemaforosIguales /\ RestoIgual
  <2> USE <1>7 DEF IoDesmarcar
  <2>1. Pasa("io", "susp_block_l", "susp_ready_l")
    BY IrPasa DEF Hilos
  <2>2. Len(RemoverDeLista(lista["susp_block_l"], pcb["io"])) =
          Len(lista["susp_block_l"]) - 1
    BY RemoverTipo DEF BusquedaVigente, TipoKernel, TipoListas, Listas
  <2>3. Decrece("susp_block_l")
    BY <2>2 DEF TipoKernel, TipoListas, Listas, Largo, Decrece
  <2>4. SemaforosIguales /\ RestoIgual
    BY SinCambios DEF RestoIgual, AnunciosIguales, varsPlp, varsIo,
         varsMemoria
  <2> QED BY <2>1, <2>3, <2>4
<1>8. IoSuspReady =>
        /\ Pasa("io", "susp_ready_l", "post_susp_ready")
        /\ Crece("susp_ready_l") /\ SemaforosIguales /\ RestoIgual
  BY CargaDe, EntregarCuenta DEF IoSuspReady, Hilos, Listas
<1>9. IoAvisarSuspReady =>
        /\ Pasa("io", "post_susp_ready", "inicio")
        /\ Suma("s_proceso_susp_ready") /\ ListasIguales /\ RestoIgual
  BY AvisarCuenta DEF IoAvisarSuspReady, Hilos, Semaforos
<1> USE DEF CuentasKernel, TokensNew, TokensReady, TokensIo, TokensSusp,
        TokensFinalizado, BalanceGrado, PcpIgual, HilosPcp, Naturales, Listas, Semaforos, Hilos, Pasa, NadiePasa, Suma, Resta,
        SemaforosIguales, Crece, Decrece, ListasIguales, SocketIgual,
        AnunciosIguales, RestoIgual
<1>10. CASE IoTomar
  BY ONLY CuentasKernel, <1>1, <1>2, <1>10
<1>11. CASE IoDespertar
  BY ONLY CuentasKernel, <1>1, <1>3, <1>11
<1>12. CASE IoCancelar
  BY ONLY CuentasKernel, <1>1, <1>4, <1>12
<1>13. CASE IoDesbloquear
  BY ONLY CuentasKernel, <1>1, <1>5, <1>13
<1>14. CASE IoAvisarReady
  <2>1. TokensNew' BY ONLY TokensNew, <1>1, <1>6, <1>14
  <2>2. TokensReady' BY ONLY TokensReady, <1>1, <1>6, <1>14
  <2>3. PcpIgual BY ONLY <1>1, <1>6, <1>14
  <2>4. TokensIo' BY ONLY TokensIo, <1>1, <1>6, <1>14
  <2>5. TokensSusp' BY ONLY TokensSusp, <1>1, <1>6, <1>14
  <2>6. TokensFinalizado' BY ONLY TokensFinalizado, <1>1, <1>6, <1>14
  <2>7. BalanceGrado' BY ONLY BalanceGrado, <1>1, <1>6, <1>14
  <2> QED BY <2>1, <2>2, <2>3, <2>4, <2>5, <2>6, <2>7
<1>15. CASE IoDesmarcar
  <2>1. TokensNew' BY ONLY TokensNew, <1>1, <1>7, <1>15
  <2>2. TokensReady' BY ONLY TokensReady, <1>1, <1>7, <1>15
  <2>3. PcpIgual BY ONLY <1>1, <1>7, <1>15
  <2>4. TokensIo' BY ONLY TokensIo, <1>1, <1>7, <1>15
  <2>5. TokensSusp' BY ONLY TokensSusp, <1>1, <1>7, <1>15
  <2>6. TokensFinalizado' BY ONLY TokensFinalizado, <1>1, <1>7, <1>15
  <2>7. BalanceGrado' BY ONLY BalanceGrado, <1>1, <1>7, <1>15
  <2> QED BY <2>1, <2>2, <2>3, <2>4, <2>5, <2>6, <2>7
<1>16. CASE IoSuspReady
  <2>1. TokensNew' BY ONLY TokensNew, <1>1, <1>8, <1>16
  <2>2. TokensReady' BY ONLY TokensReady, <1>1, <1>8, <1>16
  <2>3. PcpIgual BY ONLY <1>1, <1>8, <1>16
  <2>4. TokensIo' BY ONLY TokensIo, <1>1, <1>8, <1>16
  <2>5. TokensSusp' BY ONLY TokensSusp, <1>1, <1>8, <1>16
  <2>6. TokensFinalizado' BY ONLY TokensFinalizado, <1>1, <1>8, <1>16
  <2>7. BalanceGrado' BY ONLY BalanceGrado, <1>1, <1>8, <1>16
  <2> QED BY <2>1, <2>2, <2>3, <2>4, <2>5, <2>6, <2>7
<1>17. CASE IoAvisarSuspReady
  BY ONLY CuentasKernel, <1>1, <1>9, <1>17
<1> QED BY <1>10, <1>11, <1>12, <1>13, <1>14, <1>15, <1>16, <1>17 DEF Io

-----------------------------------------------------------------------------
(* The steps that fifo.c and sjf.c have in common.                          *)

Elige(l) ==
    Pasa("agregar_a_ready", l, "ready_l") /\ Decrece(l)

Descarta(l, otra) ==
    /\ Pasa("agregar_a_ready", l, otra)
    /\ Largo(l) = 0 /\ ListasIguales

\* agregar_a_ready is woken.
LEMMA AgregarEsperarCuenta ==
    ASSUME TipoKernel, AgregarEsperar
    PROVE  /\ Pasa("agregar_a_ready", "inicio", "susp_readyM_l")
           /\ Resta("s_proceso_ready") /\ ListasIguales /\ RestoIgual
BY EsperarCuenta DEF AgregarEsperar, Hilos, Semaforos

\* One look of agregar_a_ready at a list (fifo.c:57-71).
LEMMA ElegirCuenta ==
    ASSUME TipoKernel, NEW l \in Listas, NEW otra, AgregarElegir(l, otra)
    PROVE  /\ Elige(l) \/ Descarta(l, otra)
           /\ SemaforosIguales /\ RestoIgual
<1> USE DEF AgregarElegir
<1>1. /\ Largo(l) \in Nat
      /\ Largo(l) = 0 <=> lista[l] = <<>>
  BY EmptySeq, LenProperties DEF TipoKernel, TipoListas, Largo
<1>2. CASE lista[l] # <<>>
  <2>1. Pasa("agregar_a_ready", l, "ready_l")
    BY <1>2, IrPasa DEF Tomar, Hilos
  <2>2. Decrece(l)
    BY <1>1, <1>2, TailDecrece DEF Tomar
  <2> QED BY <2>1, <2>2, SinCambios
    DEF Elige, RestoIgual, AnunciosIguales, varsPlp, varsIo, varsMemoria
<1>3. CASE lista[l] = <<>>
  <2>1. Pasa("agregar_a_ready", l, otra)
    BY <1>3, IrPasa DEF Hilos
  <2> QED BY <1>1, <1>3, <2>1, SinCambios
    DEF Descarta, RestoIgual, AnunciosIguales, varsPlp, varsIo, varsMemoria
<1> QED BY <1>2, <1>3

\* Its last look, at a list that is never empty then.
LEMMA ElegirNewCuenta ==
    ASSUME TipoKernel, CuentasKernel, AgregarElegirNew
    PROVE  /\ Pasa("agregar_a_ready", "newM_l", "ready_l")
           /\ Decrece("newM_l") /\ SemaforosIguales /\ RestoIgual
<1> USE DEF AgregarElegirNew
<1>1. Pasa("agregar_a_ready", "newM_l", "ready_l")
  BY IrPasa DEF Tomar, Hilos
<1>2. Largo("newM_l") > 0
  BY NuncaVacia
<1>3. Decrece("newM_l")
  BY <1>2, TailDecrece DEF Tomar, Listas
<1>4. SemaforosIguales /\ RestoIgual
  BY SinCambios DEF RestoIgual, AnunciosIguales, varsPlp, varsIo, varsMemoria
<1> QED BY <1>1, <1>3, <1>4

\* The receiver delivers a PCB that has finished.
LEMMA RecibirFinalizadoCuenta ==
    ASSUME TipoKernel, RecibirFinalizado
    PROVE  /\ Pasa("recibir_proceso_de_cpu", "finalizado_l", "post_finalizado")
           /\ Crece("finalizado_l") /\ SemaforosIguales /\ RestoIgual
BY CargaDe, EntregarCuenta DEF RecibirFinalizado, Hilos, Listas

\* The receiver delivers a blocked PCB, which may be lost.
LEMMA RecibirBloqueadoCuenta ==
    ASSUME TipoKernel, RecibirBloqueado
    PROVE  /\ Pasa("recibir_proceso_de_cpu", "block_l", "post_io_pendiente")
           /\ Crece("block_l") \/ ListasIguales
           /\ SemaforosIguales /\ RestoIgual
<1> USE DEF RecibirBloqueado
<1>1. Pasa("recibir_proceso_de_cpu", "block_l", "post_io_pendiente")
  BY IrPasa DEF Hilos
<1>2. pcb["recibir_proceso_de_cpu"] \in PCB
  BY CargaDe, PcbDeHilo DEF Hilos
<1>3. \/ lista' = [lista EXCEPT !["block_l"] =
                             Append(@, pcb["recibir_proceso_de_cpu"])]
      \/ lista' = lista
  BY DEF Agregados, TipoKernel, TipoListas, Listas
<1>4. Crece("block_l") \/ ListasIguales
  BY ONLY TipoKernel, <1>2, <1>3, AppendCrece, SinCambios DEF Listas
<1>5. SemaforosIguales /\ RestoIgual
  BY SinCambios DEF RestoIgual, AnunciosIguales, varsPlp, varsIo, varsMemoria
<1> QED BY <1>1, <1>4, <1>5

\* The receiver frees the CPU.
LEMMA RecibirLiberarCpuCuenta ==
    ASSUME TipoKernel, RecibirLiberarCpu
    PROVE  /\ Pasa("recibir_proceso_de_cpu", "post", "inicio")
           /\ Suma("s_proceso_ejecutando") /\ ListasIguales /\ RestoIgual
BY AvisarCuenta DEF RecibirLiberarCpu, Hilos, Semaforos

\* A step of the short-term scheduler that touches none of what the threads it
\* shares the lists with count.
Ajena ==
    /\ \A l \in Listas \ {"ready_l"} : Largo(l)' = Largo(l)
    /\ \A x \in Semaforos \ {"s_cpu", "s_proceso_ejecutando"} :
          Valor(x)' = Valor(x)
    /\ Iniciados' = Iniciados /\ AnunciosIguales

\* Such a step of agregar_a_ready keeps the shared accounts.
LEMMA CuentasAgregarAjena ==
    ASSUME CuentasKernel, Ajena, NEW d, NEW e,
           Pasa("agregar_a_ready", d, e) \/ NadiePasa,
           d \notin {"susp_readyM_l", "unblock_l", "newM_l"},
           e \notin {"susp_readyM_l", "unblock_l", "newM_l"}
    PROVE  CuentasKernel'
<1> USE DEF Ajena, CuentasKernel, TokensNew, TokensReady, TokensIo,
        TokensSusp, TokensFinalizado, BalanceGrado, Listas, Semaforos, Hilos,
        AnunciosIguales
<1>1. /\ \A g \in Hilos \ {"agregar_a_ready"} : \A E : En(g, E)' = En(g, E)
      /\ \A E \in {{"susp_readyM_l", "unblock_l", "newM_l"}, {"unblock_l"},
                   {"newM_l"}} :
            En("agregar_a_ready", E)' = En("agregar_a_ready", E)
  BY DEF Pasa, NadiePasa
<1> QED BY ONLY CuentasKernel, Ajena, <1>1

\* Such a step of enviar_a_ejecutar, or of the CPU, keeps the shared accounts.
LEMMA CuentasEnviarAjena ==
    ASSUME CuentasKernel, Ajena, NEW d, NEW e,
           Pasa("enviar_a_ejecutar", d, e) \/ NadiePasa
    PROVE  CuentasKernel'
<1> USE DEF Ajena, CuentasKernel, TokensNew, TokensReady, TokensIo,
        TokensSusp, TokensFinalizado, BalanceGrado, Listas, Semaforos, Hilos,
        AnunciosIguales
<1>1. \A g \in Hilos \ {"enviar_a_ejecutar"} : \A E : En(g, E)' = En(g, E)
  BY DEF Pasa, NadiePasa
<1> QED BY ONLY CuentasKernel, Ajena, <1>1

\* Such a step of recibir_proceso_de_cpu keeps the shared accounts.
LEMMA CuentasRecibirAjena ==
    ASSUME CuentasKernel, Ajena, NEW d, NEW e,
           Pasa("recibir_proceso_de_cpu", d, e),
           d \notin {"post_finalizado", "post_io_pendiente"},
           e \notin {"post_finalizado", "post_io_pendiente"}
    PROVE  CuentasKernel'
<1> USE DEF Ajena, CuentasKernel, TokensNew, TokensReady, TokensIo,
        TokensSusp, TokensFinalizado, BalanceGrado, Listas, Semaforos, Hilos,
        AnunciosIguales
<1>1. /\ \A g \in Hilos \ {"recibir_proceso_de_cpu"} :
            \A E : En(g, E)' = En(g, E)
      /\ \A E \in {{"post_finalizado"}, {"post_io_pendiente"}} :
            En("recibir_proceso_de_cpu", E)' = En("recibir_proceso_de_cpu", E)
  BY DEF Pasa
<1> QED BY ONLY CuentasKernel, Ajena, <1>1

\* What the short-term scheduler counts of its own does not change.
PropioIgual ==
    /\ Largo("ready_l")' = Largo("ready_l") /\ Valor("s_cpu")' = Valor("s_cpu")
    /\ Valor("s_proceso_ejecutando")' = Valor("s_proceso_ejecutando")
    /\ SocketIgual

\* How agregar_a_ready chooses a PCB keeps the accounts: a list it goes past is
\* empty, and stays so for the PCB it was woken for (fifo.c:52-71).
LEMMA CuentasAgregarComun ==
    ASSUME TipoKernel, CuentasKernel,
           \/ AgregarEsperar
           \/ AgregarElegir("susp_readyM_l", "unblock_l")
           \/ AgregarElegir("unblock_l", "newM_l")
           \/ AgregarElegirNew
    PROVE  /\ CuentasKernel' /\ PropioIgual
           /\ \E d, e \in {"inicio", "susp_readyM_l", "unblock_l", "newM_l",
                           "ready_l"} : Pasa("agregar_a_ready", d, e)
<1>1. Naturales /\ TipoKernel
  BY NaturalesTipo
<1>2. AgregarEsperar =>
        /\ Pasa("agregar_a_ready", "inicio", "susp_readyM_l")
        /\ Resta("s_proceso_ready") /\ ListasIguales /\ RestoIgual
  BY AgregarEsperarCuenta
<1>3. AgregarElegir("susp_readyM_l", "unblock_l") =>
        /\ Elige("susp_readyM_l") \/ Descarta("susp_readyM_l", "unblock_l")
        /\ SemaforosIguales /\ RestoIgual
  BY ElegirCuenta DEF Listas
<1>4. AgregarElegir("unblock_l", "newM_l") =>
        /\ Elige("unblock_l") \/ Descarta("unblock_l", "newM_l")
        /\ SemaforosIguales /\ RestoIgual
  BY ElegirCuenta DEF Listas
<1>5. AgregarElegirNew => Elige("newM_l") /\ SemaforosIguales /\ RestoIgual
  BY ElegirNewCuenta DEF Elige
<1> USE DEF CuentasKernel, TokensNew, TokensReady, TokensIo, TokensSusp,
        TokensFinalizado, BalanceGrado, Naturales, Listas, Semaforos, Hilos,
        Pasa, Resta, SemaforosIguales, Decrece, ListasIguales, AnunciosIguales,
        RestoIgual, Elige, Descarta
<1>6. CASE AgregarEsperar
  <2>1. CuentasKernel'
    BY ONLY CuentasKernel, <1>1, <1>2, <1>6
  <2> QED BY ONLY <1>2, <1>6, <2>1 DEF PropioIgual
<1>7. ASSUME NEW l \in {"susp_readyM_l", "unblock_l", "newM_l"}, Elige(l),
             SemaforosIguales, RestoIgual
      PROVE  CuentasKernel'
  <2>1. TokensReady'
    <3>1. CASE l = "susp_readyM_l"
      BY ONLY TokensReady, <1>1, <1>7, <3>1
    <3>2. CASE l = "unblock_l"
      BY ONLY TokensReady, <1>1, <1>7, <3>2
    <3>3. CASE l = "newM_l"
      BY ONLY TokensReady, <1>1, <1>7, <3>3
    <3> QED BY ONLY <1>7, <3>1, <3>2, <3>3
  <2>2. TokensNew' /\ TokensIo'
    BY ONLY TokensNew, TokensIo, <1>1, <1>7
  <2>3. TokensSusp' /\ TokensFinalizado' /\ BalanceGrado'
    BY ONLY TokensSusp, TokensFinalizado, BalanceGrado, <1>1, <1>7
  <2> QED BY ONLY <2>1, <2>2, <2>3 DEF CuentasKernel
<1>8. ASSUME NEW l \in {"susp_readyM_l", "unblock_l", "newM_l"}, Elige(l),
             SemaforosIguales, RestoIgual
      PROVE  PropioIgual /\ Pasa("agregar_a_ready", l, "ready_l")
  BY ONLY <1>8 DEF PropioIgual
<1>9. CASE AgregarElegir("susp_readyM_l", "unblock_l")
  <2>1. CASE Elige("susp_readyM_l")
    BY ONLY <1>3, <1>7, <1>8, <1>9, <2>1
  <2>2. CASE Descarta("susp_readyM_l", "unblock_l")
    <3>1. CuentasKernel'
      BY ONLY CuentasKernel, <1>1, <1>3, <1>9, <2>2
    <3> QED BY ONLY <1>3, <1>9, <2>2, <3>1 DEF PropioIgual
  <2> QED BY ONLY <1>3, <1>9, <2>1, <2>2
<1>10. CASE AgregarElegir("unblock_l", "newM_l")
  <2>1. CASE Elige("unblock_l")
    BY ONLY <1>4, <1>7, <1>8, <1>10, <2>1
  <2>2. CASE Descarta("unblock_l", "newM_l")
    <3>1. CuentasKernel'
      BY ONLY CuentasKernel, <1>1, <1>4, <1>10, <2>2
    <3> QED BY ONLY <1>4, <1>10, <2>2, <3>1 DEF PropioIgual
  <2> QED BY ONLY <1>4, <1>10, <2>1, <2>2
<1>11. CASE AgregarElegirNew
  BY ONLY <1>5, <1>7, <1>8, <1>11
<1> QED BY <1>6, <1>9, <1>10, <1>11

\* How recibir_proceso_de_cpu delivers a PCB and announces it, even if its
\* list_add is lost, keeps the accounts (fifo.c:307-326).
LEMMA CuentasRecibirComun ==
    ASSUME TipoKernel, CuentasKernel, UNCHANGED varsSocket,
           NEW e \in {"post", "if_interrupcion"},
           \/ RecibirFinalizado
           \/ RecibirBloqueado
           \/ Avisar("recibir_proceso_de_cpu", "post_finalizado",
                     "s_proceso_finalizado", e)
           \/ Avisar("recibir_proceso_de_cpu", "post_io_pendiente",
                     "s_io_pendiente", e)
    PROVE  /\ CuentasKernel' /\ PropioIgual
           /\ \E d, f \in {"finalizado_l", "post_finalizado", "block_l",
                           "post_io_pendiente", "post", "if_interrupcion"} :
                 Pasa("recibir_proceso_de_cpu", d, f)
<1>1. Naturales /\ TipoKernel
  BY NaturalesTipo
<1>2. RecibirFinalizado =>
        /\ Pasa("recibir_proceso_de_cpu", "finalizado_l", "post_finalizado")
        /\ Crece("finalizado_l") /\ SemaforosIguales /\ RestoIgual
  BY RecibirFinalizadoCuenta
<1>3. RecibirBloqueado =>
        /\ Pasa("recibir_proceso_de_cpu", "block_l", "post_io_pendiente")
        /\ Crece("block_l") \/ ListasIguales
        /\ SemaforosIguales /\ RestoIgual
  BY RecibirBloqueadoCuenta
<1>4. ASSUME Avisar("recibir_proceso_de_cpu", "post_finalizado",
                    "s_proceso_finalizado", e)
      PROVE  /\ Pasa("recibir_proceso_de_cpu", "post_finalizado", e)
             /\ Suma("s_proceso_finalizado") /\ ListasIguales /\ RestoIgual
  BY <1>4, AvisarCuenta DEF Hilos, Semaforos
<1>5. ASSUME Avisar("recibir_proceso_de_cpu", "post_io_pendiente",
                    "s_io_pendiente", e)
      PROVE  /\ Pasa("recibir_proceso_de_cpu", "post_io_pendiente", e)
             /\ Suma("s_io_pendiente") /\ ListasIguales /\ RestoIgual
  BY <1>5, AvisarCuenta DEF Hilos, Semaforos
<1> USE DEF CuentasKernel, TokensNew, TokensReady, TokensIo, TokensSusp,
        TokensFinalizado, BalanceGrado, Naturales, Listas, Semaforos, Hilos,
        Pasa, Suma, SemaforosIguales, Crece, ListasIguales, AnunciosIguales,
        RestoIgual
<1>6. CASE RecibirFinalizado
  <2>1. CuentasKernel'
    BY ONLY CuentasKernel, <1>1, <1>2, <1>6
  <2> QED BY ONLY <1>2, <1>6, <2>1 DEF PropioIgual
<1>7. CASE RecibirBloqueado
  <2>1. CASE Crece("block_l")
    BY ONLY CuentasKernel, <1>1, <1>3, <1>7, <2>1 DEF PropioIgual
  <2>2. CASE ListasIguales
    BY ONLY CuentasKernel, <1>1, <1>3, <1>7, <2>2 DEF PropioIgual
  <2> QED BY ONLY <1>3, <1>7, <2>1, <2>2
<1>8. CASE Avisar("recibir_proceso_de_cpu", "post_finalizado",
                  "s_proceso_finalizado", e)
  <2>1. CuentasKernel'
    BY ONLY CuentasKernel, e \in {"post", "if_interrupcion"}, <1>1, <1>4, <1>8
  <2> QED BY ONLY e \in {"post", "if_interrupcion"}, <1>4, <1>8, <2>1
    DEF PropioIgual
<1>9. CASE Avisar("recibir_proceso_de_cpu", "post_io_pendiente",
                  "s_io_pendiente", e)
  <2>1. CuentasKernel'
    BY ONLY CuentasKernel, e \in {"post", "if_interrupcion"}, <1>1, <1>5, <1>9
  <2> QED BY ONLY e \in {"post", "if_interrupcion"}, <1>5, <1>9, <2>1
    DEF PropioIgual
<1> QED BY <1>6, <1>7, <1>8, <1>9

-----------------------------------------------------------------------------
(* Types.                                                                   *)

\* A console thread keeps the types.
LEMMA TipoGestionarComunicacion ==
    ASSUME TipoKernel, NEW p \in Proceso, GestionarComunicacion(p),
           UNCHANGED varsSocket
    PROVE  TipoKernel'
<1> USE DEF varsIo, varsMemoria
<1>1. /\ UNCHANGED <<pc, pcb, varsIo, varsMemoria, caida>>
      /\ TipoHilos /\ TipoIo /\ TipoMemoria /\ TipoCpu
  BY DEF TipoKernel, GestionarComunicacion, AceptarConsola, AgregarANew,
     RegistrarComunicacion, AvisarNew, AvisarConsola
<1>2. TipoHilos' /\ TipoIo' /\ TipoMemoria' /\ TipoCpu'
  BY <1>1, TipoIgual
<1>3. sem' \in [Semaforos -> Nat]
  <2>1. \/ Post("s_proceso_new") \/ UNCHANGED sem
    BY DEF GestionarComunicacion, AceptarConsola, AgregarANew,
       RegistrarComunicacion, AvisarNew, AvisarConsola
  <2> QED BY <2>1, SemTipo DEF Semaforos
<1>4. TipoListas'
  <2>1. CASE AgregarANew(p)
    <3>1. [pid |-> p, pc |-> 0] \in Cabe("new_l")
      BY ProgramaAssumption DEF PCB, PCBViva, Cabe
    <3> QED BY <2>1, <3>1, TipoAgregar DEF TipoKernel, AgregarANew, Listas
  <2>2. CASE UNCHANGED lista
    BY <2>2, TipoIgual DEF TipoKernel
  <2> QED BY <2>1, <2>2 DEF GestionarComunicacion, AceptarConsola,
        RegistrarComunicacion, AvisarNew, AvisarConsola
<1>5. TipoPlp'
  <2> DEFINE C == [pid : Proceso]
             c == [pid |-> p]
  <2>1. comunicaciones_l \in Seq(C) /\ c \in C
    BY DEF TipoKernel, TipoPlp
  <2>2. comunicaciones_l' \in {Append(comunicaciones_l, c), comunicaciones_l}
    BY DEF GestionarComunicacion, AceptarConsola, AgregarANew,
       RegistrarComunicacion, AvisarNew, AvisarConsola, Agregados
  <2> HIDE DEF C, c
  <2>3. comunicaciones_l' \in Seq(C)
    BY ONLY <2>1, <2>2, AppendProperties
  <2>4. consola' \in [Proceso -> {"sin_conectar", "conectada", "en_new",
                                  "registrada", "en_espera", "finalizada"}]
    BY DEF TipoKernel, TipoPlp, GestionarComunicacion, AceptarConsola,
       AgregarANew, RegistrarComunicacion, AvisarNew, AvisarConsola
  <2>5. s' \in [Proceso -> Nat]
    <3>1. s' = s \/ (s[p] > 0 /\ s' = [s EXCEPT ![p] = s[p] - 1])
      BY DEF GestionarComunicacion, AceptarConsola, AgregarANew,
         RegistrarComunicacion, AvisarNew, AvisarConsola
    <3>2. s \in [Proceso -> Nat] /\ p \in Proceso /\ s[p] \in Nat
      BY DEF TipoKernel, TipoPlp
    <3>3. s[p] > 0 => s[p] - 1 \in Nat
      BY ONLY <3>2
    <3> QED BY ONLY <3>1, <3>2, <3>3
  <2> QED BY ONLY <2>3, <2>4, <2>5 DEF TipoPlp, C
<1> QED BY <1>1, <1>2, <1>3, <1>4, <1>5 DEF TipoKernel

\* pasar_a_ready keeps the types.
LEMMA TipoPasarAReady ==
    ASSUME TipoKernel, CuentasKernel, PasarAReady, UNCHANGED varsSocket
    PROVE  TipoKernel'
<1> USE EtapasDe, CargaDe DEF Hilos, Listas, Semaforos
<1>1. CASE PasarEsperar
  BY ONLY TipoKernel, UNCHANGED varsSocket, <1>1, TipoEsperar,
     EtapasDe, CargaDe
  DEF PasarEsperar, Hilos, Semaforos
<1>2. CASE PasarInicializar
  <2> USE <1>2 DEF PasarInicializar
  <2>1. Cabe("new_l") \subseteq Lleva("pasar_a_ready", "newM_l")
    BY DEF Cabe, Lleva
  <2>2. TipoListas' /\ TipoHilos' /\ Head(lista["new_l"]).pid \in Proceso
    BY <2>1, NuncaVacia, TipoTomar
  <2>3. TipoMemoria'
    BY <2>2, AppendProperties DEF TipoKernel, TipoMemoria
  <2> QED BY ONLY TipoKernel, UNCHANGED varsSocket, <1>2, <2>2, <2>3, TipoIgual,
        SemTipo
    DEF PasarInicializar, TipoKernel, Semaforos
<1>3. CASE PasarEntregar
  <2>1. pcb["pasar_a_ready"] \in Cabe("newM_l")
    BY <1>3, PcbDeHilo DEF PasarEntregar, Entregar, Cabe
  <2> QED BY ONLY TipoKernel, UNCHANGED varsSocket, <1>3, <2>1, TipoEntregar,
        EtapasDe, CargaDe
    DEF PasarEntregar, Hilos, Listas
<1>4. CASE PasarAvisar
  BY ONLY TipoKernel, UNCHANGED varsSocket, <1>4, TipoAvisar,
     EtapasDe, CargaDe
  DEF PasarAvisar, Hilos, Semaforos
<1> QED BY <1>1, <1>2, <1>3, <1>4 DEF PasarAReady

\* finalizar_procesos keeps the types.
LEMMA TipoFinalizarProcesos ==
    ASSUME TipoKernel, CuentasKernel, BusquedaVigente, FinalizarProcesos,
           UNCHANGED varsSocket
    PROVE  TipoKernel'
<1> USE EtapasDe, CargaDe DEF Hilos, Listas, Semaforos
<1>1. CASE FinalizarEnMemoria
  <2> USE <1>1 DEF FinalizarEnMemoria
  <2>1. Cabe("finalizado_l") \subseteq Lleva("finalizar_procesos", "buscar")
    BY DEF Cabe, Lleva
  <2>2. Largo("finalizado_l") > 0
    BY NuncaVacia DEF Wait
  <2>3. /\ TipoListas' /\ TipoHilos'
        /\ Head(lista["finalizado_l"]).pid \in Proceso
    BY <2>1, <2>2, TipoTomar
  <2>4. TipoMemoria'
    BY <2>3 DEF TipoKernel, TipoMemoria
  <2> QED BY ONLY TipoKernel, UNCHANGED varsSocket, <1>1, <2>3, <2>4, TipoIgual,
        SemTipo
    DEF FinalizarEnMemoria, TipoKernel, Semaforos
<1>2. CASE BuscarComunicacion
  <2> USE <1>2 DEF BuscarComunicacion
  <2>1. TipoHilos'
    <3>1. CASE Ir("finalizar_procesos", "quitar")
      BY <3>1, TipoSeguir DEF TipoKernel, Lleva
    <3>2. CASE UNCHANGED pc
      BY ONLY TipoKernel, <1>2, <3>2, TipoIgual DEF TipoKernel,
         BuscarComunicacion
    <3> QED BY <3>1, <3>2
  <2>2. caida' \in {"no", "sin_comunicacion", "block_l_vacia", "ready_l_corta"}
    BY ONLY TipoKernel, <1>2 DEF TipoKernel, BuscarComunicacion
  <2> QED BY ONLY TipoKernel, UNCHANGED varsSocket, <1>2, <2>1, <2>2, TipoIgual,
        SemTipo
    DEF BuscarComunicacion, TipoKernel, Semaforos
<1>3. CASE QuitarComunicacion
  <2> USE <1>3 DEF QuitarComunicacion
  <2>1. TipoHilos'
    BY TipoSeguir DEF TipoKernel, Lleva
  <2>2. TipoPlp'
    BY RemoverTipo DEF BusquedaVigente, TipoKernel, TipoPlp
  <2> QED BY ONLY TipoKernel, UNCHANGED varsSocket, <1>3, <2>1, <2>2, TipoIgual,
        SemTipo
    DEF QuitarComunicacion, TipoKernel, Semaforos
<1>4. CASE DespertarComunicacion
  <2> USE <1>4 DEF DespertarComunicacion, Dejar
  <2>1. TipoHilos'
    BY TipoSoltar DEF TipoKernel
  <2>2. /\ pcb["finalizar_procesos"] \in Cabe("exit_l")
        /\ pcb["finalizar_procesos"].pid \in Proceso
    BY PcbDeHilo DEF Cabe
  <2>3. TipoListas'
    BY <2>2, TipoAgregar DEF TipoKernel
  <2>4. TipoPlp'
    <3> DEFINE p == pcb["finalizar_procesos"].pid
    <3>1. s \in [Proceso -> Nat] /\ p \in Proceso
      BY <2>2 DEF TipoKernel, TipoPlp
    <3>2. s' = [s EXCEPT ![p] = @ + 1]
      OBVIOUS
    <3> HIDE DEF p
    <3>3. s' \in [Proceso -> Nat]
      BY ONLY <3>1, <3>2
    <3> QED BY <3>3 DEF TipoKernel, TipoPlp
  <2>5. TipoIo' /\ TipoMemoria' /\ TipoCpu'
    BY ONLY TipoKernel, UNCHANGED varsSocket, <1>4, TipoIgual
    DEF DespertarComunicacion, TipoKernel
  <2>6. sem' \in [Semaforos -> Nat]
    BY ONLY TipoKernel, <1>4, SemTipo DEF DespertarComunicacion, Semaforos
  <2>7. caida' \in {"no", "sin_comunicacion", "block_l_vacia", "ready_l_corta"}
    BY ONLY TipoKernel, <1>4 DEF TipoKernel, DespertarComunicacion
  <2> QED BY ONLY <2>1, <2>3, <2>4, <2>5, <2>6, <2>7 DEF TipoKernel
<1>5. CASE LiberarGrado
  BY ONLY TipoKernel, UNCHANGED varsSocket, <1>5, TipoAvisar,
     EtapasDe, CargaDe
  DEF LiberarGrado, Hilos, Semaforos
<1> QED BY <1>1, <1>2, <1>3, <1>4, <1>5 DEF FinalizarProcesos

\* suspender_proceso keeps the types.
LEMMA TipoSuspenderProceso ==
    ASSUME TipoKernel, CuentasKernel, SuspenderProceso, UNCHANGED varsSocket
    PROVE  TipoKernel'
<1> USE EtapasDe, CargaDe DEF Hilos, Listas, Semaforos
<1>1. CASE SuspenderTomar
  <2> USE <1>1 DEF SuspenderTomar
  <2>1. Cabe("susp_block_buffer_l") \subseteq
           Lleva("suspender_proceso", "susp_block_l")
    BY DEF Cabe, Lleva
  <2>2. Largo("susp_block_buffer_l") > 0
    BY NuncaVacia DEF Wait
  <2>3. TipoListas' /\ TipoHilos'
    BY <2>1, <2>2, TipoTomar
  <2> QED BY ONLY TipoKernel, UNCHANGED varsSocket, <1>1, <2>3, TipoIgual,
        SemTipo
    DEF SuspenderTomar, TipoKernel, Semaforos
<1>2. CASE SuspenderMarcar
  <2> USE <1>2 DEF SuspenderMarcar
  <2>1. TipoHilos'
    BY TipoSeguir DEF TipoKernel, Lleva
  <2>2. pcb["suspender_proceso"] \in Cabe("susp_block_l")
    BY PcbDeHilo DEF Cabe
  <2>3. TipoListas'
    BY <2>2, TipoAgregar DEF TipoKernel
  <2> QED BY ONLY TipoKernel, UNCHANGED varsSocket, <1>2, <2>1, <2>3, TipoIgual,
        SemTipo
    DEF SuspenderMarcar, TipoKernel, Semaforos
<1>3. CASE SuspenderEstado
  <2> USE <1>3 DEF SuspenderEstado
  <2>1. TipoHilos'
    BY TipoSeguir DEF TipoKernel, Lleva
  <2>2. TipoIo'
    BY TiposConstantes DEF TipoKernel, TipoIo, Estado
  <2> QED BY ONLY TipoKernel, UNCHANGED varsSocket, <1>3, <2>1, <2>2, TipoIgual,
        SemTipo
    DEF SuspenderEstado, TipoKernel, Semaforos
<1>4. CASE SuspenderEnviar
  <2> USE <1>4 DEF SuspenderEnviar
  <2>1. TipoHilos'
    BY TipoSoltar DEF TipoKernel
  <2>2. pcb["suspender_proceso"].pid \in Proceso
    BY PcbDeHilo
  <2>3. TipoMemoria'
    BY <2>2 DEF TipoKernel, TipoMemoria
  <2> QED BY ONLY TipoKernel, UNCHANGED varsSocket, <1>4, <2>1, <2>3, TipoIgual,
        SemTipo
    DEF SuspenderEnviar, TipoKernel, Semaforos
<1>5. CASE SuspenderLiberar
  BY ONLY TipoKernel, UNCHANGED varsSocket, <1>5, TipoAvisar,
     EtapasDe, CargaDe
  DEF SuspenderLiberar, Hilos, Semaforos
<1> QED BY <1>1, <1>2, <1>3, <1>4, <1>5 DEF SuspenderProceso

\* avisar_proceso_susp_ready keeps the types.
LEMMA TipoAvisarProcesoSuspReady ==
    ASSUME TipoKernel, CuentasKernel, AvisarProcesoSuspReady,
           UNCHANGED varsSocket
    PROVE  TipoKernel'
<1> USE EtapasDe, CargaDe DEF Hilos, Listas, Semaforos
<1>1. CASE ReanudarEsperar
  BY ONLY TipoKernel, UNCHANGED varsSocket, <1>1, TipoEsperar,
     EtapasDe, CargaDe
  DEF ReanudarEsperar, Hilos, Semaforos
<1>2. CASE ReanudarTomar
  <2> USE <1>2 DEF ReanudarTomar
  <2>1. Cabe("susp_ready_l") \subseteq
           Lleva("avisar_proceso_susp_ready", "susp_readyM_l")
    BY DEF Cabe, Lleva
  <2>2. TipoListas' /\ TipoHilos'
    BY <2>1, NuncaVacia, TipoTomar
  <2> QED BY ONLY TipoKernel, UNCHANGED varsSocket, <1>2, <2>2, TipoIgual,
        SemTipo
    DEF ReanudarTomar, TipoKernel, Semaforos
<1>3. CASE ReanudarEntregar
  <2>1. pcb["avisar_proceso_susp_ready"] \in Cabe("susp_readyM_l")
    BY <1>3, PcbDeHilo DEF ReanudarEntregar, Entregar, Cabe
  <2> QED BY ONLY TipoKernel, UNCHANGED varsSocket, <1>3, <2>1, TipoEntregar,
        EtapasDe, CargaDe
    DEF ReanudarEntregar, Hilos, Listas
<1>4. CASE ReanudarAvisar
  BY ONLY TipoKernel, UNCHANGED varsSocket, <1>4, TipoAvisar, EtapasDe, CargaDe
  DEF ReanudarAvisar, Hilos, Semaforos
<1> QED BY <1>1, <1>2, <1>3, <1>4 DEF AvisarProcesoSuspReady

\* planificador_io keeps the types.
LEMMA TipoPlanificadorIo ==
    ASSUME TipoKernel, CuentasKernel, PlanificadorIo, UNCHANGED varsSocket
    PROVE  TipoKernel'
<1> USE EtapasDe, CargaDe DEF Hilos, Listas, Semaforos
<1>1. CASE PlanificadorIoTomar
  <2> USE <1>1 DEF PlanificadorIoTomar
  <2>1. TipoHilos'
    <3>1. CASE lista["block_l"] # <<>>
      <4>1. Head(lista["block_l"]) \in Lleva("planificador_io", "quitar")
        BY <3>1, NoVaciaLista, CabezaLista DEF Cabe, Lleva
      <4> QED BY ONLY TipoKernel, <1>1, <3>1, <4>1, TipoMover, EtapasDe
        DEF PlanificadorIoTomar, TipoKernel, Hilos, Ir
    <3>2. CASE lista["block_l"] = <<>>
      BY ONLY TipoKernel, <1>1, <3>2, TipoIgual
      DEF TipoKernel, PlanificadorIoTomar
    <3> QED BY <3>1, <3>2
  <2>2. caida' \in {"no", "sin_comunicacion", "block_l_vacia", "ready_l_corta"}
    BY DEF TipoKernel
  <2> QED BY ONLY TipoKernel, UNCHANGED varsSocket, <1>1, <2>1, <2>2, TipoIgual,
        SemTipo
    DEF PlanificadorIoTomar, TipoKernel, Semaforos
<1>2. CASE PlanificadorIoDisparar
  <2> USE <1>2 DEF PlanificadorIoDisparar
  <2>1. TipoHilos'
    BY TipoSeguir DEF TipoKernel, Lleva
  <2>2. TipoListas'
    <3>1. Tail(lista["block_l"]) \in Seq(Cabe("block_l"))
      BY NuncaVacia, CabezaLista
    <3> QED BY ONLY TipoKernel, <1>2, <3>1, TipoCambiar
      DEF TipoKernel, PlanificadorIoDisparar, Listas
  <2>3. TipoIo'
    <3>1. pcb["planificador_io"] \in PCBViva
      BY PcbDeHilo
    <3> QED BY <3>1, TiposConstantes DEF TipoKernel, TipoIo
  <2> QED BY ONLY TipoKernel, UNCHANGED varsSocket, <1>2, <2>1, <2>2, <2>3,
        TipoIgual, SemTipo
    DEF PlanificadorIoDisparar, TipoKernel, Semaforos
<1>3. CASE PlanificadorIoEntregar
  <2>1. pcb["planificador_io"] \in Cabe("block_pend_l")
    BY <1>3, PcbDeHilo DEF PlanificadorIoEntregar, Entregar, Cabe
  <2> QED BY ONLY TipoKernel, UNCHANGED varsSocket, <1>3, <2>1, TipoEntregar,
        EtapasDe, CargaDe
    DEF PlanificadorIoEntregar, Hilos, Listas
<1>4. CASE PlanificadorIoAvisar
  BY ONLY TipoKernel, UNCHANGED varsSocket, <1>4, TipoAvisar,
     EtapasDe, CargaDe
  DEF PlanificadorIoAvisar, Hilos, Semaforos
<1> QED BY <1>1, <1>2, <1>3, <1>4 DEF PlanificadorIo

\* A timer keeps the types.
LEMMA TipoSuspencion ==
    ASSUME TipoKernel, NEW x \in PCB, Suspencion(x), UNCHANGED varsSocket
    PROVE  TipoKernel'
<1> USE DEF Suspencion, ContadorDespertar, ContadorAgregar, ContadorAvisar
<1>1. x \in PCBViva
  BY DEF TipoKernel, TipoIo
<1>2. UNCHANGED <<pc, pcb, varsPlp, varsMemoria, caida, estado>>
  OBVIOUS
<1>3. TipoIo'
  <2>1. \E e \in {"despierto", "agregado", "fin"} :
           contador' = [contador EXCEPT ![x] = e]
    OBVIOUS
  <2> QED BY ONLY TipoKernel, <1>1, <1>2, <2>1, TiposConstantes
    DEF TipoKernel, TipoIo
<1>4. sem' \in [Semaforos -> Nat]
  BY SemTipo DEF Semaforos
<1>5. TipoListas'
  <2>1. CASE ContadorAgregar(x)
    BY ONLY TipoKernel, <1>1, <2>1, TipoAgregar
    DEF TipoKernel, ContadorAgregar, Cabe, Listas
  <2>2. CASE UNCHANGED lista
    BY ONLY TipoKernel, <2>2, TipoIgual DEF TipoKernel
  <2> QED BY <2>1, <2>2
<1> QED BY ONLY TipoKernel, UNCHANGED varsSocket, <1>2, <1>3, <1>4, <1>5,
      TipoIgual
  DEF TipoKernel

\* io keeps the types.
LEMMA TipoDeIo ==
    ASSUME TipoKernel, CuentasKernel, BusquedaVigente, Io,
           UNCHANGED varsSocket
    PROVE  TipoKernel'
<1> USE EtapasDe, CargaDe DEF Hilos, Listas, Semaforos
<1>1. CASE IoTomar
  <2> USE <1>1 DEF IoTomar
  <2>1. Cabe("block_pend_l") \subseteq Lleva("io", "durmiendo")
    BY DEF Cabe, Lleva
  <2>2. Largo("block_pend_l") > 0
    BY NuncaVacia DEF Wait
  <2>3. TipoListas' /\ TipoHilos'
    BY <2>1, <2>2, TipoTomar
  <2> QED BY ONLY TipoKernel, UNCHANGED varsSocket, <1>1, <2>3, TipoIgual,
        SemTipo
    DEF IoTomar, TipoKernel, Semaforos
<1>2. CASE IoDespertar
  <2> USE <1>2 DEF IoDespertar
  <2>1. TipoHilos'
    BY TipoSeguir DEF TipoKernel, Lleva
  <2> QED BY ONLY TipoKernel, UNCHANGED varsSocket, <1>2, <2>1, TipoIgual,
        SemTipo
    DEF IoDespertar, TipoKernel, Semaforos
<1>3. CASE IoCancelar
  <2> USE <1>3 DEF IoCancelar
  <2>1. TipoHilos'
    BY TipoSeguir DEF TipoKernel, Lleva
  <2>2. \/ contador' = contador
        \/ \E y \in PCB : /\ contador[y] # "no"
                          /\ contador' = [contador EXCEPT ![y] = "cancelado"]
    <3>1. pcb["io"] \in PCB
      BY PcbDeHilo
    <3> QED BY <3>1 DEF Cancelados
  <2>3. TipoIo'
    BY ONLY TipoKernel, <1>3, <2>2, TiposConstantes
    DEF IoCancelar, TipoKernel, TipoIo
  <2> QED BY ONLY TipoKernel, UNCHANGED varsSocket, <1>3, <2>1, <2>3, TipoIgual,
        SemTipo
    DEF IoCancelar, TipoKernel, Semaforos
<1>4. CASE IoDesbloquear
  <2>1. pcb["io"] \in Cabe("unblock_l")
    BY <1>4, PcbDeHilo DEF IoDesbloquear, Entregar, Cabe
  <2> QED BY ONLY TipoKernel, UNCHANGED varsSocket, <1>4, <2>1, TipoEntregar,
        EtapasDe, CargaDe
    DEF IoDesbloquear, Hilos, Listas
<1>5. CASE IoAvisarReady
  <2>1. /\ "inicio" \in Etapas["io"] /\ "inicio" \notin Carga["io"]
        /\ "post_ready" \notin Carga["io"]
    OBVIOUS
  <2> QED BY ONLY TipoKernel, UNCHANGED varsSocket, <1>5, <2>1, TipoAvisar
    DEF IoAvisarReady, Hilos, Semaforos
<1>6. CASE IoDesmarcar
  <2> USE <1>6 DEF IoDesmarcar
  <2>1. TipoHilos'
    BY TipoSeguir DEF TipoKernel, Lleva
  <2>2. TipoListas'
    <3>1. RemoverDeLista(lista["susp_block_l"], pcb["io"]) \in
             Seq(Cabe("susp_block_l"))
      BY RemoverTipo DEF BusquedaVigente, TipoKernel, TipoListas
    <3> QED BY ONLY TipoKernel, <1>6, <3>1, TipoCambiar
      DEF TipoKernel, IoDesmarcar, Listas
  <2> QED BY ONLY TipoKernel, UNCHANGED varsSocket, <1>6, <2>1, <2>2, TipoIgual,
        SemTipo
    DEF IoDesmarcar, TipoKernel, Semaforos
<1>7. CASE IoSuspReady
  <2>1. pcb["io"] \in Cabe("susp_ready_l")
    BY <1>7, PcbDeHilo DEF IoSuspReady, Entregar, Cabe
  <2> QED BY ONLY TipoKernel, UNCHANGED varsSocket, <1>7, <2>1, TipoEntregar,
        EtapasDe, CargaDe
    DEF IoSuspReady, Hilos, Listas
<1>8. CASE IoAvisarSuspReady
  <2>1. /\ "inicio" \in Etapas["io"] /\ "inicio" \notin Carga["io"]
        /\ "post_susp_ready" \notin Carga["io"]
    OBVIOUS
  <2> QED BY ONLY TipoKernel, UNCHANGED varsSocket, <1>8, <2>1, TipoAvisar
    DEF IoAvisarSuspReady, Hilos, Semaforos
<1> QED BY <1>1, <1>2, <1>3, <1>4, <1>5, <1>6, <1>7, <1>8 DEF Io

\* The steps of agregar_a_ready that fifo.c and sjf.c share keep the types.
LEMMA TipoAgregarComun ==
    ASSUME TipoKernel, CuentasKernel,
           \/ AgregarEsperar
           \/ AgregarElegir("susp_readyM_l", "unblock_l")
           \/ AgregarElegir("unblock_l", "newM_l")
           \/ AgregarElegirNew
    PROVE  TipoKernel'
<1> USE EtapasDe, CargaDe DEF Hilos, Listas, Semaforos
<1>1. CASE AgregarEsperar
  BY ONLY TipoKernel, <1>1, TipoEsperar, EtapasDe, CargaDe
  DEF AgregarEsperar, Hilos, Semaforos
<1>2. ASSUME NEW l \in {"susp_readyM_l", "unblock_l"},
             NEW otra \in {"unblock_l", "newM_l"}, AgregarElegir(l, otra)
      PROVE  TipoKernel'
  <2> USE <1>2 DEF AgregarElegir
  <2>1. TipoListas' /\ TipoHilos'
    <3>1. CASE lista[l] # <<>> /\ Tomar("agregar_a_ready", l, "ready_l")
      <4>1. Largo(l) > 0 /\ Cabe(l) \subseteq Lleva("agregar_a_ready", "ready_l")
        BY <3>1, NoVaciaLista DEF Cabe, Lleva
      <4> QED BY <3>1, <4>1, TipoTomar
    <3>2. CASE Ir("agregar_a_ready", otra) /\ UNCHANGED <<lista, pcb>>
      <4>1. TipoHilos'
        BY <3>2, TipoSeguir DEF TipoKernel, Lleva
      <4> QED BY <3>2, <4>1, TipoIgual DEF TipoKernel
    <3> QED BY <3>1, <3>2
  <2> QED BY ONLY TipoKernel, <1>2, <2>1, TipoIgual, SemTipo
    DEF AgregarElegir, TipoKernel, Semaforos
<1>3. CASE AgregarElegirNew
  <2> USE <1>3 DEF AgregarElegirNew
  <2>1. Cabe("newM_l") \subseteq Lleva("agregar_a_ready", "ready_l")
    BY DEF Cabe, Lleva
  <2>2. TipoListas' /\ TipoHilos'
    BY <2>1, NuncaVacia, TipoTomar
  <2> QED BY ONLY TipoKernel, <1>3, <2>2, TipoIgual, SemTipo
    DEF AgregarElegirNew, TipoKernel, Semaforos
<1> QED BY <1>1, <1>2, <1>3

\* So do those of the receiver.
LEMMA TipoRecibirComun ==
    ASSUME TipoKernel,
           RecibirFinalizado \/ RecibirBloqueado \/ RecibirLiberarCpu
    PROVE  TipoKernel'
<1> USE EtapasDe, CargaDe DEF Hilos, Listas, Semaforos
<1>1. CASE RecibirFinalizado
  <2>1. pcb["recibir_proceso_de_cpu"] \in Cabe("finalizado_l")
    BY <1>1, PcbDeHilo DEF RecibirFinalizado, Entregar, Cabe
  <2> QED BY ONLY TipoKernel, <1>1, <2>1, TipoEntregar, EtapasDe, CargaDe
    DEF RecibirFinalizado, Hilos, Listas
<1>2. CASE RecibirBloqueado
  <2> USE <1>2 DEF RecibirBloqueado
  <2>1. TipoHilos'
    BY TipoSoltar DEF TipoKernel
  <2>2. pcb["recibir_proceso_de_cpu"] \in Cabe("block_l")
    BY PcbDeHilo DEF Cabe
  <2>3. \/ lista' = [lista EXCEPT !["block_l"] =
                         Append(@, pcb["recibir_proceso_de_cpu"])]
        \/ UNCHANGED lista
    <3>1. lista = [lista EXCEPT !["block_l"] = lista["block_l"]]
      BY DEF TipoKernel, TipoListas
    <3> QED BY <3>1 DEF Agregados
  <2>4. TipoListas'
    <3> DEFINE x == pcb["recibir_proceso_de_cpu"]
    <3>1. CASE lista' = [lista EXCEPT !["block_l"] = Append(@, x)]
      <4>1. x \in Cabe("block_l") /\ TipoListas /\ "block_l" \in Listas
        BY <2>2 DEF TipoKernel
      <4> HIDE DEF x
      <4> QED BY ONLY <3>1, <4>1, TipoAgregar
    <3>2. CASE UNCHANGED lista
      BY <3>2, TipoIgual DEF TipoKernel
    <3> QED BY <2>2, <2>3, <3>1, <3>2 DEF TipoKernel
  <2> QED BY ONLY TipoKernel, <1>2, <2>1, <2>4, TipoIgual, SemTipo
    DEF RecibirBloqueado, TipoKernel, Semaforos
<1>3. CASE RecibirLiberarCpu
  BY ONLY TipoKernel, <1>3, TipoAvisar, EtapasDe, CargaDe
  DEF RecibirLiberarCpu, Hilos, Semaforos
<1> QED BY <1>1, <1>2, <1>3

\* A PCB is received with the estado the CPU wrote (fifo.c:301-305).
LEMMA TipoRecibirPcb ==
    ASSUME TipoKernel, desdeCpu # <<>>,
           NEW e \in Etapas["recibir_proceso_de_cpu"],
           Head(desdeCpu).pcb \in Lleva("recibir_proceso_de_cpu", e),
           Ir("recibir_proceso_de_cpu", e),
           pcb' = [pcb EXCEPT !["recibir_proceso_de_cpu"] = Head(desdeCpu).pcb],
           estado' = [estado EXCEPT ![Head(desdeCpu).pcb] =
                                                  Head(desdeCpu).estado],
           desdeCpu' = Tail(desdeCpu),
           UNCHANGED <<lista, sem, varsPlp, contador, varsMemoria, caida,
                       haciaCpu>>
    PROVE  TipoKernel'
<1> DEFINE m == Head(desdeCpu)
<1>1. /\ m.pcb \in PCB /\ m.estado \in Estado
      /\ m.estado = "FINALIZADO" <=> m.pcb \in PCBFin
  BY RecibirTipo DEF TipoKernel
<1>2. TipoHilos'
  <2>1. TipoHilos /\ m.pcb \in Lleva("recibir_proceso_de_cpu", e)
    BY DEF TipoKernel
  <2> HIDE DEF m
  <2> QED BY <2>1, TipoMover DEF Ir, m, Hilos
<1>3. TipoIo'
  <2>1. TipoIo /\ estado' = [estado EXCEPT ![m.pcb] = m.estado]
    BY DEF TipoKernel
  <2> HIDE DEF m
  <2> QED BY ONLY <1>1, <2>1, UNCHANGED contador, TiposConstantes DEF TipoIo
<1>4. TipoCpu'
  <2>1. TipoCpu /\ haciaCpu' \in Seq(Enviado)
    BY DEF TipoKernel, TipoCpu, Enviado
  <2> QED BY <2>1, RecibirTipo, TipoCpuPaso
<1> QED BY <1>2, <1>3, <1>4, TipoIgual DEF TipoKernel, Semaforos

-----------------------------------------------------------------------------
(* What was looked up is still there.                                       *)

\* Only io, suspender_proceso, finalizar_procesos and the console threads
\* touch what BusquedaVigente speaks of.
LEMMA BusquedaIgual ==
    ASSUME BusquedaVigente, UNCHANGED comunicaciones_l,
           lista'["susp_block_l"] = lista["susp_block_l"],
           pc'["io"] = pc["io"], pcb'["io"] = pcb["io"],
           pc'["finalizar_procesos"] = pc["finalizar_procesos"],
           pcb'["finalizar_procesos"] = pcb["finalizar_procesos"]
    PROVE  BusquedaVigente'
BY DEF BusquedaVigente, EstaPcb

\* Appending does not take an element away.
LEMMA EstaAlAgregar ==
    ASSUME NEW S, NEW l \in Seq(S), NEW y \in S, NEW x, EstaPcb(l, x)
    PROVE  EstaPcb(Append(l, y), x)
<1>1. PICK i \in DOMAIN l : l[i].pid = x.pid
  BY DEF EstaPcb
<1>2. i \in DOMAIN Append(l, y) /\ Append(l, y)[i] = l[i]
  BY <1>1, AppendProperties, LenProperties
<1> QED BY <1>1, <1>2 DEF EstaPcb

\* The steps of the Kernel's threads, one by one.
LEMMA BusquedaNextKernel ==
    ASSUME TipoKernel, BusquedaVigente, NextKernel
    PROVE  BusquedaVigente'
<1> USE DEF varsPlp, varsIo, varsMemoria
<1>0. /\ lista = [l \in Listas |-> lista[l]]
      /\ pc = [h \in Hilos |-> pc[h]] /\ pcb = [h \in Hilos |-> pcb[h]]
  BY DEF TipoKernel, TipoListas, TipoHilos
<1>1. ASSUME NEW p \in Proceso, GestionarComunicacion(p)
      PROVE  BusquedaVigente'
  <2>1. CASE RegistrarComunicacion(p)
    <3> USE <2>1 DEF RegistrarComunicacion
    <3> DEFINE C == [pid : Proceso]
               c == [pid |-> p]
    <3>1. comunicaciones_l \in Seq(C) /\ c \in C
      BY DEF TipoKernel, TipoPlp
    <3>2. comunicaciones_l' \in {Append(comunicaciones_l, c), comunicaciones_l}
      BY DEF Agregados
    <3> HIDE DEF C, c
    <3>3. ASSUME NEW x, EstaPcb(comunicaciones_l, x)
          PROVE  EstaPcb(comunicaciones_l', x)
      BY ONLY <3>1, <3>2, <3>3, EstaAlAgregar
    <3> QED BY <3>3 DEF BusquedaVigente, EstaPcb
  <2>2. CASE AgregarANew(p)
    BY <1>0, <2>2, BusquedaIgual DEF AgregarANew, Listas
  <2>3. CASE AceptarConsola(p) \/ AvisarNew(p) \/ AvisarConsola(p)
    BY <2>3, BusquedaIgual DEF AceptarConsola, AvisarNew, AvisarConsola
  <2> QED BY <1>1, <2>1, <2>2, <2>3 DEF GestionarComunicacion
<1>2. CASE PasarAReady
  BY <1>0, <1>2, BusquedaIgual DEF PasarAReady, PasarEsperar, PasarInicializar,
     PasarEntregar, PasarAvisar, Esperar, Avisar, Entregar, Tomar, Dejar, Ir,
     Hilos, Listas
<1>3. CASE FinalizarProcesos
  <2>1. CASE BuscarComunicacion
    BY <1>0, <2>1 DEF BuscarComunicacion, BusquedaVigente, EstaPcb, Ir, Hilos
  <2>2. CASE FinalizarEnMemoria
    BY <1>0, <2>2 DEF FinalizarEnMemoria, BusquedaVigente, EstaPcb, Tomar, Ir,
       Hilos, Listas
  <2>3. CASE QuitarComunicacion \/ DespertarComunicacion \/ LiberarGrado
    <3>1. /\ pc'["finalizar_procesos"] \in {"despertar", "post", "inicio"}
          /\ lista'["susp_block_l"] = lista["susp_block_l"]
          /\ pc'["io"] = pc["io"] /\ pcb'["io"] = pcb["io"]
      BY <1>0, <2>3 DEF QuitarComunicacion, DespertarComunicacion,
         LiberarGrado, Avisar, Dejar, Ir, Hilos, Listas
    <3> QED BY <3>1 DEF BusquedaVigente, EstaPcb
  <2> QED BY <1>3, <2>1, <2>2, <2>3 DEF FinalizarProcesos
<1>4. CASE SuspenderProceso
  <2>1. CASE SuspenderMarcar
    <3> USE <2>1 DEF SuspenderMarcar
    <3> DEFINE l == lista["susp_block_l"]
               y == pcb["suspender_proceso"]
    <3>1. l \in Seq(PCB) /\ y \in PCB /\ lista'["susp_block_l"] = Append(l, y)
      BY CargaDe, PcbDeHilo DEF TipoKernel, TipoListas, Listas, Hilos
    <3>2. EstaPcb(l, pcb["io"]) => EstaPcb(Append(l, y), pcb["io"])
      BY <3>1, EstaAlAgregar
    <3>3. /\ pc'["io"] = pc["io"] /\ pcb' = pcb
          /\ pc'["finalizar_procesos"] = pc["finalizar_procesos"]
          /\ UNCHANGED comunicaciones_l
      BY <1>0 DEF Ir, Hilos
    <3> HIDE DEF l, y
    <3> QED BY <3>1, <3>2, <3>3 DEF BusquedaVigente, EstaPcb, l
  <2>2. CASE \/ SuspenderTomar \/ SuspenderEstado \/ SuspenderEnviar
             \/ SuspenderLiberar
    BY <1>0, <2>2, BusquedaIgual DEF SuspenderTomar, SuspenderEstado,
       SuspenderEnviar, SuspenderLiberar, Avisar, Tomar, Ir, Hilos, Listas
  <2> QED BY <1>4, <2>1, <2>2 DEF SuspenderProceso
<1>5. CASE AvisarProcesoSuspReady
  BY <1>0, <1>5, BusquedaIgual DEF AvisarProcesoSuspReady, ReanudarEsperar,
     ReanudarTomar, ReanudarEntregar, ReanudarAvisar, Esperar, Avisar, Entregar,
     Tomar, Dejar, Ir, Hilos, Listas
<1>6. CASE PlanificadorIo
  BY <1>0, <1>6, BusquedaIgual DEF PlanificadorIo, PlanificadorIoTomar,
     PlanificadorIoDisparar, PlanificadorIoEntregar, PlanificadorIoAvisar,
     Avisar, Entregar, Dejar, Ir, Hilos, Listas
<1>7. CASE Io
  <2>1. CASE IoDespertar
    BY <1>0, <2>1 DEF IoDespertar, BusquedaVigente, EstaPcb, Ir, Hilos
  <2>2. CASE Io /\ ~IoDespertar
    <3>1. /\ pc'["io"] # "susp_block_l"
          /\ pc'["finalizar_procesos"] = pc["finalizar_procesos"]
          /\ pcb'["finalizar_procesos"] = pcb["finalizar_procesos"]
          /\ UNCHANGED comunicaciones_l
      BY <1>0, <2>2 DEF Io, IoTomar, IoCancelar, IoDesbloquear, IoAvisarReady,
         IoDesmarcar, IoSuspReady, IoAvisarSuspReady, Avisar, Entregar, Tomar,
         Dejar, Ir, Hilos
    <3> QED BY <3>1 DEF BusquedaVigente, EstaPcb
  <2> QED BY <1>7, <2>1, <2>2
<1>8. ASSUME NEW x \in PCB, Suspencion(x)
      PROVE  BusquedaVigente'
  BY <1>0, <1>8, BusquedaIgual DEF Suspencion, ContadorDespertar,
     ContadorAgregar, ContadorAvisar, Listas
<1> QED BY <1>1, <1>2, <1>3, <1>4, <1>5, <1>6, <1>7, <1>8 DEF NextKernel

-----------------------------------------------------------------------------
(* The three together.                                                      *)

\* The threads of the short-term scheduler stay where they are, and so does
\* ready_l.
PcpQuieto ==
    /\ \A h \in HilosPcp : pc'[h] = pc[h] /\ pcb'[h] = pcb[h]
    /\ caida' \in {caida, "sin_comunicacion", "block_l_vacia"}
    /\ lista'["ready_l"] = lista["ready_l"]

\* No thread moves another.
LEMMA NextKernelQuieto ==
    ASSUME TipoKernel, NextKernel
    PROVE  PcpQuieto
<1>0. /\ pc = [h \in Hilos |-> pc[h]] /\ pcb = [h \in Hilos |-> pcb[h]]
      /\ lista = [l \in Listas |-> lista[l]]
  BY DEF TipoKernel, TipoHilos, TipoListas
<1> USE DEF PcpQuieto, HilosPcp, Hilos, Listas, Ir
<1>1. CASE \E p \in Proceso : GestionarComunicacion(p)
  BY <1>0, <1>1 DEF GestionarComunicacion, AceptarConsola, AgregarANew,
     RegistrarComunicacion, AvisarNew, AvisarConsola
<1>2. CASE PasarAReady
  BY <1>0, <1>2 DEF PasarAReady, PasarEsperar, PasarInicializar,
     PasarEntregar, PasarAvisar, Esperar, Avisar, Entregar, Tomar, Dejar
<1>3. CASE FinalizarProcesos
  BY <1>0, <1>3 DEF FinalizarProcesos, FinalizarEnMemoria, BuscarComunicacion,
     QuitarComunicacion, DespertarComunicacion, LiberarGrado, Avisar, Tomar,
     Dejar
<1>4. CASE SuspenderProceso
  BY <1>0, <1>4 DEF SuspenderProceso, SuspenderTomar, SuspenderMarcar,
     SuspenderEstado, SuspenderEnviar, SuspenderLiberar, Avisar, Tomar
<1>5. CASE AvisarProcesoSuspReady
  BY <1>0, <1>5 DEF AvisarProcesoSuspReady, ReanudarEsperar, ReanudarTomar,
     ReanudarEntregar, ReanudarAvisar, Esperar, Avisar, Entregar, Tomar, Dejar
<1>6. CASE PlanificadorIo
  BY <1>0, <1>6 DEF PlanificadorIo, PlanificadorIoTomar,
     PlanificadorIoDisparar, PlanificadorIoEntregar, PlanificadorIoAvisar,
     Avisar, Entregar, Dejar
<1>7. CASE Io
  BY <1>0, <1>7 DEF Io, IoTomar, IoDespertar, IoCancelar, IoDesbloquear,
     IoAvisarReady, IoDesmarcar, IoSuspReady, IoAvisarSuspReady, Avisar,
     Entregar, Tomar, Dejar
<1>8. CASE \E x \in PCB : Suspencion(x)
  BY <1>0, <1>8 DEF Suspencion, ContadorDespertar, ContadorAgregar,
     ContadorAvisar
<1> QED BY <1>1, <1>2, <1>3, <1>4, <1>5, <1>6, <1>7, <1>8 DEF NextKernel

\* The threads that both schedulers share keep the three parts of the inductive
\* invariant and leave alone what the short-term scheduler counts.
LEMMA NextKernelInvariante ==
    ASSUME TipoKernel, CuentasKernel, BusquedaVigente, NextKernel,
           UNCHANGED varsSocket
    PROVE  /\ TipoKernel' /\ CuentasKernel' /\ BusquedaVigente'
           /\ PcpIgual /\ PcpQuieto
<1>1. BusquedaVigente' /\ PcpQuieto
  BY BusquedaNextKernel, NextKernelQuieto
<1>2. CASE \E p \in Proceso : GestionarComunicacion(p)
  BY <1>1, <1>2, TipoGestionarComunicacion, CuentasGestionarComunicacion
<1>3. CASE PasarAReady
  BY <1>1, <1>3, TipoPasarAReady, CuentasPasarAReady
<1>4. CASE FinalizarProcesos
  BY <1>1, <1>4, TipoFinalizarProcesos, CuentasFinalizarProcesos
<1>5. CASE SuspenderProceso
  BY <1>1, <1>5, TipoSuspenderProceso, CuentasSuspenderProceso
<1>6. CASE AvisarProcesoSuspReady
  BY <1>1, <1>6, TipoAvisarProcesoSuspReady, CuentasAvisarProcesoSuspReady
<1>7. CASE PlanificadorIo
  BY <1>1, <1>7, TipoPlanificadorIo, CuentasPlanificadorIo
<1>8. CASE Io
  BY <1>1, <1>8, TipoDeIo, CuentasIo
<1>9. CASE \E x \in PCB : Suspencion(x)
  BY <1>1, <1>9, TipoSuspencion, CuentasSuspencion
<1> QED BY <1>2, <1>3, <1>4, <1>5, <1>6, <1>7, <1>8, <1>9 DEF NextKernel

\* A step that changes none of the Kernel's variables keeps the types, the
\* accounts and BusquedaVigente.
LEMMA KernelIgual ==
    ASSUME TipoKernel, CuentasKernel, BusquedaVigente,
           UNCHANGED <<varsKernel, varsSocket>>
    PROVE  TipoKernel' /\ CuentasKernel' /\ BusquedaVigente' /\ PcpIgual
<1> USE DEF varsKernel, varsPlp, varsIo, varsMemoria
<1>1. TipoKernel'
  BY TipoIgual DEF TipoKernel
<1>2. BusquedaVigente'
  BY BusquedaIgual
<1>3. /\ Naturales /\ NadiePasa /\ SemaforosIguales /\ ListasIguales
      /\ RestoIgual
  BY NaturalesTipo, SinCambios DEF RestoIgual, AnunciosIguales
<1>4. CuentasKernel' /\ PcpIgual
  BY ONLY CuentasKernel, <1>3
  DEF CuentasKernel, TokensNew, TokensReady, TokensIo, TokensSusp,
      TokensFinalizado, BalanceGrado, PcpIgual, HilosPcp, Naturales, Listas,
      Semaforos, Hilos, NadiePasa, SemaforosIguales, ListasIguales, RestoIgual,
      SocketIgual, AnunciosIguales
<1> QED BY <1>1, <1>2, <1>4

\* Before any console connects every account is settled.
LEMMA InicioKernel ==
    ASSUME InitKernel
    PROVE  /\ TipoKernel /\ CuentasKernel /\ BusquedaVigente
           /\ Largo("ready_l") = 0 /\ Valor("s_cpu") = 0
           /\ Valor("s_proceso_ejecutando") = 1
           /\ Despachados = 0 /\ Devueltos = 0
           /\ \A h \in Hilos : \A E : "inicio" \notin E => En(h, E) = 0
<1> USE DEF InitKernel
<1>1. TipoKernel
  <2>1. TipoListas
    <3>1. \A S : <<>> \in Seq(S)
      OBVIOUS
    <3> QED BY <3>1 DEF TipoListas
  <2>2. TipoHilos
    BY EtapasDe, CargaDe DEF TipoHilos, Hilos, Lleva
  <2>3. TipoIo /\ TipoPlp /\ TipoMemoria
    BY DEF TipoIo, TipoPlp, TipoMemoria, Estado
  <2>4. TipoCpu
    BY DEF TipoCpu
  <2>5. sem \in [Semaforos -> Nat]
    BY GradoAssumption DEF Semaforos
  <2> QED BY <2>1, <2>2, <2>3, <2>4, <2>5 DEF TipoKernel
<1>2. /\ \A l \in Listas : Largo(l) = 0
      /\ \A h \in Hilos : \A E : "inicio" \notin E => En(h, E) = 0
      /\ Iniciados = 0 /\ Despachados = 0 /\ Devueltos = 0
  BY DEF Largo, En, Iniciados, Despachados, Devueltos
<1>3. /\ Valor("s_proceso_ejecutando") = 1
      /\ Valor("s_grado_multiprogramacion") = GRADO_MULTIPROGRAMACION
      /\ \A x \in Semaforos \ {"s_proceso_ejecutando",
                               "s_grado_multiprogramacion"} : Valor(x) = 0
  BY DEF Valor, Semaforos
<1>4. Cardinality(NewSinAvisar) = 0 /\ Cardinality(SuspSinAvisar) = 0
  <2>1. NewSinAvisar = {} /\ SuspSinAvisar = {}
    BY DEF NewSinAvisar, SuspSinAvisar
  <2> QED BY <2>1, FS_EmptySet
<1>5. GRADO_MULTIPROGRAMACION \in Nat
  BY GradoAssumption
<1>6. CuentasKernel
  BY ONLY <1>2, <1>3, <1>4, <1>5
  DEF CuentasKernel, TokensNew, TokensReady, TokensIo, TokensSusp,
      TokensFinalizado, BalanceGrado, Listas, Semaforos, Hilos
<1>7. BusquedaVigente
  BY DEF BusquedaVigente, Hilos
<1> QED BY <1>1, <1>2, <1>3, <1>6, <1>7 DEF Listas, Semaforos
=============================================================================
