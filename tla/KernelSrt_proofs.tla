-------------------------- MODULE KernelSrt_proofs --------------------------
(***************************************************************************)
(* The safety of the Kernel with SRT, for every number of consoles, every   *)
(* program, every degree of multiprogramming and every estimate.  As with   *)
(* FIFO the inductive invariant is IInv; what Kernel_proofs says of the     *)
(* threads both schedulers share is used again, and here are the steps of   *)
(* sjf.c, where an interrupted PCB comes back to ready_l with an s_cpu of   *)
(* its own and s_proceso_ejecutando is held from before the choice.         *)
(***************************************************************************)
EXTENDS KernelSrt, Kernel_lugares

Cuentas == TokensCoinciden /\ UnSoloProceso /\ BalanceGrado

IInv == TypeOK /\ Cuentas /\ BusquedaVigente

\* The accounts are those of the shared threads and those of sjf.c.
LEMMA CuentasPartes ==
    /\ Cuentas <=> CuentasKernel /\ TokensCpu /\ UnSoloProceso
    /\ Cuentas' <=> CuentasKernel' /\ TokensCpu' /\ UnSoloProceso'
BY DEF Cuentas, CuentasKernel, TokensCoinciden

\* What there is to know before a step.
LEMMA Antes ==
    ASSUME TypeOK, Cuentas
    PROVE  /\ Naturales /\ TipoKernel /\ CuentasKernel /\ TokensCpu
           /\ UnSoloProceso
BY NaturalesTipo, CuentasPartes DEF TypeOK

\* enviar_a_ejecutar_sjf finds a PCB in ready_l.
LEMMA ReadyNuncaVacia ==
    ASSUME TypeOK, Cuentas, pc["enviar_a_ejecutar"] = "ready_l"
    PROVE  Largo("ready_l") > 0
<1>1. Naturales /\ TokensCpu
  BY Antes
<1>2. En("enviar_a_ejecutar", {"ready_l"}) = 1
  BY DEF En
<1> QED BY ONLY <1>1, <1>2 DEF TokensCpu, Naturales, Listas, Semaforos

\* The list l with x put in behind its first k elements.
Metido(l, x, k) == SubSeq(l, 1, k) \o <<x>> \o SubSeq(l, k + 1, Len(l))

\* A part of 1 .. n that has everything below each of its elements is 1 .. k.
LEMMA Prefijo ==
    ASSUME NEW n \in Nat, NEW T \in SUBSET (1 .. n),
           \A i \in T : 1 .. i \subseteq T
    PROVE  Cardinality(T) \in 0 .. n /\ T = 1 .. Cardinality(T)
<1> DEFINE k == Cardinality(T)
<1>0. \A i \in Nat : IsFiniteSet(1 .. i) /\ Cardinality(1 .. i) = i
  BY FS_Interval
<1>1. IsFiniteSet(T) /\ k \in Nat /\ k <= n
  <2>1. IsFiniteSet(1 .. n) /\ Cardinality(1 .. n) = n
    BY <1>0
  <2>2. IsFiniteSet(T) /\ Cardinality(T) <= Cardinality(1 .. n)
    BY ONLY <2>1, T \in SUBSET (1 .. n), FS_Subset
  <2> QED BY <2>1, <2>2, FS_CardinalityType
<1>2. ASSUME NEW i \in T PROVE i <= k
  <2>1. i \in Nat /\ 1 <= i
    BY <1>2
  <2>2. Cardinality(1 .. i) = i
    BY <1>0, <2>1
  <2>3. Cardinality(1 .. i) <= k
    BY <1>1, <1>2, FS_Subset
  <2> QED BY <2>2, <2>3
<1>3. T \subseteq 1 .. k
  BY <1>1, <1>2
<1>4. IsFiniteSet(1 .. k) /\ Cardinality(1 .. k) = k
  BY <1>0, <1>1
<1>5. T = 1 .. k
  BY <1>3, <1>4, FS_Subset
<1> QED BY <1>1, <1>5

\* list_add_sorted puts an element behind those that do not have a greater
\* estimate, and before one that does.
LEMMA OrdenadoLugar ==
    ASSUME NEW S, NEW l \in Seq(S), NEW x \in S
    PROVE  \E k \in 0 .. Len(l) :
              /\ AgregarOrdenado(l, x) = Metido(l, x, k)
              /\ \A i \in 1 .. k : estimado[l[i].pid] <= estimado[x.pid]
              /\ k < Len(l) =>
                    ~(estimado[l[k + 1].pid] <= estimado[x.pid])
<1> DEFINE n == Len(l)
           NoMayor(i) == estimado[l[i].pid] <= estimado[x.pid]
           T == {i \in DOMAIN l : \A j \in 1 .. i : NoMayor(j)}
           k == Cardinality(T)
<1>1. n \in Nat /\ DOMAIN l = 1 .. n
  BY LenProperties
<1>2. T \subseteq 1 .. n /\ \A i \in T : 1 .. i \subseteq T
  <2> HIDE DEF n, NoMayor
  <2>1. T \subseteq 1 .. n
    BY <1>1
  <2>2. ASSUME NEW i \in T, NEW j \in 1 .. i PROVE j \in T
    <3>1. j \in 1 .. n /\ 1 .. j \subseteq 1 .. i
      BY <1>1, <2>1, <2>2
    <3> QED BY <1>1, <2>2, <3>1
  <2> QED BY <2>1, <2>2
<1>3. k \in 0 .. n /\ T = 1 .. k
  <2> HIDE DEF T, n
  <2> QED BY <1>1, <1>2, Prefijo
<1>4. AgregarOrdenado(l, x) = InsertAt(l, k + 1, x)
  BY DEF AgregarOrdenado
<1>5. \A i \in 1 .. k : NoMayor(i)
  <2>1. ASSUME NEW i \in 1 .. k PROVE NoMayor(i)
    <3>1. i \in T /\ i \in 1 .. i
      BY <1>3, <2>1
    <3> HIDE DEF NoMayor, k
    <3> QED BY <3>1
  <2> QED BY <2>1
<1>6. k < n => ~NoMayor(k + 1)
  <2> HIDE DEF NoMayor, n
  <2>1. SUFFICES ASSUME k < n, NoMayor(k + 1) PROVE FALSE
    OBVIOUS
  <2>2. k + 1 \notin T
    <3> HIDE DEF T
    <3> QED BY <1>3
  <2> HIDE DEF k
  <2>3. k + 1 \in DOMAIN l
    BY <1>1, <1>3, <2>1
  <2>4. \A j \in 1 .. k + 1 : NoMayor(j)
    <3>1. \A j \in 1 .. k + 1 : j \in 1 .. k \/ j = k + 1
      BY <1>1, <1>3
    <3> QED BY <1>5, <2>1, <3>1
  <2> QED BY <2>2, <2>3, <2>4
<1> HIDE DEF T, k
<1>7. PICK m : m = k + 1 /\ m - 1 = k
  BY <1>1, <1>3
<1>8. AgregarOrdenado(l, x) =
         SubSeq(l, 1, m - 1) \o <<x>> \o SubSeq(l, m, n)
  BY <1>4, <1>7 DEF InsertAt
<1>9. AgregarOrdenado(l, x) = Metido(l, x, k)
  BY ONLY <1>7, <1>8 DEF Metido, n
<1> QED BY <1>3, <1>5, <1>6, <1>9

\* The sequence r is l with x put in behind its first k elements ...
InsertadoTras(l, x, k, r) ==
    /\ \A i \in 1 .. k : r[i] = l[i]
    /\ r[k + 1] = x
    /\ \A i \in k + 1 .. Len(l) : r[i + 1] = l[i]

\* ... or somewhere.
Insertado(l, x, r) == \E k \in 0 .. Len(l) : InsertadoTras(l, x, k, r)

\* A list_add_in_index(l, k, x).
LEMMA InsertadoEn ==
    ASSUME NEW S, NEW l \in Seq(S), NEW x \in S, NEW k \in 0 .. Len(l)
    PROVE  /\ Metido(l, x, k) \in Seq(S)
           /\ Len(Metido(l, x, k)) = Len(l) + 1
           /\ InsertadoTras(l, x, k, Metido(l, x, k))
<1> DEFINE n == Len(l)
           a == SubSeq(l, 1, k)
           b == SubSeq(l, k + 1, n)
           c == a \o <<x>>
           r == Metido(l, x, k)
<1>1. r = c \o b
  BY DEF Metido
<1>2. n \in Nat /\ k \in Nat /\ k <= n
  BY LenProperties
<1>3. /\ a \in Seq(S) /\ Len(a) = k
      /\ \A i \in 1 .. k : a[i] = l[i]
  BY <1>2, SubSeqProperties
<1>4. /\ b \in Seq(S) /\ Len(b) = n - k
      /\ \A i \in 1 .. n - k : b[i] = l[k + i]
  BY <1>2, SubSeqProperties
<1>5. <<x>> \in Seq(S) /\ Len(<<x>>) = 1 /\ <<x>>[1] = x
  OBVIOUS
<1> HIDE DEF n, a, b, r
<1>6. /\ c \in Seq(S) /\ Len(c) = k + 1
      /\ \A i \in 1 .. k : c[i] = a[i]
      /\ c[k + 1] = x
  BY ONLY <1>2, <1>3, <1>5, ConcatProperties
<1> HIDE DEF c
<1>7. /\ r \in Seq(S) /\ Len(r) = (k + 1) + (n - k)
      /\ \A i \in 1 .. k + 1 : r[i] = c[i]
      /\ \A i \in 1 .. n - k : r[(k + 1) + i] = b[i]
  <2>1. /\ r \in Seq(S) /\ Len(r) = Len(c) + Len(b)
        /\ \A i \in 1 .. Len(c) + Len(b) :
              r[i] = IF i <= Len(c) THEN c[i] ELSE b[i - Len(c)]
    BY ONLY <1>1, <1>4, <1>6, ConcatProperties
  <2>2. ASSUME NEW i \in 1 .. k + 1 PROVE r[i] = c[i]
    BY ONLY <1>2, <1>4, <1>6, <2>1, <2>2
  <2>3. ASSUME NEW i \in 1 .. n - k PROVE r[(k + 1) + i] = b[i]
    <3>1. /\ (k + 1) + i \in 1 .. Len(c) + Len(b) /\ ~((k + 1) + i <= Len(c))
          /\ (k + 1) + i - Len(c) = i
      BY ONLY <1>2, <1>4, <1>6, <2>3
    <3> QED BY ONLY <2>1, <3>1
  <2> QED BY <1>4, <1>6, <2>1, <2>2, <2>3
<1>8. Len(r) = n + 1 /\ \A i \in 1 .. k : r[i] = l[i]
  BY ONLY <1>2, <1>3, <1>6, <1>7
<1>9. r[k + 1] = x
  BY ONLY <1>2, <1>6, <1>7
<1>10. ASSUME NEW i \in k + 1 .. n PROVE r[i + 1] = l[i]
  <2>1. i - k \in 1 .. n - k /\ (k + 1) + (i - k) = i + 1 /\ k + (i - k) = i
    BY ONLY <1>2, <1>10
  <2> QED BY ONLY <1>4, <1>7, <2>1
<1> QED BY <1>7, <1>8, <1>9, <1>10 DEF InsertadoTras, n, r

\* list_add_sorted adds one element, wherever it goes, and moves those behind it
\* (sjf.c:319,382).
LEMMA OrdenadoElementos ==
    ASSUME NEW S, NEW l \in Seq(S), NEW x \in S
    PROVE  /\ AgregarOrdenado(l, x) \in Seq(S)
           /\ Len(AgregarOrdenado(l, x)) = Len(l) + 1
           /\ Insertado(l, x, AgregarOrdenado(l, x))
<1> DEFINE r == AgregarOrdenado(l, x)
<1>1. PICK k \in 0 .. Len(l) : r = Metido(l, x, k)
  BY OrdenadoLugar
<1>2. r = Metido(l, x, k) /\ k \in 0 .. Len(l)
  BY <1>1
<1> HIDE DEF r
<1>3. r \in Seq(S) /\ Len(r) = Len(l) + 1 /\ InsertadoTras(l, x, k, r)
  BY <1>2, InsertadoEn
<1>4. Insertado(l, x, r)
  BY <1>2, <1>3 DEF Insertado
<1> QED BY <1>3, <1>4 DEF r

\* So the list is one longer.
LEMMA OrdenadoTipo ==
    ASSUME NEW S, NEW l \in Seq(S), NEW x \in S
    PROVE  /\ AgregarOrdenado(l, x) \in Seq(S)
           /\ Len(AgregarOrdenado(l, x)) = Len(l) + 1
BY OrdenadoElementos

-----------------------------------------------------------------------------
(* The accounts.                                                            *)

\* The ways of agregar_a_ready_sjf from one label to another that change nothing
\* of what is counted.
Camina(d, e) ==
    /\ d \in TrasEncolar /\ e \in TrasEncolar
    /\ \/ {d, e} \cap {"post_replanificacion", "post_cpu"} = {}
       \/ d = "post_replanificacion" /\ e = "post_cpu"

\* They are these.
LEMMA CaminaDe ==
    /\ Camina("proceso_ejecutando", "interrumpir")
    /\ Camina("proceso_ejecutando", "mostrar")
    /\ Camina("interrumpir", "enviar_intr")
    /\ Camina("enviar_intr", "s_interrupcion_atendida")
    /\ Camina("s_interrupcion_atendida", "interrumpidos_l")
    /\ Camina("interrumpidos_l", "interrupcion")
    /\ Camina("post_replanificacion", "post_cpu")
    /\ Camina("interrupcion", "mostrar")
    /\ Camina("mostrar", "recorrer")
    /\ Camina("recorrer", "post")
BY DEF Camina, TrasEncolar

\* A step that changes nothing that is counted but one label of agregar_a_ready.
LEMMA CuentasAgregarMueve ==
    ASSUME TypeOK, Cuentas, NEW d, NEW e, Camina(d, e),
           Pasa("agregar_a_ready", d, e) \/ NadiePasa,
           SemaforosIguales, ListasIguales, RestoIgual
    PROVE  Cuentas'
<1>1. /\ Naturales /\ TipoKernel /\ CuentasKernel /\ TokensCpu
      /\ UnSoloProceso
  BY Antes
<1>2. Ajena
  BY DEF Ajena, SemaforosIguales, ListasIguales, RestoIgual
<1>3. CuentasKernel'
  BY <1>1, <1>2, CuentasAgregarAjena DEF Camina, TrasEncolar
<1>4. /\ \A E \in {TrasEncolar, {"post_replanificacion", "post_cpu"}} :
            En("agregar_a_ready", E)' = En("agregar_a_ready", E)
      /\ \A g \in Hilos \ {"agregar_a_ready"} : \A E : En(g, E)' = En(g, E)
  BY DEF Pasa, NadiePasa, Hilos, Camina
<1>5. TokensCpu' /\ UnSoloProceso'
  BY ONLY <1>1, <1>4, SemaforosIguales, ListasIguales, RestoIgual
  DEF TokensCpu, UnSoloProceso, SemaforosIguales, ListasIguales, RestoIgual,
      SocketIgual, Listas, Semaforos, Hilos
<1> QED BY <1>3, <1>5, CuentasPartes

\* A PCB that gets into ready_l with the label that will announce it.
LEMMA CuentasAgregarReady ==
    ASSUME TypeOK, Cuentas, Crece("ready_l"), SemaforosIguales, RestoIgual,
           \/ Pasa("agregar_a_ready", "ready_l", "proceso_ejecutando")
           \/ Pasa("agregar_a_ready", "interrumpidos_l", "post_replanificacion")
    PROVE  Cuentas'
<1>1. /\ Naturales /\ TipoKernel /\ CuentasKernel /\ TokensCpu
      /\ UnSoloProceso
  BY Antes
<1>2. Ajena
  BY DEF Ajena, SemaforosIguales, Crece, RestoIgual
<1>3. CuentasKernel'
  BY <1>1, <1>2, CuentasAgregarAjena
<1>4. TokensCpu' /\ UnSoloProceso'
  <2>1. CASE Pasa("agregar_a_ready", "ready_l", "proceso_ejecutando")
    BY ONLY <1>1, <2>1, Crece("ready_l"), SemaforosIguales, RestoIgual
    DEF TokensCpu, UnSoloProceso, SemaforosIguales, Crece, RestoIgual, Pasa,
        SocketIgual, Listas, Semaforos, Hilos, TrasEncolar, Naturales
  <2>2. CASE Pasa("agregar_a_ready", "interrumpidos_l", "post_replanificacion")
    BY ONLY <1>1, <2>2, Crece("ready_l"), SemaforosIguales, RestoIgual
    DEF TokensCpu, UnSoloProceso, SemaforosIguales, Crece, RestoIgual, Pasa,
        SocketIgual, Listas, Semaforos, Hilos, TrasEncolar, Naturales
  <2> QED BY <2>1, <2>2
<1> QED BY <1>3, <1>4, CuentasPartes

\* The announcement of a PCB of ready_l.
LEMMA CuentasAgregarAvisar ==
    ASSUME TypeOK, Cuentas, Suma("s_cpu"), ListasIguales, RestoIgual,
           \/ Pasa("agregar_a_ready", "post", "inicio")
           \/ Pasa("agregar_a_ready", "post_cpu", "interrupcion")
    PROVE  Cuentas'
<1>1. /\ Naturales /\ TipoKernel /\ CuentasKernel /\ TokensCpu
      /\ UnSoloProceso
  BY Antes
<1>2. Ajena
  BY DEF Ajena, Suma, ListasIguales, RestoIgual
<1>3. CuentasKernel'
  BY <1>1, <1>2, CuentasAgregarAjena
<1>4. TokensCpu' /\ UnSoloProceso'
  <2>1. CASE Pasa("agregar_a_ready", "post", "inicio")
    BY ONLY <1>1, <2>1, Suma("s_cpu"), ListasIguales, RestoIgual
    DEF TokensCpu, UnSoloProceso, Suma, ListasIguales, RestoIgual, Pasa,
        SocketIgual, Listas, Semaforos, Hilos, TrasEncolar, Naturales
  <2>2. CASE Pasa("agregar_a_ready", "post_cpu", "interrupcion")
    BY ONLY <1>1, <2>2, Suma("s_cpu"), ListasIguales, RestoIgual
    DEF TokensCpu, UnSoloProceso, Suma, ListasIguales, RestoIgual, Pasa,
        SocketIgual, Listas, Semaforos, Hilos, TrasEncolar, Naturales
  <2> QED BY <2>1, <2>2
<1> QED BY <1>3, <1>4, CuentasPartes

\* agregar_a_ready_sjf keeps the accounts.
LEMMA CuentasAgregarAReady ==
    ASSUME TypeOK, Cuentas, AgregarAReady
    PROVE  Cuentas'
<1>1. /\ Naturales /\ TipoKernel /\ CuentasKernel /\ TokensCpu
      /\ UnSoloProceso
  BY Antes
<1> USE DEF varsPlp, varsIo, varsMemoria
<1>2. CASE \/ AgregarEsperar
           \/ AgregarElegir("susp_readyM_l", "unblock_l")
           \/ AgregarElegir("unblock_l", "newM_l")
           \/ AgregarElegirNew
  <2>1. /\ CuentasKernel' /\ PropioIgual
        /\ \E d, e \in {"inicio", "susp_readyM_l", "unblock_l", "newM_l",
                        "ready_l"} : Pasa("agregar_a_ready", d, e)
    BY <1>1, <1>2, CuentasAgregarComun
  <2>2. TokensCpu' /\ UnSoloProceso'
    BY ONLY <1>1, <2>1
    DEF PropioIgual, Pasa, TokensCpu, UnSoloProceso, SocketIgual, Hilos,
        TrasEncolar
  <2> QED BY <2>1, <2>2, CuentasPartes
<1>3. CASE AgregarEntregar
  <2> USE <1>1, <1>3 DEF AgregarEntregar
  <2>1. Pasa("agregar_a_ready", "ready_l", "proceso_ejecutando")
    BY IrPasa DEF Hilos
  <2>2. pcb["agregar_a_ready"] \in PCB /\ lista["ready_l"] \in Seq(PCB)
    BY CargaDe, PcbDeHilo DEF Hilos, TipoKernel, TipoListas, Listas
  <2>3. Crece("ready_l")
    BY <2>2, OrdenadoTipo DEF Crece, Largo, TipoKernel, TipoListas, Listas
  <2>4. SemaforosIguales /\ RestoIgual
    BY SinCambios DEF RestoIgual, AnunciosIguales
  <2> QED BY <2>1, <2>3, <2>4, CuentasAgregarReady
<1>4. CASE AgregarInterrumpido
  <2> USE <1>1, <1>4 DEF AgregarInterrumpido
  <2>1. Pasa("agregar_a_ready", "interrumpidos_l", "post_replanificacion")
    BY IrPasa DEF Hilos
  <2>2. Head(interrumpidos_l) \in PCB /\ lista["ready_l"] \in Seq(PCB)
    BY CabezaTipo DEF TypeOK, PCBViva, TipoKernel, TipoListas, Listas
  <2>3. Crece("ready_l")
    BY <2>2, OrdenadoTipo DEF Crece, Largo, TipoKernel, TipoListas, Listas
  <2>4. SemaforosIguales /\ RestoIgual
    BY SinCambios DEF RestoIgual, AnunciosIguales
  <2> QED BY <2>1, <2>3, <2>4, CuentasAgregarReady
<1>5. CASE AgregarAvisarInterrumpido \/ AgregarAvisar
  <2>1. /\ \/ Pasa("agregar_a_ready", "post", "inicio")
           \/ Pasa("agregar_a_ready", "post_cpu", "interrupcion")
        /\ Suma("s_cpu") /\ ListasIguales /\ RestoIgual
    BY <1>1, <1>5, AvisarCuenta
    DEF AgregarAvisarInterrumpido, AgregarAvisar, Hilos, Semaforos
  <2> QED BY <2>1, CuentasAgregarAvisar
<1>6. ASSUME UNCHANGED <<lista, sem, pcb, varsPlp, varsIo, varsMemoria,
                         varsSocket>>,
             NEW d, NEW e, Camina(d, e), pc["agregar_a_ready"] = d,
             Ir("agregar_a_ready", e) \/ UNCHANGED pc
      PROVE  Cuentas'
  <2>1. Pasa("agregar_a_ready", d, e) \/ NadiePasa
    BY <1>1, <1>6, IrPasa, SinCambios DEF Hilos
  <2>2. SemaforosIguales /\ ListasIguales /\ RestoIgual
    BY <1>6, SinCambios DEF RestoIgual, AnunciosIguales
  <2> QED BY <1>6, <2>1, <2>2, CuentasAgregarMueve
<1> HIDE DEF varsPlp, varsIo, varsMemoria
<1> USE CaminaDe
<1>7. CASE AgregarMirarEjecutando
  BY ONLY <1>6, <1>7, Camina("proceso_ejecutando", "interrumpir"),
          Camina("proceso_ejecutando", "mostrar")
  DEF AgregarMirarEjecutando
<1>8. CASE Interrumpir
  BY ONLY <1>6, <1>8, Camina("interrumpir", "enviar_intr") DEF Interrumpir
<1>9. CASE InterrumpirEnviar
  BY ONLY <1>6, <1>9, Camina("enviar_intr", "s_interrupcion_atendida") DEF InterrumpirEnviar
<1>10. CASE AgregarEsperarAtendida
  BY ONLY <1>6, <1>10, Camina("s_interrupcion_atendida", "interrumpidos_l") DEF AgregarEsperarAtendida
<1>11. CASE AgregarSinInterrumpido
  BY ONLY <1>6, <1>11, Camina("interrumpidos_l", "interrupcion") DEF AgregarSinInterrumpido
<1>12. CASE AgregarAvisarReplanificacion
  BY ONLY <1>6, <1>12, Camina("post_replanificacion", "post_cpu") DEF AgregarAvisarReplanificacion
<1>13. CASE AgregarFinInterrupcion
  BY ONLY <1>6, <1>13, Camina("interrupcion", "mostrar") DEF AgregarFinInterrupcion
<1>14. CASE AgregarMostrar
  BY ONLY <1>6, <1>14, Camina("mostrar", "recorrer") DEF AgregarMostrar
<1>15. CASE AgregarRecorrer
  BY ONLY <1>6, <1>15, Camina("recorrer", "post") DEF AgregarRecorrer
<1> QED BY <1>2, <1>3, <1>4, <1>5, <1>7, <1>8, <1>9, <1>10, <1>11,
   <1>12, <1>13, <1>14, <1>15
   DEF AgregarAReady

\* enviar_a_ejecutar_sjf keeps the accounts.
LEMMA CuentasEnviarAEjecutar ==
    ASSUME TypeOK, Cuentas, EnviarAEjecutar
    PROVE  Cuentas'
<1>1. /\ Naturales /\ TipoKernel /\ CuentasKernel /\ TokensCpu
      /\ UnSoloProceso
  BY Antes
<1> USE DEF varsPlp, varsIo, varsMemoria
<1>2. CASE EnviarEsperar
  <2>1. /\ Pasa("enviar_a_ejecutar", "inicio", "s_cpu")
        /\ Resta("s_proceso_ejecutando") /\ ListasIguales /\ RestoIgual
    BY <1>1, <1>2, EsperarCuenta DEF EnviarEsperar, Hilos, Semaforos
  <2>2. Ajena
    BY ONLY <2>1 DEF Ajena, Resta, ListasIguales, RestoIgual
  <2>3. CuentasKernel'
    BY <1>1, <2>1, <2>2, CuentasEnviarAjena
  <2>4. TokensCpu' /\ UnSoloProceso'
    BY ONLY <1>1, <2>1
    DEF TokensCpu, UnSoloProceso, Resta, ListasIguales, RestoIgual, Pasa,
        SocketIgual, Listas, Semaforos, Hilos, Naturales
  <2> QED BY <2>3, <2>4, CuentasPartes
<1>3. CASE EnviarEsperarCpu
  <2>1. /\ Pasa("enviar_a_ejecutar", "s_cpu", "ready_l") /\ Resta("s_cpu")
    BY <1>1, <1>3, IrPasa, WaitResta DEF EnviarEsperarCpu, Hilos, Semaforos
  <2>2. ListasIguales /\ RestoIgual
    BY <1>3, SinCambios DEF EnviarEsperarCpu, RestoIgual, AnunciosIguales
  <2>3. Ajena
    BY ONLY <2>1, <2>2 DEF Ajena, Resta, ListasIguales, RestoIgual
  <2>4. CuentasKernel'
    BY <1>1, <2>1, <2>3, CuentasEnviarAjena
  <2>5. TokensCpu' /\ UnSoloProceso'
    BY ONLY <1>1, <2>1, <2>2
    DEF TokensCpu, UnSoloProceso, Resta, ListasIguales, RestoIgual, Pasa,
        SocketIgual, Listas, Semaforos, Hilos, Naturales
  <2> QED BY <2>4, <2>5, CuentasPartes
<1>4. CASE EnviarTomar
  <2>1. Pasa("enviar_a_ejecutar", "ready_l", "enviar")
    BY <1>1, <1>4, IrPasa DEF EnviarTomar, Tomar, Hilos
  <2>2. Decrece("ready_l")
    BY <1>1, <1>4, ReadyNuncaVacia, TailDecrece DEF EnviarTomar, Tomar, Listas
  <2>3. SemaforosIguales /\ RestoIgual
    BY <1>4, SinCambios DEF EnviarTomar, RestoIgual, AnunciosIguales
  <2>4. Ajena
    BY ONLY <2>2, <2>3 DEF Ajena, Decrece, SemaforosIguales, RestoIgual
  <2>5. CuentasKernel'
    BY <1>1, <2>1, <2>4, CuentasEnviarAjena
  <2>6. TokensCpu' /\ UnSoloProceso'
    BY ONLY <1>1, <2>1, <2>2, <2>3
    DEF TokensCpu, UnSoloProceso, Decrece, SemaforosIguales, RestoIgual, Pasa,
        SocketIgual, Listas, Semaforos, Hilos, Naturales
  <2> QED BY <2>5, <2>6, CuentasPartes
<1>5. CASE EnviarDespachar
  <2>1. Pasa("enviar_a_ejecutar", "enviar", "inicio")
    BY <1>1, <1>5, IrPasa DEF EnviarDespachar, Hilos
  <2>2. /\ SemaforosIguales /\ ListasIguales /\ Iniciados' = Iniciados
        /\ AnunciosIguales
    BY <1>5, SinCambios DEF EnviarDespachar, AnunciosIguales
  <2>3. Despachados' = Despachados + 1 /\ Devueltos' = Devueltos
    BY <1>1, <1>5, AppendProperties
    DEF EnviarDespachar, TipoKernel, TipoCpu, Despachados, Devueltos
  <2>4. Ajena
    BY ONLY <2>2 DEF Ajena, ListasIguales, SemaforosIguales
  <2>5. CuentasKernel'
    BY <1>1, <2>1, <2>4, CuentasEnviarAjena
  <2>6. TokensCpu' /\ UnSoloProceso'
    BY ONLY <1>1, <2>1, <2>2, <2>3
    DEF TokensCpu, UnSoloProceso, ListasIguales, SemaforosIguales, Pasa,
        Listas, Semaforos, Hilos, Naturales
  <2> QED BY <2>5, <2>6, CuentasPartes
<1> QED BY <1>2, <1>3, <1>4, <1>5 DEF EnviarAEjecutar

\* What the CPU does to the socket: it sends the PCB back, or goes on with it.
LEMMA CpuSocket ==
    ASSUME TipoCpu, CpuEjecutar
    PROVE  /\ TipoCpu'
           /\ \/ SocketIgual
              \/ Despachados' = Despachados - 1 /\ Devueltos' = Devueltos + 1
<1> DEFINE m == Head(haciaCpu)
           x == m.pcb
           operacion == Programa[x.pid][x.pc + 1]
           sigue == operacion = "NO_OP" /\ ~interrupcionCpu
           y == [x EXCEPT !.pc = @ + 1]
           e == CASE operacion = "I_O" -> "BLOQUEADO"
                  [] operacion = "EXIT" -> "FINALIZADO"
                  [] operacion = "NO_OP" /\ ~sigue -> "INTERRUMPIDO"
                  [] OTHER -> m.estado
           d == [pcb |-> y, estado |-> e]
<1>1. /\ haciaCpu \in Seq(Enviado) /\ haciaCpu # <<>> /\ m \in Enviado
      /\ Tail(haciaCpu) \in Seq(Enviado) /\ Len(haciaCpu) \in Nat
      /\ Len(haciaCpu) > 0 /\ Len(Tail(haciaCpu)) = Len(haciaCpu) - 1
  BY CabezaTipo, HeadTailProperties DEF TipoCpu, CpuEjecutar, Enviado
<1>2. /\ haciaCpu' = IF sigue THEN [haciaCpu EXCEPT ![1] = d] ELSE Tail(haciaCpu)
      /\ desdeCpu' = IF sigue THEN desdeCpu ELSE Append(desdeCpu, d)
  BY DEF CpuEjecutar, Siguiente
<1>3. x \in PCBViva /\ m.estado \in Estado \ {"FINALIZADO"}
  BY <1>1 DEF Enviado
<1>4. y \in PCB /\ (y \in PCBFin <=> operacion = "EXIT")
  BY <1>3, SiguienteTipo
<1>5. /\ e \in Estado /\ (e = "FINALIZADO" <=> operacion = "EXIT")
      /\ sigue => e \in Estado \ {"FINALIZADO"} /\ y \in PCBViva
  BY <1>3, <1>4 DEF Estado, PCBFin
<1>6. /\ d \in Devuelto /\ d.pcb = y /\ d.estado = e
      /\ sigue => d \in Enviado
  BY <1>4, <1>5 DEF Devuelto, Enviado
<1>7. /\ desdeCpu \in Seq(Devuelto) /\ Len(desdeCpu) \in Nat
      /\ \A i \in DOMAIN desdeCpu :
            desdeCpu[i].estado = "FINALIZADO" <=> desdeCpu[i].pcb \in PCBFin
  BY LenProperties DEF TipoCpu, Devuelto
<1> HIDE DEF d, e, y, sigue
<1>8. CASE sigue
  <2>1. /\ haciaCpu' \in Seq(Enviado) /\ Len(haciaCpu') = Len(haciaCpu)
        /\ desdeCpu' = desdeCpu
    BY <1>1, <1>2, <1>6, <1>8, ExceptSeq
  <2>2. TipoCpu'
    BY <1>7, <2>1, TipoCpuPaso
  <2> QED BY <1>1, <1>7, <2>1, <2>2 DEF Despachados, Devueltos, SocketIgual
<1>9. CASE ~sigue
  <2>1. /\ haciaCpu' = Tail(haciaCpu) /\ desdeCpu' = Append(desdeCpu, d)
    BY <1>2, <1>9
  <2>2. /\ desdeCpu' \in Seq(Devuelto) /\ Len(desdeCpu') = Len(desdeCpu) + 1
        /\ \A i \in DOMAIN desdeCpu' :
              desdeCpu'[i].estado = "FINALIZADO" <=>
                 desdeCpu'[i].pcb \in PCBFin
    BY <1>4, <1>5, <1>6, <2>1, DevolverTipo
  <2>3. TipoCpu'
    BY <1>1, <2>1, <2>2, TipoCpuPaso
  <2> QED BY <1>1, <1>7, <2>1, <2>2, <2>3 DEF Despachados, Devueltos
<1> QED BY <1>8, <1>9

\* The CPU keeps the accounts: it answers one PCB with one PCB.
LEMMA CuentasCpu ==
    ASSUME TypeOK, Cuentas, CpuEjecutar \/ CpuLimpiar \/ AtencionInterrupt
    PROVE  Cuentas'
<1>1. /\ Naturales /\ TipoKernel /\ CuentasKernel /\ TokensCpu
      /\ UnSoloProceso
  BY Antes
<1>2. UNCHANGED varsKernel
  BY DEF CpuEjecutar, CpuLimpiar, AtencionInterrupt
<1>3. /\ NadiePasa /\ SemaforosIguales /\ ListasIguales
      /\ Iniciados' = Iniciados /\ AnunciosIguales
  BY <1>2, SinCambios DEF varsKernel, varsPlp, varsIo, varsMemoria,
     AnunciosIguales
<1>4. CuentasKernel'
  <2>1. Ajena
    BY ONLY <1>3 DEF Ajena, SemaforosIguales, ListasIguales
  <2> QED BY <1>1, <1>3, <2>1, CuentasEnviarAjena
<1>5. \/ SocketIgual
      \/ Despachados' = Despachados - 1 /\ Devueltos' = Devueltos + 1
  <2>1. CASE CpuEjecutar
    BY <1>1, <2>1, CpuSocket DEF TipoKernel
  <2>2. CASE CpuLimpiar \/ AtencionInterrupt
    BY <2>2, SinCambios DEF CpuLimpiar, AtencionInterrupt
  <2> QED BY <2>1, <2>2
<1>6. TokensCpu' /\ UnSoloProceso'
  BY ONLY <1>1, <1>3, <1>5
  DEF TokensCpu, UnSoloProceso, ListasIguales, SemaforosIguales, NadiePasa,
      SocketIgual, Listas, Semaforos, Hilos, Naturales
<1> QED BY <1>4, <1>6, CuentasPartes

\* A step of devoluciones inside a return changes nothing that is counted.
LEMMA CuentasRecibirMueve ==
    ASSUME TypeOK, Cuentas, NEW d \in Devolviendo, NEW e \in Devolviendo,
           Pasa("recibir_proceso_de_cpu", d, e),
           d \notin {"post_finalizado", "post_io_pendiente"},
           e \notin {"post_finalizado", "post_io_pendiente"},
           SemaforosIguales, ListasIguales, RestoIgual
    PROVE  Cuentas'
<1>1. /\ Naturales /\ TipoKernel /\ CuentasKernel /\ TokensCpu
      /\ UnSoloProceso
  BY Antes
<1>2. Ajena
  BY DEF Ajena, SemaforosIguales, ListasIguales, RestoIgual
<1>3. CuentasKernel'
  BY <1>1, <1>2, CuentasRecibirAjena
<1>4. TokensCpu' /\ UnSoloProceso'
  BY ONLY <1>1, d \in Devolviendo, e \in Devolviendo,
          Pasa("recibir_proceso_de_cpu", d, e), SemaforosIguales,
          ListasIguales, RestoIgual
  DEF TokensCpu, UnSoloProceso, SemaforosIguales, ListasIguales, RestoIgual,
      SocketIgual, Pasa, Listas, Semaforos, Hilos
<1> QED BY <1>3, <1>4, CuentasPartes

\* devoluciones keeps the accounts: it holds s_proceso_ejecutando from the
\* return of a PCB to its last step, the wait for the replanning included.
LEMMA CuentasDevoluciones ==
    ASSUME TypeOK, Cuentas, Devoluciones
    PROVE  Cuentas'
<1>1. /\ Naturales /\ TipoKernel /\ CuentasKernel /\ TokensCpu
      /\ UnSoloProceso
  BY Antes
<1> USE DEF varsPlp, varsIo, varsMemoria
<1>2. CASE RecibirPcb
  <2> USE <1>1, <1>2 DEF RecibirPcb
  <2>1. \E e \in {"interrumpidos_l", "block_l", "finalizado_l", "descartar"} :
           Pasa("recibir_proceso_de_cpu", "inicio", e)
    BY IrPasa DEF Hilos
  <2>2. Despachados' = Despachados /\ Devueltos' = Devueltos - 1
    BY RecibirTipo DEF TipoKernel, Despachados, Devueltos
  <2>3. /\ SemaforosIguales /\ ListasIguales
        /\ Iniciados' = Iniciados /\ AnunciosIguales
    BY SinCambios DEF AnunciosIguales
  <2>4. Ajena
    BY ONLY <2>3 DEF Ajena, SemaforosIguales, ListasIguales
  <2>5. CuentasKernel'
    BY <2>1, <2>4, CuentasRecibirAjena
  <2>6. TokensCpu' /\ UnSoloProceso'
    BY ONLY <1>1, <2>1, <2>2, <2>3
    DEF Pasa, SemaforosIguales, ListasIguales, TokensCpu, UnSoloProceso,
        Naturales, Listas, Semaforos, Hilos, Devolviendo
  <2> QED BY <2>5, <2>6, CuentasPartes
<1>3. CASE \/ RecibirFinalizado \/ RecibirAvisarFinalizado
           \/ RecibirBloqueado \/ RecibirAvisarBloqueado
  <2>1. /\ CuentasKernel' /\ PropioIgual
        /\ \E d, f \in {"finalizado_l", "post_finalizado", "block_l",
                        "post_io_pendiente", "post", "if_interrupcion"} :
              Pasa("recibir_proceso_de_cpu", d, f)
    BY <1>1, <1>3, CuentasRecibirComun
    DEF RecibirFinalizado, RecibirBloqueado, RecibirAvisarFinalizado,
        RecibirAvisarBloqueado
  <2>2. TokensCpu' /\ UnSoloProceso'
    BY ONLY <1>1, <2>1
    DEF PropioIgual, Pasa, TokensCpu, UnSoloProceso, SocketIgual, Hilos,
        Devolviendo
  <2> QED BY <2>1, <2>2, CuentasPartes
<1>4. CASE RecibirLiberarCpu
  <2>1. /\ Pasa("recibir_proceso_de_cpu", "post", "inicio")
        /\ Suma("s_proceso_ejecutando") /\ ListasIguales /\ RestoIgual
    BY <1>1, <1>4, RecibirLiberarCpuCuenta
  <2>2. Ajena
    BY ONLY <2>1 DEF Ajena, Suma, ListasIguales, RestoIgual
  <2>3. CuentasKernel'
    BY <1>1, <2>1, <2>2, CuentasRecibirAjena
  <2>4. TokensCpu' /\ UnSoloProceso'
    BY ONLY <1>1, <2>1
    DEF Pasa, Suma, ListasIguales, RestoIgual, SocketIgual, TokensCpu,
        UnSoloProceso, Naturales, Listas, Semaforos, Hilos, Devolviendo
  <2> QED BY <2>3, <2>4, CuentasPartes
<1>5. ASSUME UNCHANGED <<lista, sem, varsPlp, varsIo, varsMemoria, varsSocket>>,
             NEW d \in Devolviendo, NEW e \in Devolviendo,
             d \notin {"post_finalizado", "post_io_pendiente"},
             e \notin {"post_finalizado", "post_io_pendiente"},
             pc["recibir_proceso_de_cpu"] = d, Ir("recibir_proceso_de_cpu", e)
      PROVE  Cuentas'
  <2>1. Pasa("recibir_proceso_de_cpu", d, e)
    BY <1>1, <1>5, IrPasa DEF Hilos
  <2>2. SemaforosIguales /\ ListasIguales /\ RestoIgual
    BY <1>5, SinCambios DEF RestoIgual, AnunciosIguales
  <2> QED BY <1>5, <2>1, <2>2, CuentasRecibirMueve
<1> HIDE DEF varsPlp, varsIo, varsMemoria
<1>6. CASE RecibirInterrumpido
  BY ONLY <1>5, <1>6 DEF RecibirInterrumpido, Devolviendo
<1>7. CASE AvisarAtendida("post_interrumpido", "s_espero_replanificacion")
  BY ONLY <1>5, <1>7 DEF AvisarAtendida, Devolviendo
<1>8. CASE RecibirEsperarReplanificacion
  BY ONLY <1>5, <1>8 DEF RecibirEsperarReplanificacion, Devolviendo
<1>9. CASE RecibirMirarInterrupcion
  BY ONLY <1>5, <1>9 DEF RecibirMirarInterrupcion, Devolviendo
<1>10. CASE AvisarAtendida("post_atendida", "post")
  BY ONLY <1>5, <1>10 DEF AvisarAtendida, Devolviendo
<1>11. CASE RecibirDescartar
  BY ONLY <1>5, <1>11 DEF RecibirDescartar, Devolviendo
<1> QED BY <1>2, <1>3, <1>4, <1>6, <1>7, <1>8, <1>9, <1>10, <1>11
   DEF Devoluciones

-----------------------------------------------------------------------------
(* Types.                                                                   *)

\* The labels of sjf.c.
EtapasSrt ==
    /\ pc["agregar_a_ready"] \in
         TrasEncolar \cup {"inicio", "susp_readyM_l", "unblock_l", "newM_l",
                           "ready_l"}
    /\ pc["enviar_a_ejecutar"] \in {"inicio", "s_cpu", "ready_l", "enviar"}
    /\ pc["recibir_proceso_de_cpu"] \in Devolviendo \cup {"inicio"}

\* The variables of sjf.c and of the CPU.
TipoEspera ==
    /\ interrumpidos_l \in Seq(PCBViva)
    /\ s_interrupcion_atendida \in Nat /\ s_espero_replanificacion \in Nat

TipoBanderas ==
    /\ proceso_ejecutando \in BOOLEAN /\ interrupcion \in BOOLEAN
    /\ lista_size \in Nat

TipoEstimacion ==
    /\ estimado \in [Proceso -> 0 .. MODULO - 1]
    /\ tiempo \in [Proceso -> 0 .. MODULO - 1]

TipoInterrupt ==
    pedidos \in Nat /\ interrupcionCpu \in BOOLEAN /\ porLimpiar \in BOOLEAN

\* The type invariant is those parts.
LEMMA TypeOKPartes ==
    /\ TypeOK <=> /\ TipoKernel /\ EtapasSrt /\ TipoEspera /\ TipoBanderas
                  /\ TipoEstimacion /\ TipoInterrupt
    /\ TypeOK' <=> /\ TipoKernel' /\ EtapasSrt' /\ TipoEspera' /\ TipoBanderas'
                   /\ TipoEstimacion' /\ TipoInterrupt'
BY TiposConstantes
   DEF TypeOK, EtapasSrt, TipoEspera, TipoBanderas, TipoEstimacion,
       TipoInterrupt

\* A step that leaves these variables alone keeps their types.
LEMMA TipoSrtIgual ==
    /\ TipoEspera /\ UNCHANGED varsEspera => TipoEspera'
    /\ TipoBanderas /\ UNCHANGED varsBanderas => TipoBanderas'
    /\ TipoEstimacion /\ UNCHANGED varsEstimacion => TipoEstimacion'
    /\ TipoInterrupt /\ UNCHANGED varsInterrupt => TipoInterrupt'
BY TiposConstantes
   DEF TipoEspera, TipoBanderas, TipoEstimacion, TipoInterrupt, varsEspera,
       varsBanderas, varsEstimacion, varsInterrupt

\* An unsigned number is what it is modulo 2^32.
LEMMA SinSigno ==
    ASSUME NEW i \in Int
    PROVE  i % MODULO \in 0 .. MODULO - 1
BY EstimacionAssumption

\* The average of two unsigned numbers is one (sjf.c:98-105).
LEMMA EstimacionTipo ==
    ASSUME NEW a \in 0 .. MODULO - 1, NEW b \in 0 .. MODULO - 1
    PROVE  CalcularEstimacion(a, b) \in 0 .. MODULO - 1
<1>1. /\ MODULO \in Nat /\ MODULO > 0 /\ ALFA \in 0 .. 10
      /\ a \in Nat /\ a < MODULO /\ b \in Nat /\ b < MODULO
  BY EstimacionAssumption
<1>2. \A n \in Nat : n < 10 * MODULO => n \div 10 \in 0 .. MODULO - 1
  BY <1>1
<1>3. /\ b * (10 - ALFA) + ALFA * a \in Nat
      /\ b * (10 - ALFA) + ALFA * a < 10 * MODULO
  <2>1. ALFA \in {0, 1, 2, 3, 4, 5, 6, 7, 8, 9, 10}
    BY <1>1
  <2> QED BY ONLY <1>1, <2>1
<1> QED BY <1>2, <1>3 DEF CalcularEstimacion

\* The three threads of sjf.c keep to their labels.
LEMMA EtapasSrtPaso ==
    ASSUME TypeOK, AgregarAReady \/ EnviarAEjecutar \/ Devoluciones
    PROVE  EtapasSrt'
<1>0. /\ EtapasSrt /\ pc = [h \in Hilos |-> pc[h]]
  BY TypeOKPartes DEF TipoKernel, TipoHilos
<1> USE DEF EtapasSrt, Hilos, Ir, TrasEncolar, Devolviendo
<1>1. CASE AgregarAReady
  BY <1>0, <1>1
  DEF AgregarAReady, AgregarEsperar, AgregarElegir, AgregarElegirNew,
      AgregarEntregar, AgregarMirarEjecutando, Interrumpir, InterrumpirEnviar,
      AgregarEsperarAtendida, AgregarInterrumpido, AgregarSinInterrumpido,
      AgregarAvisarReplanificacion, AgregarAvisarInterrumpido,
      AgregarFinInterrupcion, AgregarMostrar, AgregarRecorrer, AgregarAvisar,
      Esperar, Avisar, Tomar
<1>2. CASE EnviarAEjecutar
  BY <1>0, <1>2
  DEF EnviarAEjecutar, EnviarEsperar, EnviarEsperarCpu, EnviarTomar,
      EnviarDespachar, Esperar, Tomar
<1>3. CASE Devoluciones
  BY <1>0, <1>3
  DEF Devoluciones, RecibirPcb, RecibirInterrumpido, AvisarAtendida,
      RecibirEsperarReplanificacion, RecibirBloqueado, RecibirFinalizado,
      RecibirLiberarCpu, RecibirAvisarBloqueado, RecibirAvisarFinalizado,
      RecibirMirarInterrupcion, RecibirDescartar, Avisar, Entregar, Dejar
<1> QED BY <1>1, <1>2, <1>3

\* A step that moves thread h between labels where it carries nothing, or not at
\* all, and writes nothing else of Kernel but sem or caida, keeps the types.
LEMMA TipoCaminar ==
    ASSUME TipoKernel, NEW h \in Hilos, NEW d, d \notin Carga[h], pc[h] = d,
           NEW e \in Etapas[h], e \notin Carga[h], Ir(h, e) \/ UNCHANGED pc,
           NEW x \in Semaforos, Wait(x) \/ Post(x) \/ UNCHANGED sem,
           caida' \in {caida, "ready_l_corta"},
           UNCHANGED <<lista, pcb, varsPlp, varsIo, varsMemoria, varsSocket>>
    PROVE  TipoKernel'
<1>1. TipoHilos'
  <2>1. CASE Ir(h, e)
    BY <2>1, TipoSeguir DEF TipoKernel, Lleva
  <2>2. CASE UNCHANGED pc
    BY <2>2, TipoIgual DEF TipoKernel
  <2> QED BY <2>1, <2>2
<1>2. sem' \in [Semaforos -> Nat]
  BY SemTipo
<1>3. TipoListas' /\ TipoIo' /\ TipoPlp' /\ TipoMemoria' /\ TipoCpu'
  BY TipoIgual DEF TipoKernel
<1> QED BY <1>1, <1>2, <1>3 DEF TipoKernel

\* agregar_a_ready_sjf keeps the types of Kernel.
LEMMA TipoAgregarAReady ==
    ASSUME TypeOK, Cuentas, AgregarAReady
    PROVE  TipoKernel'
<1>1. TipoKernel /\ CuentasKernel /\ TipoEspera
  BY Antes, TypeOKPartes
<1>2. ASSUME NEW x \in PCBViva,
             lista' = [lista EXCEPT !["ready_l"] = AgregarOrdenado(@, x)]
      PROVE  TipoListas'
  <2>1. lista["ready_l"] \in Seq(PCBViva) /\ Cabe("ready_l") = PCBViva
    BY <1>1 DEF TipoKernel, TipoListas, Listas, Cabe
  <2>2. AgregarOrdenado(lista["ready_l"], x) \in Seq(Cabe("ready_l"))
    BY <2>1, OrdenadoTipo
  <2>3. lista' = [lista EXCEPT !["ready_l"] = AgregarOrdenado(lista["ready_l"], x)]
    BY <1>2
  <2> QED BY ONLY <1>1, <2>2, <2>3, TipoCambiar DEF TipoKernel, Listas
<1>3. CASE AgregarEntregar
  <2> USE <1>3 DEF AgregarEntregar
  <2>1. pcb["agregar_a_ready"] \in PCBViva
    BY <1>1, CargaDe, PcbDeHilo DEF Hilos
  <2>2. TipoListas'
    BY <1>2, <2>1
  <2>3. "proceso_ejecutando" \in Etapas["agregar_a_ready"]
        /\ "proceso_ejecutando" \notin Carga["agregar_a_ready"]
    BY EtapasDe, CargaDe
  <2>4. TipoHilos'
    BY <1>1, <2>3, TipoSoltar DEF TipoKernel, Hilos
  <2> QED BY ONLY <1>1, <1>3, <2>2, <2>4, TipoIgual
    DEF AgregarEntregar, TipoKernel
<1>4. CASE AgregarInterrumpido
  <2> USE <1>4 DEF AgregarInterrumpido
  <2>1. Head(interrumpidos_l) \in PCBViva
    BY <1>1, CabezaTipo DEF TipoEspera
  <2>2. TipoListas'
    BY <1>2, <2>1
  <2>3. /\ "post_replanificacion" \in Etapas["agregar_a_ready"]
        /\ "post_replanificacion" \notin Carga["agregar_a_ready"]
        /\ "interrumpidos_l" \notin Carga["agregar_a_ready"]
    BY EtapasDe, CargaDe
  <2>4. TipoHilos'
    BY <1>1, <2>3, TipoSeguir DEF TipoKernel, Hilos, Lleva
  <2> QED BY ONLY <1>1, <1>4, <2>2, <2>4, TipoIgual
    DEF AgregarInterrumpido, TipoKernel
<1>5. ASSUME NEW d \in TrasEncolar, pc["agregar_a_ready"] = d,
             NEW e \in TrasEncolar \cup {"inicio"},
             Ir("agregar_a_ready", e) \/ UNCHANGED pc,
             Post("s_cpu") \/ UNCHANGED sem,
             caida' \in {caida, "ready_l_corta"},
             UNCHANGED <<lista, pcb, varsPlp, varsIo, varsMemoria, varsSocket>>
      PROVE  TipoKernel'
  <2>1. /\ d \notin Carga["agregar_a_ready"] /\ e \notin Carga["agregar_a_ready"]
        /\ e \in Etapas["agregar_a_ready"]
    BY <1>5, EtapasDe, CargaDe DEF TrasEncolar
  <2>2. "agregar_a_ready" \in Hilos /\ "s_cpu" \in Semaforos
    BY DEF Hilos, Semaforos
  <2> QED BY ONLY <1>1, <1>5, <2>1, <2>2, TipoCaminar
<1>6. CASE AgregarMirarEjecutando
  BY ONLY <1>5, <1>6 DEF AgregarMirarEjecutando, TrasEncolar
<1>7. CASE Interrumpir
  BY ONLY <1>5, <1>7 DEF Interrumpir, TrasEncolar
<1>8. CASE InterrumpirEnviar
  BY ONLY <1>5, <1>8 DEF InterrumpirEnviar, TrasEncolar
<1>9. CASE AgregarEsperarAtendida
  BY ONLY <1>5, <1>9 DEF AgregarEsperarAtendida, TrasEncolar
<1>10. CASE AgregarSinInterrumpido
  BY ONLY <1>5, <1>10 DEF AgregarSinInterrumpido, TrasEncolar
<1>11. CASE AgregarAvisarReplanificacion
  BY ONLY <1>5, <1>11 DEF AgregarAvisarReplanificacion, TrasEncolar
<1>12. CASE AgregarFinInterrupcion
  BY ONLY <1>5, <1>12 DEF AgregarFinInterrupcion, TrasEncolar
<1>13. CASE AgregarMostrar
  BY ONLY <1>5, <1>13 DEF AgregarMostrar, TrasEncolar
<1>14. CASE AgregarRecorrer
  BY ONLY <1>5, <1>14 DEF AgregarRecorrer, TrasEncolar
<1>15. CASE AgregarAvisarInterrumpido
  BY ONLY <1>5, <1>15 DEF AgregarAvisarInterrumpido, Avisar, TrasEncolar
<1>16. CASE AgregarAvisar
  BY ONLY <1>5, <1>16 DEF AgregarAvisar, Avisar, TrasEncolar
<1> QED BY <1>1, <1>3, <1>4, <1>6, <1>7, <1>8, <1>9, <1>10, <1>11, <1>12,
   <1>13, <1>14, <1>15, <1>16, TipoAgregarComun, AgregarAReady DEF AgregarAReady

\* enviar_a_ejecutar_sjf keeps the types of Kernel.
LEMMA TipoEnviarAEjecutar ==
    ASSUME TypeOK, Cuentas, EnviarAEjecutar
    PROVE  TipoKernel'
<1>1. TipoKernel
  BY Antes
<1>2. /\ {"s_cpu", "ready_l", "enviar", "inicio"} \subseteq
             Etapas["enviar_a_ejecutar"]
      /\ Carga["enviar_a_ejecutar"] = {"enviar"}
      /\ "enviar_a_ejecutar" \in Hilos /\ "ready_l" \in Listas
      /\ "s_cpu" \in Semaforos /\ "s_proceso_ejecutando" \in Semaforos
  BY EtapasDe, CargaDe DEF Hilos, Semaforos, Listas
<1>3. CASE EnviarEsperar
  BY ONLY <1>1, <1>2, <1>3, TipoEsperar DEF EnviarEsperar
<1>4. CASE EnviarEsperarCpu
  BY ONLY <1>1, <1>2, <1>4, TipoCaminar DEF EnviarEsperarCpu
<1>5. CASE EnviarTomar
  <2>1. Cabe("ready_l") \subseteq Lleva("enviar_a_ejecutar", "enviar")
    BY <1>2 DEF Cabe, Lleva
  <2>2. Largo("ready_l") > 0 /\ Tomar("enviar_a_ejecutar", "ready_l", "enviar")
    BY <1>5, ReadyNuncaVacia DEF EnviarTomar
  <2>3. TipoListas' /\ TipoHilos'
    BY ONLY <1>1, <1>2, <2>1, <2>2, TipoTomar
  <2> QED BY ONLY <1>1, <1>5, <2>3, TipoIgual DEF EnviarTomar, TipoKernel
<1>6. CASE EnviarDespachar
  <2>1. pcb["enviar_a_ejecutar"] \in PCBViva
    BY <1>1, <1>2, <1>6, PcbDeHilo DEF EnviarDespachar
  <2>2. TipoCpu'
    BY <1>1, <1>6, <2>1, DespacharTipo, TipoCpuPaso
    DEF EnviarDespachar, TipoKernel, TipoCpu, Devuelto
  <2>3. TipoHilos'
    BY <1>1, <1>2, <1>6, TipoSoltar DEF EnviarDespachar, TipoKernel
  <2> QED BY ONLY <1>1, <1>6, <2>2, <2>3, TipoIgual
    DEF EnviarDespachar, TipoKernel
<1> QED BY <1>3, <1>4, <1>5, <1>6 DEF EnviarAEjecutar

\* devoluciones keeps the types of Kernel.
LEMMA TipoDevoluciones ==
    ASSUME TypeOK, Devoluciones
    PROVE  TipoKernel'
<1>1. TipoKernel
  BY DEF TypeOK
<1>2. CASE RecibirPcb
  <2> DEFINE m == Head(desdeCpu)
             e == CASE m.estado = "INTERRUMPIDO" -> "interrumpidos_l"
                    [] m.estado = "BLOQUEADO" -> "block_l"
                    [] m.estado = "FINALIZADO" -> "finalizado_l"
                    [] OTHER -> "descartar"
  <2>1. m.pcb \in PCB /\ (m.estado = "FINALIZADO" <=> m.pcb \in PCBFin)
    BY <1>1, <1>2, RecibirTipo DEF RecibirPcb, TipoKernel
  <2>2. e \in Etapas["recibir_proceso_de_cpu"]
    BY EtapasDe
  <2>3. m.pcb \in Lleva("recibir_proceso_de_cpu", e)
    BY <2>1, CargaDe DEF Lleva, PCBFin
  <2> QED BY <1>1, <1>2, <2>2, <2>3, TipoRecibirPcb DEF RecibirPcb
<1>3. /\ Devolviendo \cup {"inicio"} \subseteq Etapas["recibir_proceso_de_cpu"]
      /\ Carga["recibir_proceso_de_cpu"] =
           {"finalizado_l", "block_l", "interrumpidos_l", "descartar", "muerto"}
      /\ "recibir_proceso_de_cpu" \in Hilos
      /\ "s_io_pendiente" \in Semaforos /\ "s_proceso_finalizado" \in Semaforos
  BY EtapasDe, CargaDe DEF Hilos, Semaforos, Devolviendo
<1>4. ASSUME NEW d, pc["recibir_proceso_de_cpu"] = d,
             NEW e \in Devolviendo,
             d \notin Carga["recibir_proceso_de_cpu"],
             e \notin Carga["recibir_proceso_de_cpu"],
             Ir("recibir_proceso_de_cpu", e),
             NEW x \in Semaforos, Post(x) \/ UNCHANGED sem,
             UNCHANGED <<lista, pcb, varsPlp, varsIo, varsMemoria, caida,
                         varsSocket>>
      PROVE  TipoKernel'
  BY ONLY <1>1, <1>3, <1>4, TipoCaminar
<1>5. ASSUME pc["recibir_proceso_de_cpu"] \in {"interrumpidos_l", "descartar"},
             NEW e \in {"post_interrumpido", "post"},
             Ir("recibir_proceso_de_cpu", e),
             pcb' = [pcb EXCEPT !["recibir_proceso_de_cpu"] = NULO],
             UNCHANGED <<lista, sem, varsPlp, varsIo, varsMemoria, caida,
                         varsSocket>>
      PROVE  TipoKernel'
  <2>1. TipoHilos'
    BY <1>1, <1>3, <1>5, TipoSoltar DEF TipoKernel, Devolviendo
  <2> QED BY ONLY <1>1, <1>5, <2>1, TipoIgual DEF TipoKernel
<1>6. CASE RecibirInterrumpido
  BY ONLY <1>5, <1>6 DEF RecibirInterrumpido
<1>7. CASE RecibirDescartar
  BY ONLY <1>5, <1>7 DEF RecibirDescartar
<1>8. CASE AvisarAtendida("post_interrumpido", "s_espero_replanificacion")
  BY ONLY <1>3, <1>4, <1>8 DEF AvisarAtendida, Devolviendo
<1>9. CASE AvisarAtendida("post_atendida", "post")
  BY ONLY <1>3, <1>4, <1>9 DEF AvisarAtendida, Devolviendo
<1>10. CASE RecibirEsperarReplanificacion
  BY ONLY <1>3, <1>4, <1>10 DEF RecibirEsperarReplanificacion, Devolviendo
<1>11. CASE RecibirMirarInterrupcion
  BY ONLY <1>3, <1>4, <1>11 DEF RecibirMirarInterrupcion, Devolviendo
<1>12. CASE RecibirAvisarBloqueado
  BY ONLY <1>3, <1>4, <1>12 DEF RecibirAvisarBloqueado, Avisar, Devolviendo
<1>13. CASE RecibirAvisarFinalizado
  BY ONLY <1>3, <1>4, <1>13 DEF RecibirAvisarFinalizado, Avisar, Devolviendo
<1> QED BY <1>1, <1>2, <1>6, <1>7, <1>8, <1>9, <1>10, <1>11, <1>12, <1>13,
   TipoRecibirComun DEF Devoluciones

\* The CPU keeps the types of Kernel.
LEMMA TipoDeCpu ==
    ASSUME TypeOK, CpuEjecutar \/ CpuLimpiar \/ AtencionInterrupt
    PROVE  TipoKernel'
<1>1. TipoKernel /\ UNCHANGED varsKernel
  BY DEF TypeOK, CpuEjecutar, CpuLimpiar, AtencionInterrupt
<1>2. TipoCpu'
  <2>1. CASE CpuEjecutar
    BY <1>1, <2>1, CpuSocket DEF TipoKernel
  <2>2. CASE CpuLimpiar \/ AtencionInterrupt
    BY <1>1, <2>2, TipoIgual DEF CpuLimpiar, AtencionInterrupt, TipoKernel
  <2> QED BY <2>1, <2>2
<1> QED BY ONLY <1>1, <1>2, TipoIgual DEF TipoKernel, varsKernel

\* What sjf.c and the CPU write in the variables of their own.
LEMMA TipoPropio ==
    ASSUME TypeOK, Cuentas,
           \/ AgregarAReady \/ EnviarAEjecutar \/ Devoluciones
           \/ CpuEjecutar \/ CpuLimpiar \/ AtencionInterrupt
    PROVE  TipoEspera' /\ TipoBanderas' /\ TipoEstimacion' /\ TipoInterrupt'
<1>1. /\ TipoKernel /\ TipoEspera /\ TipoBanderas /\ TipoEstimacion
      /\ TipoInterrupt
  BY TypeOKPartes
<1>2. UNCHANGED varsSrt =>
         TipoEspera' /\ TipoBanderas' /\ TipoEstimacion' /\ TipoInterrupt'
  BY ONLY <1>1, TipoSrtIgual DEF varsSrt
<1>3. CASE \/ AgregarEsperar /\ UNCHANGED varsSrt
           \/ AgregarElegir("susp_readyM_l", "unblock_l") /\ UNCHANGED varsSrt
           \/ AgregarElegir("unblock_l", "newM_l") /\ UNCHANGED varsSrt
           \/ AgregarElegirNew /\ UNCHANGED varsSrt
           \/ AgregarEntregar \/ AgregarMirarEjecutando
           \/ AgregarSinInterrumpido \/ AgregarAvisarInterrumpido
           \/ AgregarAvisar
           \/ EnviarEsperar \/ EnviarEsperarCpu \/ EnviarTomar
           \/ (RecibirBloqueado \/ RecibirFinalizado \/ RecibirLiberarCpu)
                 /\ UNCHANGED varsSrt
           \/ RecibirAvisarBloqueado \/ RecibirAvisarFinalizado
           \/ RecibirMirarInterrupcion \/ RecibirDescartar
  BY ONLY <1>2, <1>3
  DEF AgregarEntregar, AgregarMirarEjecutando, AgregarSinInterrumpido,
      AgregarAvisarInterrumpido, AgregarAvisar, EnviarEsperar,
      EnviarEsperarCpu, EnviarTomar, RecibirAvisarBloqueado,
      RecibirAvisarFinalizado, RecibirMirarInterrupcion, RecibirDescartar
<1>4. CASE \/ Interrumpir \/ AgregarFinInterrupcion \/ AgregarMostrar
           \/ AgregarRecorrer \/ EnviarDespachar
  <2>1. Len(lista["ready_l"]) \in Nat
    BY <1>1, LenProperties DEF TipoKernel, TipoListas, Listas
  <2>2. TipoBanderas'
    <3> USE DEF Interrumpir, AgregarFinInterrupcion, AgregarMostrar,
            AgregarRecorrer, EnviarDespachar, TipoBanderas
    <3>1. lista_size' \in Nat
      BY ONLY <1>1, <1>4, <2>1
    <3>2. proceso_ejecutando' \in BOOLEAN /\ interrupcion' \in BOOLEAN
      BY ONLY <1>1, <1>4, Zenon
    <3> QED BY ONLY <3>1, <3>2
  <2>3. TipoEspera' /\ TipoEstimacion' /\ TipoInterrupt'
    BY ONLY <1>1, <1>4, TipoSrtIgual
    DEF Interrumpir, AgregarFinInterrupcion, AgregarMostrar, AgregarRecorrer,
        EnviarDespachar
  <2> QED BY <2>2, <2>3
<1>5. CASE \/ InterrumpirEnviar \/ CpuEjecutar \/ CpuLimpiar
           \/ AtencionInterrupt
  <2>1. TipoInterrupt'
    <3>1. pedidos' \in Nat
      <4>1. \/ pedidos' = pedidos \/ pedidos' = pedidos + 1
            \/ pedidos > 0 /\ pedidos' = pedidos - 1
        BY ONLY <1>5
        DEF InterrumpirEnviar, CpuEjecutar, CpuLimpiar, AtencionInterrupt
      <4>2. pedidos \in Nat
        BY ONLY <1>1 DEF TipoInterrupt
      <4> QED BY ONLY <4>1, <4>2
    <3>2. interrupcionCpu' \in BOOLEAN
      BY ONLY <1>1, <1>5, Zenon
      DEF InterrumpirEnviar, CpuEjecutar, CpuLimpiar, AtencionInterrupt,
          TipoInterrupt
    <3>3. porLimpiar' \in BOOLEAN
      <4>1. CASE CpuEjecutar
        <5>1. \E f : porLimpiar' = ~f
          BY ONLY <4>1, Zenon DEF CpuEjecutar
        <5> QED BY ONLY <5>1, Zenon
      <4> QED BY ONLY <1>1, <1>5, <4>1, Zenon
        DEF InterrumpirEnviar, CpuLimpiar, AtencionInterrupt, TipoInterrupt
    <3> QED BY ONLY <3>1, <3>2, <3>3 DEF TipoInterrupt
  <2>2. TipoEspera' /\ TipoEstimacion' /\ TipoBanderas'
    BY ONLY <1>1, <1>5, TipoSrtIgual
    DEF InterrumpirEnviar, CpuEjecutar, CpuLimpiar, AtencionInterrupt
  <2> QED BY <2>1, <2>2
<1>6. CASE \/ AgregarEsperarAtendida \/ AgregarInterrumpido
           \/ AgregarAvisarReplanificacion \/ RecibirInterrumpido
           \/ AvisarAtendida("post_interrumpido", "s_espero_replanificacion")
           \/ AvisarAtendida("post_atendida", "post")
           \/ RecibirEsperarReplanificacion
  <2>1. interrumpidos_l' \in Seq(PCBViva)
    <3>1. CASE RecibirInterrumpido
      <4>1. pcb["recibir_proceso_de_cpu"] \in PCBViva
        BY <1>1, <3>1, CargaDe, PcbDeHilo DEF RecibirInterrumpido, Hilos
      <4> QED BY <1>1, <3>1, <4>1, AppendProperties
        DEF RecibirInterrumpido, TipoEspera
    <3>2. CASE AgregarInterrumpido
      BY <1>1, <3>2, CabezaTipo DEF AgregarInterrumpido, TipoEspera
    <3>3. CASE UNCHANGED interrumpidos_l
      BY ONLY <1>1, <3>3, TiposConstantes DEF TipoEspera
    <3> QED BY ONLY <1>6, <3>1, <3>2, <3>3
      DEF AgregarEsperarAtendida, AgregarAvisarReplanificacion, AvisarAtendida,
          RecibirEsperarReplanificacion
  <2>2. s_interrupcion_atendida' \in Nat /\ s_espero_replanificacion' \in Nat
    BY ONLY <1>1, <1>6
    DEF AgregarEsperarAtendida, AgregarInterrumpido,
        AgregarAvisarReplanificacion, RecibirInterrumpido, AvisarAtendida,
        RecibirEsperarReplanificacion, TipoEspera
  <2>3. TipoBanderas' /\ TipoEstimacion' /\ TipoInterrupt'
    BY ONLY <1>1, <1>6, TipoSrtIgual
    DEF AgregarEsperarAtendida, AgregarInterrumpido,
        AgregarAvisarReplanificacion, RecibirInterrumpido, AvisarAtendida,
        RecibirEsperarReplanificacion
  <2>4. TipoEspera'
    BY <2>1, <2>2, TiposConstantes DEF TipoEspera
  <2> QED BY <2>3, <2>4
<1>7. CASE RecibirPcb
  <2> DEFINE m == Head(desdeCpu)
             p == m.pcb.pid
  <2>1. p \in Proceso
    <3>1. m.pcb \in PCB
      BY <1>1, <1>7, RecibirTipo DEF RecibirPcb, TipoKernel
    <3> QED BY <3>1 DEF PCB
  <2>2. PICK d \in Duraciones :
          LET t == (tiempo[p] + d) % MODULO
          IN  \/ /\ estimado' = [estimado EXCEPT ![p] =
                                   ActualizarEstimacion(estimado[p], t)]
                 /\ tiempo' = [tiempo EXCEPT ![p] = t]
              \/ /\ estimado' = [estimado EXCEPT ![p] =
                                   CalcularEstimacion(estimado[p], t)]
                 /\ tiempo' = [tiempo EXCEPT ![p] = 0]
              \/ estimado' = estimado /\ tiempo' = [tiempo EXCEPT ![p] = t]
    BY ONLY <1>7 DEF RecibirPcb
  <2> HIDE DEF p
  <2> DEFINE t == (tiempo[p] + d) % MODULO
  <2>3. /\ estimado \in [Proceso -> 0 .. MODULO - 1]
        /\ tiempo \in [Proceso -> 0 .. MODULO - 1]
        /\ estimado[p] \in 0 .. MODULO - 1 /\ tiempo[p] \in 0 .. MODULO - 1
        /\ d \in 0 .. MODULO - 1 /\ MODULO \in Nat /\ 0 \in 0 .. MODULO - 1
    BY <1>1, <2>1, EstimacionAssumption DEF TipoEstimacion
  <2>4. t \in 0 .. MODULO - 1
    <3>1. tiempo[p] + d \in Int
      BY ONLY <2>3
    <3> QED BY <3>1, SinSigno
  <2> HIDE DEF t
  <2>5. /\ ActualizarEstimacion(estimado[p], t) \in 0 .. MODULO - 1
        /\ CalcularEstimacion(estimado[p], t) \in 0 .. MODULO - 1
    <3>1. estimado[p] - t \in Int
      BY ONLY <2>3, <2>4
    <3> QED BY <2>3, <2>4, <3>1, SinSigno, EstimacionTipo
      DEF ActualizarEstimacion
  <2>6. \/ /\ estimado' = [estimado EXCEPT ![p] =
                             ActualizarEstimacion(estimado[p], t)]
           /\ tiempo' = [tiempo EXCEPT ![p] = t]
        \/ /\ estimado' = [estimado EXCEPT ![p] =
                             CalcularEstimacion(estimado[p], t)]
           /\ tiempo' = [tiempo EXCEPT ![p] = 0]
        \/ estimado' = estimado /\ tiempo' = [tiempo EXCEPT ![p] = t]
    BY <2>2 DEF t
  <2>7. /\ estimado' \in [Proceso -> 0 .. MODULO - 1]
        /\ tiempo' \in [Proceso -> 0 .. MODULO - 1]
    BY ONLY <2>1, <2>3, <2>4, <2>5, <2>6
  <2>8. TipoEstimacion'
    BY <2>7 DEF TipoEstimacion, Proceso
  <2>9. TipoBanderas'
    BY ONLY <1>1, <1>7 DEF RecibirPcb, TipoBanderas
  <2>10. TipoEspera' /\ TipoInterrupt'
    BY ONLY <1>1, <1>7, TipoSrtIgual DEF RecibirPcb
  <2> QED BY <2>8, <2>9, <2>10
<1> QED BY <1>3, <1>4, <1>5, <1>6, <1>7
   DEF AgregarAReady, EnviarAEjecutar, Devoluciones

-----------------------------------------------------------------------------
(* What was looked up is still there.                                       *)

\* The threads of SRT and the CPU have nothing to do with it.
LEMMA BusquedaSrt ==
    ASSUME TypeOK, BusquedaVigente,
           \/ AgregarAReady \/ EnviarAEjecutar \/ Devoluciones
           \/ CpuEjecutar \/ CpuLimpiar \/ AtencionInterrupt
    PROVE  BusquedaVigente'
<1> DEFINE Igual ==
      /\ UNCHANGED comunicaciones_l
      /\ lista'["susp_block_l"] = lista["susp_block_l"]
      /\ pc'["io"] = pc["io"] /\ pcb'["io"] = pcb["io"]
      /\ pc'["finalizar_procesos"] = pc["finalizar_procesos"]
      /\ pcb'["finalizar_procesos"] = pcb["finalizar_procesos"]
<1>0. /\ lista = [l \in Listas |-> lista[l]]
      /\ pc = [h \in Hilos |-> pc[h]] /\ pcb = [h \in Hilos |-> pcb[h]]
  BY DEF TypeOK, TipoKernel, TipoListas, TipoHilos
<1>1. CASE AgregarAReady
  <2>1. ASSUME NEW l \in {"susp_readyM_l", "unblock_l"},
               NEW otra \in {"unblock_l", "newM_l"}, AgregarElegir(l, otra)
        PROVE  Igual
    BY ONLY <1>0, <2>1 DEF AgregarElegir, Tomar, Ir, Hilos, Listas, varsPlp
  <2>2. ASSUME AgregarEntregar \/ AgregarInterrumpido
        PROVE  Igual
    BY ONLY <1>0, <2>2 DEF AgregarEntregar, AgregarInterrumpido, Ir, Hilos,
       Listas, varsPlp
  <2>3. ASSUME \/ AgregarEsperar \/ AgregarElegirNew
               \/ AgregarAvisarInterrumpido \/ AgregarAvisar
        PROVE  Igual
    BY ONLY <1>0, <2>3 DEF AgregarEsperar, AgregarElegirNew,
       AgregarAvisarInterrumpido, AgregarAvisar, Esperar, Avisar, Tomar, Ir,
       Hilos, Listas, varsPlp
  <2>4. ASSUME \/ AgregarMirarEjecutando \/ Interrumpir \/ InterrumpirEnviar
               \/ AgregarEsperarAtendida \/ AgregarSinInterrumpido
               \/ AgregarAvisarReplanificacion \/ AgregarFinInterrupcion
               \/ AgregarMostrar \/ AgregarRecorrer
        PROVE  Igual
    BY ONLY <1>0, <2>4 DEF AgregarMirarEjecutando, Interrumpir,
       InterrumpirEnviar, AgregarEsperarAtendida, AgregarSinInterrumpido,
       AgregarAvisarReplanificacion, AgregarFinInterrupcion, AgregarMostrar,
       AgregarRecorrer, Ir, Hilos, Listas, varsPlp
  <2> QED BY <1>1, <2>1, <2>2, <2>3, <2>4, BusquedaIgual DEF AgregarAReady
<1>2. CASE EnviarAEjecutar
  BY <1>0, <1>2, BusquedaIgual DEF EnviarAEjecutar, EnviarEsperar,
     EnviarEsperarCpu, EnviarTomar, EnviarDespachar, Esperar, Tomar, Ir, Hilos,
     Listas, varsPlp
<1>3. CASE CpuEjecutar \/ CpuLimpiar \/ AtencionInterrupt
  BY <1>3, BusquedaIgual DEF CpuEjecutar, CpuLimpiar, AtencionInterrupt,
     varsKernel, varsPlp
<1>4. CASE Devoluciones
  BY <1>0, <1>4, BusquedaIgual DEF Devoluciones, RecibirPcb,
     RecibirInterrumpido, AvisarAtendida, RecibirEsperarReplanificacion,
     RecibirBloqueado, RecibirFinalizado, RecibirLiberarCpu,
     RecibirAvisarBloqueado, RecibirAvisarFinalizado, RecibirMirarInterrupcion,
     RecibirDescartar, Avisar, Entregar, Dejar, Ir, Hilos, Listas, varsPlp
<1> QED BY <1>1, <1>2, <1>3, <1>4

-----------------------------------------------------------------------------
(* The theorems.                                                            *)

\* Before any console connects every account is settled.
LEMMA InicioInvariante == Init => IInv
<1> SUFFICES ASSUME Init PROVE IInv
  OBVIOUS
<1>1. /\ TipoKernel /\ CuentasKernel /\ BusquedaVigente
      /\ Largo("ready_l") = 0 /\ Valor("s_cpu") = 0
      /\ Valor("s_proceso_ejecutando") = 1
      /\ Despachados = 0 /\ Devueltos = 0
      /\ \A h \in Hilos : \A E : "inicio" \notin E => En(h, E) = 0
  BY InicioKernel DEF Init
<1>2. TypeOK
  <2>1. EtapasSrt
    BY DEF Init, InitKernel, EtapasSrt, Hilos
  <2>2. TipoEspera
    BY DEF Init, TipoEspera
  <2>4. TipoBanderas /\ TipoInterrupt
    <3>1. lista_size \in Nat /\ pedidos \in Nat
      BY DEF Init
    <3>2. /\ proceso_ejecutando \in BOOLEAN /\ interrupcion \in BOOLEAN
          /\ interrupcionCpu \in BOOLEAN /\ porLimpiar \in BOOLEAN
      BY Zenon DEF Init
    <3> QED BY ONLY <3>1, <3>2 DEF TipoBanderas, TipoInterrupt
  <2>3. TipoEstimacion
    BY EstimacionAssumption DEF Init, TipoEstimacion
  <2> QED BY <1>1, <2>1, <2>2, <2>3, <2>4, TypeOKPartes
<1>3. TokensCpu /\ UnSoloProceso
  BY ONLY <1>1 DEF TokensCpu, UnSoloProceso, Hilos, TrasEncolar, Devolviendo
<1> QED BY <1>1, <1>2, <1>3, CuentasPartes DEF IInv

\* Every step of every thread, and of the CPU, keeps IInv.
LEMMA PasoInvariante == IInv /\ [Next]_vars => IInv'
<1> SUFFICES ASSUME IInv, [Next]_vars PROVE IInv'
  OBVIOUS
<1>1. /\ TypeOK /\ Cuentas /\ BusquedaVigente /\ TipoKernel /\ CuentasKernel
      /\ TokensCpu /\ UnSoloProceso /\ EtapasSrt /\ TipoEspera /\ TipoBanderas
      /\ TipoEstimacion /\ TipoInterrupt
  BY CuentasPartes, TypeOKPartes DEF IInv
<1>2. CASE Resto(NextKernel)
  <2>1. /\ TipoKernel' /\ CuentasKernel' /\ BusquedaVigente'
        /\ PcpIgual /\ PcpQuieto
    BY <1>1, <1>2, NextKernelInvariante DEF Resto, Vivo
  <2>2. TypeOK'
    <3>1. EtapasSrt'
      BY <1>1, <2>1 DEF EtapasSrt, PcpQuieto, HilosPcp
    <3> QED BY ONLY <1>1, <1>2, <2>1, <3>1, TypeOKPartes, TipoSrtIgual
       DEF Resto, varsSrt
  <2>3. TokensCpu' /\ UnSoloProceso'
    BY ONLY <1>1, <2>1
    DEF TokensCpu, UnSoloProceso, PcpIgual, HilosPcp, SocketIgual
  <2> QED BY <2>1, <2>2, <2>3, CuentasPartes DEF IInv
<1>3. CASE AgregarAReady \/ EnviarAEjecutar \/ Devoluciones
  <2>1. Cuentas'
    BY <1>1, <1>3, CuentasAgregarAReady, CuentasEnviarAEjecutar,
       CuentasDevoluciones
  <2>2. TipoKernel'
    BY <1>1, <1>3, TipoAgregarAReady, TipoEnviarAEjecutar, TipoDevoluciones
  <2>3. EtapasSrt' /\ BusquedaVigente'
    BY <1>1, <1>3, EtapasSrtPaso, BusquedaSrt
  <2>4. TipoEspera' /\ TipoBanderas' /\ TipoEstimacion' /\ TipoInterrupt'
    BY <1>1, <1>3, TipoPropio
  <2> QED BY <2>1, <2>2, <2>3, <2>4, TypeOKPartes DEF IInv
<1>4. CASE CpuEjecutar \/ CpuLimpiar \/ AtencionInterrupt
  <2>1. Cuentas'
    BY <1>1, <1>4, CuentasCpu
  <2>2. TipoKernel' /\ BusquedaVigente'
    BY <1>1, <1>4, TipoDeCpu, BusquedaSrt
  <2>3. EtapasSrt'
    BY <1>1, <1>4 DEF CpuEjecutar, CpuLimpiar, AtencionInterrupt, EtapasSrt,
       varsKernel
  <2>4. TipoEspera' /\ TipoBanderas' /\ TipoEstimacion' /\ TipoInterrupt'
    BY <1>1, <1>4, TipoPropio
  <2> QED BY <2>1, <2>2, <2>3, <2>4, TypeOKPartes DEF IInv
<1>5. CASE UNCHANGED vars
  <2>1. /\ TipoKernel' /\ CuentasKernel' /\ BusquedaVigente' /\ PcpIgual
    BY <1>1, <1>5, KernelIgual DEF vars
  <2>2. TypeOK'
    <3>1. EtapasSrt'
      BY <1>1, <1>5 DEF EtapasSrt, vars, varsKernel
    <3> QED BY ONLY <1>1, <1>5, <2>1, <3>1, TypeOKPartes, TipoSrtIgual
       DEF vars, varsSrt
  <2>3. TokensCpu' /\ UnSoloProceso'
    BY ONLY <1>1, <2>1
    DEF TokensCpu, UnSoloProceso, PcpIgual, HilosPcp, SocketIgual
  <2> QED BY <2>1, <2>2, <2>3, CuentasPartes DEF IInv
<1> QED BY <1>2, <1>3, <1>4, <1>5 DEF Next, Vivo, Reposo

\* The inductive invariant holds in every reachable state.
THEOREM Invariante == Spec => []IInv
BY InicioInvariante, PasoInvariante, PTL DEF Spec

\* The threads and the CPU keep to their types: an interrupted PCB always has
\* instructions to run, an estimate is always an unsigned number, and a PCB that
\* has executed EXIT is nowhere but in finalizado_l, in exit_l or on its way.
THEOREM Tipos == Spec => []TypeOK
<1>1. IInv => TypeOK
  BY DEF IInv
<1> QED BY <1>1, Invariante, PTL

\* No list_remove(l, 0) of the scheduler, but the one of planificador_io, ever
\* finds its list empty: every sem_post announces a PCB that is there, the one
\* that an interruption puts back included.
THEOREM AnunciosCiertos == Spec => []TokensCoinciden
<1>1. IInv => TokensCoinciden
  BY DEF IInv, Cuentas
<1> QED BY <1>1, Invariante, PTL

\* The CPU never has two processes, and none is chosen while an interrupted one
\* waits for the replanning, whatever the interleaving.
THEOREM ExclusionCpu == Spec => []UnSoloProceso
<1>1. IInv => UnSoloProceso
  BY DEF IInv, Cuentas
<1> QED BY <1>1, Invariante, PTL

\* Interruptions do not disturb the degree of multiprogramming: it is what the
\* loads, the suspensions and the ends account for.
THEOREM GradoCuadra == Spec => []BalanceGrado
<1>1. IInv => BalanceGrado
  BY DEF IInv, Cuentas
<1> QED BY <1>1, Invariante, PTL

\* remover_de_lista and buscar_comunicacion never remove what is not there.
THEOREM BusquedaSegura == Spec => []BusquedaVigente
<1>1. IInv => BusquedaVigente
  BY DEF IInv
<1> QED BY <1>1, Invariante, PTL

-----------------------------------------------------------------------------
(* Where each process is.                                                   *)

\* What list_add_sorted adds is one process, wherever it goes.
LEMMA OrdenadoPids ==
    ASSUME NEW S, NEW l \in Seq(S), NEW x \in S
    PROVE  LET r == AgregarOrdenado(l, x)
           IN  /\ Pids(r) = Pids(l) \cup {x.pid}
               /\ SinRepetir(l) /\ x.pid \notin Pids(l) => SinRepetir(r)
<1> DEFINE n == Len(l)
           r == AgregarOrdenado(l, x)
<1>0. Insertado(l, x, r)
  BY OrdenadoElementos
<1>1. r \in Seq(S) /\ Len(r) = n + 1 /\ n \in Nat
  BY OrdenadoElementos, LenProperties
<1>2. PICK k \in 0 .. n : /\ \A i \in 1 .. k : r[i] = l[i]
                          /\ r[k + 1] = x
                          /\ \A i \in k + 1 .. n : r[i + 1] = l[i]
  BY ONLY <1>0 DEF Insertado, InsertadoTras
<1>3. DOMAIN r = 1 .. n + 1 /\ DOMAIN l = 1 .. n /\ k \in Nat /\ k <= n
  BY <1>1, <1>2, LenProperties
<1> HIDE DEF r, n
\* Where the element i of r was in l.
<1> DEFINE Donde(i) == IF i <= k THEN i ELSE i - 1
<1>4. ASSUME NEW i \in 1 .. n + 1, i # k + 1
      PROVE  Donde(i) \in 1 .. n /\ r[i] = l[Donde(i)]
  <2>1. CASE i <= k
    <3>1. i \in 1 .. k /\ i \in 1 .. n /\ Donde(i) = i
      BY ONLY <1>1, <1>3, <1>4, <2>1
    <3> QED BY <1>2, <3>1
  <2>2. CASE ~(i <= k)
    <3>1. /\ i - 1 \in k + 1 .. n /\ i - 1 \in 1 .. n /\ (i - 1) + 1 = i
          /\ Donde(i) = i - 1
      BY ONLY <1>1, <1>3, <1>4, <2>2
    <3> QED BY <1>2, <3>1
  <2> QED BY <2>1, <2>2
<1>5. ASSUME NEW i \in 1 .. n + 1, NEW j \in 1 .. n + 1,
             i # k + 1, j # k + 1, Donde(i) = Donde(j)
      PROVE  i = j
  <2>1. n \in Nat /\ k \in Nat
    BY <1>1, <1>3
  <2>2. CASE i <= k /\ j <= k
    BY ONLY <1>5, <2>2
  <2>3. CASE i <= k /\ ~(j <= k)
    BY ONLY <1>5, <2>1, <2>3
  <2>4. CASE ~(i <= k) /\ j <= k
    BY ONLY <1>5, <2>1, <2>4
  <2>5. CASE ~(i <= k) /\ ~(j <= k)
    BY ONLY <1>5, <2>1, <2>5
  <2> QED BY <2>2, <2>3, <2>4, <2>5
<1> HIDE DEF Donde
<1>6. Pids(r) \subseteq Pids(l) \cup {x.pid}
  <2>1. ASSUME NEW i \in 1 .. n + 1 PROVE r[i].pid \in Pids(l) \cup {x.pid}
    <3>1. CASE i = k + 1
      BY <1>2, <3>1
    <3>2. CASE i # k + 1
      BY <1>3, <1>4, <3>2 DEF Pids
    <3> QED BY <3>1, <3>2
  <2> QED BY <1>3, <2>1 DEF Pids
<1>7. Pids(l) \cup {x.pid} \subseteq Pids(r)
  <2>1. ASSUME NEW i \in 1 .. n PROVE l[i].pid \in Pids(r)
    <3>1. CASE i <= k
      <4>1. i \in 1 .. k /\ i \in 1 .. n + 1
        BY ONLY <1>1, <1>3, <2>1, <3>1
      <4> QED BY <1>2, <1>3, <4>1 DEF Pids
    <3>2. CASE ~(i <= k)
      <4>1. i \in k + 1 .. n /\ i + 1 \in 1 .. n + 1
        BY ONLY <1>1, <1>3, <2>1, <3>2
      <4> QED BY <1>2, <1>3, <4>1 DEF Pids
    <3> QED BY <3>1, <3>2
  <2>2. x.pid \in Pids(r)
    <3>1. k + 1 \in 1 .. n + 1
      BY ONLY <1>1, <1>3
    <3> QED BY <1>2, <1>3, <3>1 DEF Pids
  <2> QED BY <1>3, <2>1, <2>2 DEF Pids
<1>8. ASSUME SinRepetir(l), x.pid \notin Pids(l) PROVE SinRepetir(r)
  <2> SUFFICES ASSUME NEW i \in 1 .. n + 1, NEW j \in 1 .. n + 1,
                      r[i].pid = r[j].pid
               PROVE  i = j
    BY <1>3 DEF SinRepetir
  <2>1. \A m \in 1 .. n + 1 : m # k + 1 => r[m].pid \in Pids(l)
    BY <1>3, <1>4 DEF Pids
  <2>2. i = k + 1 <=> j = k + 1
    BY <1>2, <1>8, <2>1
  <2>3. CASE i # k + 1
    <3>1. /\ Donde(i) \in DOMAIN l /\ Donde(j) \in DOMAIN l
          /\ l[Donde(i)].pid = l[Donde(j)].pid
      BY <1>3, <1>4, <2>2, <2>3
    <3>2. Donde(i) = Donde(j)
      BY <1>8, <3>1 DEF SinRepetir
    <3> QED BY <1>5, <2>2, <2>3, <3>2
  <2> QED BY <2>2, <2>3
<1> QED BY <1>6, <1>7, <1>8 DEF r

\* The interrupted processes.
Interrumpidos == Pids(interrumpidos_l)

\* An interrupted process is in interrumpidos_l once, and nowhere else.
InterrumpidosInv ==
    /\ SinRepetir(interrumpidos_l)
    /\ Interrumpidos \subseteq Ausentes

LInv == LugaresInv /\ InterrumpidosInv /\ AvisoInv /\ MensajesInv

\* The processes are where they were or have moved, and nobody was interrupted
\* or put back in ready_l.
Tranquilo ==
    /\ LugaresInv' /\ Ausentes' = Ausentes /\ UNCHANGED interrumpidos_l
    /\ BloqueoIgual /\ DetallesIguales

\* Thread h goes on, and moves nobody.
SigueHilo(h) ==
    /\ UNCHANGED <<lista, pcb, varsPlp, varsIo, varsMemoria>>
    /\ UNCHANGED varsSocket /\ UNCHANGED interrumpidos_l
    /\ \A g \in Hilos \ {h} : pc'[g] = pc[g]
    /\ pc'["recibir_proceso_de_cpu"] = "post_io_pendiente" <=>
          pc["recibir_proceso_de_cpu"] = "post_io_pendiente"
    /\ sem'["s_io_pendiente"] = sem["s_io_pendiente"]

\* Nothing more is known of such a step, nor needed.
LEMMA LugaresSigue ==
    ASSUME LugaresInv, NEW h \in Hilos, h # "planificador_io", SigueHilo(h)
    PROVE  Tranquilo
<1>1. pc'["planificador_io"] = pc["planificador_io"] /\ UNCHANGED consola
  BY DEF SigueHilo, Hilos, varsPlp
<1>2. Conserva
  BY <1>1, LugarQuieto DEF SigueHilo
<1>3. BloqueoIgual /\ DetallesIguales
  BY <1>1 DEF SigueHilo, BloqueoIgual, DetallesIguales, En, varsPlp, varsIo,
     varsMemoria
<1> QED BY <1>1, <1>2, <1>3, CabezaIgual, LugaresConserva, IngresadosIgual
        DEF Tranquilo, SigueHilo

\* One process at most is in each direction of the socket.
LEMMA SocketCorto ==
    ASSUME TypeOK, Cuentas
    PROVE  Despachados <= 1 /\ Devueltos <= 1
<1>1. Naturales /\ UnSoloProceso
  BY Antes
<1> QED BY ONLY <1>1 DEF UnSoloProceso, Naturales, Listas, Semaforos

\* A list_add_sorted to ready_l.
LEMMA LugarOrdenar ==
    ASSUME TipoKernel, LugaresInv, NEW x \in PCB,
           lista' = [lista EXCEPT !["ready_l"] = AgregarOrdenado(@, x)],
           x.pid \notin Tiene("ready_l")
    PROVE  /\ Tiene("ready_l")' = Tiene("ready_l") \cup {x.pid}
           /\ \A l \in ListasPcb \ {"ready_l"} : Tiene(l)' = Tiene(l)
           /\ SinRepetidos'
<1> DEFINE q == lista["ready_l"]
<1>1. "ready_l" \in ListasPcb /\ "ready_l" \in Listas
  BY DEF ListasPcb, Listas
<1>2. q \in Seq(PCB) /\ SinRepetir(q)
  BY <1>1, ListaDePcb DEF LugaresInv, SinRepetidos
<1>3. Tiene("ready_l") = Pids(q)
  BY <1>1, TieneCasos
<1>4. /\ lista'["ready_l"] = AgregarOrdenado(q, x)
      /\ \A l \in ListasPcb \ {"ready_l"} : lista'[l] = lista[l]
  BY <1>1 DEF TipoKernel, TipoListas, ListasPcb
<1>5. /\ Pids(AgregarOrdenado(q, x)) = Pids(q) \cup {x.pid}
      /\ SinRepetir(AgregarOrdenado(q, x))
  BY <1>2, <1>3, OrdenadoPids
<1>6. Tiene("ready_l")' = Pids(q) \cup {x.pid}
  BY <1>1, <1>4, <1>5, TieneCasos
<1>7. SinRepetidos'
  BY <1>4, <1>5 DEF LugaresInv, SinRepetidos
<1> QED BY <1>3, <1>4, <1>6, <1>7, TieneIgual

\* agregar_a_ready_sjf delivers the process it carries to ready_l.
LEMMA LugaresEntregar ==
    ASSUME TypeOK, Cuentas, LugaresInv, AgregarEntregar
    PROVE  Tranquilo
<1> DEFINE h == "agregar_a_ready"
           x == pcb[h]
<1>0. /\ TipoKernel
      /\ lista = [l \in Listas |-> lista[l]] /\ pc = [g \in Hilos |-> pc[g]]
      /\ pcb = [g \in Hilos |-> pcb[g]] /\ h \in HilosPcb /\ h \in Hilos
      /\ "ready_l" \in ListasPcb /\ "ready_l" # h
      /\ h \in Contenedores /\ "ready_l" \in Contenedores
  BY DEF TypeOK, TipoKernel, TipoHilos, TipoListas, HilosPcb, Hilos, ListasPcb,
     Listas, Contenedores
<1>1. x \in PCB /\ x # NULO
  <2>1. pc[h] \in Carga[h] BY CargaDe DEF AgregarEntregar
  <2> QED BY <1>0, <2>1, PcbDeHilo
<1>2. /\ lista' = [lista EXCEPT !["ready_l"] = AgregarOrdenado(@, x)]
      /\ UNCHANGED varsSocket /\ UNCHANGED consola
      /\ UNCHANGED interrumpidos_l
      /\ BloqueoIgual /\ DetallesIguales
  BY <1>0 DEF AgregarEntregar, Ir, BloqueoIgual, DetallesIguales, En, Hilos,
     Listas, varsPlp, varsIo, varsMemoria, varsSrt, varsEspera
<1>3. /\ PidDe(h) = {x.pid} /\ PidDe(h)' = {}
      /\ \A g \in HilosPcb \ {h} : pc'[g] = pc[g] /\ pcb'[g] = pcb[g]
  BY <1>0, <1>1 DEF AgregarEntregar, Ir, PidDe, HilosPcb
<1>4. Tiene(h) = {x.pid} /\ Tiene(h)' = {}
  BY <1>0, <1>3, TieneCasos
<1>5. x.pid \notin Tiene("ready_l")
  BY <1>0, <1>4 DEF LugaresInv, Ajenos
<1> HIDE DEF x
<1>6. /\ Tiene("ready_l")' = Tiene("ready_l") \cup {x.pid}
      /\ \A l \in ListasPcb \ {"ready_l"} : Tiene(l)' = Tiene(l)
      /\ SinRepetidos'
  BY <1>0, <1>1, <1>2, <1>5, LugarOrdenar
<1>7. Iguales({h, "ready_l"})
  BY <1>2, <1>3, <1>6, TieneIgual DEF Iguales, Contenedores, varsSocket
<1>8. Mueve(h, "ready_l", x.pid)
  BY <1>4, <1>6, <1>7 DEF Mueve
<1>9. Conserva
  BY <1>0, <1>6, <1>8, AjenosMueve DEF LugaresInv, Conserva
<1> QED BY <1>2, <1>9, CabezaIgual, LugaresConserva, IngresadosIgual
        DEF Tranquilo

\* An interrupted process is put back: it leaves interrumpidos_l, where it was
\* only, for ready_l.
LEMMA LugaresInterrumpido ==
    ASSUME TypeOK, Cuentas, LugaresInv, InterrumpidosInv, AgregarInterrumpido
    PROVE  /\ LugaresInv' /\ InterrumpidosInv' /\ BloqueoIgual /\ DetallesIguales
           /\ \E p \in Interrumpidos : /\ Interrumpidos' = Interrumpidos \ {p}
                                       /\ Ausentes' = Ausentes \ {p}
<1> DEFINE q == interrumpidos_l
           x == Head(q)
<1>0. /\ TipoKernel /\ q \in Seq(PCBViva) /\ q # <<>>
      /\ lista = [l \in Listas |-> lista[l]] /\ pc = [g \in Hilos |-> pc[g]]
      /\ "ready_l" \in ListasPcb /\ "ready_l" \in Contenedores
  BY DEF TypeOK, TipoKernel, TipoHilos, TipoListas, ListasPcb, Listas,
     Contenedores, AgregarInterrumpido
<1>1. x \in PCB
  BY <1>0, CabezaTipo DEF PCBViva
<1>2. /\ x.pid \in Pids(q) /\ Pids(Tail(q)) = Pids(q) \ {x.pid}
      /\ SinRepetir(Tail(q))
  BY <1>0, PidsTail DEF InterrumpidosInv
<1>3. /\ lista' = [lista EXCEPT !["ready_l"] = AgregarOrdenado(@, x)]
      /\ interrumpidos_l' = Tail(q) /\ UNCHANGED pcb
      /\ UNCHANGED varsSocket /\ UNCHANGED consola
      /\ BloqueoIgual /\ DetallesIguales
  BY <1>0 DEF AgregarInterrumpido, Ir, BloqueoIgual, DetallesIguales, En, Hilos,
     Listas, varsPlp, varsIo, varsMemoria
<1>4. \A g \in HilosPcb : Tiene(g)' = Tiene(g)
  <2>1. ASSUME NEW g \in HilosPcb PROVE PidDe(g)' = PidDe(g)
    BY <1>0, <1>3 DEF AgregarInterrumpido, Ir, PidDe, HilosPcb
  <2> QED BY <2>1, TieneCasos
<1>5. x.pid \in Ausentes /\ x.pid \notin Presentes
  BY <1>2 DEF InterrumpidosInv, Interrumpidos, Ausentes
<1>6. x.pid \notin Tiene("ready_l")
  BY <1>0, <1>5 DEF Presentes
<1> HIDE DEF x
<1>7. /\ Tiene("ready_l")' = Tiene("ready_l") \cup {x.pid}
      /\ \A l \in ListasPcb \ {"ready_l"} : Tiene(l)' = Tiene(l)
      /\ SinRepetidos'
  BY <1>0, <1>1, <1>3, <1>6, LugarOrdenar
<1>8. Iguales({"ready_l"})
  BY <1>3, <1>4, <1>7, TieneIgual DEF Iguales, Contenedores, varsSocket
<1>9. Ajenos' /\ Presentes' = Presentes \cup {x.pid}
  BY <1>0, <1>5, <1>7, <1>8, AjenosEntra DEF Entra, LugaresInv
<1>10. Ingresados' = Ingresados /\ CabezaVigente'
  BY <1>3, CabezaIgual, IngresadosIgual
<1>11. LugaresInv'
  BY <1>5, <1>7, <1>9, <1>10 DEF LugaresInv, Ausentes
<1>12. Ausentes' = Ausentes \ {x.pid}
  BY <1>9, <1>10 DEF Ausentes
<1>13. x.pid \in Interrumpidos /\ Interrumpidos' = Interrumpidos \ {x.pid}
  BY <1>2, <1>3 DEF Interrumpidos
<1>14. InterrumpidosInv'
  BY <1>2, <1>3, <1>12, <1>13 DEF InterrumpidosInv
<1> QED BY <1>3, <1>11, <1>12, <1>13, <1>14

\* Every other step of agregar_a_ready_sjf leaves the interrupted where they are.
LEMMA LugaresAgregarAReady ==
    ASSUME TypeOK, Cuentas, LugaresInv, AgregarAReady
    PROVE  Tranquilo \/ AgregarInterrumpido
<1> DEFINE h == "agregar_a_ready"
<1>0. /\ TipoKernel /\ CuentasKernel
      /\ pc = [g \in Hilos |-> pc[g]] /\ sem = [x \in Semaforos |-> sem[x]]
      /\ h \in Hilos /\ h # "planificador_io"
  BY Antes DEF TipoKernel, TipoHilos, Hilos
<1>1. CASE /\ \/ AgregarEsperar \/ AgregarElegir("susp_readyM_l", "unblock_l")
              \/ AgregarElegir("unblock_l", "newM_l") \/ AgregarElegirNew
           /\ UNCHANGED varsSrt
  BY <1>0, <1>1, LugaresAgregarComun, DetallesComun
  DEF Tranquilo, varsSrt, varsEspera
<1>2. CASE AgregarEntregar
  BY <1>2, LugaresEntregar
<1>3. CASE \/ AgregarMirarEjecutando \/ Interrumpir \/ InterrumpirEnviar
           \/ AgregarEsperarAtendida \/ AgregarSinInterrumpido
           \/ AgregarAvisarReplanificacion \/ AgregarFinInterrupcion
           \/ AgregarMostrar \/ AgregarRecorrer
  <2>1. SigueHilo(h)
    BY <1>0, <1>3
    DEF AgregarMirarEjecutando, Interrumpir, InterrumpirEnviar,
        AgregarEsperarAtendida, AgregarSinInterrumpido,
        AgregarAvisarReplanificacion, AgregarFinInterrupcion, AgregarMostrar,
        AgregarRecorrer, SigueHilo, Ir, Hilos, varsSrt, varsEspera
  <2> QED BY <1>0, <2>1, LugaresSigue
<1>4. CASE AgregarAvisarInterrumpido \/ AgregarAvisar
  <2>1. SigueHilo(h)
    BY <1>0, <1>4
    DEF AgregarAvisarInterrumpido, AgregarAvisar, Avisar, Post, SigueHilo, Ir,
        Hilos, Semaforos, varsSrt, varsEspera
  <2> QED BY <1>0, <2>1, LugaresSigue
<1> QED BY <1>1, <1>2, <1>3, <1>4 DEF AgregarAReady

\* enviar_a_ejecutar_sjf sends the process it carries.
LEMMA LugaresDespachar ==
    ASSUME TypeOK, LugaresInv, EnviarDespachar
    PROVE  Tranquilo
<1> DEFINE h == "enviar_a_ejecutar"
           x == pcb[h]
<1>0. /\ TipoKernel
      /\ pc = [g \in Hilos |-> pc[g]] /\ pcb = [g \in Hilos |-> pcb[g]]
      /\ h \in HilosPcb /\ h \in Hilos /\ h # "haciaCpu"
      /\ h \in Contenedores /\ "haciaCpu" \in Contenedores
  BY DEF TypeOK, TipoKernel, TipoHilos, HilosPcb, Hilos, Contenedores
<1>1. x \in PCBViva /\ x # NULO
  <2>1. pc[h] \in Carga[h] /\ pc[h] # "finalizado_l"
    BY CargaDe DEF EnviarDespachar
  <2> QED BY <1>0, <2>1, PcbDeHilo
<1>2. /\ haciaCpu' = Append(haciaCpu, [pcb |-> x, estado |-> estado[x]])
      /\ UNCHANGED lista /\ UNCHANGED desdeCpu /\ UNCHANGED consola
      /\ UNCHANGED interrumpidos_l
      /\ BloqueoIgual /\ DetallesIguales
  BY <1>0 DEF EnviarDespachar, Ir, BloqueoIgual, DetallesIguales, En, Hilos,
     varsPlp, varsIo, varsMemoria, varsEspera
<1>3. /\ PidDe(h) = {x.pid} /\ PidDe(h)' = {}
      /\ \A g \in HilosPcb \ {h} : pc'[g] = pc[g] /\ pcb'[g] = pcb[g]
  BY <1>0, <1>1 DEF EnviarDespachar, Ir, PidDe, HilosPcb
<1>4. Tiene("haciaCpu")' = Tiene("haciaCpu") \cup {x.pid}
  BY <1>0, <1>1, <1>2, SocketDespachar
<1> HIDE DEF x
<1>5. Tiene(h) = {x.pid} /\ Tiene(h)' = {}
  BY <1>0, <1>3, TieneCasos
<1>6. Iguales({h, "haciaCpu"})
  BY <1>2, <1>3, TieneIgual DEF Iguales, Contenedores
<1>7. Mueve(h, "haciaCpu", x.pid)
  BY <1>4, <1>5, <1>6 DEF Mueve
<1>8. Conserva
  <2>1. SinRepetidos'
    BY <1>2 DEF LugaresInv, SinRepetidos
  <2> QED BY <1>0, <1>7, <2>1, AjenosMueve DEF LugaresInv, Conserva
<1> QED BY <1>2, <1>8, CabezaIgual, LugaresConserva, IngresadosIgual
        DEF Tranquilo

\* enviar_a_ejecutar_sjf takes the first process of ready_l and sends it.
LEMMA LugaresEnviarAEjecutar ==
    ASSUME TypeOK, Cuentas, LugaresInv, EnviarAEjecutar
    PROVE  Tranquilo
<1> DEFINE h == "enviar_a_ejecutar"
<1>0. /\ TipoKernel /\ lista = [l \in Listas |-> lista[l]]
      /\ pc = [g \in Hilos |-> pc[g]] /\ pcb = [g \in Hilos |-> pcb[g]]
      /\ sem = [x \in Semaforos |-> sem[x]]
      /\ h \in HilosPcb /\ h \in Hilos /\ h # "planificador_io"
      /\ "ready_l" \in ListasPcb
  BY DEF TypeOK, TipoKernel, TipoHilos, TipoListas, HilosPcb, Hilos, ListasPcb,
     Listas
<1>1. CASE EnviarEsperar \/ EnviarEsperarCpu
  <2>1. SigueHilo(h)
    BY <1>0, <1>1
    DEF EnviarEsperar, EnviarEsperarCpu, Esperar, Wait, SigueHilo, Ir,
        Hilos, Semaforos, varsSrt, varsEspera
  <2> QED BY <1>0, <2>1, LugaresSigue
<1>2. CASE EnviarTomar
  <2>1. /\ pc[h] = "ready_l" /\ Tomar(h, "ready_l", "enviar")
        /\ UNCHANGED varsSocket /\ UNCHANGED consola
        /\ UNCHANGED interrumpidos_l
        /\ BloqueoIgual /\ DetallesIguales
    BY <1>0, <1>2 DEF EnviarTomar, Tomar, Ir, BloqueoIgual, DetallesIguales, En,
       Hilos, Listas, varsPlp, varsIo, varsMemoria, varsSrt, varsEspera
  <2>2. lista["ready_l"] # <<>>
    BY <1>0, <2>1, ReadyNuncaVacia, NoVaciaLista DEF ListasPcb
  <2>3. pcb[h] = NULO
    <3>1. pc[h] \notin Carga[h] BY <2>1, CargaDe
    <3> QED BY <1>0, <3>1, PcbDeHilo
  <2>4. Conserva
    BY <1>0, <2>1, <2>2, <2>3, LugarTomar
  <2> QED BY <2>1, <2>4, CabezaIgual, LugaresConserva, IngresadosIgual
          DEF Tranquilo
<1> QED BY <1>1, <1>2, LugaresDespachar DEF EnviarAEjecutar

\* The CPU goes on with its process, or returns it.
LEMMA LugaresCpu ==
    ASSUME TypeOK, Cuentas, LugaresInv,
           CpuEjecutar \/ CpuLimpiar \/ AtencionInterrupt
    PROVE  Tranquilo
<1>1. UNCHANGED varsKernel /\ UNCHANGED interrumpidos_l
  BY DEF CpuEjecutar, CpuLimpiar, AtencionInterrupt, varsEspera
<1>2. /\ UNCHANGED <<lista, pc, pcb>> /\ UNCHANGED consola
      /\ BloqueoIgual /\ DetallesIguales
  BY <1>1 DEF varsKernel, varsPlp, varsIo, varsMemoria, BloqueoIgual,
     DetallesIguales, En
<1>3. CASE CpuLimpiar \/ AtencionInterrupt
  <2>1. Conserva
    BY <1>2, <1>3, LugarQuieto DEF CpuLimpiar, AtencionInterrupt
  <2> QED BY <1>1, <1>2, <2>1, CabezaIgual, LugaresConserva, IngresadosIgual
          DEF Tranquilo
<1>4. CASE CpuEjecutar
  <2> DEFINE m == Head(haciaCpu)
             x == m.pcb
             operacion == Programa[x.pid][x.pc + 1]
             sigue == operacion = "NO_OP" /\ ~interrupcionCpu
             y == [x EXCEPT !.pc = @ + 1]
             e == CASE operacion = "I_O" -> "BLOQUEADO"
                    [] operacion = "EXIT" -> "FINALIZADO"
                    [] operacion = "NO_OP" /\ ~sigue -> "INTERRUMPIDO"
                    [] OTHER -> m.estado
             d == [pcb |-> y, estado |-> e]
  <2>1. /\ haciaCpu \in Seq(Enviado) /\ haciaCpu # <<>> /\ Len(haciaCpu) <= 1
        /\ m \in Enviado /\ m = haciaCpu[1]
    BY <1>4, SocketCorto, CabezaTipo
    DEF TypeOK, TipoKernel, TipoCpu, CpuEjecutar, Enviado, Despachados
  <2>2. x \in PCBViva /\ m.estado \in Estado
    BY <2>1 DEF Enviado
  <2>3. y \in PCB /\ y.pid = x.pid
    BY <2>2, SiguienteTipo
  <2>4. e \in Estado
    BY <2>2 DEF Estado
  <2>5. d \in [pcb : PCB, estado : Estado] /\ d.pcb.pid = m.pcb.pid
    BY <2>3, <2>4
  <2>6. \/ /\ haciaCpu' = [haciaCpu EXCEPT ![1] = d] /\ desdeCpu' = desdeCpu
        \/ /\ haciaCpu' = Tail(haciaCpu) /\ desdeCpu' = Append(desdeCpu, d)
    BY <1>4 DEF CpuEjecutar, Siguiente
  <2> HIDE DEF d
  <2>7. Conserva
    <3>1. CASE /\ haciaCpu' = Tail(haciaCpu) /\ desdeCpu' = Append(desdeCpu, d)
      BY <1>2, <2>1, <2>5, <3>1, SocketCorto, LugarCpu DEF TypeOK
    <3>2. CASE haciaCpu' = [haciaCpu EXCEPT ![1] = d] /\ desdeCpu' = desdeCpu
      <4>1. DOMAIN haciaCpu = {1} /\ DOMAIN haciaCpu' = {1} /\ haciaCpu'[1] = d
        <5>1. DOMAIN haciaCpu = {1}
          BY <2>1, SocketTail
        <5> QED BY <3>2, <5>1
      <4>2. SocketPids(haciaCpu') = SocketPids(haciaCpu)
        BY <2>1, <2>5, <4>1 DEF SocketPids
      <4>3. Iguales({})
        BY <1>2, <3>2, <4>2, TieneIgual, TieneSocket DEF Iguales, Contenedores
      <4>4. SinRepetidos'
        BY <1>2 DEF LugaresInv, SinRepetidos
      <4> QED BY <4>3, <4>4, AjenosIguales DEF LugaresInv, Conserva
    <3> QED BY <2>6, <3>1, <3>2
  <2> QED BY <1>1, <1>2, <2>7, CabezaIgual, LugaresConserva, IngresadosIgual
          DEF Tranquilo
<1> QED BY <1>3, <1>4

\* devoluciones leaves the PCB it carries where Tiene does not look.
LEMMA LugaresSoltar ==
    ASSUME TipoKernel, LugaresInv, NEW e,
           pcb["recibir_proceso_de_cpu"] \in PCB,
           pcb' = [pcb EXCEPT !["recibir_proceso_de_cpu"] = NULO],
           Ir("recibir_proceso_de_cpu", e),
           UNCHANGED lista, UNCHANGED consola, UNCHANGED varsSocket
    PROVE  /\ LugaresInv'
           /\ pcb["recibir_proceso_de_cpu"].pid \notin Ausentes
           /\ Ausentes' =
                 Ausentes \cup {pcb["recibir_proceso_de_cpu"].pid}
<1> DEFINE h == "recibir_proceso_de_cpu"
           x == pcb[h]
<1>0. /\ h \in HilosPcb /\ h \in Hilos /\ h \in Contenedores
      /\ h # "planificador_io" /\ x # NULO
      /\ pc = [g \in Hilos |-> pc[g]] /\ pcb = [g \in Hilos |-> pcb[g]]
  BY NuloAssumption DEF HilosPcb, Hilos, Contenedores, TipoKernel, TipoHilos
<1>1. /\ PidDe(h) = {x.pid} /\ PidDe(h)' = {}
      /\ \A g \in HilosPcb \ {h} : pc'[g] = pc[g] /\ pcb'[g] = pcb[g]
      /\ pc'["planificador_io"] = pc["planificador_io"]
      /\ pcb'["planificador_io"] = pcb["planificador_io"]
  BY <1>0 DEF Ir, PidDe, HilosPcb, Hilos
<1>2. Tiene(h) = {x.pid} /\ Tiene(h)' = {}
  BY <1>0, <1>1, TieneCasos
<1> HIDE DEF x
<1>3. Sale(h, x.pid)
  BY <1>1, <1>2, TieneIgual DEF Sale, Iguales, Contenedores, varsSocket
<1>4. Ajenos' /\ Presentes' = Presentes \ {x.pid} /\ x.pid \in Presentes
  BY <1>0, <1>3, AjenosSale DEF LugaresInv, Presentes, Sale
<1>5. SinRepetidos' /\ CabezaVigente'
  BY <1>1 DEF LugaresInv, SinRepetidos, CabezaVigente
<1>6. Ingresados' = Ingresados
  BY IngresadosIgual
<1> QED BY <1>4, <1>5, <1>6 DEF LugaresInv, Ausentes, x

\* An interrupted process goes from devoluciones to interrumpidos_l.
LEMMA LugaresRecibirInterrumpido ==
    ASSUME TypeOK, LugaresInv, InterrumpidosInv, RecibirInterrumpido
    PROVE  /\ LugaresInv' /\ InterrumpidosInv' /\ BloqueoIgual
           /\ DetallesIguales
           /\ \E p : /\ p \notin Interrumpidos /\ p \notin Ausentes
                     /\ Interrumpidos' = Interrumpidos \cup {p}
                     /\ Ausentes' = Ausentes \cup {p}
<1> DEFINE h == "recibir_proceso_de_cpu"
           q == interrumpidos_l
           x == pcb[h]
<1>0. /\ TipoKernel /\ q \in Seq(PCBViva) /\ h \in Hilos
      /\ pc = [g \in Hilos |-> pc[g]] /\ pcb = [g \in Hilos |-> pcb[g]]
  BY DEF TypeOK, TipoKernel, TipoHilos, Hilos
<1>1. x \in PCBViva /\ x \in PCB
  <2>1. pc[h] \in Carga[h] /\ pc[h] # "finalizado_l"
    BY CargaDe DEF RecibirInterrumpido
  <2> QED BY <1>0, <2>1, PcbDeHilo DEF PCBViva
<1>2. BloqueoIgual /\ DetallesIguales
  BY <1>0 DEF RecibirInterrumpido, Ir, BloqueoIgual, DetallesIguales, En,
     Hilos, varsPlp, varsIo, varsMemoria
<1>3. /\ LugaresInv' /\ x.pid \notin Ausentes
      /\ Ausentes' = Ausentes \cup {x.pid}
  BY <1>0, <1>1, <1>2, LugaresSoltar
  DEF RecibirInterrumpido, DetallesIguales
<1>4. interrumpidos_l' = Append(q, x)
  BY DEF RecibirInterrumpido
<1>5. x.pid \notin Interrumpidos
  BY <1>3 DEF InterrumpidosInv
<1> HIDE DEF x
<1>6. Interrumpidos' = Interrumpidos \cup {x.pid} /\ SinRepetir(interrumpidos_l)'
  BY <1>0, <1>1, <1>4, <1>5, PidsAppend DEF Interrumpidos, InterrumpidosInv
<1> QED BY <1>2, <1>3, <1>5, <1>6 DEF InterrumpidosInv

\* A PCB whose estado devoluciones does not know is lost.
LEMMA LugaresDescartar ==
    ASSUME TypeOK, LugaresInv, RecibirDescartar
    PROVE  /\ LugaresInv' /\ Ausentes \subseteq Ausentes'
           /\ UNCHANGED interrumpidos_l /\ DetallesIguales
<1> DEFINE h == "recibir_proceso_de_cpu"
<1>0. TipoKernel /\ pc = [g \in Hilos |-> pc[g]] /\ pcb = [g \in Hilos |-> pcb[g]]
  BY DEF TypeOK, TipoKernel, TipoHilos
<1>1. pcb[h] \in PCB
  <2>1. pc[h] \in Carga[h]
    BY CargaDe DEF RecibirDescartar
  <2> QED BY <1>0, <2>1, PcbDeHilo DEF Hilos
<1>2. UNCHANGED interrumpidos_l /\ DetallesIguales
  BY <1>0 DEF RecibirDescartar, DetallesIguales, Hilos, varsPlp, varsIo,
     varsMemoria, varsSrt, varsEspera
<1> QED BY <1>0, <1>1, <1>2, LugaresSoltar DEF RecibirDescartar, DetallesIguales

\* devoluciones reads a PCB, posts, or goes on.
LEMMA LugaresDevolucionesTranquila ==
    ASSUME TypeOK, Cuentas, LugaresInv,
           \/ RecibirPcb
           \/ AvisarAtendida("post_interrumpido", "s_espero_replanificacion")
           \/ RecibirEsperarReplanificacion
           \/ (RecibirFinalizado \/ RecibirLiberarCpu) /\ UNCHANGED varsSrt
           \/ RecibirAvisarFinalizado \/ RecibirMirarInterrupcion
           \/ AvisarAtendida("post_atendida", "post")
    PROVE  Tranquilo
<1> DEFINE h == "recibir_proceso_de_cpu"
<1>0. /\ TipoKernel /\ h \in Hilos /\ h # "planificador_io"
      /\ pc = [g \in Hilos |-> pc[g]] /\ pcb = [g \in Hilos |-> pcb[g]]
      /\ sem = [x \in Semaforos |-> sem[x]]
  BY DEF TypeOK, TipoKernel, TipoHilos, Hilos
<1>1. CASE RecibirPcb
  <2>1. PICK e \in {"interrumpidos_l", "block_l", "finalizado_l", "descartar"} :
           Ir(h, e)
    BY <1>1 DEF RecibirPcb
  <2>2. /\ desdeCpu # <<>> /\ pc[h] = "inicio"
        /\ pcb' = [pcb EXCEPT ![h] = Head(desdeCpu).pcb]
        /\ desdeCpu' = Tail(desdeCpu)
        /\ UNCHANGED <<lista, haciaCpu>> /\ UNCHANGED interrumpidos_l
        /\ UNCHANGED <<sem, contador>> /\ UNCHANGED varsPlp
        /\ UNCHANGED varsMemoria
    BY <1>1 DEF RecibirPcb, varsEspera
  <2>3. Conserva
    BY <1>0, <2>1, <2>2, SocketCorto, LugarRecibir
  <2>4. BloqueoIgual /\ DetallesIguales
    BY <1>0, <2>1, <2>2 DEF Ir, BloqueoIgual, DetallesIguales, En, Hilos,
       varsPlp, varsMemoria
  <2> QED BY <2>2, <2>3, <2>4, CabezaIgual, LugaresConserva, IngresadosIgual
          DEF Tranquilo, DetallesIguales
<1>2. CASE (RecibirFinalizado \/ RecibirLiberarCpu) /\ UNCHANGED varsSrt
  BY <1>0, <1>2, LugaresRecibirComun, DetallesComun
  DEF Tranquilo, varsSrt, varsEspera
<1>3. CASE \/ AvisarAtendida("post_interrumpido", "s_espero_replanificacion")
           \/ RecibirEsperarReplanificacion \/ RecibirMirarInterrupcion
           \/ AvisarAtendida("post_atendida", "post")
  <2>1. SigueHilo(h)
    BY <1>0, <1>3
    DEF AvisarAtendida, RecibirEsperarReplanificacion, RecibirMirarInterrupcion,
        SigueHilo, Ir, Hilos, varsSrt, varsEspera
  <2> QED BY <1>0, <2>1, LugaresSigue
<1>4. CASE RecibirAvisarFinalizado
  <2>1. SigueHilo(h)
    BY <1>0, <1>4
    DEF RecibirAvisarFinalizado, Avisar, Post, SigueHilo, Ir, Hilos, Semaforos,
        varsSrt, varsEspera
  <2> QED BY <1>0, <2>1, LugaresSigue
<1> QED BY <1>1, <1>2, <1>3, <1>4

\* devoluciones announces a blocked PCB to planificador_io.
LEMMA LugaresAvisarBloqueado ==
    ASSUME TypeOK, LugaresInv, RecibirAvisarBloqueado
    PROVE  /\ LugaresInv' /\ Ausentes' = Ausentes /\ UNCHANGED interrumpidos_l
           /\ DetallesIguales
<1>0. pc = [g \in Hilos |-> pc[g]]
  BY DEF TypeOK, TipoKernel, TipoHilos
<1>1. /\ DetallesIguales /\ UNCHANGED consola /\ UNCHANGED interrumpidos_l
      /\ UNCHANGED <<lista, pcb>> /\ UNCHANGED varsSocket
      /\ pc'["planificador_io"] = pc["planificador_io"]
  BY <1>0 DEF RecibirAvisarBloqueado, Avisar, Ir, DetallesIguales, Hilos,
     varsPlp, varsIo, varsMemoria, varsSrt, varsEspera
<1>2. Conserva
  BY <1>1, LugarQuieto
<1>3. CabezaVigente'
  BY <1>1 DEF LugaresInv, CabezaVigente
<1> QED BY <1>1, <1>2, <1>3, LugaresConserva, IngresadosIgual

\* Whatever devoluciones does, each process is in one place.
LEMMA LugaresDevoluciones ==
    ASSUME TypeOK, Cuentas, LugaresInv, InterrumpidosInv, Devoluciones
    PROVE  LugaresInv' /\ InterrumpidosInv' /\ DetallesIguales
<1>1. CASE RecibirBloqueado /\ UNCHANGED varsSrt
  <2>1. TipoKernel
    BY DEF TypeOK
  <2>2. /\ LugaresInv' /\ DetallesIguales /\ Ausentes \subseteq Ausentes'
        /\ UNCHANGED interrumpidos_l
    BY <1>1, <2>1, LugaresRecibirBloqueado, DetallesComun
    DEF varsSrt, varsEspera
  <2> QED BY <2>2 DEF InterrumpidosInv, Interrumpidos
<1>2. CASE RecibirAvisarBloqueado
  BY <1>2, LugaresAvisarBloqueado DEF InterrumpidosInv, Interrumpidos
<1>3. CASE RecibirDescartar
  BY <1>3, LugaresDescartar DEF InterrumpidosInv, Interrumpidos
<1>4. CASE RecibirInterrumpido
  BY <1>4, LugaresRecibirInterrumpido
<1>5. ASSUME Tranquilo
      PROVE  LugaresInv' /\ InterrumpidosInv' /\ DetallesIguales
  BY <1>5 DEF Tranquilo, InterrumpidosInv, Interrumpidos
<1> QED BY <1>1, <1>2, <1>3, <1>4, <1>5, LugaresDevolucionesTranquila
        DEF Devoluciones

\* Every step of every thread keeps LInv and sends Memoria its messages in order.
LEMMA LugaresPaso ==
    IInv /\ LInv /\ [Next]_vars => LInv' /\ MensajesPaso
<1> SUFFICES ASSUME IInv, LInv, [Next]_vars
             PROVE  LInv' /\ MensajesPaso
  OBVIOUS
<1>1. /\ TypeOK /\ Cuentas /\ TipoKernel /\ CuentasKernel
      /\ LugaresInv /\ InterrumpidosInv /\ AvisoInv /\ MensajesInv
  BY CuentasPartes DEF IInv, LInv, TypeOK
<1>2. CASE Resto(NextKernel)
  <2>1. NextKernel /\ UNCHANGED varsSocket /\ UNCHANGED interrumpidos_l
    BY <1>2 DEF Resto, Vivo, varsSrt, varsEspera
  <2>2. LugaresInv' /\ Ausentes' = Ausentes
    BY <1>1, <2>1, LugaresNextKernel
  <2>3. InterrumpidosInv'
    BY <1>1, <2>1, <2>2 DEF InterrumpidosInv, Interrumpidos
  <2> QED BY <1>1, <2>1, <2>2, <2>3, AvisoNextKernel, MensajesNextKernel
          DEF LInv
<1>3. ASSUME LugaresInv', InterrumpidosInv', DetallesIguales
      PROVE  LInv' /\ MensajesPaso
  BY <1>1, <1>3, DetallesInv DEF LInv
<1>4. ASSUME Tranquilo PROVE LInv' /\ MensajesPaso
  BY <1>1, <1>3, <1>4 DEF Tranquilo, InterrumpidosInv, Interrumpidos
<1>5. CASE AgregarAReady \/ EnviarAEjecutar \/ Devoluciones
  BY <1>1, <1>3, <1>4, <1>5, LugaresAgregarAReady, LugaresInterrumpido,
     LugaresEnviarAEjecutar, LugaresDevoluciones
<1>6. CASE CpuEjecutar \/ CpuLimpiar \/ AtencionInterrupt
  BY <1>1, <1>4, <1>6, LugaresCpu
<1>7. CASE UNCHANGED vars
  <2>1. /\ UNCHANGED varsKernel /\ UNCHANGED varsSocket
        /\ UNCHANGED interrumpidos_l
    BY <1>7 DEF vars, varsSrt, varsEspera
  <2> QED BY <1>1, <2>1, LugaresNadie DEF LInv, InterrumpidosInv, Interrumpidos
<1> QED BY <1>2, <1>5, <1>6, <1>7 DEF Next, Vivo, Reposo

\* The second inductive invariant holds in every reachable state, on top of IInv.
THEOREM InvarianteLugares == Spec => [](IInv /\ LInv)
<1>1. Init => LInv
  <2> SUFFICES ASSUME Init PROVE LInv
    OBVIOUS
  <2>1. interrumpidos_l = <<>> /\ DOMAIN interrumpidos_l = {}
    BY DEF Init
  <2> QED BY <2>1, InicioLugares
          DEF Init, LInv, InterrumpidosInv, Interrumpidos, SinRepetir, Pids
<1> QED BY <1>1, Invariante, LugaresPaso, PTL DEF Spec

\* No process is ever in two lists of the scheduler, in a list and with a thread,
\* or on the socket twice, whatever crosses its interruption.
THEOREM UnSoloLugar == Spec => []PcbEnUnSoloLugar
<1>1. ASSUME IInv, LInv PROVE PcbEnUnSoloLugar
  <2>1. /\ LugaresInv /\ Despachados <= 1 /\ Devueltos <= 1 /\ TipoCpu
        /\ InterrumpidosInv
    BY <1>1, SocketCorto DEF IInv, LInv, TypeOK, TipoKernel
  <2>2. ASSUME NEW p \in Proceso PROVE Cardinality(LugaresSrt(p)) <= 1
    <3> DEFINE T == {<<"interrumpidos_l", i>> :
                  i \in {j \in DOMAIN interrumpidos_l :
                            interrumpidos_l[j].pid = p}}
    <3>1. \A u, v \in Lugares(p) : u = v
      BY <2>1, UnLugar
    <3>2. \A u, v \in T : u = v
      BY <2>1 DEF InterrumpidosInv, SinRepetir
    <3>3. Lugares(p) = {} \/ T = {}
      <4>1. Lugares(p) # {} => p \in Presentes
        BY <2>1, LugarUnico DEF Presentes
      <4>2. T # {} => p \in Interrumpidos
        BY DEF Interrumpidos, Pids
      <4> QED BY <2>1, <4>1, <4>2 DEF InterrumpidosInv, Ausentes
    <3>4. \A u, v \in LugaresSrt(p) : u = v
      BY <3>1, <3>2, <3>3 DEF LugaresSrt
    <3> QED BY <3>4, A_LoSumoUno
  <2> QED BY <2>2 DEF PcbEnUnSoloLugar
<1> QED BY <1>1, InvarianteLugares, PTL

\* A console is told of the end of its process after that process ran its EXIT,
\* and once.
THEOREM ConsolaAvisada == Spec => []AvisoTrasExit
<1>1. IInv /\ LInv => AvisoTrasExit
  BY AvisoDeInv DEF IInv, LInv, TypeOK
<1> QED BY <1>1, InvarianteLugares, PTL

\* Memoria is asked to initialise each pid once, and before anything else.
THEOREM OrdenDeMensajes == Spec => [][MensajesPaso]_vars
BY LugaresPaso, InvarianteLugares, PTL DEF Spec

-----------------------------------------------------------------------------
(* How many processes are lost.                                             *)

\* No program has an instruction that the CPU does not know (utlis.c:249).
ProgramasLegales ==
    \A p \in Proceso : \A i \in DOMAIN Programa[p] : Programa[p][i] # "INVALIDA"

\* What devoluciones tells apart.
EstadosConocidos == {"INTERRUMPIDO", "BLOQUEADO", "FINALIZADO"}

\* Every PCB on its way back, or just read, has one of those.
Conocidos ==
    /\ \A i \in DOMAIN desdeCpu : desdeCpu[i].estado \in EstadosConocidos
    /\ pc["recibir_proceso_de_cpu"] # "descartar"

\* The CPU writes the estado of every PCB it returns.
LEMMA ConocidosCpu ==
    ASSUME ProgramasLegales, TypeOK, Conocidos, CpuEjecutar
    PROVE  Conocidos'
<1> DEFINE m == Head(haciaCpu)
           x == m.pcb
           operacion == Programa[x.pid][x.pc + 1]
           sigue == operacion = "NO_OP" /\ ~interrupcionCpu
           y == [x EXCEPT !.pc = @ + 1]
           e == CASE operacion = "I_O" -> "BLOQUEADO"
                  [] operacion = "EXIT" -> "FINALIZADO"
                  [] operacion = "NO_OP" /\ ~sigue -> "INTERRUMPIDO"
                  [] OTHER -> m.estado
           d == [pcb |-> y, estado |-> e]
<1>0. pc' = pc
  BY DEF CpuEjecutar, varsKernel
<1>1. m \in Enviado /\ desdeCpu \in Seq(Devuelto)
  BY CabezaTipo DEF TypeOK, TipoKernel, TipoCpu, CpuEjecutar, Enviado, Devuelto
<1>2. x \in PCBViva
  BY <1>1 DEF Enviado
<1>3. operacion \in Operacion \ {"INVALIDA"}
  <2>1. /\ x.pid \in Proceso /\ x.pc + 1 \in 1 .. Len(Programa[x.pid])
        /\ operacion \in Operacion /\ Programa[x.pid] \in Seq(Operacion)
    BY <1>2, SiguienteTipo
  <2>2. x.pc + 1 \in DOMAIN Programa[x.pid]
    BY ONLY <2>1, LenProperties
  <2> QED BY <2>1, <2>2 DEF ProgramasLegales
<1>4. ~sigue => d.estado \in EstadosConocidos
  BY <1>3 DEF Operacion, EstadosConocidos
<1>5. desdeCpu' = IF sigue THEN desdeCpu ELSE Append(desdeCpu, d)
  BY DEF CpuEjecutar, Siguiente
<1> HIDE DEF d, sigue
<1>6. CASE sigue
  BY <1>0, <1>5, <1>6 DEF Conocidos
<1>7. CASE ~sigue
  <2>1. /\ DOMAIN desdeCpu' = 1 .. Len(desdeCpu) + 1 /\ Len(desdeCpu) \in Nat
        /\ DOMAIN desdeCpu = 1 .. Len(desdeCpu)
        /\ \A i \in 1 .. Len(desdeCpu) : desdeCpu'[i] = desdeCpu[i]
        /\ desdeCpu'[Len(desdeCpu) + 1] = d
    BY <1>1, <1>5, <1>7, AppendProperties, LenProperties
  <2>2. ASSUME NEW i \in DOMAIN desdeCpu'
        PROVE  desdeCpu'[i].estado \in EstadosConocidos
    <3>1. CASE i \in 1 .. Len(desdeCpu)
      BY <2>1, <3>1 DEF Conocidos
    <3>2. CASE i = Len(desdeCpu) + 1
      BY <1>4, <1>7, <2>1, <3>2
    <3> QED BY <2>1, <2>2, <3>1, <3>2
  <2> QED BY <1>0, <2>2 DEF Conocidos
<1> QED BY <1>6, <1>7

\* devoluciones knows what to do with what it reads.
LEMMA ConocidosRecibir ==
    ASSUME TypeOK, Conocidos, RecibirPcb
    PROVE  Conocidos'
<1> DEFINE m == Head(desdeCpu)
           h == "recibir_proceso_de_cpu"
<1>1. /\ \A i \in DOMAIN desdeCpu' : desdeCpu'[i] = desdeCpu[i + 1]
      /\ m = desdeCpu[1] /\ Len(desdeCpu) \in Nat /\ Len(desdeCpu) > 0
      /\ DOMAIN desdeCpu = 1 .. Len(desdeCpu)
      /\ DOMAIN desdeCpu' = 1 .. Len(desdeCpu) - 1
  <2>1. /\ Tail(desdeCpu) \in Seq(Devuelto) /\ desdeCpu \in Seq(Devuelto)
        /\ desdeCpu' = Tail(desdeCpu)
    BY RecibirTipo DEF RecibirPcb, TypeOK, TipoKernel, TipoCpu, Devuelto
  <2> QED BY <2>1, RecibirTipo DEF RecibirPcb, TypeOK, TipoKernel
<1>2. ASSUME NEW i \in DOMAIN desdeCpu'
      PROVE  desdeCpu'[i].estado \in EstadosConocidos
  <2>1. i + 1 \in DOMAIN desdeCpu /\ desdeCpu'[i] = desdeCpu[i + 1]
    BY <1>1
  <2> QED BY <2>1 DEF Conocidos
<1>3. m.estado \in EstadosConocidos
  BY <1>1 DEF Conocidos
<1>4. Ir(h, CASE m.estado = "INTERRUMPIDO" -> "interrumpidos_l"
              [] m.estado = "BLOQUEADO" -> "block_l"
              [] m.estado = "FINALIZADO" -> "finalizado_l"
              [] OTHER -> "descartar")
  BY DEF RecibirPcb
<1>5. pc'[h] # "descartar"
  BY <1>3, <1>4 DEF Ir, TypeOK, TipoKernel, TipoHilos, Hilos, EstadosConocidos
<1> QED BY <1>2, <1>5 DEF Conocidos

\* Every other step leaves the way back alone.
LEMMA ConocidosPaso ==
    ASSUME ProgramasLegales, TypeOK, Conocidos, [Next]_vars
    PROVE  Conocidos'
<1> DEFINE h == "recibir_proceso_de_cpu"
           Igual == desdeCpu' = desdeCpu
                    /\ (pc'[h] = pc[h] \/ pc'[h] # "descartar")
<1>0. pc = [g \in Hilos |-> pc[g]] /\ TipoKernel
  BY DEF TypeOK, TipoKernel, TipoHilos
<1>1. Igual => Conocidos'
  BY DEF Conocidos
<1>2. CASE Resto(NextKernel)
  <2>1. PcpQuieto /\ UNCHANGED varsSocket
    BY <1>0, <1>2, NextKernelQuieto DEF Resto, Vivo
  <2> QED BY <1>1, <2>1 DEF PcpQuieto, HilosPcp, varsSocket
<1>3. CASE AgregarAReady
  <2>1. Igual
    BY <1>0, <1>3
    DEF AgregarAReady, AgregarEsperar, AgregarElegir, AgregarElegirNew,
        AgregarEntregar, AgregarMirarEjecutando, Interrumpir,
        InterrumpirEnviar, AgregarEsperarAtendida, AgregarInterrumpido,
        AgregarSinInterrumpido, AgregarAvisarReplanificacion,
        AgregarAvisarInterrumpido, AgregarFinInterrupcion, AgregarMostrar,
        AgregarRecorrer, AgregarAvisar, Esperar, Avisar, Tomar, Ir, Hilos,
        varsSocket
  <2> QED BY <1>1, <2>1
<1>4. CASE EnviarAEjecutar
  <2>1. Igual
    BY <1>0, <1>4
    DEF EnviarAEjecutar, EnviarEsperar, EnviarEsperarCpu, EnviarTomar,
        EnviarDespachar, Esperar, Tomar, Ir, Hilos, varsSocket
  <2> QED BY <1>1, <2>1
<1>5. CASE Devoluciones
  <2>1. ASSUME ~RecibirPcb PROVE Igual
    BY <1>0, <1>5, <2>1
    DEF Devoluciones, RecibirInterrumpido, AvisarAtendida,
        RecibirEsperarReplanificacion, RecibirBloqueado, RecibirFinalizado,
        RecibirLiberarCpu, RecibirAvisarBloqueado, RecibirAvisarFinalizado,
        RecibirMirarInterrupcion, RecibirDescartar, Avisar, Entregar, Dejar,
        Ir, Hilos, varsSocket
  <2> QED BY <1>1, <2>1, ConocidosRecibir
<1>6. CASE CpuEjecutar \/ CpuLimpiar \/ AtencionInterrupt
  <2>1. CASE CpuLimpiar \/ AtencionInterrupt
    BY <1>1, <2>1 DEF CpuLimpiar, AtencionInterrupt, varsKernel, varsSocket
  <2> QED BY <1>6, <2>1, ConocidosCpu
<1>7. CASE UNCHANGED vars
  BY <1>1, <1>7 DEF vars, varsKernel, varsSocket
<1> QED BY <1>2, <1>3, <1>4, <1>5, <1>6, <1>7 DEF Next, Vivo, Reposo

\* Of the processes that are in no container, the interrupted ones are waiting
\* for the replanning; the others were lost to the race on block_l.
PerdidosInv == CuentaPerdidos(Cardinality(Interrumpidos))

\* How many were interrupted.
LEMMA InterrumpidosFinito ==
    ASSUME InterrumpidosInv
    PROVE  IsFiniteSet(Interrumpidos) /\ Cardinality(Interrumpidos) \in Nat
BY AusentesFinito, FS_Subset, FS_CardinalityType DEF InterrumpidosInv

\* As many as before.
LEMMA PerdidosFijos ==
    ASSUME NEW n, CuentaPerdidos(n)', Interrumpidos' = Interrumpidos,
           Cardinality(Interrumpidos) = n
    PROVE  PerdidosInv'
<1>1. Cardinality(Interrumpidos)' = n
  OBVIOUS
<1> QED BY <1>1 DEF PerdidosInv

\* A process comes to interrumpidos_l, or leaves it, for none or from none.
LEMMA PerdidosJuntos ==
    ASSUME TipoKernel, PerdidosInv, caida = "no", BloqueoIgual,
           Cardinality(Interrumpidos) \in Nat,
           NEW d \in {1, -1},
           Cardinality(Ausentes)' = Cardinality(Ausentes) + d,
           Cardinality(Interrumpidos)' = Cardinality(Interrumpidos) + d
    PROVE  PerdidosInv'
<1>1. /\ Largo("block_l")' = Largo("block_l")
      /\ Valor("s_io_pendiente")' = Valor("s_io_pendiente")
      /\ En("planificador_io", {"quitar"})' = En("planificador_io", {"quitar"})
      /\ En("recibir_proceso_de_cpu", {"post_io_pendiente"})' =
            En("recibir_proceso_de_cpu", {"post_io_pendiente"})
  BY DEF BloqueoIgual, Largo, Valor, En
<1>2. /\ Largo("block_l") \in Nat /\ Cardinality(Ausentes) \in Nat
      /\ Valor("s_io_pendiente") \in Nat
      /\ En("planificador_io", {"quitar"}) \in Nat
      /\ En("recibir_proceso_de_cpu", {"post_io_pendiente"}) \in Nat
  BY PerdidosNaturales
<1>3. Largo("block_l") + Cardinality(Ausentes) =
         Cardinality(Interrumpidos) + Valor("s_io_pendiente")
           + En("planificador_io", {"quitar"})
           + En("recibir_proceso_de_cpu", {"post_io_pendiente"})
  BY DEF PerdidosInv, CuentaPerdidos
<1>4. Largo("block_l")' + Cardinality(Ausentes)' =
         Cardinality(Interrumpidos)' + Valor("s_io_pendiente")'
           + En("planificador_io", {"quitar"})'
           + En("recibir_proceso_de_cpu", {"post_io_pendiente"})'
  BY ONLY <1>1, <1>2, <1>3, d \in {1, -1},
          Cardinality(Interrumpidos) \in Nat,
          Cardinality(Ausentes)' = Cardinality(Ausentes) + d,
          Cardinality(Interrumpidos)' = Cardinality(Interrumpidos) + d
<1> QED BY <1>4 DEF PerdidosInv, CuentaPerdidos

\* Every step of every thread keeps the count.
LEMMA PerdidosPaso ==
    ASSUME IInv, LInv, Conocidos, PerdidosInv, [Next]_vars
    PROVE  PerdidosInv'
<1>1. /\ TypeOK /\ Cuentas /\ TipoKernel /\ CuentasKernel
      /\ LugaresInv /\ InterrumpidosInv
  BY CuentasPartes DEF IInv, LInv, TypeOK
<1>2. PICK n \in Nat : n = Cardinality(Interrumpidos) /\ CuentaPerdidos(n)
  BY <1>1, InterrumpidosFinito DEF PerdidosInv
<1>3. /\ IsFiniteSet(Interrumpidos) /\ IsFiniteSet(Ausentes)
      /\ Interrumpidos \subseteq Ausentes
  BY <1>1, InterrumpidosFinito, AusentesFinito DEF InterrumpidosInv
<1>4. ASSUME caida = "no", Tranquilo PROVE PerdidosInv'
  <2>1. CuentaPerdidos(n)' /\ Interrumpidos' = Interrumpidos
    BY <1>2, <1>4, PerdidosIgual DEF Tranquilo, Interrumpidos
  <2> QED BY <1>2, <2>1, PerdidosFijos
<1>5. CASE Resto(NextKernel)
  <2>1. /\ caida = "no" /\ NextKernel /\ UNCHANGED varsSocket
        /\ UNCHANGED interrumpidos_l
    BY <1>5 DEF Resto, Vivo, varsSrt, varsEspera
  <2>2. CuentaPerdidos(n)' /\ Interrumpidos' = Interrumpidos
    BY <1>1, <1>2, <2>1, PerdidosNextKernel DEF Interrumpidos
  <2> QED BY <1>2, <2>2, PerdidosFijos
<1>6. CASE caida = "no" /\ AgregarInterrumpido
  <2>1. PICK p \in Interrumpidos : /\ Interrumpidos' = Interrumpidos \ {p}
                                   /\ Ausentes' = Ausentes \ {p}
                                   /\ BloqueoIgual
    BY <1>1, <1>6, LugaresInterrumpido
  <2>2. /\ Cardinality(Interrumpidos \ {p}) = Cardinality(Interrumpidos) - 1
        /\ Cardinality(Ausentes \ {p}) = Cardinality(Ausentes) - 1
    BY <1>3, <2>1, FS_RemoveElement
  <2>3. /\ Cardinality(Interrumpidos)' = Cardinality(Interrumpidos) + (-1)
        /\ Cardinality(Ausentes)' = Cardinality(Ausentes) + (-1)
    <3>1. /\ Cardinality(Interrumpidos)' = Cardinality(Interrumpidos) - 1
          /\ Cardinality(Ausentes)' = Cardinality(Ausentes) - 1
      BY <2>1, <2>2
    <3>2. Cardinality(Interrumpidos) \in Nat /\ Cardinality(Ausentes) \in Nat
      BY <1>2, AusentesFinito
    <3> QED BY ONLY <3>1, <3>2
  <2> QED BY <1>1, <1>2, <1>6, <2>1, <2>3, PerdidosJuntos
<1>7. CASE caida = "no" /\ RecibirInterrumpido
  <2>1. PICK p : /\ p \notin Interrumpidos /\ p \notin Ausentes
                 /\ Interrumpidos' = Interrumpidos \cup {p}
                 /\ Ausentes' = Ausentes \cup {p}
                 /\ BloqueoIgual
    BY <1>1, <1>7, LugaresRecibirInterrumpido
  <2>2. /\ Cardinality(Interrumpidos \cup {p}) = Cardinality(Interrumpidos) + 1
        /\ Cardinality(Ausentes \cup {p}) = Cardinality(Ausentes) + 1
    BY <1>3, <2>1, FS_AddElement
  <2>3. /\ Cardinality(Interrumpidos)' = Cardinality(Interrumpidos) + 1
        /\ Cardinality(Ausentes)' = Cardinality(Ausentes) + 1
    BY <2>1, <2>2
  <2> QED BY <1>1, <1>2, <1>7, <2>1, <2>3, PerdidosJuntos
<1>8. CASE caida = "no" /\ RecibirBloqueado /\ UNCHANGED varsSrt
  <2>1. CuentaPerdidos(n)' /\ Interrumpidos' = Interrumpidos
    BY <1>1, <1>2, <1>8, PerdidosRecibirBloqueado
    DEF Interrumpidos, varsSrt, varsEspera
  <2> QED BY <1>2, <2>1, PerdidosFijos
<1>9. CASE caida = "no" /\ RecibirAvisarBloqueado
  <2>1. /\ Ausentes' = Ausentes /\ UNCHANGED interrumpidos_l
        /\ UNCHANGED varsSocket
        /\ Avisar("recibir_proceso_de_cpu", "post_io_pendiente",
                  "s_io_pendiente", "if_interrupcion")
    BY <1>1, <1>9, LugaresAvisarBloqueado DEF RecibirAvisarBloqueado
  <2>2. CuentaPerdidos(n)' /\ Interrumpidos' = Interrumpidos
    BY <1>1, <1>2, <1>9, <2>1, PerdidosAvisar DEF Interrumpidos
  <2> QED BY <1>2, <2>2, PerdidosFijos
<1>10. CASE caida = "no" /\ (AgregarAReady \/ EnviarAEjecutar)
  BY <1>1, <1>4, <1>6, <1>10, LugaresAgregarAReady, LugaresEnviarAEjecutar
<1>11. CASE caida = "no" /\ Devoluciones
  <2>1. ~RecibirDescartar
    BY DEF Conocidos, RecibirDescartar
  <2> QED BY <1>1, <1>4, <1>7, <1>8, <1>9, <1>11, <2>1,
             LugaresDevolucionesTranquila DEF Devoluciones
<1>12. CASE UNCHANGED varsKernel /\ (caida = "no" => Tranquilo)
  <2>1. CASE caida # "no"
    BY <1>12, <2>1 DEF varsKernel, PerdidosInv, CuentaPerdidos
  <2> QED BY <1>4, <1>12, <2>1
<1>13. CASE CpuEjecutar \/ CpuLimpiar \/ AtencionInterrupt
  <2>1. UNCHANGED varsKernel
    BY <1>13 DEF CpuEjecutar, CpuLimpiar, AtencionInterrupt
  <2> QED BY <1>1, <1>12, <1>13, <2>1, LugaresCpu
<1>14. CASE UNCHANGED vars
  <2>1. /\ UNCHANGED varsKernel /\ UNCHANGED varsSocket
        /\ UNCHANGED interrumpidos_l
    BY <1>14 DEF vars, varsSrt, varsEspera
  <2>2. LugaresInv' /\ Ausentes' = Ausentes /\ BloqueoIgual
    BY <1>1, <2>1, LugaresNadie DEF LInv
  <2>3. DetallesIguales
    BY <2>1 DEF DetallesIguales, varsKernel, varsPlp, varsIo, varsMemoria
  <2> QED BY <1>12, <2>1, <2>2, <2>3 DEF Tranquilo
<1> QED BY <1>5, <1>10, <1>11, <1>13, <1>14 DEF Next, Vivo, Reposo

\* With SRT too, nothing but the race on block_l loses a process, whatever crosses
\* its interruption, and each loss leaves one s_io_pendiente too many.
THEOREM PerdidasContadas == ASSUME ProgramasLegales
                            PROVE  Spec => []PerdidosConAviso
<1> DEFINE PInv == IInv /\ LInv /\ Conocidos /\ PerdidosInv
<1>1. Init => PInv
  <2> SUFFICES ASSUME Init PROVE PInv
    OBVIOUS
  <2>1. interrumpidos_l = <<>> /\ desdeCpu = <<>>
        /\ pc["recibir_proceso_de_cpu"] = "inicio"
    BY DEF Init, InitKernel, Hilos
  <2>2. Interrumpidos = {} /\ SinRepetir(interrumpidos_l)
    BY <2>1 DEF Interrumpidos, SinRepetir, Pids
  <2>3. LugaresInv /\ CuentaPerdidos(0) /\ AvisoInv /\ MensajesInv
    BY InicioLugares DEF Init
  <2>4. PerdidosInv
    <3>1. Cardinality(Interrumpidos) = 0
      BY <2>2, FS_EmptySet
    <3> QED BY <2>3, <3>1 DEF PerdidosInv
  <2> QED BY <2>1, <2>2, <2>3, <2>4, InicioInvariante
          DEF LInv, InterrumpidosInv, Conocidos
<1>2. PInv /\ [Next]_vars => PInv'
  BY PasoInvariante, LugaresPaso, ConocidosPaso, PerdidosPaso DEF IInv
<1>3. PInv => PerdidosConAviso
  <2> SUFFICES ASSUME IInv, LInv, PerdidosInv PROVE PerdidosConAviso
    OBVIOUS
  <2>1. /\ TipoKernel /\ LugaresInv /\ InterrumpidosInv
        /\ Despachados <= 1 /\ Devueltos <= 1 /\ TipoCpu
    BY SocketCorto DEF IInv, LInv, TypeOK, TipoKernel
  <2> DEFINE P == {p \in Ingresados : LugaresSrt(p) = {}}
  <2>2. P = Ausentes \ Interrumpidos
    <3>1. Perdidos = Ausentes
      BY <2>1, PerdidosAusentes
    <3>2. \A p : LugaresSrt(p) = {} <=> Lugares(p) = {} /\ p \notin Interrumpidos
      BY DEF LugaresSrt, Interrumpidos, Pids
    <3> QED BY <3>1, <3>2 DEF Perdidos
  <2>3. Cardinality(P) = Cardinality(Ausentes) - Cardinality(Interrumpidos)
    <3>1. Ausentes \cap Interrumpidos = Interrumpidos
      BY <2>1 DEF InterrumpidosInv
    <3> QED BY <2>2, <3>1, AusentesFinito, FS_Difference
  <2>4. /\ Cardinality(Ausentes) \in Nat /\ Cardinality(Interrumpidos) \in Nat
        /\ Largo("block_l") \in Nat /\ Valor("s_io_pendiente") \in Nat
        /\ En("planificador_io", {"quitar"}) \in Nat
        /\ En("recibir_proceso_de_cpu", {"post_io_pendiente"}) \in Nat
    BY <2>1, PerdidosNaturales, InterrumpidosFinito
  <2> HIDE DEF P
  <2>5. caida = "no" =>
           Largo("block_l") + Cardinality(P) =
              Valor("s_io_pendiente") + En("planificador_io", {"quitar"})
                + En("recibir_proceso_de_cpu", {"post_io_pendiente"})
    BY ONLY <2>3, <2>4, PerdidosInv DEF PerdidosInv, CuentaPerdidos
  <2> QED BY <2>5 DEF PerdidosConAviso, P
<1> HIDE DEF PInv
<1> QED BY <1>1, <1>2, <1>3, PTL DEF Spec

-----------------------------------------------------------------------------
(* The replanning.                                                          *)

Replanificando == {"post_interrumpido", "s_espero_replanificacion"}

\* An interrupted process is in interrumpidos_l, or put back and about to be
\* announced, or announced, for as long as devoluciones waits for it.
Replanificaciones ==
    Len(interrumpidos_l) + En("agregar_a_ready", {"post_replanificacion"})
      + s_espero_replanificacion =
         En("recibir_proceso_de_cpu", Replanificando)

\* What it speaks of does not change.
ReplanIgual ==
    /\ UNCHANGED interrumpidos_l /\ UNCHANGED s_espero_replanificacion
    /\ pc'["agregar_a_ready"] = "post_replanificacion" <=>
          pc["agregar_a_ready"] = "post_replanificacion"
    /\ pc'["recibir_proceso_de_cpu"] \in Replanificando <=>
          pc["recibir_proceso_de_cpu"] \in Replanificando

\* So it holds.
LEMMA ReplanDeIgual ==
    ASSUME Replanificaciones, ReplanIgual
    PROVE  Replanificaciones'
BY DEF Replanificaciones, ReplanIgual, En

\* agregar_a_ready_sjf takes the interrupted one, and announces it.
LEMMA ReplanAgregar ==
    ASSUME TypeOK, Replanificaciones, AgregarAReady
    PROVE  Replanificaciones'
<1>0. /\ pc = [g \in Hilos |-> pc[g]] /\ interrumpidos_l \in Seq(PCBViva)
      /\ s_espero_replanificacion \in Nat
  BY DEF TypeOK, TipoKernel, TipoHilos
<1>1. CASE AgregarInterrumpido
  <2>1. /\ pc["agregar_a_ready"] = "interrumpidos_l"
        /\ pc'["agregar_a_ready"] = "post_replanificacion"
        /\ pc'["recibir_proceso_de_cpu"] = pc["recibir_proceso_de_cpu"]
        /\ UNCHANGED s_espero_replanificacion
        /\ interrumpidos_l # <<>> /\ interrumpidos_l' = Tail(interrumpidos_l)
    BY <1>0, <1>1 DEF AgregarInterrumpido, Ir, Hilos
  <2>2. /\ Len(interrumpidos_l) \in Nat
        /\ Len(interrumpidos_l)' = Len(interrumpidos_l) - 1
    BY <1>0, <2>1, CabezaTipo, HeadTailProperties
  <2> QED BY ONLY Replanificaciones, <1>0, <2>1, <2>2
          DEF Replanificaciones, En
<1>2. CASE AgregarAvisarReplanificacion
  <2>1. /\ pc["agregar_a_ready"] = "post_replanificacion"
        /\ pc'["agregar_a_ready"] = "post_cpu"
        /\ pc'["recibir_proceso_de_cpu"] = pc["recibir_proceso_de_cpu"]
        /\ s_espero_replanificacion' = s_espero_replanificacion + 1
        /\ Len(interrumpidos_l)' = Len(interrumpidos_l)
    BY <1>0, <1>2 DEF AgregarAvisarReplanificacion, Ir, Hilos
  <2>2. Len(interrumpidos_l) \in Nat
    BY <1>0, LenProperties
  <2> QED BY ONLY Replanificaciones, <1>0, <2>1, <2>2
          DEF Replanificaciones, En
<1>3. ASSUME ~AgregarInterrumpido, ~AgregarAvisarReplanificacion
      PROVE  ReplanIgual
  BY <1>0, <1>3
  DEF AgregarAReady, AgregarEsperar, AgregarElegir, AgregarElegirNew,
      AgregarEntregar, AgregarMirarEjecutando, Interrumpir,
      InterrumpirEnviar, AgregarEsperarAtendida, AgregarSinInterrumpido,
      AgregarAvisarInterrumpido, AgregarFinInterrupcion, AgregarMostrar,
      AgregarRecorrer, AgregarAvisar, Esperar, Avisar, Tomar, Ir, Hilos,
      ReplanIgual, varsSrt, varsEspera
<1> QED BY <1>1, <1>2, <1>3, ReplanDeIgual

\* devoluciones leaves the interrupted one, and stops waiting for it.
LEMMA ReplanDevoluciones ==
    ASSUME TypeOK, Replanificaciones, Devoluciones
    PROVE  Replanificaciones'
<1> DEFINE h == "recibir_proceso_de_cpu"
<1>0. /\ pc = [g \in Hilos |-> pc[g]] /\ interrumpidos_l \in Seq(PCBViva)
      /\ s_espero_replanificacion \in Nat
  BY DEF TypeOK, TipoKernel, TipoHilos
<1>1. CASE RecibirInterrumpido
  <2>1. /\ pc[h] = "interrumpidos_l" /\ pc'[h] = "post_interrumpido"
        /\ pc'["agregar_a_ready"] = pc["agregar_a_ready"]
        /\ UNCHANGED s_espero_replanificacion
        /\ interrumpidos_l' = Append(interrumpidos_l, pcb[h])
    BY <1>0, <1>1 DEF RecibirInterrumpido, Ir, Hilos
  <2>2. Len(interrumpidos_l) \in Nat
        /\ Len(interrumpidos_l)' = Len(interrumpidos_l) + 1
    <3>1. pcb[h] \in PCBViva
      <4>1. pc[h] \in Carga[h] /\ pc[h] # "finalizado_l"
        BY <2>1, CargaDe
      <4> QED BY <4>1, PcbDeHilo DEF TypeOK, Hilos
    <3> QED BY <1>0, <2>1, <3>1, AppendProperties, LenProperties
  <2> QED BY ONLY Replanificaciones, <1>0, <2>1, <2>2
          DEF Replanificaciones, En, Replanificando
<1>2. CASE RecibirEsperarReplanificacion
  <2>1. /\ pc[h] = "s_espero_replanificacion" /\ pc'[h] = "post"
        /\ pc'["agregar_a_ready"] = pc["agregar_a_ready"]
        /\ s_espero_replanificacion' = s_espero_replanificacion - 1
        /\ Len(interrumpidos_l)' = Len(interrumpidos_l)
    BY <1>0, <1>2 DEF RecibirEsperarReplanificacion, Ir, Hilos
  <2>2. Len(interrumpidos_l) \in Nat
    BY <1>0, LenProperties
  <2> QED BY ONLY Replanificaciones, <1>0, <2>1, <2>2
          DEF Replanificaciones, En, Replanificando
<1>3. ASSUME ~RecibirInterrumpido, ~RecibirEsperarReplanificacion,
             ~RecibirPcb
      PROVE  ReplanIgual
  BY <1>0, <1>3
  DEF Devoluciones, AvisarAtendida, RecibirBloqueado, RecibirFinalizado,
      RecibirLiberarCpu, RecibirAvisarBloqueado, RecibirAvisarFinalizado,
      RecibirMirarInterrupcion, RecibirDescartar, Avisar, Entregar, Dejar,
      Ir, Hilos, ReplanIgual, Replanificando, varsSrt, varsEspera
<1>4. CASE RecibirPcb
  <2>1. PICK e \in {"interrumpidos_l", "block_l", "finalizado_l", "descartar"} :
           Ir(h, e)
    BY <1>4 DEF RecibirPcb
  <2>2. pc[h] = "inicio" /\ UNCHANGED varsEspera
    BY <1>4 DEF RecibirPcb
  <2>3. ReplanIgual
    BY <1>0, <2>1, <2>2
    DEF Ir, Hilos, ReplanIgual, Replanificando, varsEspera
  <2> QED BY <2>3, ReplanDeIgual
<1> QED BY <1>1, <1>2, <1>3, <1>4, ReplanDeIgual

\* No other thread has a part in it.
LEMMA ReplanPaso ==
    ASSUME TypeOK, Replanificaciones, [Next]_vars
    PROVE  Replanificaciones'
<1>0. pc = [g \in Hilos |-> pc[g]] /\ TipoKernel
  BY DEF TypeOK, TipoKernel, TipoHilos
<1>1. CASE Resto(NextKernel)
  <2>1. PcpQuieto /\ UNCHANGED varsSrt
    BY <1>0, <1>1, NextKernelQuieto DEF Resto, Vivo
  <2>2. ReplanIgual
    BY <2>1 DEF ReplanIgual, PcpQuieto, HilosPcp, varsSrt, varsEspera
  <2> QED BY <2>2, ReplanDeIgual
<1>2. CASE EnviarAEjecutar
  <2>1. ReplanIgual
    BY <1>0, <1>2
    DEF EnviarAEjecutar, EnviarEsperar, EnviarEsperarCpu, EnviarTomar,
        EnviarDespachar, Esperar, Tomar, Ir, Hilos, ReplanIgual, varsSrt,
        varsEspera
  <2> QED BY <2>1, ReplanDeIgual
<1>3. CASE CpuEjecutar \/ CpuLimpiar \/ AtencionInterrupt
  <2>1. ReplanIgual
    BY <1>3 DEF CpuEjecutar, CpuLimpiar, AtencionInterrupt, ReplanIgual,
       varsKernel, varsEspera
  <2> QED BY <2>1, ReplanDeIgual
<1>4. CASE UNCHANGED vars
  <2>1. ReplanIgual
    BY <1>4 DEF vars, varsKernel, varsSrt, varsEspera, ReplanIgual
  <2> QED BY <2>1, ReplanDeIgual
<1> QED BY <1>1, <1>2, <1>3, <1>4, ReplanAgregar, ReplanDevoluciones
        DEF Next, Vivo, Reposo

\* While somebody is in interrumpidos_l, devoluciones waits for the replanning
\* and nobody is being dispatched.
LEMMA NadieDespacha ==
    ASSUME TypeOK, Cuentas, Replanificaciones, interrumpidos_l # <<>>
    PROVE  /\ pc["enviar_a_ejecutar"] = "inicio"
           /\ pc["recibir_proceso_de_cpu"] \in Replanificando
<1>1. /\ Len(interrumpidos_l) \in Nat /\ Len(interrumpidos_l) > 0
      /\ s_espero_replanificacion \in Nat
  BY CabezaTipo DEF TypeOK
<1>2. pc["recibir_proceso_de_cpu"] \in Replanificando
  BY ONLY Replanificaciones, <1>1 DEF Replanificaciones, En
<1>3. Naturales /\ UnSoloProceso
  BY Antes
<1>4. En("recibir_proceso_de_cpu", Devolviendo) = 1
  BY <1>2 DEF En, Devolviendo, Replanificando
<1>5. En("enviar_a_ejecutar", {"s_cpu", "ready_l", "enviar"}) # 1
  BY ONLY <1>3, <1>4 DEF UnSoloProceso, Naturales, Semaforos, Listas
<1>6. pc["enviar_a_ejecutar"] \notin {"s_cpu", "ready_l", "enviar"}
  BY <1>5 DEF En
<1> QED BY <1>2, <1>6 DEF TypeOK

\* agregar_a_ready_sjf touches interrumpidos_l and ready_l without their mutexes,
\* and neither of the other two threads that touch them is there.
THEOREM SinMutexSeguro == Spec => []SinMutexSinCarrera
<1>1. Init => Replanificaciones
  BY DEF Init, InitKernel, Replanificaciones, En, Hilos, Replanificando
<1>2. IInv /\ Replanificaciones /\ [Next]_vars => Replanificaciones'
  BY ReplanPaso DEF IInv
<1>3. IInv /\ Replanificaciones => SinMutexSinCarrera
  BY NadieDespacha DEF IInv, SinMutexSinCarrera, Replanificando
<1> QED BY <1>1, <1>2, <1>3, Invariante, PTL DEF Spec

-----------------------------------------------------------------------------
(* The order of ready_l.                                                    *)

\* From the least estimate to the greatest.
Ordenada(l) ==
    \A i, j \in DOMAIN l : i <= j => estimado[l[i].pid] <= estimado[l[j].pid]

\* So a sorted list stays sorted.
LEMMA OrdenadoOrdena ==
    ASSUME estimado \in [Proceso -> Nat],
           NEW l \in Seq(PCB), NEW x \in PCB, Ordenada(l)
    PROVE  Ordenada(AgregarOrdenado(l, x))
<1> DEFINE n == Len(l)
           r == AgregarOrdenado(l, x)
           E(y) == estimado[y.pid]
<1>1. PICK k \in 0 .. n :
         /\ r = Metido(l, x, k)
         /\ \A i \in 1 .. k : E(l[i]) <= E(x)
         /\ k < n => ~(E(l[k + 1]) <= E(x))
  BY OrdenadoLugar
<1>2. /\ n \in Nat /\ k \in Nat /\ k <= n /\ DOMAIN l = 1 .. n
      /\ \A i \in 1 .. n : l[i] \in PCB /\ E(l[i]) \in Nat
      /\ E(x) \in Nat
  <2>1. n \in Nat /\ DOMAIN l = 1 .. n /\ \A i \in 1 .. n : l[i] \in PCB
    BY LenProperties
  <2>2. \A y \in PCB : E(y) \in Nat
    BY DEF PCB
  <2> QED BY <1>1, <2>1, <2>2
<1>3. /\ DOMAIN r = 1 .. n + 1
      /\ \A i \in 1 .. k : r[i] = l[i]
      /\ r[k + 1] = x
      /\ \A i \in k + 1 .. n : r[i + 1] = l[i]
  <2>1. r = Metido(l, x, k) /\ k \in 0 .. Len(l)
    BY <1>1
  <2> HIDE DEF r
  <2>2. r \in Seq(PCB) /\ Len(r) = n + 1 /\ InsertadoTras(l, x, k, r)
    BY <2>1, InsertadoEn
  <2>3. DOMAIN r = 1 .. n + 1
    BY ONLY <2>2, LenProperties
  <2> QED BY <2>2, <2>3 DEF InsertadoTras
<1>4. \A i, j \in 1 .. n : i <= j => E(l[i]) <= E(l[j])
  BY <1>2 DEF Ordenada
<1> HIDE DEF n, r, E
\* What comes before x does not have a greater estimate ...
<1>5. ASSUME NEW i \in 1 .. k PROVE i \in 1 .. n /\ E(r[i]) <= E(x)
  BY <1>1, <1>2, <1>3
\* ... and what comes after does.
<1>6. ASSUME NEW i \in k + 1 .. n
      PROVE  i \in 1 .. n /\ E(x) <= E(l[i]) /\ r[i + 1] = l[i]
  <2>1. k + 1 \in 1 .. n /\ k < n /\ i \in 1 .. n /\ k + 1 <= i
    BY ONLY <1>2, <1>6
  <2>2. E(l[k + 1]) <= E(l[i])
    BY <1>4, <2>1
  <2>3. ~(E(l[k + 1]) <= E(x))
    BY <1>1, <2>1
  <2>4. E(x) \in Nat /\ E(l[k + 1]) \in Nat /\ E(l[i]) \in Nat
    BY <1>2, <2>1
  <2>5. E(x) <= E(l[i])
    BY ONLY <2>2, <2>3, <2>4
  <2> QED BY <1>3, <1>6, <2>1, <2>5
<1>7. ASSUME NEW i \in 1 .. n + 1, NEW j \in 1 .. n + 1, i <= j
      PROVE  E(r[i]) <= E(r[j])
  <2>1. CASE j <= k
    <3>1. i \in 1 .. k /\ j \in 1 .. k /\ i \in 1 .. n /\ j \in 1 .. n
      BY ONLY <1>2, <1>7, <2>1
    <3> QED BY <1>3, <1>4, <1>7, <3>1
  <2>2. CASE i <= k /\ j = k + 1
    BY <1>2, <1>3, <1>5, <1>7, <2>2
  <2>3. CASE i <= k /\ k + 1 < j
    <3>1. i \in 1 .. k /\ i \in 1 .. n
      BY ONLY <1>2, <1>7, <2>3
    <3>2. PICK m \in k + 1 .. n : j = m + 1
      <4>1. j - 1 \in k + 1 .. n /\ j = (j - 1) + 1
        BY ONLY <1>2, <1>7, <2>3
      <4> QED BY <4>1
    <3>3. m \in 1 .. n /\ i <= m /\ r[j] = l[m] /\ r[i] = l[i]
      <4>1. i <= m
        BY ONLY <1>2, <1>7, <2>3, <3>2
      <4> QED BY <1>3, <1>6, <3>1, <3>2, <4>1
    <3> QED BY <1>4, <3>1, <3>3
  <2>4. CASE i = k + 1 /\ j = k + 1
    <3>1. r[i] = x /\ r[j] = x
      BY <1>3, <2>4
    <3>2. E(x) <= E(x)
      BY ONLY <1>2
    <3> QED BY <3>1, <3>2
  <2>5. CASE i = k + 1 /\ k + 1 < j
    <3>1. PICK m \in k + 1 .. n : j = m + 1
      <4>1. j - 1 \in k + 1 .. n /\ j = (j - 1) + 1
        BY ONLY <1>2, <1>7, <2>5
      <4> QED BY <4>1
    <3> QED BY <1>3, <1>6, <2>5, <3>1
  <2>6. CASE k + 1 < i
    <3>1. /\ i - 1 \in k + 1 .. n /\ i = (i - 1) + 1
          /\ j - 1 \in k + 1 .. n /\ j = (j - 1) + 1
          /\ i - 1 <= j - 1
      BY ONLY <1>2, <1>7, <2>6
    <3> DEFINE m == i - 1
               u == j - 1
    <3> HIDE DEF m, u
    <3>2. /\ m \in k + 1 .. n /\ i = m + 1 /\ u \in k + 1 .. n /\ j = u + 1
          /\ m <= u
      BY <3>1 DEF m, u
    <3>3. m \in 1 .. n /\ u \in 1 .. n /\ r[i] = l[m] /\ r[j] = l[u]
      BY <1>6, <3>2
    <3> QED BY <1>4, <3>2, <3>3
  <2>7. \/ j <= k
        \/ i <= k /\ j = k + 1
        \/ i <= k /\ k + 1 < j
        \/ i = k + 1 /\ j = k + 1
        \/ i = k + 1 /\ k + 1 < j
        \/ k + 1 < i
    BY ONLY <1>2, <1>7
  <2> QED BY <2>1, <2>2, <2>3, <2>4, <2>5, <2>6, <2>7
<1> QED BY <1>3, <1>7 DEF Ordenada, r, E

\* And it stays sorted when its first is taken.
LEMMA OrdenadaTail ==
    ASSUME NEW l \in Seq(PCB), l # <<>>, Ordenada(l)
    PROVE  /\ Ordenada(Tail(l))
           /\ \A i \in DOMAIN l : estimado[Head(l).pid] <= estimado[l[i].pid]
<1> DEFINE n == Len(l)
           q == Tail(l)
<1>1. n \in Nat /\ n > 0 /\ DOMAIN l = 1 .. n /\ Head(l) = l[1]
  BY CabezaTipo, LenProperties
<1>2. DOMAIN q = 1 .. n - 1 /\ \A i \in 1 .. n - 1 : q[i] = l[i + 1]
  BY HeadTailProperties, LenProperties
<1> HIDE DEF n, q
<1>3. ASSUME NEW i \in 1 .. n - 1, NEW j \in 1 .. n - 1, i <= j
      PROVE  estimado[q[i].pid] <= estimado[q[j].pid]
  <2>1. i + 1 \in 1 .. n /\ j + 1 \in 1 .. n /\ i + 1 <= j + 1
    BY ONLY <1>1, <1>3
  <2> QED BY <1>1, <1>2, <2>1 DEF Ordenada
<1>4. ASSUME NEW i \in 1 .. n PROVE estimado[Head(l).pid] <= estimado[l[i].pid]
  <2>1. 1 \in 1 .. n /\ 1 <= i
    BY ONLY <1>1, <1>4
  <2> QED BY <1>1, <2>1 DEF Ordenada
<1> QED BY <1>1, <1>2, <1>3, <1>4 DEF Ordenada, q

\* ready_l is sorted: an estimate changes when its process is neither there nor
\* on its way.
LEMMA OrdenPaso ==
    ASSUME IInv, LInv, Ordenada(lista["ready_l"]), [Next]_vars
    PROVE  Ordenada(lista["ready_l"])'
<1> DEFINE q == lista["ready_l"]
<1>0. /\ TypeOK /\ Cuentas /\ TipoKernel /\ LugaresInv /\ InterrumpidosInv
      /\ lista = [l \in Listas |-> lista[l]] /\ q \in Seq(PCB)
      /\ "ready_l" \in ListasPcb /\ "ready_l" \in Listas
      /\ estimado \in [Proceso -> Nat]
  <2>1. /\ TypeOK /\ Cuentas /\ TipoKernel /\ LugaresInv /\ InterrumpidosInv
        /\ "ready_l" \in ListasPcb /\ "ready_l" \in Listas
    BY DEF IInv, LInv, TypeOK, ListasPcb, Listas
  <2>2. estimado \in [Proceso -> Nat]
    <3>1. estimado \in [Proceso -> 0 .. MODULO - 1]
      BY <2>1 DEF TypeOK
    <3>2. 0 .. MODULO - 1 \subseteq Nat
      BY EstimacionAssumption
    <3> QED BY ONLY <3>1, <3>2
  <2> QED BY <2>1, <2>2, ListaDePcb DEF TipoKernel, TipoListas
<1>1. ASSUME lista'["ready_l"] = q, estimado' = estimado
      PROVE  Ordenada(lista["ready_l"])'
  BY <1>1 DEF Ordenada
<1>2. ASSUME NEW x \in PCB, lista'["ready_l"] = AgregarOrdenado(q, x),
             estimado' = estimado
      PROVE  Ordenada(lista["ready_l"])'
  <2>1. Ordenada(AgregarOrdenado(q, x))
    BY <1>0, <1>2, OrdenadoOrdena
  <2> QED BY <1>2, <2>1 DEF Ordenada
<1>3. CASE Resto(NextKernel)
  <2>1. PcpQuieto /\ UNCHANGED estimado
    BY <1>0, <1>3, NextKernelQuieto
    DEF Resto, Vivo, varsSrt, varsEstimacion
  <2> QED BY <1>1, <2>1 DEF PcpQuieto
<1>4. CASE AgregarAReady
  <2>1. CASE AgregarEntregar
    <3>1. pcb["agregar_a_ready"] \in PCB
      <4>1. pc["agregar_a_ready"] \in Carga["agregar_a_ready"]
        BY <2>1, CargaDe DEF AgregarEntregar
      <4> QED BY <1>0, <4>1, PcbDeHilo DEF Hilos
    <3> QED BY <1>0, <1>2, <2>1, <3>1
            DEF AgregarEntregar, varsSrt, varsEstimacion
  <2>2. CASE AgregarInterrumpido
    <3>1. Head(interrumpidos_l) \in PCB
      BY <1>0, <2>2, CabezaTipo DEF AgregarInterrumpido, TypeOK, PCBViva
    <3> QED BY <1>0, <1>2, <2>2, <3>1
            DEF AgregarInterrumpido, varsEstimacion
  <2>3. ASSUME ~AgregarEntregar, ~AgregarInterrumpido
        PROVE  lista'["ready_l"] = q /\ estimado' = estimado
    BY <1>0, <1>4, <2>3
    DEF AgregarAReady, AgregarEsperar, AgregarElegir, AgregarElegirNew,
        AgregarMirarEjecutando, Interrumpir, InterrumpirEnviar,
        AgregarEsperarAtendida, AgregarSinInterrumpido,
        AgregarAvisarReplanificacion, AgregarAvisarInterrumpido,
        AgregarFinInterrupcion, AgregarMostrar, AgregarRecorrer,
        AgregarAvisar, Esperar, Avisar, Tomar, Listas, varsSrt,
        varsEstimacion
  <2> QED BY <1>1, <2>1, <2>2, <2>3
<1>5. CASE EnviarAEjecutar
  <2>1. CASE EnviarTomar
    <3>1. lista'["ready_l"] = Tail(q) /\ estimado' = estimado
      BY <1>0, <2>1 DEF EnviarTomar, Tomar, varsSrt, varsEstimacion
    <3>2. q # <<>>
      BY <1>0, <2>1, ReadyNuncaVacia, NoVaciaLista DEF EnviarTomar
    <3>3. Ordenada(Tail(q))
      BY <1>0, <3>2, OrdenadaTail
    <3> QED BY <3>1, <3>3 DEF Ordenada
  <2>2. ASSUME ~EnviarTomar
        PROVE  lista'["ready_l"] = q /\ estimado' = estimado
    BY <1>5, <2>2
    DEF EnviarAEjecutar, EnviarEsperar, EnviarEsperarCpu, EnviarDespachar,
        Esperar, varsSrt, varsEstimacion
  <2> QED BY <1>1, <2>1, <2>2
<1>6. CASE Devoluciones
  <2>1. CASE RecibirPcb
    <3> DEFINE p == Head(desdeCpu).pcb.pid
    <3>1. /\ desdeCpu # <<>> /\ lista' = lista
          /\ \A r \in Proceso \ {p} : estimado'[r] = estimado[r]
      BY <1>0, <2>1 DEF RecibirPcb
    <3>2. p \in Tiene("desdeCpu")
      <4>1. desdeCpu \in Seq(Devuelto)
        BY <1>0 DEF TipoKernel, TipoCpu, Devuelto
      <4>2. Head(desdeCpu) = desdeCpu[1] /\ 1 \in DOMAIN desdeCpu
        BY <3>1, <4>1, CabezaTipo, LenProperties
      <4> QED BY <4>2, TieneCasos
    <3>3. p \notin Pids(q)
      <4>1. Pids(q) = Tiene("ready_l")
        BY <1>0, TieneCasos
      <4>2. "ready_l" # "desdeCpu" /\ "ready_l" \in Contenedores
            /\ "desdeCpu" \in Contenedores
        BY <1>0 DEF Contenedores
      <4> QED BY <1>0, <3>2, <4>1, <4>2 DEF LugaresInv, Ajenos
    <3>4. Pids(q) \subseteq Proceso
      BY <1>0, LenProperties DEF Pids, PCB
    <3>5. \A r \in Pids(q) : estimado'[r] = estimado[r]
      BY <3>1, <3>3, <3>4
    <3> QED BY <3>1, <3>5 DEF Ordenada, Pids
  <2>2. ASSUME ~RecibirPcb
        PROVE  lista'["ready_l"] = q /\ estimado' = estimado
    BY <1>0, <1>6, <2>2
    DEF Devoluciones, RecibirInterrumpido, AvisarAtendida,
        RecibirEsperarReplanificacion, RecibirBloqueado, RecibirFinalizado,
        RecibirLiberarCpu, RecibirAvisarBloqueado, RecibirAvisarFinalizado,
        RecibirMirarInterrupcion, RecibirDescartar, Avisar, Entregar, Dejar,
        Listas, varsSrt, varsEstimacion
  <2> QED BY <1>1, <2>1, <2>2
<1>7. CASE CpuEjecutar \/ CpuLimpiar \/ AtencionInterrupt \/ UNCHANGED vars
  <2>1. lista' = lista /\ estimado' = estimado
    BY <1>7 DEF CpuEjecutar, CpuLimpiar, AtencionInterrupt, varsKernel, vars,
       varsSrt, varsEstimacion
  <2> QED BY <1>1, <2>1
<1> QED BY <1>3, <1>4, <1>5, <1>6, <1>7 DEF Next, Vivo, Reposo

\* The process that is dispatched has the least estimate, and no interrupted one
\* is still to be put back: the choice is made among all of them.
THEOREM DespachoCierto == Spec => DespachoMinimo
<1> DEFINE O == Replanificaciones /\ Ordenada(lista["ready_l"])
<1>1. Init => O
  <2> SUFFICES ASSUME Init PROVE O
    OBVIOUS
  <2>1. DOMAIN lista["ready_l"] = {}
    BY DEF Init, InitKernel, Listas
  <2>2. Replanificaciones
    BY DEF Init, InitKernel, Replanificaciones, En, Hilos, Replanificando
  <2> QED BY <2>1, <2>2 DEF Ordenada
<1>2. IInv /\ LInv /\ O /\ [Next]_vars => O'
  BY ReplanPaso, OrdenPaso DEF IInv
<1>3. IInv /\ LInv /\ O /\ [Next]_vars =>
        (pc["enviar_a_ejecutar"] = "ready_l"
         /\ pc'["enviar_a_ejecutar"] = "enviar" =>
            /\ interrumpidos_l = <<>>
            /\ \A i \in DOMAIN lista["ready_l"] :
                  estimado[pcb'["enviar_a_ejecutar"].pid] <=
                     estimado[lista["ready_l"][i].pid])
  <2> SUFFICES ASSUME IInv, O, [Next]_vars,
                      pc["enviar_a_ejecutar"] = "ready_l",
                      pc'["enviar_a_ejecutar"] = "enviar"
               PROVE  /\ interrumpidos_l = <<>>
                      /\ \A i \in DOMAIN lista["ready_l"] :
                            estimado[pcb'["enviar_a_ejecutar"].pid] <=
                               estimado[lista["ready_l"][i].pid]
    OBVIOUS
  <2>0. /\ TypeOK /\ Cuentas /\ TipoKernel /\ lista["ready_l"] \in Seq(PCB)
        /\ pc = [g \in Hilos |-> pc[g]] /\ pcb = [g \in Hilos |-> pcb[g]]
        /\ "ready_l" \in ListasPcb
    BY ListaDePcb DEF IInv, TypeOK, TipoKernel, TipoHilos, ListasPcb, Listas
  <2>1. interrumpidos_l = <<>>
    BY <2>0, NadieDespacha
  <2>2. EnviarTomar
    <3>1. ASSUME pc'["enviar_a_ejecutar"] = pc["enviar_a_ejecutar"] PROVE FALSE
      BY <3>1
    <3>2. CASE Resto(NextKernel)
      BY <2>0, <3>1, <3>2, NextKernelQuieto
      DEF Resto, Vivo, PcpQuieto, HilosPcp
    <3>3. CASE AgregarAReady
      <4>1. pc'["enviar_a_ejecutar"] = pc["enviar_a_ejecutar"]
        BY <2>0, <3>3
        DEF AgregarAReady, AgregarEsperar, AgregarElegir, AgregarElegirNew,
            AgregarEntregar, AgregarMirarEjecutando, Interrumpir,
            InterrumpirEnviar, AgregarEsperarAtendida, AgregarInterrumpido,
            AgregarSinInterrumpido, AgregarAvisarReplanificacion,
            AgregarAvisarInterrumpido, AgregarFinInterrupcion,
            AgregarMostrar, AgregarRecorrer, AgregarAvisar, Esperar, Avisar,
            Tomar, Ir, Hilos
      <4> QED BY <3>1, <4>1
    <3>4. CASE Devoluciones
      <4>1. pc'["enviar_a_ejecutar"] = pc["enviar_a_ejecutar"]
        BY <2>0, <3>4
        DEF Devoluciones, RecibirPcb, RecibirInterrumpido, AvisarAtendida,
            RecibirEsperarReplanificacion, RecibirBloqueado,
            RecibirFinalizado, RecibirLiberarCpu, RecibirAvisarBloqueado,
            RecibirAvisarFinalizado, RecibirMirarInterrupcion,
            RecibirDescartar, Avisar, Entregar, Dejar, Ir, Hilos
      <4> QED BY <3>1, <4>1
    <3>5. CASE CpuEjecutar \/ CpuLimpiar \/ AtencionInterrupt \/ UNCHANGED vars
      BY <3>1, <3>5 DEF CpuEjecutar, CpuLimpiar, AtencionInterrupt, varsKernel,
         vars
    <3>6. CASE EnviarEsperar \/ EnviarEsperarCpu \/ EnviarDespachar
      BY <2>0, <3>6 DEF EnviarEsperar, EnviarEsperarCpu, EnviarDespachar,
         Esperar
    <3> QED BY <3>2, <3>3, <3>4, <3>5, <3>6
            DEF Next, Vivo, Reposo, EnviarAEjecutar
  <2>3. pcb'["enviar_a_ejecutar"] = Head(lista["ready_l"])
    BY <2>0, <2>2 DEF EnviarTomar, Tomar, Hilos
  <2>4. lista["ready_l"] # <<>>
    <3>1. Largo("ready_l") > 0 /\ "ready_l" \in Listas
      BY <2>0, ReadyNuncaVacia DEF ListasPcb, Listas
    <3> QED BY <2>0, <3>1, NoVaciaLista
  <2> QED BY <2>0, <2>1, <2>3, <2>4, OrdenadaTail
<1> HIDE DEF O
<1> QED BY <1>1, <1>2, <1>3, InvarianteLugares, PTL DEF Spec, DespachoMinimo
=============================================================================
