---------------------------- MODULE Memoria_proofs ----------------------------
(***************************************************************************)
(* More theorems on Memoria, over who has which frame (Memoria_marcos): the *)
(* page that each of the two clocks takes, the types of the data, the       *)
(* isolation of the processes behind a stale TLB and the word that a READ   *)
(* answers, for processes initialised in the order of their pids.           *)
(***************************************************************************)
EXTENDS Memoria_marcos

-----------------------------------------------------------------------------
(* The hand of the clock.                                                   *)

\* puntero is where contador leads to, in a pagMem of l pages: chequear_puntero
\* takes it back to 0 from l, and beyond l there is nothing to look at.
Alineado(pr, l) ==
    l > 0 => /\ pr.puntero < l => pr.puntero = pr.contador % l
             /\ pr.puntero = l => pr.contador % l = 0

\* The pages of p, with the one that is being brought.
Largo(p) == Len(PagMem(p)) + (IF cpu.pid = p /\ cpu.nueva # NADIE THEN 1 ELSE 0)

\* A suspension shortens pagMem and leaves puntero and contador alone.
RelojInv == \A p \in Iniciados : ~ Suspendiendo(p) => Alineado(procesos[p + 1], Largo(p))

\* With one page the hand has nowhere else to be.
LEMMA AlineadoEnUna ==
    ASSUME NEW pr \in FilaProceso, NEW l \in Nat, l <= 1
    PROVE  Alineado(pr, l)
<1>1. PICK d \in Nat : d = pr.puntero  BY DEF FilaProceso
<1>2. PICK c \in Nat : c = pr.contador  BY DEF FilaProceso
<1>3. c % 1 = 0  BY Resto
<1>4. d < 1 => d = 0  OBVIOUS
<1>. QED  BY <1>1, <1>2, <1>3, <1>4 DEF Alineado

\* page_fault leaves the hand where contador leads to.
LEMMA AlineadoTrasFallo ==
    ASSUME NEW pr, NEW c \in Nat, NEW l \in Nat \ {0}, pr.contador = c,
           pr.puntero = c % l \/ pr.puntero = c
    PROVE  Alineado(pr, l)
<1>1. c % l \in 0 .. l - 1  BY Resto
<1>2. c < l => c % l = c
  <2>1. SUFFICES ASSUME c < l PROVE c % l = c  OBVIOUS
  <2>2. l * 0 <= c /\ c < l * 0 + l  BY <2>1
  <2>3. c % l = c - l * 0  BY <2>2, Cociente
  <2>. QED  BY <2>3
<1>3. c = l => c % l = 0
  <2>1. SUFFICES ASSUME c = l PROVE c % l = 0  OBVIOUS
  <2>2. l * 1 <= c /\ c < l * 1 + l /\ 1 \in Nat  BY <2>1
  <2>3. c % l = c - l * 1  BY <2>2, Cociente
  <2>. QED  BY <2>1, <2>3
<1>. QED  BY <1>1, <1>2, <1>3 DEF Alineado

\* Where pagMem, and the page being brought, are the same.
LEMMA RelojQuieto ==
    ASSUME IInv, RelojInv, UNCHANGED procesos,
           cpu'.nueva = cpu.nueva, cpu.nueva = NADIE \/ cpu'.pid = cpu.pid,
           \A p \in Iniciados : Suspendiendo(p) /\ ~ Suspendiendo(p)' => PagMem(p) = <<>>
    PROVE  RelojInv'
<1>1. Iniciados' = Iniciados  BY DEF Iniciados
<1>2. SUFFICES ASSUME NEW p \in Iniciados, ~ Suspendiendo(p)'
      PROVE  Alineado(procesos[p + 1], Largo(p)')
  BY <1>1 DEF RelojInv, Alineado
<1>3. Largo(p)' = Largo(p)  BY DEF Largo, PagMem, Get
<1>4. CASE ~ Suspendiendo(p)  BY <1>3, <1>4 DEF RelojInv
<1>5. CASE Suspendiendo(p)
  <2>1. PagMem(p) = <<>>  BY <1>2, <1>5
  <2>2. Largo(p) \in Nat /\ Largo(p) <= 1  BY <2>1 DEF Largo
  <2>3. procesos[p + 1] \in FilaProceso  BY Filas DEF IInv, Tipos, LlegadaInv
  <2>. QED  BY <1>3, <2>2, <2>3, AlineadoEnUna
<1>. QED  BY <1>4, <1>5

\* One handler of the CPU ends its page fault.
LEMMA RelojTrasFallo ==
    ASSUME IInv, IInv', RelojInv, NEW p \in Iniciados, cpu'.pid = p, cpu.pid = p,
           cpu.nueva = NADIE, UNCHANGED kernel,
           NEW c \in Nat, NEW d \in Nat,
           procesos' = [procesos EXCEPT ![p + 1].contador = c, ![p + 1].puntero = d],
           Largo(p)' \in Nat \ {0},
           d = c % Largo(p)' \/ d = c
    PROVE  RelojInv'
<1>1. p \in Nat /\ p + 1 \in DOMAIN procesos /\ procesos[p + 1] \in FilaProceso
      /\ procesos \in Seq(FilaProceso)
  BY Filas DEF IInv, Tipos, LlegadaInv, TipoTablas, FilaProceso
<1>2. Len(procesos') = Len(procesos) /\ \A q \in Iniciados : PagMem(q)' = PagMem(q)
  BY RelojMovido DEF IInv, Tipos, LlegadaInv
<1>3. Iniciados' = Iniciados  BY <1>2 DEF Iniciados
<1>4. SUFFICES ASSUME NEW q \in Iniciados, ~ Suspendiendo(q)'
      PROVE  Alineado(procesos'[q + 1], Largo(q)')
  BY <1>3 DEF RelojInv, Alineado
<1>5. CASE q = p
  <2>1. PICK r0 \in FilaProceso : r0 = procesos[p + 1]  BY <1>1
  <2>2. procesos'[p + 1] = [r0 EXCEPT !.contador = c, !.puntero = d]  BY <1>1, <2>1
  <2>3. procesos'[p + 1].contador = c /\ procesos'[p + 1].puntero = d
    BY <2>2 DEF FilaProceso
  <2>. QED  BY <1>5, <2>3, AlineadoTrasFallo
<1>6. CASE q # p
  <2>1. q \in Nat /\ q + 1 \in DOMAIN procesos /\ q + 1 # p + 1
    BY <1>1, <1>6, Filas DEF IInv, Tipos, LlegadaInv
  <2>2. procesos'[q + 1] = procesos[q + 1]  BY <2>1
  <2>3. Largo(q)' = Largo(q)  BY <1>2, <1>6 DEF Largo
  <2>4. ~ Suspendiendo(q)  BY <1>4 DEF Suspendiendo
  <2>. QED  BY <2>2, <2>3, <2>4 DEF RelojInv
<1>. QED  BY <1>5, <1>6

\* Steps that are not about the pages of anybody.
LEMMA RelojAjeno ==
    ASSUME IInv, RelojInv, UNCHANGED <<procesos, kernel, cpu>>
    PROVE  RelojInv'
<1>1. \A p : Suspendiendo(p)' <=> Suspendiendo(p)  BY DEF Suspendiendo
<1>. QED  BY <1>1, RelojQuieto

LEMMA RelojDeCpu ==
    ASSUME IInv, IInv', RelojInv, UNCHANGED <<procesos, kernel>>,
           cpu.pc # "traer", cpu'.pc # "traer"
    PROVE  RelojInv'
<1>1. \A p : Suspendiendo(p)' <=> Suspendiendo(p)  BY DEF Suspendiendo
<1>2. cpu.nueva = NADIE /\ cpu'.nueva = NADIE  BY DEF IInv, CpuInv
<1>. QED  BY <1>1, <1>2, RelojQuieto

\* crear_proceso: the new process has no page.
LEMMA RelojTrasIniciar ==
    ASSUME IInv, IInv', RelojInv, Inicializar_proceso
    PROVE  RelojInv'
<1>1. PICK p \in Proceso : p = Head(socket_kernel).pid
  BY PrimerMensaje DEF Inicializar_proceso
<1>2. /\ Recibe("INICIALIZAR_PROCESO") /\ cpu' = cpu
      /\ kernel' = [kernel EXCEPT !.pc = "crear_archivo", !.pid = p]
      /\ procesos' = Append(procesos, [pid |-> p, puntero |-> 0, contador |-> 0,
                                       pagMem |-> <<>>])
  BY <1>1 DEF Inicializar_proceso
<1>3. p = Len(procesos) /\ p \in Nat
  BY <1>1, <1>2, ProcesoQueLlega DEF IInv, Tipos, TipoTablas
<1>4. /\ Iniciados' = Iniciados \union {p} /\ p \notin Iniciados
      /\ \A q \in Iniciados : PagMem(q)' = PagMem(q)
      /\ PagMem(p)' = <<>>
  BY <1>1, <1>2, <1>3, TablasNuevas DEF Inicializar_proceso
<1>5. procesos \in Seq(FilaProceso)  BY DEF IInv, Tipos, TipoTablas, FilaProceso
<1>6. \A q \in Iniciados : procesos'[q + 1] = procesos[q + 1]
  <2>1. \A q \in Iniciados : q + 1 \in 1 .. Len(procesos)
    BY <1>3 DEF Iniciados
  <2>. QED  BY <1>2, <1>5, <2>1
<1>7. cpu.nueva # NADIE => cpu.pid \in Iniciados
  BY DEF IInv, CpuInv, LlegadaInv, SinIniciar, Ejecuta
<1>8. kernel.pc = "libre"  BY <1>2 DEF Recibe
<1>9. SUFFICES ASSUME NEW q \in Iniciados', ~ Suspendiendo(q)'
      PROVE  Alineado(procesos'[q + 1], Largo(q)')
  BY DEF RelojInv, Alineado
<1>10. CASE q = p
  <2>1. Largo(p)' = 0  BY <1>2, <1>4, <1>7 DEF Largo
  <2>. QED  BY <1>10, <2>1 DEF Alineado
<1>11. CASE q \in Iniciados
  <2>1. Largo(q)' = Largo(q)  BY <1>2, <1>4, <1>11 DEF Largo
  <2>2. ~ Suspendiendo(q)  BY <1>8 DEF Suspendiendo
  <2>. QED  BY <1>6, <1>11, <2>1, <2>2 DEF RelojInv
<1>. QED  BY <1>4, <1>9, <1>10, <1>11

\* A page less, during a suspension.
LEMMA RelojTrasLiberar ==
    ASSUME IInv, RelojInv, LiberarPagina
    PROVE  RelojInv'
<1>1. PICK p : p = kernel.pid  OBVIOUS
<1>2. p \in Iniciados  BY <1>1, ProcesoQueSeSuspende DEF LiberarPagina
<1>3. PICK xs : procesos' = [procesos EXCEPT ![p + 1].pagMem = xs]
  BY <1>1 DEF LiberarPagina
<1>4. /\ cpu' = cpu /\ kernel.pc = "liberar"
      /\ \E f, b : kernel' = [kernel EXCEPT !.pc = "limpiar", !.frame = f, !.byte = b]
  BY DEF LiberarPagina
<1>5. kernel'.pc = "limpiar" /\ kernel'.pid = p
  BY <1>1, <1>4 DEF IInv, Tipos, TipoHilos
<1>6. p + 1 \in DOMAIN procesos /\ p \in Nat /\ procesos \in Seq(FilaProceso)
  BY <1>2, Filas DEF IInv, Tipos, LlegadaInv, TipoTablas, FilaProceso
<1>7. Iniciados' = Iniciados  BY <1>3, <1>6 DEF Iniciados
<1>8. SUFFICES ASSUME NEW q \in Iniciados, ~ Suspendiendo(q)'
      PROVE  Alineado(procesos'[q + 1], Largo(q)')
  BY <1>7 DEF RelojInv, Alineado
<1>9. q # p  BY <1>5, <1>8 DEF Suspendiendo
<1>10. q \in Nat /\ q + 1 # p + 1
  BY <1>6, <1>9, Filas DEF IInv, Tipos, LlegadaInv
<1>11. procesos'[q + 1] = procesos[q + 1]  BY <1>3, <1>6, <1>10
<1>12. Largo(q)' = Largo(q)  BY <1>4, <1>11 DEF Largo, PagMem, Get
<1>13. ~ Suspendiendo(q)  BY <1>1, <1>9 DEF Suspendiendo
<1>. QED  BY <1>11, <1>12, <1>13 DEF RelojInv

\* The page that was being brought is listed.
LEMMA RelojTrasTraer ==
    ASSUME IInv, IInv', RelojInv, Traer_a_memoria
    PROVE  RelojInv'
<1>1. CASE UNCHANGED <<procesos, kernel, cpu>>  BY <1>1, RelojAjeno
<1>2. CASE /\ procesos' = IF cpu.nueva = NADIE THEN procesos
                 ELSE [procesos EXCEPT ![cpu.pid_ + 1].pagMem =
                                          AgregarOrdenada(@, cpu.nueva)]
           /\ cpu' = [cpu EXCEPT !.pc = "responder", !.nueva = NADIE]
           /\ kernel' = kernel
  <2>1. cpu'.pc = "responder" /\ cpu'.nueva = NADIE /\ cpu'.pid = cpu.pid
    BY <1>2 DEF IInv, Tipos, TipoHilos, TipoCpu
  <2>2. CASE cpu.nueva = NADIE
    <3>1. \A p : Suspendiendo(p)' <=> Suspendiendo(p)  BY <1>2 DEF Suspendiendo
    <3>. QED  BY <1>2, <2>1, <2>2, <3>1, RelojQuieto
  <2>3. CASE cpu.nueva # NADIE
    <3>1. PICK p : p = cpu.pid  OBVIOUS
    <3>2. p \in Iniciados /\ cpu.pid_ = p /\ cpu.nueva \in Nat
      <4>1. cpu.pc = "traer" /\ p \in Proceso /\ estado[p] = "exec" /\ cpu.pid_ = p
        BY <3>1 DEF Traer_a_memoria, IInv, CpuInv, Ejecuta
      <4>2. p \in Iniciados  BY <4>1 DEF IInv, LlegadaInv, SinIniciar
      <4>. QED  BY <2>3, <4>1, <4>2 DEF IInv, Tipos, TipoHilos, TipoCpu
    <3>3. /\ p \in Nat /\ p + 1 \in DOMAIN procesos /\ procesos \in Seq(FilaProceso)
          /\ procesos[p + 1] \in FilaProceso /\ PagMem(p) = procesos[p + 1].pagMem
          /\ PagMem(p) \in Seq(Nat) /\ Len(PagMem(p)) \in Nat
      BY <3>2, Filas DEF IInv, Tipos, LlegadaInv, TipoTablas, FilaProceso
    <3>4. PICK ys : ys = AgregarOrdenada(PagMem(p), cpu.nueva) /\ Len(ys) = Len(PagMem(p)) + 1
      BY <3>2, <3>3, PaginaAgregada
    <3>5. PICK r0 \in FilaProceso : r0 = procesos[p + 1]  BY <3>3
    <3>6. procesos' = [procesos EXCEPT ![p + 1] = [r0 EXCEPT !.pagMem = ys]]
      BY <1>2, <2>3, <3>2, <3>3, <3>4, <3>5
    <3>7. PICK r : /\ r = [r0 EXCEPT !.pagMem = ys] /\ r.pagMem = ys
                   /\ r.puntero = r0.puntero /\ r.contador = r0.contador
      <4>1. r0 \in FilaProceso  OBVIOUS
      <4>2. LET r == [r0 EXCEPT !.pagMem = ys] IN
            r.pagMem = ys /\ r.puntero = r0.puntero /\ r.contador = r0.contador
        BY ONLY <4>1 DEF FilaProceso
      <4>. QED  BY ONLY <4>2
    <3>8. procesos'[p + 1] = r /\ Len(procesos') = Len(procesos)
          /\ \A q \in Nat : q # p => procesos'[q + 1] = procesos[q + 1]
      BY <3>3, <3>6, <3>7
    <3>9. Iniciados' = Iniciados  BY <3>8 DEF Iniciados
    <3>10. SUFFICES ASSUME NEW q \in Iniciados, ~ Suspendiendo(q)'
           PROVE  Alineado(procesos'[q + 1], Largo(q)')
      BY <3>9 DEF RelojInv, Alineado
    <3>11. ~ Suspendiendo(q)  BY <1>2, <3>10 DEF Suspendiendo
    <3>12. q \in Nat  BY Filas DEF IInv, Tipos, LlegadaInv
    <3>13. CASE q = p
      <4>1. PagMem(p)' = ys  BY <3>7, <3>8 DEF PagMem, Get
      <4>2. Largo(p)' = Len(PagMem(p)) + 1
        BY <2>1, <3>3, <3>4, <4>1 DEF Largo
      <4>3. Largo(p) = Len(PagMem(p)) + 1  BY <2>3, <3>1 DEF Largo
      <4>4. Alineado(r0, Largo(p))  BY <3>5, <3>11, <3>13 DEF RelojInv
      <4>5. Alineado(r, Largo(p))  BY <3>7, <4>4 DEF Alineado
      <4>. QED  BY <3>8, <3>13, <4>2, <4>3, <4>5
    <3>14. CASE q # p
      <4>1. procesos'[q + 1] = procesos[q + 1]  BY <3>8, <3>12, <3>14
      <4>2. PagMem(q)' = PagMem(q)  BY <4>1 DEF PagMem, Get
      <4>3. Largo(q)' = Largo(q)  BY <2>1, <3>1, <3>14, <4>2 DEF Largo
      <4>. QED  BY <3>11, <4>1, <4>3 DEF RelojInv
    <3>. QED  BY <3>13, <3>14
  <2>. QED  BY <2>2, <2>3
<1>. QED  BY <1>1, <1>2 DEF Traer_a_memoria, Morir

\* page_fault moves the hand.
LEMMA RelojTrasTomar ==
    ASSUME IInv, IInv', RelojInv, TomarFrame
    PROVE  RelojInv'
<1>1. PICK p : p = cpu.pid  OBVIOUS
<1>2. /\ cpu.pc = "tomar" /\ cpu.pid_ = p /\ p \in Proceso /\ estado[p] = "exec"
      /\ cpu.nueva = NADIE
  BY <1>1 DEF TomarFrame, IInv, CpuInv, Ejecuta
<1>3. p \in Iniciados  BY <1>2 DEF IInv, LlegadaInv, SinIniciar
<1>4. /\ p \in Nat /\ p + 1 \in DOMAIN procesos /\ procesos[p + 1] \in FilaProceso
      /\ PagMem(p) = procesos[p + 1].pagMem /\ Len(PagMem(p)) \in Nat
  BY <1>3, Filas DEF IInv, Tipos, LlegadaInv
<1>5. PICK c \in Nat : c = procesos[p + 1].contador + 1  BY <1>4 DEF FilaProceso
<1>6. PICK l \in Nat \ {0} : l = Len(PagMem(p)) + 1  BY <1>4
<1>7. c % l \in Nat  BY Resto
<1>8. PICK d \in Nat : d = IF c >= MARCOS_POR_PROCESO THEN c % l ELSE c  BY <1>7
<1>9. procesos' = [procesos EXCEPT ![p + 1].contador = c, ![p + 1].puntero = d]
  BY <1>2, <1>4, <1>5, <1>6, <1>8 DEF TomarFrame, Proceso_, Get
<1>10. \A q \in Iniciados : PagMem(q)' = PagMem(q)
  BY <1>3, <1>9, RelojMovido DEF IInv, Tipos, LlegadaInv
<1>11. kernel' = kernel
       /\ cpu' = [cpu EXCEPT !.pc = "traer", !.byte = {}, !.nueva = Len(paginas')]
       /\ paginas' = Append(paginas, [numero |-> cpu.numero, entrada |-> cpu.numero])
  BY DEF TomarFrame
<1>12. Len(paginas') \in Nat /\ NADIE \notin Nat
  <2>1. paginas' \in Seq([numero : Nat, entrada : Nat])  BY DEF IInv, Tipos, TipoTablas
  <2>. QED  BY <2>1 DEF NADIE
<1>13. cpu'.pid = p /\ cpu'.nueva # NADIE
  BY <1>1, <1>11, <1>12 DEF IInv, Tipos, TipoHilos, TipoCpu
<1>14. Largo(p)' = l  BY <1>3, <1>6, <1>10, <1>13 DEF Largo
<1>. QED  BY <1>1, <1>2, <1>3, <1>8, <1>9, <1>11, <1>13, <1>14, RelojTrasFallo

LEMMA RelojTrasReemplazar ==
    ASSUME IInv, IInv', RelojInv, Reemplazar
    PROVE  RelojInv'
<1> DEFINE pr0 == Chequeado(Proceso_)
           c0 == pr0.contador + Turno(pr0) + 1
<1>1. /\ cpu.pc = "entrada2" /\ kernel' = kernel
      /\ EnLista(pr0.pagMem, pr0.puntero)
      /\ procesos' = [procesos EXCEPT ![cpu.pid_ + 1].contador = c0,
                         ![cpu.pid_ + 1].puntero = c0 % Len(pr0.pagMem)]
      /\ \E u, f : cpu' = [cpu EXCEPT !.pc = "traer", !.numero = u, !.marco = f,
                                      !.nueva = NADIE]
  BY DEF Reemplazar, EnPageFault
<1>2. PICK p \in Iniciados : p = cpu.pid /\ cpu.pid_ = p  BY <1>1, PedidoPropio
<1>3. /\ p \in Nat /\ p + 1 \in DOMAIN procesos /\ procesos[p + 1] \in FilaProceso
      /\ PagMem(p) = procesos[p + 1].pagMem /\ PagMem(p) \in Seq(Nat)
      /\ Len(PagMem(p)) \in Nat /\ Posiciones(p) = 1 .. Len(PagMem(p))
  BY Filas DEF IInv, Tipos, LlegadaInv
<1>4. PICK pr \in FilaProceso : pr = pr0 /\ pr.pagMem = PagMem(p)
  <2>1. PICK r \in FilaProceso : r = Proceso_ /\ r.pagMem = PagMem(p)
    BY <1>2, <1>3 DEF Proceso_, Get
  <2>2. /\ [r EXCEPT !.puntero = 0] \in FilaProceso
        /\ [r EXCEPT !.puntero = 0].pagMem = r.pagMem
    <3>1. r \in FilaProceso  OBVIOUS
    <3>. QED  BY ONLY <3>1 DEF FilaProceso
  <2>3. Chequeado(r) \in FilaProceso /\ Chequeado(r).pagMem = r.pagMem
    BY <2>2 DEF Chequeado
  <2>. QED  BY <2>1, <2>3
<1>5. Turno(pr) \in Nat /\ Posicion(pr, Turno(pr)) + 1 \in Posiciones(p)
  BY <1>1, <1>4, HayVictima
<1>6. PICK c \in Nat : c = c0
  <2>1. pr.contador \in Nat  BY DEF FilaProceso
  <2>. QED  BY <1>4, <1>5, <2>1
<1>7. PICK l \in Nat \ {0} : l = Len(PagMem(p))  BY <1>3, <1>5
<1>8. PICK d \in Nat : d = c % l  BY Resto
<1>9. procesos' = [procesos EXCEPT ![p + 1].contador = c, ![p + 1].puntero = d]
  BY <1>1, <1>2, <1>4, <1>6, <1>7, <1>8
<1>. HIDE DEF pr0, c0
<1>10. \A q \in Iniciados : PagMem(q)' = PagMem(q)
  BY <1>2, <1>9, RelojMovido DEF IInv, Tipos, LlegadaInv
<1>11. cpu'.pid = p /\ cpu'.nueva = NADIE
  BY <1>1, <1>2 DEF IInv, Tipos, TipoHilos, TipoCpu
<1>12. Largo(p)' = l  BY <1>2, <1>7, <1>10, <1>11 DEF Largo
<1>13. cpu.nueva = NADIE  BY <1>1 DEF IInv, CpuInv
<1>14. Largo(p)' \in Nat \ {0} /\ d = c % Largo(p)'  BY <1>8, <1>12
<1>. QED  BY <1>1, <1>2, <1>9, <1>11, <1>13, <1>14, RelojTrasFallo

\* The hand is aligned in every step.
LEMMA RelojPaso ==
    ASSUME IInv, IInv', RelojInv, [Next]_vars
    PROVE  RelojInv'
<1>. USE DEF IInv, Tipos, TipoHilos
<1>1. CASE UNCHANGED vars  BY <1>1, RelojAjeno DEF vars
<1>2. CASE KernelYCpu
  <2>1. CASE PedirInicializar  BY <2>1, RelojAjeno DEF PedirInicializar, tablas
  <2>2. ASSUME NEW p \in Proceso,
               Despachar(p) \/ Bloquear(p) \/ Desbloquear(p) \/ Suspender(p) \/ Terminar(p)
        PROVE  RelojInv'
    BY <2>2, RelojAjeno DEF Despachar, Bloquear, Desbloquear, Suspender, Terminar, tablas
  <2>3. ASSUME NEW p \in Proceso, NEW n \in Pagina, NEW op \in INSTRUCCIONES,
               Acceso(p, n, op)
        PROVE  RelojInv'
    <3>1. cpu.pc = "libre" /\ UNCHANGED <<procesos, kernel>>  BY <2>3 DEF Acceso, tablas
    <3>2. cpu'.pc # "traer"
      BY <2>3 DEF Acceso, TipoCpu
    <3>. QED  BY <3>1, <3>2, RelojDeCpu
  <2>. QED  BY <1>2, <2>1, <2>2, <2>3 DEF KernelYCpu
<1>3. CASE Funciones_kernel
  <2>1. CASE Inicializar_proceso  BY <2>1, RelojTrasIniciar
  <2>2. CASE LiberarPagina        BY <2>2, RelojTrasLiberar
  <2>3. CASE FinSuspender
    <3>1. /\ UNCHANGED <<procesos, cpu>> /\ PagMem(kernel.pid) = <<>>
          /\ kernel.pc = "liberar"
      BY <2>3 DEF FinSuspender, tablas
    <3>2. \A p \in Iniciados : Suspendiendo(p) => PagMem(p) = <<>>
      BY <3>1 DEF Suspendiendo
    <3>. QED  BY <3>1, <3>2, RelojQuieto
  <2>4. CASE MuereKernel
    BY <2>4, RelojAjeno DEF MuereKernel, Morir
  <2>5. CASE Crear_archivo_swap \/ Suspender_proceso \/ LimpiarBit
               \/ Finalizar_proceso \/ BorrarFrame \/ Eliminar_archivo_swap
    <3>1. /\ UNCHANGED <<procesos, cpu>>
          /\ \A p : Suspendiendo(p) => Suspendiendo(p)'
      <4>1. CASE Crear_archivo_swap
        BY <4>1 DEF Crear_archivo_swap, tablas, Suspendiendo
      <4>2. CASE Suspender_proceso
        BY <4>2 DEF Suspender_proceso, Recibe, tablas, Suspendiendo
      <4>3. CASE LimpiarBit
        BY <4>3 DEF LimpiarBit, tablas, Suspendiendo
      <4>4. CASE Finalizar_proceso
        BY <4>4 DEF Finalizar_proceso, Recibe, tablas, Suspendiendo
      <4>5. CASE BorrarFrame
        BY <4>5 DEF BorrarFrame, tablas, Suspendiendo
      <4>6. CASE Eliminar_archivo_swap
        BY <4>6 DEF Eliminar_archivo_swap, tablas, Suspendiendo
      <4>. QED  BY <2>5, <4>1, <4>2, <4>3, <4>4, <4>5, <4>6
    <3>. QED  BY <3>1, RelojQuieto
  <2>. QED  BY <1>3, <2>1, <2>2, <2>3, <2>4, <2>5 DEF Funciones_kernel
<1>4. CASE Funciones_cpu
  <2>1. CASE TomarFrame       BY <2>1, RelojTrasTomar
  <2>2. CASE Reemplazar       BY <2>2, RelojTrasReemplazar
  <2>3. CASE Traer_a_memoria  BY <2>3, RelojTrasTraer
  <2>4. CASE Entrada1 \/ EntradaPresente \/ BuscarFrameLibre \/ ReemplazarSinPaginas
               \/ ResponderMarco \/ Lectura \/ Escritura \/ Marcar
    <3>1. \/ UNCHANGED <<procesos, kernel, cpu>>
          \/ UNCHANGED <<procesos, kernel>> /\ cpu.pc # "traer" /\ cpu'.pc # "traer"
      <4>1. CASE Entrada1
        BY <4>1 DEF Entrada1, Morir, tablas, TipoCpu
      <4>2. CASE EntradaPresente
        BY <4>2 DEF EntradaPresente, tablas, TipoCpu
      <4>3. CASE BuscarFrameLibre
        BY <4>3 DEF BuscarFrameLibre, EnPageFault, tablas, TipoCpu
      <4>4. CASE ReemplazarSinPaginas
        BY <4>4 DEF ReemplazarSinPaginas, EnPageFault, Morir, tablas, TipoCpu
      <4>5. CASE ResponderMarco
        BY <4>5 DEF ResponderMarco, tablas, TipoCpu
      <4>6. CASE Lectura \/ Escritura
        BY <4>6 DEF Lectura, Escritura, tablas, TipoCpu
      <4>7. CASE Marcar
        BY <4>7 DEF Marcar, tablas, CpuLibre
      <4>. QED  BY <2>4, <4>1, <4>2, <4>3, <4>4, <4>5, <4>6, <4>7
    <3>. QED  BY <3>1, RelojAjeno, RelojDeCpu
  <2>. QED  BY <1>4, <2>1, <2>2, <2>3, <2>4 DEF Funciones_cpu
<1>5. CASE Swap_
  <2>1. UNCHANGED <<procesos, kernel, cpu>>
    BY <1>5 DEF Swap_, TomarPedido, QuitarPedido, CopiarPedido, CopiarSinArchivo,
                Morir, tablas
  <2>. QED  BY <2>1, RelojAjeno
<1>. QED  BY <1>1, <1>2, <1>3, <1>4, <1>5 DEF Next, Viva

\* In a round from any turn the hand meets every position.
LEMMA Ronda ==
    ASSUME NEW c \in Nat, NEW l \in Nat \ {0}, NEW a \in Nat, NEW q \in 0 .. l - 1
    PROVE  \E k \in Nat : a <= k /\ k < a + l /\ (c + k) % l = q
<1>1. PICK n \in Nat : n = c + a  OBVIOUS
<1> DEFINE t == n \div l
           r == n % l
<1>2. t \in Nat /\ r \in 0 .. l - 1 /\ n = l * t + r  BY Resto
<1>. HIDE DEF t, r
<1>3. l * t \in Nat /\ l * (t + 1) = l * t + l /\ t + 1 \in Nat  BY <1>2, SMT
<1>4. CASE r <= q
  <2>1. PICK k \in Nat : k = a + (q - r)  BY <1>2, <1>4
  <2>2. PICK m \in Nat : m = c + k /\ m = l * t + q  BY <1>1, <1>2, <1>3, <2>1
  <2>3. l * t <= m /\ m < l * t + l  BY <1>3, <2>2
  <2>4. m % l = m - l * t  BY <1>2, <2>3, Cociente
  <2>5. m % l = q  BY <1>3, <2>2, <2>4
  <2>6. a <= k /\ k < a + l  BY <1>2, <1>4, <2>1
  <2>. QED  BY ONLY <2>2, <2>5, <2>6
<1>5. CASE q < r
  <2>1. PICK k \in Nat : k = a + (q - r) + l  BY <1>2, <1>5
  <2>2. PICK m \in Nat : m = c + k /\ m = l * (t + 1) + q  BY <1>1, <1>2, <1>3, <2>1
  <2>3. l * (t + 1) <= m /\ m < l * (t + 1) + l  BY <1>3, <2>2
  <2>4. m % l = m - l * (t + 1)  BY <1>3, <2>3, Cociente
  <2>5. m % l = q  BY <1>3, <2>2, <2>4
  <2>6. a <= k /\ k < a + l  BY <1>2, <1>5, <2>1
  <2>. QED  BY ONLY <2>2, <2>5, <2>6
<1>. QED  BY <1>2, <1>4, <1>5

\* The hand meets a position again a round later at the earliest.
LEMMA SinRepetir ==
    ASSUME NEW c \in Nat, NEW l \in Nat \ {0}, NEW j \in Nat, NEW k \in Nat,
           j < k, (c + j) % l = (c + k) % l
    PROVE  j + l <= k
<1>1. PICK m \in Nat : m = c + j  OBVIOUS
<1>2. PICK n \in Nat : n = c + k  OBVIOUS
<1> DEFINE s == m \div l
           t == n \div l
           r == n % l
<1>3. s \in Nat /\ t \in Nat /\ r \in 0 .. l - 1 /\ m = l * s + r /\ n = l * t + r
  BY <1>1, <1>2, Resto
<1>. HIDE DEF s, t, r
<1>4. l * s \in Nat /\ l * t \in Nat  BY <1>3, SMT
<1>5. s < t
  <2>1. SUFFICES ASSUME ~ s < t PROVE FALSE  OBVIOUS
  <2>2. t = s \/ t < s  BY <1>3, <2>1
  <2>3. l * t <= l * s
    <3>1. CASE t = s  BY <1>4, <3>1
    <3>2. CASE t < s
      <4>1. l * t + l <= l * s  BY <1>3, <3>2, Producto
      <4>. QED  BY <1>4, <4>1
    <3>. QED  BY <2>2, <3>1, <3>2
  <2>. QED  BY <1>1, <1>2, <1>3, <1>4, <2>3
<1>6. l * s + l <= l * t  BY <1>3, <1>5, Producto
<1>. QED  BY <1>1, <1>2, <1>3, <1>4, <1>6

\* The pass of clock_M that a turn belongs to.
LEMMA Pasada ==
    ASSUME NEW l \in Nat \ {0}, NEW k \in Nat
    PROVE  /\ k < l => (k \div l) % 2 = 0
           /\ l <= k /\ k < 2 * l => (k \div l) % 2 = 1
           /\ 2 * l <= k /\ k < 3 * l => (k \div l) % 2 = 0
           /\ k = 3 * l => (k \div l) % 2 = 1
<1>1. 0 % 2 = 0 /\ 1 % 2 = 1 /\ 2 % 2 = 0 /\ 3 % 2 = 1  BY SMT
<1>2. l * 0 = 0 /\ l * 1 = l /\ l * 2 = 2 * l /\ l * 3 = 3 * l  BY SMT
<1>3. k < l => k \div l = 0  BY <1>2, Cociente
<1>4. l <= k /\ k < 2 * l => k \div l = 1
  <2>1. l <= k /\ k < 2 * l => l * 1 <= k /\ k < l * 1 + l  BY <1>2
  <2>. QED  BY <2>1, Cociente
<1>5. 2 * l <= k /\ k < 3 * l => k \div l = 2
  <2>1. 2 * l <= k /\ k < 3 * l => l * 2 <= k /\ k < l * 2 + l  BY <1>2
  <2>. QED  BY <2>1, Cociente
<1>6. k = 3 * l => k \div l = 3
  <2>1. k = 3 * l => l * 3 <= k /\ k < l * 3 + l  BY <1>2
  <2>. QED  BY <2>1, Cociente
<1>. QED  BY <1>1, <1>3, <1>4, <1>5, <1>6

\* The entry at position q of pagMem.
EntradaAqui(pr, q) == EntradaDe(Get(pr.pagMem, q))

\* What the hand saw before it found its victim, and what the victim is.
LEMMA VictimaDelReloj ==
    ASSUME IInv, NEW p \in Iniciados, NEW pr \in FilaProceso,
           pr.pagMem = PagMem(p), EnLista(pr.pagMem, pr.puntero),
           pr.puntero = pr.contador % Len(pr.pagMem),
           ALGORITMO_REEMPLAZO \in {"CLOCK", "CLOCK-M"},
           NEW q \in 0 .. Len(pr.pagMem) - 1
    PROVE  LET v == EntradaEn(pr, Turno(pr))
               e == EntradaAqui(pr, q)
           IN  /\ ALGORITMO_REEMPLAZO = "CLOCK" /\ v.bUso = 1 => e.bUso = 1
               /\ ALGORITMO_REEMPLAZO = "CLOCK-M" => Clase(v) <= Clase(e)
<1>1. PICK l \in Nat \ {0} : l = Len(pr.pagMem) /\ DOMAIN pr.pagMem = 1 .. l
  <2>1. pr.pagMem \in Seq(Nat)  BY DEF FilaProceso
  <2>. QED  BY <2>1
<1>2. PICK c \in Nat : c = pr.contador  BY DEF FilaProceso
<1>3. \A k \in Nat : Posicion(pr, k) = (c + k) % l
  BY <1>1, <1>2 DEF Posicion
<1>4. \A k \in Nat : (c + k) % l \in 0 .. l - 1
  <2>1. \A k \in Nat : c + k \in Nat  OBVIOUS
  <2>. QED  BY <2>1, Resto
<1>5. \A i \in 0 .. l - 1 : EntradaAqui(pr, i) \in EntradaTabla
  <2>1. SUFFICES ASSUME NEW i \in 0 .. l - 1 PROVE EntradaAqui(pr, i) \in EntradaTabla
    OBVIOUS
  <2>2. PICK j \in Posiciones(p) : j = i + 1
    <3>1. i + 1 \in 1 .. l  OBVIOUS
    <3>. QED  BY <1>1, <3>1 DEF Posiciones
  <2>3. PICK n : n = EntradaDePag(p, j) /\ n + 1 \in DOMAIN tabla_2_l  BY PaginaListada
  <2>4. EntradaAqui(pr, i) = tabla_2_l[n + 1]
    BY <2>2, <2>3 DEF EntradaAqui, EntradaDe, EntradaDePag, Get
  <2>5. tabla_2_l \in Seq(EntradaTabla)  BY DEF IInv, Tipos, TipoTablas
  <2>6. PICK i1 \in DOMAIN tabla_2_l : i1 = n + 1  BY <2>3
  <2>7. tabla_2_l[i1] \in EntradaTabla  BY <2>5
  <2>. QED  BY ONLY <2>4, <2>6, <2>7
<1>6. \A k \in Nat : EntradaEn(pr, k) = EntradaAqui(pr, (c + k) % l)
  BY <1>3 DEF EntradaEn, EntradaAqui
<1>7. PICK t \in Nat : /\ t = Turno(pr) /\ t <= 3 * l /\ EsVictima(pr, t)
                       /\ \A k \in Nat : k < t => ~ EsVictima(pr, k)
  BY <1>1, HayVictima
\* The bits of the page at a position, and of the victim.
<1>. DEFINE U(i) == EntradaAqui(pr, i).bUso
            M(i) == EntradaAqui(pr, i).bMod
            Pos(k) == (c + k) % l
            w == Pos(t)
<1>8. \A i \in 0 .. l - 1 : U(i) \in {0, 1} /\ M(i) \in {0, 1}
  BY <1>5 DEF EntradaTabla
<1>9. \A k \in Nat : Pos(k) \in 0 .. l - 1  BY <1>4
<1>10. \A k \in Nat : EsVictima(pr, k) <=>
          /\ U(Pos(k)) = 0 \/ \E j \in 0 .. k - 1 : Borra(pr, j) /\ Pos(j) = Pos(k)
          /\ ALGORITMO_REEMPLAZO = "CLOCK" \/ M(Pos(k)) = (k \div l) % 2
  <2>1. SUFFICES ASSUME NEW k \in Nat
        PROVE  EsVictima(pr, k) <=>
          /\ U(Pos(k)) = 0 \/ \E j \in 0 .. k - 1 : Borra(pr, j) /\ Pos(j) = Pos(k)
          /\ ALGORITMO_REEMPLAZO = "CLOCK" \/ M(Pos(k)) = (k \div l) % 2
    OBVIOUS
  <2>2. \A j \in 0 .. k - 1 : Posicion(pr, j) = Pos(j)  BY <1>3
  <2>3. Posicion(pr, k) = Pos(k) /\ EntradaEn(pr, k) = EntradaAqui(pr, Pos(k))
    BY <1>3, <1>6
  <2>. QED  BY <1>1, <2>2, <2>3 DEF EsVictima
<1>11. \A i \in 0 .. l - 1, a \in Nat : \E k \in Nat : a <= k /\ k < a + l /\ Pos(k) = i
  BY Ronda
<1>12. \A j, k \in Nat : j < k /\ Pos(j) = Pos(k) => j + l <= k
  BY SinRepetir
<1>13. w \in 0 .. l - 1 /\ EntradaEn(pr, Turno(pr)) = EntradaAqui(pr, w)
  BY <1>6, <1>7, <1>9
<1>14. q \in 0 .. l - 1  BY <1>1
<1>. HIDE DEF U, M, Pos, w
<1>15. ASSUME ALGORITMO_REEMPLAZO = "CLOCK", U(w) = 1
       PROVE  U(q) = 1
  <2>1. PICK j \in 0 .. t - 1 : Pos(j) = Pos(t)
    BY <1>7, <1>10, <1>15 DEF w
  <2>2. j \in Nat /\ j < t /\ l <= t
    <3>1. j \in Nat /\ j < t  BY <1>7
    <3>2. j + l <= t  BY <1>12, <2>1, <3>1
    <3>. QED  BY <3>1, <3>2
  <2>3. PICK k \in Nat : k < l /\ Pos(k) = q
    <3>1. \E k \in Nat : 0 <= k /\ k < 0 + l /\ Pos(k) = q  BY <1>11, <1>14
    <3>. QED  BY <3>1
  <2>4. ~ EsVictima(pr, k)  BY <1>7, <2>2, <2>3
  <2>. QED  BY <1>8, <1>10, <1>14, <1>15, <2>3, <2>4
<1>16. ASSUME ALGORITMO_REEMPLAZO = "CLOCK-M"
       PROVE  2 * U(w) + M(w) <= 2 * U(q) + M(q)
  <2>1. \A k \in Nat : (k \div l) % 2 = 1 <=> Borra(pr, k)
    BY <1>1, <1>16 DEF Borra
  <2>2. \A k \in Nat : EsVictima(pr, k) <=>
          /\ U(Pos(k)) = 0 \/ \E j \in 0 .. k - 1 : Borra(pr, j) /\ Pos(j) = Pos(k)
          /\ M(Pos(k)) = (k \div l) % 2
    BY <1>10, <1>16
  \* The first pass takes a page that is not used and not modified.
  <2>3. \A k \in Nat : k < l => (EsVictima(pr, k) <=> U(Pos(k)) = 0 /\ M(Pos(k)) = 0)
    <3>1. SUFFICES ASSUME NEW k \in Nat, k < l
          PROVE  EsVictima(pr, k) <=> U(Pos(k)) = 0 /\ M(Pos(k)) = 0
      OBVIOUS
    <3>2. \A j \in 0 .. k - 1 : ~ Borra(pr, j)
      <4>1. SUFFICES ASSUME NEW j \in Nat, j < k PROVE ~ Borra(pr, j)  OBVIOUS
      <4>2. (j \div l) % 2 = 0
        <5>1. j < l  BY <3>1, <4>1
        <5>. QED  BY <5>1, Pasada
      <4>. QED  BY <2>1, <4>2
    <3>3. (k \div l) % 2 = 0  BY <3>1, Pasada
    <3>. QED  BY <2>2, <3>2, <3>3
  \* The second, one that is not used.
  <2>4. \A k \in Nat : l <= k /\ k < 2 * l =>
           (EsVictima(pr, k) <=> U(Pos(k)) = 0 /\ M(Pos(k)) = 1)
    <3>1. SUFFICES ASSUME NEW k \in Nat, l <= k, k < 2 * l
          PROVE  EsVictima(pr, k) <=> U(Pos(k)) = 0 /\ M(Pos(k)) = 1
      OBVIOUS
    <3>2. \A j \in 0 .. k - 1 : ~ (Borra(pr, j) /\ Pos(j) = Pos(k))
      <4>1. SUFFICES ASSUME NEW j \in Nat, j < k, Borra(pr, j), Pos(j) = Pos(k)
            PROVE  FALSE
        OBVIOUS
      <4>2. j + l <= k  BY <1>12, <4>1
      <4>3. j < l  BY <3>1, <4>2
      <4>4. (j \div l) % 2 = 0  BY <4>3, Pasada
      <4>. QED  BY <2>1, <4>1, <4>4
    <3>3. (k \div l) % 2 = 1  BY <3>1, Pasada
    <3>. QED  BY <2>2, <3>2, <3>3
  \* The third, one that was used and is not modified: bUso is clear by then.
  <2>5. \A k \in Nat : 2 * l <= k /\ k < 3 * l => (EsVictima(pr, k) <=> M(Pos(k)) = 0)
    <3>1. SUFFICES ASSUME NEW k \in Nat, 2 * l <= k, k < 3 * l
          PROVE  EsVictima(pr, k) <=> M(Pos(k)) = 0
      OBVIOUS
    <3>2. PICK j \in Nat : l <= j /\ j < l + l /\ Pos(j) = Pos(k)
      BY <1>9, <1>11
    <3>3. j \in 0 .. k - 1 /\ j < 2 * l  BY <3>1, <3>2
    <3>4. Borra(pr, j)  BY <2>1, <3>2, <3>3, Pasada
    <3>5. (k \div l) % 2 = 0  BY <3>1, Pasada
    <3>. QED  BY <2>2, <3>2, <3>3, <3>4, <3>5
  \* What has gone by.
  <2>6. l <= t => ~ (U(q) = 0 /\ M(q) = 0)
    <3>1. SUFFICES ASSUME l <= t PROVE ~ (U(q) = 0 /\ M(q) = 0)  OBVIOUS
    <3>2. PICK k \in Nat : 0 <= k /\ k < 0 + l /\ Pos(k) = q  BY <1>11, <1>14
    <3>3. k < l /\ k < t  BY <1>7, <3>1, <3>2
    <3>. QED  BY <1>7, <2>3, <3>2, <3>3
  <2>7. 2 * l <= t => ~ (U(q) = 0 /\ M(q) = 1)
    <3>1. SUFFICES ASSUME 2 * l <= t PROVE ~ (U(q) = 0 /\ M(q) = 1)  OBVIOUS
    <3>2. PICK k \in Nat : l <= k /\ k < l + l /\ Pos(k) = q  BY <1>11, <1>14
    <3>3. k < 2 * l /\ k < t  BY <1>7, <3>1, <3>2
    <3>. QED  BY <1>7, <2>4, <3>2, <3>3
  <2>8. 3 * l <= t => M(q) = 1
    <3>1. SUFFICES ASSUME 3 * l <= t PROVE M(q) = 1  OBVIOUS
    <3>2. PICK k \in Nat : 2 * l <= k /\ k < 2 * l + l /\ Pos(k) = q
      <4>1. 2 * l \in Nat  OBVIOUS
      <4>. QED  BY <1>11, <1>14, <4>1
    <3>3. k < 3 * l /\ k < t  BY <1>7, <3>1, <3>2
    <3>. QED  BY <1>7, <1>8, <1>14, <2>5, <3>2, <3>3
  <2>9. U(w) \in {0, 1} /\ M(w) \in {0, 1} /\ U(q) \in {0, 1} /\ M(q) \in {0, 1}
    BY <1>8, <1>13, <1>14
  <2>10. CASE t < l
    <3>1. U(w) = 0 /\ M(w) = 0  BY <1>7, <2>3, <2>10 DEF w
    <3>. QED  BY <2>9, <3>1
  <2>11. CASE l <= t /\ t < 2 * l
    <3>1. U(w) = 0 /\ M(w) = 1  BY <1>7, <2>4, <2>11 DEF w
    <3>. QED  BY <2>6, <2>9, <2>11, <3>1
  <2>12. CASE 2 * l <= t /\ t < 3 * l
    <3>1. M(w) = 0  BY <1>7, <2>5, <2>12 DEF w
    <3>2. l <= t  BY <1>7, <2>12
    <3>. QED  BY <2>6, <2>7, <2>9, <2>12, <3>1, <3>2
  <2>13. CASE t = 3 * l
    <3>1. l <= t /\ 2 * l <= t /\ 3 * l <= t  BY <1>7, <2>13
    <3>. QED  BY <2>6, <2>7, <2>8, <2>9, <3>1
  <2>. QED  BY <1>7, <2>10, <2>11, <2>12, <2>13
<1>. QED  BY <1>13, <1>15, <1>16 DEF U, M, Clase

\* memoria.config names one of the two algorithms.
RelojIInv == IInv /\ RelojInv /\ ALGORITMO_REEMPLAZO \in ALGORITMOS

LEMMA RelojInvariante == ASSUME OrdenDePids PROVE Spec => []RelojIInv
<1>1. Init => RelojIInv
  <2> SUFFICES ASSUME Init PROVE RelojIInv  OBVIOUS
  <2>1. Iniciados = {}  BY DEF Init, Iniciados
  <2>. QED  BY <2>1, IInvInicio DEF RelojIInv, RelojInv, Init
<1>2. RelojIInv /\ [Next]_vars => RelojIInv'
  <2> SUFFICES ASSUME RelojIInv, [Next]_vars PROVE RelojIInv'  OBVIOUS
  <2>1. IInv /\ RelojInv /\ IInv'  BY IInvPaso DEF RelojIInv
  <2>2. UNCHANGED ALGORITMO_REEMPLAZO  BY DEF Next, Viva, vars
  <2>. QED  BY <2>1, <2>2, RelojPaso DEF RelojIInv
<1>. QED  BY <1>1, <1>2, PTL DEF Spec

\* A handler that leaves entrada2 for traer_a_memoria has replaced a page.
LEMMA PasoDeReloj ==
    ASSUME IInv, [Next]_vars, cpu.pc = "entrada2", cpu'.pc = "traer"
    PROVE  Reemplazar
<1>. USE DEF IInv, Tipos, TipoHilos
<1>1. CASE UNCHANGED vars  BY <1>1 DEF vars
<1>2. CASE KernelYCpu
  BY <1>2 DEF KernelYCpu, PedirInicializar, Despachar, Bloquear, Desbloquear, Suspender,
              Terminar, Acceso
<1>3. CASE Funciones_kernel
  BY <1>3 DEF Funciones_kernel, Inicializar_proceso, Crear_archivo_swap,
              Suspender_proceso, LiberarPagina, LimpiarBit, FinSuspender,
              Finalizar_proceso, BorrarFrame, Eliminar_archivo_swap, MuereKernel, Morir
<1>4. CASE Funciones_cpu
  <2>1. CASE EntradaPresente   BY <2>1 DEF EntradaPresente, TipoCpu
  <2>2. CASE BuscarFrameLibre  BY <2>2 DEF BuscarFrameLibre, TipoCpu
  <2>3. CASE ReemplazarSinPaginas
    BY <2>3 DEF ReemplazarSinPaginas, Morir, TipoCpu
  <2>4. CASE Entrada1 \/ TomarFrame \/ Traer_a_memoria \/ ResponderMarco \/ Lectura
               \/ Escritura \/ Marcar
    BY <2>4 DEF Entrada1, TomarFrame, Traer_a_memoria, ResponderMarco, Lectura,
                Escritura, Marcar
  <2>. QED  BY <1>4, <2>1, <2>2, <2>3, <2>4 DEF Funciones_cpu
<1>5. CASE Swap_
  BY <1>5 DEF Swap_, TomarPedido, QuitarPedido, CopiarPedido, CopiarSinArchivo, Morir
<1>. QED  BY <1>1, <1>2, <1>3, <1>4, <1>5 DEF Next, Viva

\* The page replaced is the victim of the clock, and its bits are right.
LEMMA VictimaReemplazada ==
    ASSUME RelojIInv, Reemplazar, ~ Suspendiendo(cpu.pid),
           NEW v \in Reemplazadas, NEW e \in EnMemoria
    PROVE  /\ ALGORITMO_REEMPLAZO = "CLOCK" /\ Get(tabla_2_l, v).bUso = 1 => e.bUso = 1
           /\ ALGORITMO_REEMPLAZO = "CLOCK-M" => Clase(Get(tabla_2_l, v)) <= Clase(e)
<1>. USE DEF RelojIInv
<1> DEFINE pr0 == Chequeado(Proceso_)
           k0 == Turno(pr0)
           x0 == Get(pr0.pagMem, Posicion(pr0, k0))
           v0 == paginas[x0].entrada
           borradas == {paginas[Get(pr0.pagMem, Posicion(pr0, j))].entrada :
                           j \in {i \in 0 .. k0 - 1 : Borra(pr0, i)}}
           Nueva(n) ==
               IF n = NumeroPedido
               THEN [frame |-> EntradaDe(x0).frame, bUso |-> 1, bMod |-> 0, bPres |-> 1]
               ELSE [Get(tabla_2_l, n) EXCEPT
                        !.bUso = IF n \in borradas THEN 0 ELSE @,
                        !.bPres = IF n = v0 THEN 0 ELSE @]
<1>1. /\ cpu.pc = "entrada2" /\ Get(tabla_2_l, NumeroPedido).bPres = 0
      /\ EnLista(pr0.pagMem, pr0.puntero)
      /\ tabla_2_l' = [i \in DOMAIN tabla_2_l |-> Nueva(i - 1)]
  BY DEF Reemplazar, EnPageFault
<1>2. PICK p \in Iniciados : p = cpu.pid /\ cpu.pid_ = p  BY <1>1, PedidoPropio
<1>3. /\ p \in Nat /\ p + 1 \in DOMAIN procesos /\ procesos[p + 1] \in FilaProceso
      /\ PagMem(p) = procesos[p + 1].pagMem /\ PagMem(p) \in Seq(Nat)
      /\ Len(PagMem(p)) \in Nat /\ Posiciones(p) = 1 .. Len(PagMem(p))
  BY Filas DEF IInv, Tipos, LlegadaInv
<1>4. Proceso_ = procesos[p + 1]  BY <1>2 DEF Proceso_, Get
<1>5. PICK r \in FilaProceso : r = Proceso_ /\ r.pagMem = PagMem(p)
  BY <1>3, <1>4
<1>6. Alineado(r, Len(PagMem(p)))
  <2>1. Alineado(procesos[p + 1], Largo(p))  BY <1>2 DEF RelojInv
  <2>2. cpu.nueva = NADIE  BY <1>1 DEF IInv, CpuInv
  <2>. QED  BY <1>3, <1>4, <1>5, <2>1, <2>2 DEF Largo
<1>7. PICK pr \in FilaProceso : /\ pr = pr0 /\ pr.pagMem = PagMem(p)
                                /\ pr.puntero = pr.contador % Len(pr.pagMem)
  <2>1. /\ [r EXCEPT !.puntero = 0] \in FilaProceso
        /\ [r EXCEPT !.puntero = 0].pagMem = r.pagMem
        /\ [r EXCEPT !.puntero = 0].puntero = 0
        /\ [r EXCEPT !.puntero = 0].contador = r.contador
    <3>1. r \in FilaProceso  OBVIOUS
    <3>. QED  BY ONLY <3>1 DEF FilaProceso
  <2>2. PICK l \in Nat : l = Len(PagMem(p)) /\ DOMAIN PagMem(p) = 1 .. l  BY <1>3
  <2>3. PICK d \in Nat : d = r.puntero  BY DEF FilaProceso
  <2>4. pr0 = Chequeado(r)  BY <1>5
  <2>5. CASE d = l
    <3>1. pr0 = [r EXCEPT !.puntero = 0]  BY <1>5, <2>2, <2>3, <2>4, <2>5 DEF Chequeado
    <3>2. pr0.puntero = 0 /\ pr0.pagMem = PagMem(p) /\ pr0.contador = r.contador
      BY <1>5, <2>1, <3>1
    <3>3. 0 + 1 \in 1 .. l  BY <1>1, <2>2, <3>2 DEF EnLista
    <3>4. r.contador % l = 0  BY <1>6, <2>2, <2>3, <2>5, <3>3 DEF Alineado
    <3>. QED  BY <2>1, <2>2, <3>1, <3>2, <3>4
  <2>6. CASE d # l
    <3>1. pr0 = r  BY <1>5, <2>2, <2>3, <2>4, <2>6 DEF Chequeado
    <3>2. d + 1 \in 1 .. l  BY <1>1, <1>5, <2>2, <2>3, <3>1 DEF EnLista
    <3>3. d = r.contador % l  BY <1>6, <2>2, <2>3, <3>2 DEF Alineado
    <3>. QED  BY <1>5, <2>2, <2>3, <3>1, <3>3
  <2>. QED  BY <2>5, <2>6
<1>8. /\ k0 \in Nat /\ Posicion(pr, k0) + 1 \in Posiciones(p)
  BY <1>1, <1>7, HayVictima
<1>9. \A n : n \in {paginas[x].entrada : x \in ToSet(Proceso_.pagMem)} =>
          \E j \in Posiciones(p) : n = EntradaDePag(p, j)
  BY <1>5 DEF ToSet, Posiciones, EntradaDePag
<1>10. Get(tabla_2_l, v) = EntradaEn(pr, Turno(pr))
  <2>1. PICK j \in Posiciones(p) : v = EntradaDePag(p, j)  BY <1>9 DEF Reemplazadas
  <2>2. v + 1 \in DOMAIN tabla_2_l /\ v \in 0 .. Len(tabla_2_l) - 1
        /\ tabla_2_l[v + 1].bPres = 1 /\ tabla_2_l'[v + 1].bPres = 0
    <3>1. IInv /\ p \in Iniciados /\ j \in Posiciones(p)  OBVIOUS
    <3>2. v + 1 \in DOMAIN tabla_2_l /\ v \in 0 .. Len(tabla_2_l) - 1
      BY ONLY <2>1, <3>1, PaginaListada
    <3>3. Get(tabla_2_l, v).bPres = 1 /\ Get(tabla_2_l', v).bPres = 0
      BY DEF Reemplazadas
    <3>. QED  BY <3>2, <3>3 DEF Get
  <2>3. PICK i \in DOMAIN tabla_2_l : i = v + 1 /\ i - 1 = v
    <3>1. v \in 0 .. Len(tabla_2_l) - 1 => (v + 1) - 1 = v  OBVIOUS
    <3>. QED  BY ONLY <2>2, <3>1, Zenon
  <2>4. v # NumeroPedido
    <3>1. Get(tabla_2_l, v).bPres = 1  BY DEF Reemplazadas
    <3>2. SUFFICES ASSUME v = NumeroPedido PROVE FALSE  OBVIOUS
    <3>3. Get(tabla_2_l, v) = Get(tabla_2_l, NumeroPedido)  BY ONLY <3>2
    <3>4. Get(tabla_2_l, NumeroPedido).bPres = 0  BY <1>1
    <3>5. 1 = 0  BY ONLY <3>1, <3>3, <3>4, Zenon
    <3>. QED  BY ONLY <3>5
  <2>5. PICK t \in EntradaTabla : t = tabla_2_l[i] /\ t = Get(tabla_2_l, v)
    BY <2>3 DEF IInv, Tipos, TipoTablas, Get
  <2>6. tabla_2_l'[i] = Nueva(v)  BY <1>1, <2>3
  <2>7. v = v0
    <3>1. SUFFICES ASSUME v # v0 PROVE FALSE  OBVIOUS
    <3>. HIDE DEF borradas, v0
    <3>2. tabla_2_l'[i] = [t EXCEPT !.bUso = IF v \in borradas THEN 0 ELSE t.bUso,
                                    !.bPres = t.bPres]
      <4>1. Nueva(v) = [Get(tabla_2_l, v) EXCEPT
                           !.bUso = IF v \in borradas THEN 0 ELSE @,
                           !.bPres = IF v = v0 THEN 0 ELSE @]
        BY <2>4
      <4>2. Nueva(v) = [t EXCEPT !.bUso = IF v \in borradas THEN 0 ELSE t.bUso,
                                 !.bPres = IF v = v0 THEN 0 ELSE t.bPres]
        BY <2>5, <4>1
      <4>. HIDE DEF Nueva
      <4>. QED  BY <2>6, <3>1, <4>2
    <3>3. tabla_2_l'[i].bPres = t.bPres
      <4>1. t \in EntradaTabla  OBVIOUS
      <4>. QED  BY ONLY <3>2, <4>1 DEF EntradaTabla
    <3>. QED  BY <2>2, <2>3, <2>5, <3>3
  <2>8. EntradaEn(pr, Turno(pr)) = EntradaDe(x0)  BY <1>7 DEF EntradaEn
  <2>. QED  BY <2>7, <2>8 DEF EntradaDe
<1>11. PICK q \in 0 .. Len(pr.pagMem) - 1 : e = EntradaAqui(pr, q)
  <2>1. PICK x \in ToSet(Proceso_.pagMem) : e = Get(tabla_2_l, paginas[x].entrada)
    BY DEF EnMemoria
  <2>2. PICK j \in 1 .. Len(PagMem(p)) : x = PagMem(p)[j]
    BY <1>3, <1>5, <2>1 DEF ToSet, Posiciones
  <2>3. PICK q \in 0 .. Len(PagMem(p)) - 1 : q + 1 = j
    <3>1. j - 1 \in 0 .. Len(PagMem(p)) - 1 /\ (j - 1) + 1 = j  BY <1>3
    <3>. QED  BY <3>1
  <2>. QED  BY <1>7, <2>1, <2>2, <2>3 DEF EntradaAqui, EntradaDe, Get
<1>12. EnLista(pr.pagMem, pr.puntero)  BY <1>1, <1>7
<1>13. ALGORITMO_REEMPLAZO \in {"CLOCK", "CLOCK-M"}  BY AlgoritmoAssumption
<1>. HIDE DEF pr0, k0, x0, v0, borradas, Nueva
<1>14. LET w == EntradaEn(pr, Turno(pr))
           f == EntradaAqui(pr, q)
       IN  /\ ALGORITMO_REEMPLAZO = "CLOCK" /\ w.bUso = 1 => f.bUso = 1
           /\ ALGORITMO_REEMPLAZO = "CLOCK-M" => Clase(w) <= Clase(f)
  BY <1>7, <1>12, <1>13, VictimaDelReloj
<1>. QED  BY <1>10, <1>11, <1>14

\* clock_ gives every page of a process its second chance before it takes one in
\* use (funciones_cpu.c:325), whatever was suspended before.
THEOREM RelojDaSegundaOportunidad ==
    ASSUME OrdenDePids PROVE Spec => SegundaOportunidad
<1>1. RelojIInv /\ [Next]_vars =>
        [(/\ ALGORITMO_REEMPLAZO = "CLOCK" /\ ~ Suspendiendo(cpu.pid)
          /\ cpu.pc = "entrada2" /\ cpu'.pc = "traer") =>
          \A v \in Reemplazadas : Get(tabla_2_l, v).bUso = 1
              => \A e \in EnMemoria : e.bUso = 1]_vars
  BY PasoDeReloj, VictimaReemplazada DEF RelojIInv
<1>. QED  BY <1>1, RelojInvariante, PTL DEF SegundaOportunidad, Spec

\* clock_M takes a page of the lowest class there is (funciones_cpu.c:362).
THEOREM RelojTomaLaMenorClase ==
    ASSUME OrdenDePids PROVE Spec => VictimaDeMenorClase
<1>1. RelojIInv /\ [Next]_vars =>
        [(/\ ALGORITMO_REEMPLAZO = "CLOCK-M" /\ ~ Suspendiendo(cpu.pid)
          /\ cpu.pc = "entrada2" /\ cpu'.pc = "traer") =>
          \A v \in Reemplazadas, e \in EnMemoria :
              Clase(Get(tabla_2_l, v)) <= Clase(e)]_vars
  BY PasoDeReloj, VictimaReemplazada DEF RelojIInv
<1>. QED  BY <1>1, RelojInvariante, PTL DEF VictimaDeMenorClase, Spec

-----------------------------------------------------------------------------
(* What each step of the tables leaves in them.                             *)

\* page_fault gives the page asked for a free frame.
LEMMA TrasTomar ==
    ASSUME IInv, TomarFrame
    PROVE  LET p == cpu.pid
               nu == cpu.numero IN
           /\ p \in Iniciados /\ p \in Proceso /\ cpu.pid_ = p /\ nu \in EntradasDe(p)
           /\ estado[p] = "exec" /\ cpu.pc = "tomar"
           /\ ~ Presente(nu) /\ cpu.marco \in Frame
           /\ nu \in Nat /\ nu \in 0 .. Len(tabla_2_l) - 1
           /\ cpu' = [cpu EXCEPT !.pc = "traer", !.byte = {}, !.nueva = Len(paginas) + 1]
           /\ Len(tabla_2_l') = Len(tabla_2_l)
           /\ tabla_2_l'[nu + 1].bPres = 1 /\ tabla_2_l'[nu + 1].bMod = 0
           /\ tabla_2_l'[nu + 1].frame = cpu.marco
           /\ \A n \in 0 .. Len(tabla_2_l) - 1 : n # nu => tabla_2_l'[n + 1] = tabla_2_l[n + 1]
           /\ Len(paginas) \in Nat /\ DOMAIN paginas = 1 .. Len(paginas)
           /\ DOMAIN paginas' = 1 .. Len(paginas) + 1
           /\ paginas'[Len(paginas) + 1] = [numero |-> nu, entrada |-> nu]
           /\ \A x \in DOMAIN paginas : paginas'[x] = paginas[x]
           /\ Len(procesos') = Len(procesos) /\ Iniciados' = Iniciados
           /\ \A q \in Iniciados : PagMem(q)' = PagMem(q)
           /\ UNCHANGED tabla_1_l
           /\ \A q : TablasDe(q)' = TablasDe(q) /\ EntradasDe(q)' = EntradasDe(q)
           /\ UNCHANGED <<memoria, enSwap, kernel, swap, enCpu, socket_kernel, estado,
                          suspensiones, escrito, fiel, caida>>
<1>1. PICK p : p = cpu.pid  OBVIOUS
<1>2. PICK nu : nu = cpu.numero  OBVIOUS
<1>3. PICK f : f = cpu.marco  OBVIOUS
<1>4. /\ cpu.pc = "tomar" /\ cpu.pid_ = p /\ p \in Proceso /\ estado[p] = "exec"
      /\ nu \in EntradasDe(p) /\ ~ Presente(nu) /\ f \in Frame
  BY <1>1, <1>2, <1>3 DEF TomarFrame, IInv, CpuInv, Ejecuta
<1>5. p \in Iniciados  BY <1>4 DEF IInv, LlegadaInv, SinIniciar
<1>6. /\ p \in Nat /\ p + 1 \in DOMAIN procesos
      /\ procesos[p + 1] \in FilaProceso
      /\ PagMem(p) = procesos[p + 1].pagMem
      /\ Len(PagMem(p)) \in Nat
  BY <1>5, Filas DEF IInv, Tipos, LlegadaInv
<1>7. paginas \in Seq([numero : Nat, entrada : Nat]) /\ tabla_2_l \in Seq(EntradaTabla)
  BY DEF IInv, Tipos, TipoTablas
<1>8. nu \in Nat /\ nu + 1 \in DOMAIN tabla_2_l /\ nu \in 0 .. Len(tabla_2_l) - 1
  <2>1. nu \in 0 .. Len(tabla_2_l) - 1  BY <1>4 DEF EntradasDe
  <2>2. DOMAIN tabla_2_l = 1 .. Len(tabla_2_l) /\ Len(tabla_2_l) \in Nat  BY <1>7
  <2>. QED  BY ONLY <2>1, <2>2
<1>9. PICK c \in Nat, d \in Nat :
         procesos' = [procesos EXCEPT ![p + 1].contador = c, ![p + 1].puntero = d]
  <2>1. PICK c \in Nat : c = procesos[p + 1].contador + 1
    BY <1>6 DEF FilaProceso
  <2>2. PICK l \in Nat \ {0} : l = Len(PagMem(p)) + 1  BY <1>6
  <2>3. c % l \in Nat  BY Resto
  <2>4. PICK d \in Nat : d = IF c >= MARCOS_POR_PROCESO THEN c % l ELSE c
    BY <2>3
  <2>5. procesos' = [procesos EXCEPT ![p + 1].contador = c, ![p + 1].puntero = d]
    BY <1>4, <1>6, <2>1, <2>2, <2>4 DEF TomarFrame, Proceso_, Get
  <2>. QED  BY <2>5
<1>10. /\ tabla_2_l' = [tabla_2_l EXCEPT ![nu + 1] =
                           [frame |-> f, bUso |-> 1, bMod |-> 0, bPres |-> 1]]
       /\ paginas' = Append(paginas, [numero |-> nu, entrada |-> nu])
       /\ cpu' = [cpu EXCEPT !.pc = "traer", !.byte = {}, !.nueva = Len(paginas')]
       /\ UNCHANGED tabla_1_l
       /\ UNCHANGED <<memoria, enSwap, kernel, swap, enCpu, socket_kernel, estado,
                      suspensiones, escrito, fiel, caida>>
  BY <1>2, <1>3 DEF TomarFrame, ambiente
<1>11. /\ Len(procesos') = Len(procesos)
       /\ \A q \in Iniciados : PagMem(q)' = PagMem(q)
  BY <1>5, <1>9, RelojMovido DEF IInv, Tipos, LlegadaInv
<1>12. /\ Len(tabla_2_l') = Len(tabla_2_l)
       /\ tabla_2_l'[nu + 1].bPres = 1 /\ tabla_2_l'[nu + 1].frame = f
       /\ tabla_2_l'[nu + 1].bMod = 0
       /\ \A i \in DOMAIN tabla_2_l : i # nu + 1 => tabla_2_l'[i] = tabla_2_l[i]
  <2>1. PICK e \in EntradaTabla : e = [frame |-> f, bUso |-> 1, bMod |-> 0, bPres |-> 1]
                                  /\ e.bPres = 1 /\ e.frame = f /\ e.bMod = 0
    <3>1. [frame |-> f, bUso |-> 1, bMod |-> 0, bPres |-> 1] \in EntradaTabla
      BY <1>4 DEF EntradaTabla
    <3>. QED  BY ONLY <3>1
  <2>2. tabla_2_l' = [tabla_2_l EXCEPT ![nu + 1] = e]  BY <1>10, <2>1
  <2>. QED  BY <1>7, <1>8, <2>1, <2>2, FilaCambiada
<1>13. \A n \in 0 .. Len(tabla_2_l) - 1 : n # nu => tabla_2_l'[n + 1] = tabla_2_l[n + 1]
  <2>1. Len(tabla_2_l) \in Nat /\ DOMAIN tabla_2_l = 1 .. Len(tabla_2_l)  BY <1>7
  <2>. QED  BY <1>8, <1>12, <2>1
<1>14. PICK w \in Nat : w = Len(paginas)  BY <1>7
<1>15. /\ Len(paginas') = w + 1 /\ DOMAIN paginas = 1 .. w /\ DOMAIN paginas' = 1 .. w + 1
       /\ paginas'[w + 1] = [numero |-> nu, entrada |-> nu]
       /\ \A x \in DOMAIN paginas : paginas'[x] = paginas[x]
  <2>1. PICK r \in [numero : Nat, entrada : Nat] : r = [numero |-> nu, entrada |-> nu]
    BY <1>8
  <2>2. paginas' = Append(paginas, r)  BY <1>10, <2>1
  <2>3. /\ paginas' \in Seq([numero : Nat, entrada : Nat]) /\ Len(paginas') = w + 1
        /\ \A x \in 1 .. w : paginas'[x] = paginas[x]
        /\ paginas'[w + 1] = r
    BY <1>7, <1>14, <2>2, AppendProperties
  <2>4. DOMAIN paginas = 1 .. w /\ DOMAIN paginas' = 1 .. w + 1
    BY <1>7, <1>14, <2>3
  <2>. QED  BY <2>1, <2>3, <2>4
<1>16. \A q : TablasDe(q)' = TablasDe(q) /\ EntradasDe(q)' = EntradasDe(q)
  BY <1>10, <1>12 DEF TablasDe, EntradasDe
<1>17. Iniciados' = Iniciados  BY <1>11 DEF Iniciados
<1>. QED
  BY <1>1, <1>2, <1>3, <1>4, <1>5, <1>8, <1>10, <1>11, <1>12, <1>13, <1>14, <1>15, <1>16, <1>17

\* suspender_proceso takes the first page of pagMem.
LEMMA TrasLiberar ==
    ASSUME IInv, LiberarPagina
    PROVE  \E n0 \in 0 .. Len(tabla_2_l) - 1 :
           LET p == kernel.pid IN
           /\ p \in Iniciados /\ kernel.pc = "liberar"
           /\ n0 \in EntradasDe(p) /\ Presente(n0) /\ n0 \in Listadas(p)
           /\ tabla_2_l' = [tabla_2_l EXCEPT ![n0 + 1].bPres = 0]
           /\ Len(tabla_2_l') = Len(tabla_2_l) /\ Len(procesos') = Len(procesos)
           /\ \A n \in 0 .. Len(tabla_2_l) - 1 :
                 /\ (Presente(n)' <=> Presente(n) /\ n # n0)
                 /\ MarcoDe(n)' = MarcoDe(n)
                 /\ tabla_2_l'[n + 1].bMod = tabla_2_l[n + 1].bMod
           /\ \A q : TablasDe(q)' = TablasDe(q) /\ EntradasDe(q)' = EntradasDe(q)
           /\ Iniciados' = Iniciados /\ UNCHANGED <<tabla_1_l, paginas>>
           /\ kernel'.pc = "limpiar" /\ kernel'.pid = p
           /\ UNCHANGED <<bitMem, memoria, enSwap, swap, cpu, enCpu, ambiente, historia, caida>>
<1>1. PICK p : p = kernel.pid  OBVIOUS
<1>2. PICK n0 : n0 = EntradaDePag(p, 1)  OBVIOUS
<1>3. /\ kernel.pc = "liberar" /\ PagMem(p) # <<>> /\ p \in Iniciados
  BY <1>1, ProcesoQueSeSuspende DEF LiberarPagina
<1>4. /\ p \in Nat /\ PagMem(p) \in Seq(Nat)
      /\ Len(PagMem(p)) \in Nat /\ Posiciones(p) = 1 .. Len(PagMem(p))
  BY <1>3, Filas DEF IInv, Tipos, LlegadaInv
<1>5. Head(PagMem(p)) = PagMem(p)[1] /\ 1 \in Posiciones(p)  BY <1>3, <1>4
<1>6. paginas[Head(PagMem(p))].entrada = n0  BY <1>2, <1>5 DEF EntradaDePag
<1>7. /\ procesos' = [procesos EXCEPT ![p + 1].pagMem = Tail(PagMem(p))]
      /\ tabla_2_l' = [tabla_2_l EXCEPT ![n0 + 1].bPres = 0]
      /\ \E f, b : kernel' = [kernel EXCEPT !.pc = "limpiar", !.frame = f, !.byte = b]
      /\ UNCHANGED <<tabla_1_l, paginas, bitMem>>
      /\ UNCHANGED <<bitMem, memoria, enSwap, swap, cpu, enCpu, ambiente, historia, caida>>
  BY <1>1, <1>6 DEF LiberarPagina
<1>8. /\ Iniciados' = Iniciados /\ Len(procesos') = Len(procesos)
      /\ Len(tabla_2_l') = Len(tabla_2_l)
      /\ \A q : TablasDe(q)' = TablasDe(q) /\ EntradasDe(q)' = EntradasDe(q)
      /\ n0 \in EntradasDe(p) /\ Presente(n0) /\ n0 \in Listadas(p)
      /\ \A n \in 0 .. Len(tabla_2_l) - 1 :
            (Presente(n)' <=> Presente(n) /\ n # n0) /\ MarcoDe(n)' = MarcoDe(n)
  BY <1>2, <1>3, <1>7, SinLaPrimera
<1>9. PICK m \in 0 .. Len(tabla_2_l) - 1 : m = n0  BY <1>8 DEF EntradasDe
<1>10. tabla_2_l \in Seq(EntradaTabla)  BY DEF IInv, Tipos, TipoTablas
<1>11. \A n \in 0 .. Len(tabla_2_l) - 1 : tabla_2_l'[n + 1].bMod = tabla_2_l[n + 1].bMod
  <2>1. SUFFICES ASSUME NEW n \in 0 .. Len(tabla_2_l) - 1
        PROVE  tabla_2_l'[n + 1].bMod = tabla_2_l[n + 1].bMod
    OBVIOUS
  <2>2. PICK i \in DOMAIN tabla_2_l : i = n + 1  BY <1>10
  <2>3. PICK e \in EntradaTabla : e = tabla_2_l[i]  BY <1>10, ElementOfSeq
  <2>4. [e EXCEPT !.bPres = 0].bMod = e.bMod
    <3>1. e \in EntradaTabla  OBVIOUS
    <3>. QED  BY ONLY <3>1 DEF EntradaTabla
  <2>5. tabla_2_l'[i] = tabla_2_l[i] \/ tabla_2_l'[i] = [e EXCEPT !.bPres = 0]
    BY <1>7, <2>3
  <2>. QED  BY <2>2, <2>3, <2>4, <2>5
<1>12. kernel'.pc = "limpiar" /\ kernel'.pid = p
  BY <1>1, <1>7 DEF IInv, Tipos, TipoHilos
<1>. QED  BY <1>1, <1>3, <1>7, <1>8, <1>9, <1>11, <1>12

\* lectura and escritura mark the entry of the page.
LEMMA TrasMarcar ==
    ASSUME IInv, Marcar
    PROVE  LET u == Obtener_entrada(cpu.pag) IN
           /\ cpu.pc = "marca"
           /\ cpu' = [CpuLibre EXCEPT !.backup_indice_1 = cpu.backup_indice_1,
                                      !.pid_ = cpu.pid_]
           /\ Len(tabla_2_l') = Len(tabla_2_l)
           /\ \A n \in 0 .. Len(tabla_2_l) - 1 :
                 /\ tabla_2_l'[n + 1].frame = tabla_2_l[n + 1].frame
                 /\ tabla_2_l'[n + 1].bPres = tabla_2_l[n + 1].bPres
                 /\ tabla_2_l'[n + 1].bMod = IF n + 1 = u + 1 /\ cpu.op = "WRITE" THEN 1
                                             ELSE tabla_2_l[n + 1].bMod
           /\ \A n : MarcoDe(n)' = MarcoDe(n) /\ (Presente(n)' <=> Presente(n))
           /\ UNCHANGED <<tabla_1_l, procesos, paginas>> /\ Iniciados' = Iniciados
           /\ \A q : TablasDe(q)' = TablasDe(q) /\ EntradasDe(q)' = EntradasDe(q)
           /\ UNCHANGED <<bitMem, memoria, enSwap, kernel, swap, enCpu, ambiente, historia, caida>>
<1>1. PICK i : i = Obtener_entrada(cpu.pag) + 1  OBVIOUS
<1>2. /\ UNCHANGED <<tabla_1_l, procesos, paginas>>
      /\ cpu.pc = "marca"
      /\ tabla_2_l' = [tabla_2_l EXCEPT ![i] = Accedida(@)]
      /\ cpu' = [CpuLibre EXCEPT !.backup_indice_1 = cpu.backup_indice_1,
                                 !.pid_ = cpu.pid_]
      /\ UNCHANGED <<bitMem, memoria, enSwap, kernel, swap, enCpu, ambiente, historia, caida>>
  BY <1>1 DEF Marcar, tablas
<1>3. tabla_2_l \in Seq(EntradaTabla)  BY DEF IInv, Tipos, TipoTablas
<1>4. \A e \in EntradaTabla : /\ Accedida(e) \in EntradaTabla
                              /\ Accedida(e).frame = e.frame /\ Accedida(e).bPres = e.bPres
                              /\ Accedida(e).bMod = IF cpu.op = "WRITE" THEN 1 ELSE e.bMod
  BY DEF Accedida, EntradaTabla
<1>5. /\ Len(tabla_2_l') = Len(tabla_2_l)
      /\ \A j : /\ tabla_2_l'[j].frame = tabla_2_l[j].frame
                /\ tabla_2_l'[j].bPres = tabla_2_l[j].bPres
      /\ \A j \in DOMAIN tabla_2_l :
            tabla_2_l'[j].bMod = IF j = i /\ cpu.op = "WRITE" THEN 1 ELSE tabla_2_l[j].bMod
  <2>1. CASE i \in DOMAIN tabla_2_l
    <3>1. tabla_2_l[i] \in EntradaTabla  BY <1>3, <2>1, ElementOfSeq
    <3>2. PICK e \in EntradaTabla : e = Accedida(tabla_2_l[i]) /\ e.frame = tabla_2_l[i].frame
             /\ e.bPres = tabla_2_l[i].bPres
             /\ e.bMod = IF cpu.op = "WRITE" THEN 1 ELSE tabla_2_l[i].bMod
      BY <1>4, <3>1
    <3>3. tabla_2_l' = [tabla_2_l EXCEPT ![i] = e]  BY <1>2, <3>2
    <3>4. /\ Len(tabla_2_l') = Len(tabla_2_l)
          /\ DOMAIN tabla_2_l' = DOMAIN tabla_2_l
          /\ tabla_2_l'[i] = e
          /\ \A j \in DOMAIN tabla_2_l : j # i => tabla_2_l'[j] = tabla_2_l[j]
      BY <1>3, <2>1, <3>3, ExceptSeq
    <3>. QED  BY <3>2, <3>3, <3>4
  <2>2. CASE i \notin DOMAIN tabla_2_l
    <3>1. tabla_2_l' = tabla_2_l  BY <1>2, <1>3, <2>2
    <3>. QED  BY <2>2, <3>1
  <2>. QED  BY <2>1, <2>2
<1>6. \A n \in 0 .. Len(tabla_2_l) - 1 : n + 1 \in DOMAIN tabla_2_l  BY <1>3
<1>7. \A n : MarcoDe(n)' = MarcoDe(n) /\ (Presente(n)' <=> Presente(n))
  BY <1>5 DEF MarcoDe, Presente
<1>8. \A q : TablasDe(q)' = TablasDe(q) /\ EntradasDe(q)' = EntradasDe(q)
  BY <1>2, <1>5 DEF TablasDe, EntradasDe
<1>9. Iniciados' = Iniciados  BY <1>2 DEF Iniciados
<1>. QED  BY <1>1, <1>2, <1>5, <1>6, <1>7, <1>8, <1>9

\* crear_proceso adds entries that have no frame.
LEMMA TrasCrear ==
    ASSUME IInv, Inicializar_proceso
    PROVE  \E p \in Proceso :
           /\ p = Len(procesos) /\ estado[p] = "ini" /\ Recibe("INICIALIZAR_PROCESO")
           /\ Iniciados' = Iniciados \union {p} /\ p \notin Iniciados
           /\ \A q \in Iniciados : TablasDe(q)' = TablasDe(q) /\ EntradasDe(q)' = EntradasDe(q)
           /\ \A n \in EntradasDe(p)' : ~ Presente(n)'
           /\ \A n \in 0 .. Len(tabla_2_l) - 1 : tabla_2_l'[n + 1] = tabla_2_l[n + 1]
           /\ Len(tabla_2_l) \in Nat /\ Len(tabla_2_l') \in Nat
           /\ Len(tabla_2_l) <= Len(tabla_2_l')
           /\ \A i \in DOMAIN tabla_2_l' : i \notin DOMAIN tabla_2_l =>
                 tabla_2_l'[i] = EntradaVacia
           /\ UNCHANGED <<paginas, bitMem, memoria, enSwap, swap, cpu, enCpu, estado,
                          suspensiones, historia, caida>>
           /\ kernel'.pc = "crear_archivo" /\ kernel'.pid = p
<1>1. PICK p \in Proceso : p = Head(socket_kernel).pid
  BY PrimerMensaje DEF Inicializar_proceso
<1>2. /\ Recibe("INICIALIZAR_PROCESO")
      /\ kernel' = [kernel EXCEPT !.pc = "crear_archivo", !.pid = p]
      /\ UNCHANGED <<paginas, bitMem>>
      /\ UNCHANGED <<paginas, bitMem, memoria, enSwap, swap, cpu, enCpu, estado,
                     suspensiones, historia, caida>>
  BY <1>1 DEF Inicializar_proceso
<1>3. p = Len(procesos) /\ estado[p] = "ini"
  BY <1>1, <1>2, ProcesoQueLlega
<1>4. /\ tabla_1_l' = Append(tabla_1_l, [pid |-> p,
               entradas |-> [i \in 1 .. CantEntradas1 |->
                                Len(tabla_2_l) \div ENTRADAS_POR_TABLA + i - 1]])
      /\ tabla_2_l' = tabla_2_l \o
               [i \in 1 .. CantEntradas1 * ENTRADAS_POR_TABLA |-> EntradaVacia]
      /\ procesos' = Append(procesos, [pid |-> p, puntero |-> 0, contador |-> 0,
                                         pagMem |-> <<>>])
  BY <1>1 DEF Inicializar_proceso
<1>5. /\ Iniciados' = Iniciados \union {p} /\ p \notin Iniciados
      /\ \A q \in Iniciados : TablasDe(q)' = TablasDe(q) /\ EntradasDe(q)' = EntradasDe(q)
      /\ \A n \in EntradasDe(p)' : ~ Presente(n)'
      /\ \A n \in 0 .. Len(tabla_2_l) - 1 : tabla_2_l'[n + 1] = tabla_2_l[n + 1]
      /\ Len(tabla_2_l) \in Nat /\ Len(tabla_2_l') \in Nat
      /\ Len(tabla_2_l) <= Len(tabla_2_l')
  BY <1>2, <1>3, <1>4, TablasNuevas
<1>6. \A i \in DOMAIN tabla_2_l' : i \notin DOMAIN tabla_2_l => tabla_2_l'[i] = EntradaVacia
  <2>1. tabla_2_l \in Seq(EntradaTabla)  BY DEF IInv, Tipos, TipoTablas
  <2>2. PICK k \in Nat : k = CantEntradas1 * ENTRADAS_POR_TABLA
    <3>1. CantEntradas1 \in Nat
      <4>1. Paginas + ENTRADAS_POR_TABLA - 1 \in Nat
        BY ProcesosAssumption, TablaAssumption
      <4>. QED  BY <4>1, Resto, TablaAssumption DEF CantEntradas1, Division_entera
    <3>. QED  BY <3>1, TablaAssumption
  <2>3. PICK z : z = [i \in 1 .. k |-> EntradaVacia]  OBVIOUS
  <2>4. z \in Seq({EntradaVacia}) /\ Len(z) = k  BY <2>3
  <2>5. tabla_2_l' = tabla_2_l \o z  BY <1>4, <2>2, <2>3
  <2>. QED  BY <2>1, <2>3, <2>4, <2>5
<1>7. kernel'.pc = "crear_archivo" /\ kernel'.pid = p
  BY <1>2 DEF IInv, Tipos, TipoHilos
<1>. QED  BY <1>2, <1>3, <1>5, <1>6, <1>7

\* traer_a_memoria ends, or the process has no file and Memoria dies.
LEMMA TrasTraer ==
    ASSUME IInv, Traer_a_memoria
    PROVE  \/ /\ UNCHANGED <<datos, cpu, memoria, archivo, pedidos_swap_l, s_swap,
                             swap, kernel, tlb, accesos, suspensiones, estado, historia>>
              /\ UNCHANGED <<sinCopiar, idAnteriorPCB, socket_kernel, bitMem>>
              /\ caida'
           \/ /\ cpu.pid \in DOMAIN archivo /\ cpu.pc = "traer"
              /\ cpu.pid \in Iniciados /\ cpu.pid \in Proceso /\ estado[cpu.pid] = "exec"
              /\ cpu.numero \in EntradasDe(cpu.pid)
              /\ memoria' = [memoria EXCEPT ![cpu.marco] = archivo[cpu.pid][cpu.numero]]
              /\ cpu' = [cpu EXCEPT !.pc = "responder", !.nueva = NADIE]
              /\ Dudosas({cpu.numero} \intersect EnCamino)
              /\ Len(procesos') = Len(procesos) /\ Iniciados' = Iniciados
              /\ UNCHANGED <<tabla_1_l, tabla_2_l, paginas>>
              /\ \A q : TablasDe(q)' = TablasDe(q) /\ EntradasDe(q)' = EntradasDe(q)
              /\ UNCHANGED <<bitMem, enSwap, kernel, swap, enCpu, ambiente, escrito,
                             carrera, caida>>
<1>1. CASE Morir
  BY <1>1 DEF Morir, datos
<1>2. CASE ~ Morir
  <2>1. /\ cpu.pid_ \in DOMAIN archivo /\ cpu.pc = "traer"
        /\ memoria' = [memoria EXCEPT ![cpu.marco] = archivo[cpu.pid_][cpu.numero]]
        /\ cpu' = [cpu EXCEPT !.pc = "responder", !.nueva = NADIE]
        /\ Dudosas({cpu.numero} \intersect EnCamino)
        /\ UNCHANGED <<tabla_1_l, tabla_2_l, paginas>>
        /\ UNCHANGED <<bitMem, enSwap, kernel, swap, enCpu, ambiente, escrito,
                       carrera, caida>>
        /\ \/ procesos' = procesos
           \/ procesos' = [procesos EXCEPT ![cpu.pid_ + 1].pagMem =
                                          AgregarOrdenada(@, cpu.nueva)]
    BY <1>2 DEF Traer_a_memoria
  <2>2. cpu.pid \in Proceso /\ estado[cpu.pid] = "exec" /\ cpu.pid_ = cpu.pid
        /\ cpu.numero \in EntradasDe(cpu.pid)
    BY <2>1 DEF IInv, CpuInv, Ejecuta
  <2>3. cpu.pid \in Iniciados  BY <2>2 DEF IInv, LlegadaInv, SinIniciar
  <2>4. Len(procesos') = Len(procesos)
    <3>1. procesos \in Seq(FilaProceso)  BY DEF IInv, Tipos, TipoTablas, FilaProceso
    <3>. QED  BY <2>1, <3>1
  <2>5. Iniciados' = Iniciados  BY <2>4 DEF Iniciados
  <2>6. \A q : TablasDe(q)' = TablasDe(q) /\ EntradasDe(q)' = EntradasDe(q)
    BY <2>1 DEF TablasDe, EntradasDe
  <2>. QED  BY <2>1, <2>2, <2>3, <2>4, <2>5, <2>6
<1>. QED  BY <1>1, <1>2

-----------------------------------------------------------------------------
(* The words, the requests for swap_ and the TLB: their types.              *)

Palabra == 0 .. OPERACIONES

\* Functions on some of the positions of a pagMem.
Parcial(T) == UNION {[D -> T] : D \in SUBSET (1 .. MARCOS_POR_PROCESO)}
TipoPedido == [pid : Proceso, paginas : Parcial(Nat), entradas : Parcial(Nat),
               palabras : Parcial(Palabra)]

EntradaTLB == [numero_pagina : Pagina, marco : Frame, tiempo_carga : Nat,
               ultima_referencia : Nat]

\* A request of p is about pages and entries of p.
PedidoDe(p, r) ==
    /\ p \in Iniciados
    /\ DOMAIN r.entradas = DOMAIN r.paginas /\ DOMAIN r.palabras = DOMAIN r.paginas
    /\ \A k \in DOMAIN r.paginas :
          /\ r.paginas[k] \in DOMAIN paginas
          /\ r.entradas[k] \in EntradasDe(p)

\* A page that was given a frame has one for ever, although it may be of another.
PaginasTipo ==
    /\ \A i \in DOMAIN tabla_2_l : tabla_2_l[i].bPres = 1 => tabla_2_l[i].frame \in Frame
    /\ \A x \in DOMAIN paginas :
          /\ paginas[x].numero \in 0 .. Len(tabla_2_l) - 1
          /\ paginas[x].entrada \in 0 .. Len(tabla_2_l) - 1
          /\ MarcoDe(paginas[x].entrada) \in Frame

AccesoTipo ==
    /\ accesos \in Palabra /\ suspensiones \in Nat /\ cpu.valor \in Palabra
    /\ tlb \subseteq EntradaTLB
    /\ cpu.pc \in {"traer", "responder"} =>
          /\ cpu.numero \in 0 .. Len(tabla_2_l) - 1
          /\ MarcoDe(cpu.numero) \in Frame
    /\ cpu.pc \in {"tomar", "traer", "memcpy"} => cpu.marco \in Frame

MemoriaTipo ==
    /\ memoria \in [Frame -> Palabra]
    /\ DOMAIN archivo \subseteq Proceso
    /\ \A p \in DOMAIN archivo : archivo[p] \in [Numero -> Palabra]

\* swap_ removes the first of the list, which stays there until it has.
SwapTipo ==
    /\ s_swap \in Nat
    /\ pedidos_swap_l \in Seq(TipoPedido)
    /\ \A i \in DOMAIN pedidos_swap_l : PedidoDe(pedidos_swap_l[i].pid, pedidos_swap_l[i])
    /\ swap \in [pc : {"libre"}, pedido : {<<>>}]
                \union [pc : {"quitar", "copiar"}, pedido : TipoPedido]
    /\ swap.pc # "libre" => PedidoDe(swap.pedido.pid, swap.pedido)
    /\ swap.pc = "quitar" => pedidos_swap_l # <<>> /\ swap.pedido = pedidos_swap_l[1]
    /\ Len(pedidos_swap_l) <= s_swap + (IF swap.pc = "quitar" THEN 1 ELSE 0)

DInv == PaginasTipo /\ AccesoTipo /\ MemoriaTipo /\ SwapTipo

\* The steps that change no table and no list.
LEMMA DatosDelPaso ==
    ASSUME [Next]_vars
    PROVE  \/ UNCHANGED datos
           \/ Inicializar_proceso \/ LiberarPagina \/ TomarFrame \/ Reemplazar
           \/ Traer_a_memoria \/ Marcar
<1>. USE DEF datos, tablas
<1>1. CASE UNCHANGED vars  BY <1>1 DEF vars
<1>2. CASE KernelYCpu
  BY <1>2 DEF KernelYCpu, PedirInicializar, Despachar, Bloquear, Desbloquear, Suspender,
              Terminar, Acceso
<1>3. CASE Funciones_kernel
  BY <1>3 DEF Funciones_kernel, Crear_archivo_swap, Suspender_proceso, LimpiarBit,
              FinSuspender, Finalizar_proceso, BorrarFrame, Eliminar_archivo_swap,
              MuereKernel, Morir
<1>4. CASE Funciones_cpu
  BY <1>4 DEF Funciones_cpu, Entrada1, EntradaPresente, BuscarFrameLibre,
              ReemplazarSinPaginas, ResponderMarco, Lectura, Escritura, Morir
<1>5. CASE Swap_
  BY <1>5 DEF Swap_, TomarPedido, QuitarPedido, CopiarPedido, CopiarSinArchivo, Morir
<1>. QED  BY <1>1, <1>2, <1>3, <1>4, <1>5 DEF Next, Viva

\* What the tables and lists say stays said: entries, their frames and pages
\* are never removed.
Conserva ==
    /\ Len(tabla_2_l) \in Nat /\ Len(tabla_2_l') \in Nat /\ Len(tabla_2_l) <= Len(tabla_2_l')
    /\ \A n \in 0 .. Len(tabla_2_l) - 1 : MarcoDe(n) \in Frame => MarcoDe(n)' \in Frame
    /\ DOMAIN paginas \subseteq DOMAIN paginas'
    /\ \A p \in Iniciados : p \in Iniciados' /\ EntradasDe(p)' = EntradasDe(p)

LEMMA TablasCrecen ==
    ASSUME IInv, PaginasTipo, [Next]_vars
    PROVE  Conserva /\ PaginasTipo'
<1>1. tabla_2_l \in Seq(EntradaTabla) /\ Len(tabla_2_l) \in Nat
      /\ DOMAIN tabla_2_l = 1 .. Len(tabla_2_l)
  BY DEF IInv, Tipos, TipoTablas
<1>2. \A i \in DOMAIN tabla_2_l : i - 1 \in 0 .. Len(tabla_2_l) - 1 /\ (i - 1) + 1 = i
  BY <1>1
<1>3. CASE UNCHANGED datos
  <2>1. UNCHANGED <<tabla_2_l, paginas>>  BY <1>3 DEF datos
  <2>. QED  BY <1>1, <1>3, <2>1, DatosQuietos DEF Conserva, PaginasTipo
<1>4. CASE Inicializar_proceso
  <2>1. PICK p \in Proceso :
           /\ Iniciados' = Iniciados \union {p} /\ p \notin Iniciados
           /\ \A q \in Iniciados : EntradasDe(q)' = EntradasDe(q)
           /\ \A n \in 0 .. Len(tabla_2_l) - 1 : tabla_2_l'[n + 1] = tabla_2_l[n + 1]
           /\ Len(tabla_2_l) \in Nat /\ Len(tabla_2_l') \in Nat
           /\ Len(tabla_2_l) <= Len(tabla_2_l')
           /\ \A i \in DOMAIN tabla_2_l' : i \notin DOMAIN tabla_2_l =>
                 tabla_2_l'[i] = EntradaVacia
           /\ UNCHANGED paginas
    BY <1>4, TrasCrear
  <2>2. \A n \in 0 .. Len(tabla_2_l) - 1 : MarcoDe(n)' = MarcoDe(n)  BY <2>1 DEF MarcoDe
  <2>3. Conserva  BY <2>1, <2>2 DEF Conserva
  <2>4. ASSUME NEW i \in DOMAIN tabla_2_l', tabla_2_l'[i].bPres = 1
        PROVE  tabla_2_l'[i].frame \in Frame
    <3>1. i \in DOMAIN tabla_2_l
      <4>1. EntradaVacia.bPres = 0  BY DEF EntradaVacia
      <4>. QED  BY <2>1, <2>4, <4>1
    <3>2. tabla_2_l'[i] = tabla_2_l[i]  BY <1>2, <2>1, <3>1
    <3>. QED  BY <2>4, <3>1, <3>2 DEF PaginasTipo
  <2>5. ASSUME NEW x \in DOMAIN paginas
        PROVE  /\ paginas[x].numero \in 0 .. Len(tabla_2_l') - 1
               /\ paginas[x].entrada \in 0 .. Len(tabla_2_l') - 1
               /\ MarcoDe(paginas[x].entrada)' \in Frame
    <3>1. /\ paginas[x].numero \in 0 .. Len(tabla_2_l) - 1
          /\ paginas[x].entrada \in 0 .. Len(tabla_2_l) - 1
          /\ MarcoDe(paginas[x].entrada) \in Frame
      BY DEF PaginasTipo
    <3>2. MarcoDe(paginas[x].entrada)' \in Frame
      <4>1. PICK n \in 0 .. Len(tabla_2_l) - 1 : n = paginas[x].entrada  BY <3>1
      <4>2. MarcoDe(n)' \in Frame  BY <2>2, <3>1, <4>1
      <4>. QED  BY <2>1, <4>1, <4>2 DEF MarcoDe
    <3>. QED  BY <2>1, <3>1, <3>2
  <2>6. PaginasTipo'
    <3>1. paginas' = paginas  BY <2>1
    <3>. QED  BY <2>4, <2>5, <3>1 DEF PaginasTipo, MarcoDe
  <2>. QED  BY <2>3, <2>6
<1>5. CASE LiberarPagina
  <2>1. PICK n0 \in 0 .. Len(tabla_2_l) - 1 :
           /\ Len(tabla_2_l') = Len(tabla_2_l)
           /\ \A n \in 0 .. Len(tabla_2_l) - 1 :
                 /\ (Presente(n)' <=> Presente(n) /\ n # n0)
                 /\ MarcoDe(n)' = MarcoDe(n)
           /\ \A q : EntradasDe(q)' = EntradasDe(q)
           /\ Iniciados' = Iniciados /\ UNCHANGED paginas
    BY <1>5, TrasLiberar
  <2>2. Conserva  BY <1>1, <2>1 DEF Conserva
  <2>3. DOMAIN tabla_2_l' = DOMAIN tabla_2_l  BY <1>5 DEF LiberarPagina
  <2>4. \A i \in DOMAIN tabla_2_l : tabla_2_l'[i].bPres = 1 => tabla_2_l'[i].frame \in Frame
    BY <1>2, <2>1 DEF PaginasTipo, Presente, MarcoDe
  <2>5. \A x \in DOMAIN paginas : MarcoDe(paginas[x].entrada)' \in Frame
    <3>1. SUFFICES ASSUME NEW x \in DOMAIN paginas
          PROVE  MarcoDe(paginas[x].entrada)' \in Frame
      OBVIOUS
    <3>2. PICK n \in 0 .. Len(tabla_2_l) - 1 : n = paginas[x].entrada /\ MarcoDe(n) \in Frame
      BY DEF PaginasTipo
    <3>3. MarcoDe(n)' \in Frame  BY <2>1, <3>2
    <3>. QED  BY <2>1, <3>2, <3>3 DEF MarcoDe
  <2>6. paginas' = paginas  BY <2>1
  <2>. QED  BY <2>1, <2>2, <2>3, <2>4, <2>5, <2>6 DEF PaginasTipo, MarcoDe
<1>6. CASE TomarFrame
  <2>. PICK nu : nu = cpu.numero  OBVIOUS
  <2>. PICK w : w = Len(paginas) + 1  OBVIOUS
  <2>1. /\ nu \in Nat /\ nu \in 0 .. Len(tabla_2_l) - 1 /\ cpu.marco \in Frame
        /\ Len(tabla_2_l') = Len(tabla_2_l)
        /\ tabla_2_l'[nu + 1].frame = cpu.marco
        /\ \A n \in 0 .. Len(tabla_2_l) - 1 : n # nu => tabla_2_l'[n + 1] = tabla_2_l[n + 1]
        /\ Len(paginas) \in Nat /\ DOMAIN paginas = 1 .. Len(paginas)
        /\ DOMAIN paginas' = 1 .. Len(paginas) + 1
        /\ paginas'[w] = [numero |-> nu, entrada |-> nu]
        /\ \A x \in DOMAIN paginas : paginas'[x] = paginas[x]
        /\ Iniciados' = Iniciados
        /\ \A q : EntradasDe(q)' = EntradasDe(q)
    BY <1>6, TrasTomar
  <2>2. \A n \in 0 .. Len(tabla_2_l) - 1 : MarcoDe(n)' = IF n = nu THEN cpu.marco ELSE MarcoDe(n)
    BY <2>1 DEF MarcoDe
  <2>3. Conserva  BY <1>1, <2>1, <2>2 DEF Conserva
  <2>4. \A i \in DOMAIN tabla_2_l : tabla_2_l'[i].bPres = 1 => tabla_2_l'[i].frame \in Frame
    <3>1. SUFFICES ASSUME NEW i \in DOMAIN tabla_2_l, tabla_2_l'[i].bPres = 1
          PROVE  tabla_2_l'[i].frame \in Frame
      OBVIOUS
    <3>2. PICK n \in 0 .. Len(tabla_2_l) - 1 : i = n + 1
      <4>1. i - 1 \in 0 .. Len(tabla_2_l) - 1 /\ i = (i - 1) + 1  BY <1>2
      <4>. QED  BY ONLY <4>1
    <3>. QED  BY <2>1, <3>1, <3>2 DEF PaginasTipo
  <2>5. DOMAIN tabla_2_l' = DOMAIN tabla_2_l  BY <1>6 DEF TomarFrame
  <2>6. ASSUME NEW x \in DOMAIN paginas'
        PROVE  /\ paginas'[x].numero \in 0 .. Len(tabla_2_l) - 1
               /\ paginas'[x].entrada \in 0 .. Len(tabla_2_l) - 1
               /\ tabla_2_l'[paginas'[x].entrada + 1].frame \in Frame
    <3>1. CASE x = w
      <4>1. paginas'[x].numero = nu /\ paginas'[x].entrada = nu  BY <2>1, <3>1
      <4>2. MarcoDe(nu)' \in Frame  BY <2>1, <2>2
      <4>. QED  BY <2>1, <4>1, <4>2 DEF MarcoDe
    <3>2. CASE x # w
      <4>1. x \in DOMAIN paginas  BY <2>1, <3>2
      <4>2. PICK n \in 0 .. Len(tabla_2_l) - 1 : n = paginas[x].entrada /\ MarcoDe(n) \in Frame
        BY <4>1 DEF PaginasTipo
      <4>3. MarcoDe(n)' \in Frame  BY <2>1, <2>2, <4>2
      <4>4. paginas'[x] = paginas[x]  BY <2>1, <4>1
      <4>5. paginas[x].numero \in 0 .. Len(tabla_2_l) - 1  BY <4>1 DEF PaginasTipo
      <4>. QED  BY <4>2, <4>3, <4>4, <4>5 DEF MarcoDe
    <3>. QED  BY <3>1, <3>2
  <2>. QED  BY <2>1, <2>3, <2>4, <2>5, <2>6 DEF PaginasTipo, MarcoDe
<1>7. CASE Reemplazar
  <2>1. PICK p \in Iniciados : \E j0 \in Posiciones(p) :
           \E u \in EntradasDe(p), v \in EntradasDe(p) : Reemplaza(p, j0, u, v)
    BY <1>7, TrasReemplazar
  <2>2. PICK j0 \in Posiciones(p), u \in EntradasDe(p), v \in EntradasDe(p) :
           Reemplaza(p, j0, u, v)
    BY ONLY <2>1
  <2>3. PICK y : y = PagMem(p)[j0]  OBVIOUS
  <2>4. /\ paginas' = [paginas EXCEPT ![y].entrada = u]
        /\ tabla_2_l' \in Seq(EntradaTabla) /\ Len(tabla_2_l') = Len(tabla_2_l)
        /\ tabla_2_l'[u + 1].frame = tabla_2_l[v + 1].frame
        /\ \A n \in 0 .. Len(tabla_2_l) - 1 : n # u =>
              /\ tabla_2_l'[n + 1].frame = tabla_2_l[n + 1].frame
              /\ n # v => tabla_2_l'[n + 1].bPres = tabla_2_l[n + 1].bPres
        /\ tabla_2_l'[v + 1].bPres = 0
        /\ v = EntradaDePag(p, j0) /\ UNCHANGED tabla_1_l
        /\ \E c \in Nat, d \in Nat :
              procesos' = [procesos EXCEPT ![p + 1].contador = c, ![p + 1].puntero = d]
    BY <2>2, <2>3 DEF Reemplaza
  <2>5. u \in 0 .. Len(tabla_2_l) - 1 /\ v \in 0 .. Len(tabla_2_l) - 1  BY DEF EntradasDe
  <2>6. MarcoDe(v) \in Frame
    <3>1. Presente(v)  BY <2>4, PaginaListada
    <3>2. v + 1 \in DOMAIN tabla_2_l  BY <1>1, <2>5
    <3>. QED  BY <3>1, <3>2 DEF PaginasTipo, Presente, MarcoDe
  <2>7. \A n \in 0 .. Len(tabla_2_l) - 1 : MarcoDe(n)' = IF n = u THEN MarcoDe(v) ELSE MarcoDe(n)
    BY <2>4 DEF MarcoDe
  <2>8. Len(procesos') = Len(procesos)
    <3>1. PICK c \in Nat, d \in Nat :
             procesos' = [procesos EXCEPT ![p + 1].contador = c, ![p + 1].puntero = d]
      BY <2>4
    <3>2. p \in Iniciados  OBVIOUS
    <3>. QED  BY <3>1, <3>2, RelojMovido DEF IInv, Tipos, LlegadaInv
  <2>9. Iniciados' = Iniciados /\ \A q : EntradasDe(q)' = EntradasDe(q)
    BY <2>4, <2>8 DEF Iniciados, EntradasDe, TablasDe
  <2>10. DOMAIN paginas' = DOMAIN paginas  BY <2>4
  <2>11. Conserva  BY <1>1, <2>4, <2>6, <2>7, <2>9, <2>10 DEF Conserva
  <2>12. DOMAIN tabla_2_l' = DOMAIN tabla_2_l  BY <1>1, <2>4
  <2>13. \A i \in DOMAIN tabla_2_l : tabla_2_l'[i].bPres = 1 => tabla_2_l'[i].frame \in Frame
    <3>1. SUFFICES ASSUME NEW i \in DOMAIN tabla_2_l, tabla_2_l'[i].bPres = 1
          PROVE  tabla_2_l'[i].frame \in Frame
      OBVIOUS
    <3>2. PICK n \in 0 .. Len(tabla_2_l) - 1 : i = n + 1
      <4>1. i - 1 \in 0 .. Len(tabla_2_l) - 1 /\ i = (i - 1) + 1  BY <1>2
      <4>. QED  BY ONLY <4>1
    <3>3. CASE n = u  BY <2>6, <2>7, <3>2, <3>3 DEF MarcoDe
    <3>4. CASE n # u
      <4>1. n # v /\ tabla_2_l[n + 1].bPres = 1  BY <2>4, <3>1, <3>2, <3>4
      <4>2. MarcoDe(n) \in Frame  BY <3>2, <4>1 DEF PaginasTipo, MarcoDe
      <4>. QED  BY <2>7, <3>2, <3>4, <4>2 DEF MarcoDe
    <3>. QED  BY <3>3, <3>4
  <2>14. ASSUME NEW x \in DOMAIN paginas
         PROVE  /\ paginas'[x].numero \in 0 .. Len(tabla_2_l) - 1
                /\ paginas'[x].entrada \in 0 .. Len(tabla_2_l) - 1
                /\ tabla_2_l'[paginas'[x].entrada + 1].frame \in Frame
    <3>1. PICK r \in [numero : Nat, entrada : Nat] : r = paginas[x]
      <4>1. paginas \in Seq([numero : Nat, entrada : Nat])  BY DEF IInv, Tipos, TipoTablas
      <4>2. x \in 1 .. Len(paginas)  BY <4>1
      <4>. QED  BY ONLY <4>1, <4>2, ElementOfSeq
    <3>2. PICK e \in 0 .. Len(tabla_2_l) - 1 :
             e = IF x = y THEN u ELSE r.entrada
      BY <2>5, <3>1 DEF PaginasTipo
    <3>3. paginas'[x].numero = r.numero /\ paginas'[x].entrada = e
      <4>1. r \in [numero : Nat, entrada : Nat]  OBVIOUS
      <4>2. [r EXCEPT !.entrada = u].numero = r.numero /\ [r EXCEPT !.entrada = u].entrada = u
        BY ONLY <4>1
      <4>3. paginas'[x] = IF x = y THEN [r EXCEPT !.entrada = u] ELSE r
        BY <2>4, <3>1
      <4>. QED  BY <3>2, <4>2, <4>3
    <3>4. MarcoDe(e)' \in Frame  BY <2>6, <2>7, <3>1, <3>2 DEF PaginasTipo
    <3>5. r.numero \in 0 .. Len(tabla_2_l) - 1  BY <3>1 DEF PaginasTipo
    <3>. QED  BY <3>3, <3>4, <3>5 DEF MarcoDe
  <2>. QED  BY <2>4, <2>10, <2>11, <2>12, <2>13, <2>14 DEF PaginasTipo, MarcoDe
<1>8. CASE Traer_a_memoria
  <2>1. UNCHANGED <<tabla_2_l, paginas>> /\ Iniciados' = Iniciados
        /\ \A q : EntradasDe(q)' = EntradasDe(q)
    BY <1>8, TrasTraer, DatosQuietos DEF datos
  <2>. QED  BY <1>1, <2>1 DEF Conserva, PaginasTipo, MarcoDe
<1>9. CASE Marcar
  <2>1. /\ Len(tabla_2_l') = Len(tabla_2_l)
        /\ \A n : MarcoDe(n)' = MarcoDe(n) /\ (Presente(n)' <=> Presente(n))
        /\ UNCHANGED paginas /\ Iniciados' = Iniciados
        /\ \A q : EntradasDe(q)' = EntradasDe(q)
    BY <1>9, TrasMarcar
  <2>2. Conserva  BY <1>1, <2>1 DEF Conserva
  <2>3. DOMAIN tabla_2_l' = DOMAIN tabla_2_l  BY <1>9 DEF Marcar
  <2>4. \A i \in DOMAIN tabla_2_l : tabla_2_l'[i].bPres = 1 => tabla_2_l'[i].frame \in Frame
    BY <1>2, <2>1 DEF PaginasTipo, Presente, MarcoDe
  <2>5. \A n : tabla_2_l'[n + 1].frame = tabla_2_l[n + 1].frame  BY <2>1 DEF MarcoDe
  <2>. QED  BY <2>1, <2>2, <2>3, <2>4, <2>5 DEF PaginasTipo, MarcoDe
<1>. QED  BY <1>3, <1>4, <1>5, <1>6, <1>7, <1>8, <1>9, DatosDelPaso

LEMMA AccesoQuieto ==
    ASSUME AccesoTipo, Conserva, UNCHANGED <<accesos, suspensiones, cpu>>,
           tlb' \subseteq tlb
    PROVE  AccesoTipo'
<1>1. ASSUME cpu.pc \in {"traer", "responder"}
      PROVE  cpu.numero \in 0 .. Len(tabla_2_l') - 1 /\ MarcoDe(cpu.numero)' \in Frame
  <2>1. PICK n \in 0 .. Len(tabla_2_l) - 1 : n = cpu.numero /\ MarcoDe(n) \in Frame
    BY <1>1 DEF AccesoTipo
  <2>2. MarcoDe(n)' \in Frame /\ n \in 0 .. Len(tabla_2_l') - 1  BY <2>1 DEF Conserva
  <2>3. MarcoDe(cpu.numero)' = MarcoDe(n)'  BY <2>1 DEF MarcoDe
  <2>. QED  BY <2>1, <2>2, <2>3
<1>. QED  BY <1>1 DEF AccesoTipo, MarcoDe

LEMMA EntradasTipo ==
    ASSUME NEW p, NEW n \in EntradasDe(p)
    PROVE  n \in 0 .. Len(tabla_2_l) - 1
BY DEF EntradasDe

\* The frame of a page in memory.
LEMMA MarcoPresente ==
    ASSUME IInv, PaginasTipo, NEW n \in 0 .. Len(tabla_2_l) - 1, Presente(n)
    PROVE  MarcoDe(n) \in Frame
<1>1. n + 1 \in DOMAIN tabla_2_l  BY DEF IInv, Tipos, TipoTablas
<1>. QED  BY <1>1 DEF PaginasTipo, Presente, MarcoDe

LEMMA AccesoDeCpu ==
    ASSUME IInv, PaginasTipo, AccesoTipo, MemoriaTipo, Conserva, Funciones_cpu
    PROVE  AccesoTipo'
<1>. USE DEF enCpu, ambiente
<1>1. TipoCpu  BY DEF IInv, Tipos, TipoHilos
<1>2. CASE Entrada1
  <2>1. CASE cpu' = cpu  BY <1>2, <2>1, AccesoQuieto DEF Entrada1, Morir
  <2>2. CASE cpu' # cpu
    <3>1. cpu'.pc = "entrada2" /\ cpu'.valor = cpu.valor
          /\ UNCHANGED <<tlb, accesos, suspensiones>>
      BY <1>1, <1>2, <2>2 DEF Entrada1, Morir, TipoCpu
    <3>. QED  BY <3>1 DEF AccesoTipo
  <2>. QED  BY <2>1, <2>2
<1>3. CASE EntradaPresente
  <2>1. cpu'.pc = "responder" /\ cpu'.numero = NumeroPedido /\ cpu'.valor = cpu.valor
        /\ UNCHANGED <<tlb, accesos, suspensiones, tabla_2_l>>
    BY <1>1, <1>3 DEF EntradaPresente, TipoCpu
  <2>2. PICK n \in 0 .. Len(tabla_2_l) - 1 : n = NumeroPedido
    BY <1>3, PedidoPropio, EntradasTipo DEF EntradaPresente
  <2>3. MarcoDe(n) \in Frame
    BY <1>3, <2>2, MarcoPresente DEF EntradaPresente, Presente, Get
  <2>4. MarcoDe(cpu'.numero) = MarcoDe(n)  BY <2>1, <2>2
  <2>. QED  BY <2>1, <2>2, <2>3, <2>4 DEF AccesoTipo, MarcoDe
<1>4. CASE BuscarFrameLibre
  <2>1. cpu'.pc = "tomar" /\ cpu'.valor = cpu.valor /\ cpu'.marco = Min(Frame \ bitMem)
        /\ UNCHANGED <<tlb, accesos, suspensiones>>
    BY <1>1, <1>4 DEF BuscarFrameLibre, TipoCpu
  <2>2. Min(Frame \ bitMem) \in Frame
    <3>1. Frame \ bitMem # {} /\ Frame \ bitMem \subseteq Nat
      BY <1>4, Marcos DEF BuscarFrameLibre, HayQueReemplazar, IInv, Tipos, TipoTablas
    <3>. QED  BY <3>1, MinimoNat
  <2>. QED  BY <2>1, <2>2 DEF AccesoTipo
<1>5. CASE TomarFrame
  <2>1. /\ cpu'.pc = "traer" /\ cpu'.valor = cpu.valor /\ cpu'.marco = cpu.marco
        /\ cpu'.numero = cpu.numero /\ UNCHANGED <<tlb, accesos, suspensiones>>
    BY <1>1, <1>5 DEF TomarFrame, TipoCpu
  <2>2. /\ cpu.numero \in 0 .. Len(tabla_2_l) - 1 /\ cpu.marco \in Frame
        /\ Len(tabla_2_l') = Len(tabla_2_l)
        /\ tabla_2_l'[cpu.numero + 1].frame = cpu.marco
    BY <1>5, TrasTomar
  <2>. QED  BY <2>1, <2>2 DEF AccesoTipo, MarcoDe
<1>6. CASE Reemplazar
  <2>1. PICK p \in Iniciados : \E j0 \in Posiciones(p) :
           \E u \in EntradasDe(p), v \in EntradasDe(p) : Reemplaza(p, j0, u, v)
    BY <1>6, TrasReemplazar
  <2>2. PICK j0 \in Posiciones(p), u \in EntradasDe(p), v \in EntradasDe(p) :
           Reemplaza(p, j0, u, v)
    BY ONLY <2>1
  <2>3. /\ cpu' = [cpu EXCEPT !.pc = "traer", !.numero = u, !.marco = MarcoDe(v),
                              !.nueva = NADIE]
        /\ UNCHANGED <<tlb, accesos, suspensiones>> /\ v = EntradaDePag(p, j0)
        /\ tabla_2_l'[u + 1].frame = tabla_2_l[v + 1].frame
        /\ Len(tabla_2_l') = Len(tabla_2_l)
    BY <2>2 DEF Reemplaza
  <2>4. cpu'.pc = "traer" /\ cpu'.numero = u /\ cpu'.marco = MarcoDe(v)
        /\ cpu'.valor = cpu.valor
    BY <1>1, <2>3 DEF TipoCpu
  <2>5. MarcoDe(v) \in Frame  BY <2>3, PaginaListada, MarcoPresente
  <2>6. u \in 0 .. Len(tabla_2_l) - 1  BY EntradasTipo
  <2>. QED  BY <2>3, <2>4, <2>5, <2>6 DEF AccesoTipo, MarcoDe
<1>7. CASE ReemplazarSinPaginas
  <2>1. CASE cpu' = cpu  BY <1>7, <2>1, AccesoQuieto DEF ReemplazarSinPaginas, Morir
  <2>2. CASE cpu' # cpu
    <3>1. cpu'.pc = "bucle" /\ cpu'.valor = cpu.valor
          /\ UNCHANGED <<tlb, accesos, suspensiones>>
      BY <1>1, <1>7, <2>2 DEF ReemplazarSinPaginas, Morir, TipoCpu
    <3>. QED  BY <3>1 DEF AccesoTipo
  <2>. QED  BY <2>1, <2>2
<1>8. CASE Traer_a_memoria
  <2>1. CASE cpu' = cpu  BY <1>8, <2>1, AccesoQuieto DEF Traer_a_memoria, Morir
  <2>2. CASE cpu' # cpu
    <3>1. /\ cpu.pc = "traer" /\ cpu'.pc = "responder" /\ cpu'.valor = cpu.valor
          /\ cpu'.numero = cpu.numero
          /\ UNCHANGED <<tlb, accesos, suspensiones, tabla_2_l>>
      BY <1>1, <1>8, <2>2 DEF Traer_a_memoria, Morir, TipoCpu
    <3>. QED  BY <3>1 DEF AccesoTipo, MarcoDe
  <2>. QED  BY <2>1, <2>2
<1>9. CASE ResponderMarco
  <2>1. PICK f \in Frame : f = MarcoDe(cpu.numero)
    BY <1>9 DEF ResponderMarco, AccesoTipo
  <2>2. /\ cpu' = [cpu EXCEPT !.pc = "memcpy", !.marco = f, !.numero = NADIE,
                          !.tabla2 = NADIE]
        /\ tlb' \in Cargada(tlb, cpu.pag, f, accesos, REEMPLAZO_TLB)
        /\ UNCHANGED <<accesos, suspensiones>>
    BY <1>9, <2>1 DEF ResponderMarco, MarcoDe, Get
  <2>3. cpu'.pc = "memcpy" /\ cpu'.marco = f /\ cpu'.valor = cpu.valor
    BY <1>1, <2>2 DEF TipoCpu
  <2>4. NuevaEntrada(cpu.pag, f, accesos) \in EntradaTLB
    <3>1. cpu.pag \in Pagina  BY <1>9 DEF ResponderMarco, IInv, CpuInv
    <3>2. accesos \in Nat  BY DEF AccesoTipo, Palabra
    <3>. QED  BY <3>1, <3>2 DEF NuevaEntrada, EntradaTLB
  <2>5. tlb' \subseteq tlb \union {NuevaEntrada(cpu.pag, f, accesos)}
    BY <2>2 DEF Cargada
  <2>. QED  BY <2>2, <2>3, <2>4, <2>5 DEF AccesoTipo
<1>10. CASE Lectura
  <2>1. cpu'.pc = "marca" /\ cpu'.valor = memoria[cpu.marco] /\ cpu.pc = "memcpy"
        /\ UNCHANGED <<tlb, accesos, suspensiones>>
    BY <1>1, <1>10 DEF Lectura, TipoCpu
  <2>. QED  BY <2>1 DEF AccesoTipo, MemoriaTipo
<1>11. CASE Escritura
  <2>1. cpu'.pc = "marca" /\ cpu'.valor = cpu.valor /\ UNCHANGED <<tlb, accesos, suspensiones>>
    BY <1>1, <1>11 DEF Escritura, TipoCpu
  <2>. QED  BY <2>1 DEF AccesoTipo
<1>12. CASE Marcar
  <2>1. cpu'.pc = "libre" /\ cpu'.valor = 0 /\ UNCHANGED <<tlb, accesos, suspensiones>>
    BY <1>12 DEF Marcar, CpuLibre
  <2>2. 0 \in Palabra  BY CotasAssumption DEF Palabra
  <2>. QED  BY <2>1, <2>2 DEF AccesoTipo
<1>. QED
  BY <1>2, <1>3, <1>4, <1>5, <1>6, <1>7, <1>8, <1>9, <1>10, <1>11, <1>12
     DEF Funciones_cpu

LEMMA AccesoPaso ==
    ASSUME IInv, PaginasTipo, AccesoTipo, MemoriaTipo, Conserva, [Next]_vars
    PROVE  AccesoTipo'
<1>. USE DEF enCpu, ambiente
<1>1. CASE UNCHANGED vars  BY <1>1, AccesoQuieto DEF vars
<1>2. CASE KernelYCpu
  <2>1. CASE PedirInicializar
    BY <2>1, AccesoQuieto DEF PedirInicializar
  <2>2. ASSUME NEW p \in Proceso, Despachar(p) \/ Bloquear(p) \/ Desbloquear(p) \/ Terminar(p)
        PROVE  AccesoTipo'
    BY <2>2, AccesoQuieto DEF Despachar, Bloquear, Desbloquear, Terminar, TlbPara
  <2>3. ASSUME NEW p \in Proceso, Suspender(p)
        PROVE  AccesoTipo'
    <3>1. UNCHANGED <<cpu, tlb, accesos, tabla_2_l>> /\ suspensiones' = suspensiones + 1
      BY <2>3 DEF Suspender
    <3>. QED  BY <3>1 DEF AccesoTipo, MarcoDe
  <2>4. ASSUME NEW p \in Proceso, NEW n \in Pagina, NEW op \in INSTRUCCIONES,
               Acceso(p, n, op)
        PROVE  AccesoTipo'
    <3>1. TipoCpu  BY DEF IInv, Tipos, TipoHilos
    <3>2. accesos' = accesos + 1 /\ accesos + suspensiones < OPERACIONES
          /\ UNCHANGED <<suspensiones, tabla_2_l>>
      BY <2>4 DEF Acceso
    <3>3. accesos' \in Palabra /\ accesos' \in Nat /\ accesos \in Nat /\ suspensiones \in Nat
      BY <3>2, CotasAssumption DEF AccesoTipo, Palabra
    <3>4. CASE \E e \in Coincide(tlb, n) :
                 /\ tlb' = Referenciada(tlb, e, accesos')
                 /\ cpu' = [[cpu EXCEPT !.pid = p, !.pag = n, !.op = op, !.valor = accesos']
                              EXCEPT !.pc = "memcpy", !.marco = e.marco]
      <4>1. PICK e \in Coincide(tlb, n) :
                 /\ tlb' = Referenciada(tlb, e, accesos')
                 /\ cpu' = [[cpu EXCEPT !.pid = p, !.pag = n, !.op = op, !.valor = accesos']
                              EXCEPT !.pc = "memcpy", !.marco = e.marco]
        BY <3>4
      <4>2. e \in EntradaTLB /\ e \in tlb  BY DEF Coincide, AccesoTipo
      <4>3. e.marco \in Frame /\ [e EXCEPT !.ultima_referencia = accesos'] \in EntradaTLB
        BY <3>3, <4>2 DEF EntradaTLB
      <4>4. cpu'.pc = "memcpy" /\ cpu'.marco = e.marco /\ cpu'.valor = accesos'
        BY <3>1, <4>1 DEF TipoCpu
      <4>5. tlb' \subseteq EntradaTLB
        BY <4>1, <4>3 DEF Referenciada, AccesoTipo
      <4>. QED  BY <3>2, <3>3, <4>3, <4>4, <4>5 DEF AccesoTipo
    <3>5. CASE /\ cpu' = [[cpu EXCEPT !.pid = p, !.pag = n, !.op = op, !.valor = accesos']
                              EXCEPT !.pc = "entrada1"]
               /\ UNCHANGED tlb
      <4>1. cpu'.pc = "entrada1" /\ cpu'.valor = accesos'
        BY <3>1, <3>5 DEF TipoCpu
      <4>. QED  BY <3>2, <3>3, <3>5, <4>1 DEF AccesoTipo
    <3>. QED  BY <2>4, <3>4, <3>5 DEF Acceso
  <2>. QED  BY <1>2, <2>1, <2>2, <2>3, <2>4 DEF KernelYCpu
<1>3. CASE Funciones_kernel
  <2>1. UNCHANGED <<accesos, suspensiones, cpu, tlb>>
    BY <1>3 DEF Funciones_kernel, Inicializar_proceso, Crear_archivo_swap, LiberarPagina,
                Suspender_proceso, LimpiarBit, FinSuspender, Finalizar_proceso,
                BorrarFrame, Eliminar_archivo_swap, MuereKernel, Morir
  <2>. QED  BY <2>1, AccesoQuieto
<1>4. CASE Funciones_cpu  BY <1>4, AccesoDeCpu
<1>5. CASE Swap_
  <2>1. UNCHANGED <<accesos, suspensiones, cpu, tlb>>
    BY <1>5 DEF Swap_, TomarPedido, QuitarPedido, CopiarPedido, CopiarSinArchivo, Morir
  <2>. QED  BY <2>1, AccesoQuieto
<1>. QED  BY <1>1, <1>2, <1>3, <1>4, <1>5 DEF Next, Viva

\* The largest of a set of positions.
LEMMA MaximoDe ==
    ASSUME NEW l \in Nat, NEW S, S \subseteq 1 .. l, S # {}
    PROVE  Max(S) \in S /\ \A y \in S : y <= Max(S)
<1>. DEFINE T == {l - x : x \in S}
<1>1. T \subseteq Nat /\ T # {}
  <2>1. \A x \in S : l - x \in Nat  OBVIOUS
  <2>2. PICK x \in S : TRUE  OBVIOUS
  <2>3. T \subseteq Nat  BY <2>1
  <2>4. l - x \in T  BY <2>2
  <2>. QED  BY <2>3, <2>4
<1>. HIDE DEF T
<1>2. Min(T) \in T /\ \A y \in T : Min(T) <= y  BY <1>1, MinimoNat
<1>3. PICK x \in S : \A y \in S : l - x <= l - y
  <2>1. PICK x \in S : Min(T) = l - x  BY <1>2 DEF T
  <2>2. \A y \in S : l - y \in T  BY DEF T
  <2>. QED  BY <1>2, <2>1, <2>2
<1>4. \A y \in S : x >= y  BY <1>3
<1>. QED  BY <1>4 DEF Max

\* What a request for swap_ is made of.
LEMMA PedidoBien ==
    ASSUME IInv, PaginasTipo, MemoriaTipo, NEW p \in Iniciados, NEW xs \in Parcial(Nat),
           \A k \in DOMAIN xs : \E j \in Posiciones(p) : xs[k] = PagMem(p)[j]
    PROVE  /\ Pedido(p, xs) \in TipoPedido /\ PedidoDe(p, Pedido(p, xs))
           /\ Pedido(p, xs).pid = p /\ Pedido(p, xs).paginas = xs
           /\ \A k \in DOMAIN xs :
                 /\ Pedido(p, xs).entradas[k] = paginas[xs[k]].entrada
                 /\ Pedido(p, xs).palabras[k] = memoria[MarcoDe(paginas[xs[k]].entrada)]
                 /\ Presente(paginas[xs[k]].entrada)
           /\ DOMAIN Pedido(p, xs).entradas = DOMAIN xs
<1>1. ASSUME NEW k \in DOMAIN xs
      PROVE  /\ xs[k] \in DOMAIN paginas /\ paginas[xs[k]].entrada \in EntradasDe(p)
             /\ paginas[xs[k]].entrada \in Nat
             /\ EntradaDe(xs[k]).frame = MarcoDe(paginas[xs[k]].entrada)
             /\ MarcoDe(paginas[xs[k]].entrada) \in Frame
             /\ memoria[EntradaDe(xs[k]).frame] \in Palabra
             /\ Presente(paginas[xs[k]].entrada)
  <2>1. PICK j \in Posiciones(p) : xs[k] = PagMem(p)[j]  OBVIOUS
  <2>2. /\ xs[k] \in DOMAIN paginas /\ paginas[xs[k]].entrada \in EntradasDe(p)
        /\ Presente(paginas[xs[k]].entrada)
    BY <2>1, PaginaListada DEF EntradaDePag
  <2>3. EntradaDe(xs[k]).frame = MarcoDe(paginas[xs[k]].entrada)
    BY DEF EntradaDe, MarcoDe, Get
  <2>4. MarcoDe(paginas[xs[k]].entrada) \in Frame /\ paginas[xs[k]].entrada \in Nat
    BY <2>2, EntradasTipo DEF PaginasTipo
  <2>. QED  BY <2>2, <2>3, <2>4 DEF MemoriaTipo
<1>2. PICK D \in SUBSET (1 .. MARCOS_POR_PROCESO) : xs \in [D -> Nat]  BY DEF Parcial
<1>3. PICK es \in [D -> Nat] : es = [k \in DOMAIN xs |-> paginas[xs[k]].entrada]
  BY <1>1, <1>2
<1>4. PICK ws \in [D -> Palabra] : ws = [k \in DOMAIN xs |-> memoria[EntradaDe(xs[k]).frame]]
  BY <1>1, <1>2
<1>5. es \in Parcial(Nat) /\ ws \in Parcial(Palabra)  BY DEF Parcial
<1>6. p \in Proceso  BY IniciadosProceso
<1>7. Pedido(p, xs) = [pid |-> p, paginas |-> xs, entradas |-> es, palabras |-> ws]
  BY <1>3, <1>4 DEF Pedido
<1>8. PICK r : r = Pedido(p, xs) /\ r \in TipoPedido /\ r.pid = p /\ r.paginas = xs
               /\ r.entradas = es /\ r.palabras = ws
  <2>1. [pid |-> p, paginas |-> xs, entradas |-> es, palabras |-> ws] \in TipoPedido
    BY <1>5, <1>6 DEF TipoPedido
  <2>. QED  BY <1>7, <2>1
<1>9. PedidoDe(p, r)  BY <1>1, <1>2, <1>3, <1>4, <1>8 DEF PedidoDe
<1>10. \A k \in DOMAIN xs : ws[k] = memoria[MarcoDe(paginas[xs[k]].entrada)]
  BY <1>1, <1>4
<1>. QED  BY <1>1, <1>2, <1>3, <1>8, <1>9, <1>10

\* The request of suspender_proceso: the modified pages.
LEMMA PedidoAlSuspender ==
    ASSUME IInv, Suspender_proceso
    PROVE  \E p \in Iniciados :
           LET xs == PagMem(p)
               ms == {k \in DOMAIN xs : EntradaDe(xs[k]).bMod = 1}
               ys == Restrict(xs, ms) IN
           /\ p = Head(socket_kernel).pid /\ Recibe("SUSPENDER_PROCESO")
           /\ ys \in Parcial(Nat) /\ DOMAIN ys = ms
           /\ \A k \in DOMAIN ys : k \in Posiciones(p) /\ ys[k] = PagMem(p)[k]
           /\ Encolar(Pedido(p, ys), SinMarcar(p))
           /\ kernel'.pc = "liberar" /\ kernel'.pid = p
<1>1. PICK p : p = Head(socket_kernel).pid  OBVIOUS
<1>2. PICK xs : xs = PagMem(p)  OBVIOUS
<1>3. PICK ms : ms = {k \in DOMAIN xs : EntradaDe(xs[k]).bMod = 1}  OBVIOUS
<1>4. /\ Recibe("SUSPENDER_PROCESO") /\ EnLista(procesos, p)
      /\ Encolar(Pedido(p, Restrict(xs, ms)), SinMarcar(p))
      /\ kernel' = [kernel EXCEPT !.pc = "liberar", !.pid = p]
  BY <1>1, <1>2, <1>3 DEF Suspender_proceso
<1>5. p \in Iniciados
  <2>1. p \in Proceso  BY <1>1, <1>4, PrimerMensaje
  <2>2. p \in Nat /\ DOMAIN procesos = 1 .. Len(procesos) /\ Len(procesos) \in Nat
    BY <2>1 DEF Proceso, IInv, Tipos, TipoTablas
  <2>. QED  BY <1>4, <2>2 DEF EnLista, Iniciados
<1>6. xs \in Seq(Nat) /\ Posiciones(p) = 1 .. Len(xs) /\ Len(xs) \in Nat
  BY <1>2, <1>5, Filas DEF IInv, Tipos, LlegadaInv
<1>7. Len(xs) <= MARCOS_POR_PROCESO
  <2>1. Len(PagMem(p)) + (IF Creciendo(p) THEN 1 ELSE 0) <= MARCOS_POR_PROCESO
    BY <1>5 DEF IInv, PaginasInv
  <2>. QED  BY <1>2, <1>6, <2>1, MarcosAssumption
<1>8. ms \in SUBSET (1 .. MARCOS_POR_PROCESO) /\ ms \subseteq Posiciones(p)
  <2>1. DOMAIN xs = Posiciones(p)  BY <1>2 DEF Posiciones
  <2>. QED  BY <1>3, <1>6, <1>7, <2>1, MarcosAssumption
<1>9. Restrict(xs, ms) = [k \in ms |-> xs[k]]  BY DEF Restrict
<1>10. Restrict(xs, ms) \in [ms -> Nat]
  <2>1. \A k \in ms : xs[k] \in Nat  BY <1>6, <1>8
  <2>. QED  BY <1>9, <2>1
<1>11. Restrict(xs, ms) \in Parcial(Nat)  BY <1>8, <1>10 DEF Parcial
<1>12. kernel'.pc = "liberar" /\ kernel'.pid = p
  BY <1>4 DEF IInv, Tipos, TipoHilos
<1>13. PICK ys : ys = Restrict(xs, ms) /\ ys \in Parcial(Nat) /\ DOMAIN ys = ms
                 /\ \A k \in ms : ys[k] = xs[k]
  BY <1>9, <1>11
<1>14. /\ p = Head(socket_kernel).pid /\ Recibe("SUSPENDER_PROCESO")
       /\ Encolar(Pedido(p, ys), SinMarcar(p))
  BY <1>1, <1>4, <1>13
<1>. QED  BY ONLY <1>2, <1>3, <1>5, <1>8, <1>12, <1>13, <1>14

\* The request of a replacement: the page of the victim.
LEMMA PedidoAlReemplazar ==
    ASSUME IInv, NEW p \in Iniciados, NEW j \in Posiciones(p)
    PROVE  /\ <<PagMem(p)[j]>> \in Parcial(Nat) /\ DOMAIN <<PagMem(p)[j]>> = {1}
           /\ <<PagMem(p)[j]>>[1] = PagMem(p)[j]
<1>1. PagMem(p)[j] \in Nat
  BY Filas DEF IInv, Tipos, LlegadaInv
<1>2. {1} \in SUBSET (1 .. MARCOS_POR_PROCESO)  BY MarcosAssumption
<1>3. <<PagMem(p)[j]>> \in [{1} -> Nat]  BY <1>1
<1>. QED  BY <1>2, <1>3 DEF Parcial

\* The entries of the tables have their place in a swap file.
LEMMA EntradasEnArchivo ==
    ASSUME IInv
    PROVE  0 .. Len(tabla_2_l) - 1 \subseteq Numero
<1>1. PICK c \in Nat : c = CantEntradas1
  <2>1. Paginas + ENTRADAS_POR_TABLA - 1 \in Nat
    BY ProcesosAssumption, TablaAssumption
  <2>. QED  BY <2>1, Resto, TablaAssumption DEF CantEntradas1, Division_entera
<1>2. PICK b \in Nat : b = ENTRADAS_POR_TABLA  BY TablaAssumption
<1>3. PICK l \in Nat : l = Len(procesos)  BY DEF IInv, Tipos, TipoTablas
<1>4. PICK k \in Nat : k = CANT_PROCESOS  BY ProcesosAssumption
<1>5. l <= k  BY <1>3, <1>4 DEF IInv, LlegadaInv
<1>6. Len(tabla_2_l) = b * (l * c)  BY <1>1, <1>2, <1>3 DEF IInv, TablasInv
<1>7. b * (l * c) <= k * c * b
  <2>1. PICK d \in Nat : k = l + d
    <3>1. k - l \in Nat /\ k = l + (k - l)  BY ONLY <1>5
    <3>. QED  BY ONLY <3>1
  <2>2. PICK x \in Nat, y \in Nat : x = l * c /\ y = d * c  BY SMT
  <2>3. k * c = x + y  BY <2>1, <2>2, SMT
  <2>4. k * c * b = b * x + b * y  BY <2>3, SMT
  <2>5. b * x \in Nat /\ b * y \in Nat  BY SMT
  <2>. QED  BY <2>2, <2>4, <2>5
<1>8. b * (l * c) \in Nat /\ k * c * b \in Nat
  <2>1. PICK x \in Nat, y \in Nat : x = l * c /\ y = k * c  BY SMT
  <2>2. b * x \in Nat /\ y * b \in Nat  BY SMT
  <2>. QED  BY <2>1, <2>2
<1>9. Numero = 0 .. k * c * b - 1  BY <1>1, <1>2, <1>4 DEF Numero
<1>. QED  BY ONLY <1>6, <1>7, <1>8, <1>9

\* Memoria of words, and swap files.
LEMMA MemoriaPaso ==
    ASSUME IInv, DInv, [Next]_vars
    PROVE  MemoriaTipo'
<1>. USE DEF enSwap
<1>1. memoria \in [Frame -> Palabra] /\ DOMAIN archivo \subseteq Proceso
      /\ \A p \in DOMAIN archivo : archivo[p] \in [Numero -> Palabra]
  BY DEF DInv, MemoriaTipo
<1>2. 0 \in Palabra  BY CotasAssumption DEF Palabra
<1>3. CASE UNCHANGED <<memoria, archivo>>  BY <1>1, <1>3 DEF MemoriaTipo
<1>4. CASE Crear_archivo_swap
  <2>1. PICK q \in Proceso : q = kernel.pid
    BY <1>4 DEF Crear_archivo_swap, IInv, LlegadaInv
  <2>2. PICK a \in [Numero -> Palabra] : a = [n \in Numero |-> 0]  BY <1>2
  <2>3. UNCHANGED memoria
        /\ archivo' = [p \in DOMAIN archivo \union {q} |->
                          IF p \in DOMAIN archivo THEN archivo[p] ELSE a]
    BY <1>4, <2>1, <2>2 DEF Crear_archivo_swap
  <2>. QED  BY <1>1, <2>3 DEF MemoriaTipo
<1>5. CASE Eliminar_archivo_swap
  BY <1>1, <1>5 DEF Eliminar_archivo_swap, MemoriaTipo
<1>6. CASE BorrarFrame
  <2>1. UNCHANGED archivo /\ \E f : memoria' = [memoria EXCEPT ![f] = 0]
    BY <1>6 DEF BorrarFrame
  <2>. QED  BY <1>1, <1>2, <2>1 DEF MemoriaTipo
<1>7. CASE Traer_a_memoria
  <2>1. CASE UNCHANGED <<memoria, archivo>>  BY <1>3, <2>1
  <2>2. CASE /\ cpu.pid \in DOMAIN archivo /\ cpu.numero \in EntradasDe(cpu.pid)
             /\ memoria' = [memoria EXCEPT ![cpu.marco] = archivo[cpu.pid][cpu.numero]]
             /\ UNCHANGED archivo
    <3>1. cpu.numero \in Numero
      <4>1. cpu.numero \in 0 .. Len(tabla_2_l) - 1  BY <2>2, EntradasTipo
      <4>. QED  BY <4>1, EntradasEnArchivo
    <3>2. archivo[cpu.pid][cpu.numero] \in Palabra  BY <1>1, <2>2, <3>1
    <3>. QED  BY <1>1, <2>2, <3>2 DEF MemoriaTipo
  <2>. QED  BY <1>7, <2>1, <2>2, TrasTraer
<1>8. CASE Escritura
  <2>1. UNCHANGED archivo /\ memoria' = [memoria EXCEPT ![cpu.marco] = cpu.valor]
    BY <1>8 DEF Escritura
  <2>. QED  BY <1>1, <2>1 DEF MemoriaTipo, DInv, AccesoTipo
<1>9. CASE CopiarPedido
  <2>1. PICK q \in DOMAIN archivo : q = swap.pedido.pid  BY <1>9 DEF CopiarPedido
  <2>2. PICK D \in SUBSET (1 .. MARCOS_POR_PROCESO) : swap.pedido.paginas \in [D -> Nat]
        /\ \A k \in D : swap.pedido.paginas[k] \in DOMAIN paginas
    <3>1. swap.pc = "copiar"  BY <1>9 DEF CopiarPedido
    <3>2. swap.pedido \in TipoPedido /\ PedidoDe(swap.pedido.pid, swap.pedido)
      BY <3>1 DEF DInv, SwapTipo
    <3>. QED  BY <3>2 DEF TipoPedido, Parcial, PedidoDe
  <2>3. PICK xs \in [D -> Nat] : xs = swap.pedido.paginas
                                 /\ \A k \in D : xs[k] \in DOMAIN paginas
    BY <2>2
  <2>. DEFINE Ks(n) == {k \in DOMAIN xs : paginas[xs[k]].numero = n}
  <2>4. PICK guarda \in BOOLEAN : archivo' = [archivo EXCEPT ![swap.pedido.pid] =
             [n \in Numero |->
                LET ks == {k \in DOMAIN swap.pedido.paginas :
                              paginas[swap.pedido.paginas[k]].numero = n}
                IN  IF ks # {} /\ (n < Paginas \/ guarda)
                    THEN memoria[EntradaDe(swap.pedido.paginas[Max(ks)]).frame]
                    ELSE archivo[swap.pedido.pid][n]]]
    BY <1>9 DEF CopiarPedido
  <2>5. ASSUME NEW n \in Numero, Ks(n) # {}
        PROVE  memoria[EntradaDe(xs[Max(Ks(n))]).frame] \in Palabra
    <3>1. PICK ks : ks = Ks(n)  OBVIOUS
    <3>2. ks \subseteq 1 .. MARCOS_POR_PROCESO /\ ks # {}  BY <2>5, <3>1
    <3>3. PICK k \in ks : k = Max(ks)  BY <3>2, MaximoDe, MarcosAssumption
    <3>4. xs[k] \in DOMAIN paginas  BY <2>3, <3>1
    <3>5. MarcoDe(paginas[xs[k]].entrada) \in Frame  BY <3>4 DEF DInv, PaginasTipo
    <3>6. EntradaDe(xs[k]).frame = MarcoDe(paginas[xs[k]].entrada)
      BY DEF EntradaDe, MarcoDe, Get
    <3>. QED  BY <1>1, <3>1, <3>3, <3>5, <3>6
  <2>6. PICK w : w = [n \in Numero |->
                IF Ks(n) # {} /\ (n < Paginas \/ guarda)
                THEN memoria[EntradaDe(xs[Max(Ks(n))]).frame]
                ELSE archivo[q][n]]
    OBVIOUS
  <2>7. archivo' = [archivo EXCEPT ![q] = w]
    BY ONLY <2>1, <2>3, <2>4, <2>6
  <2>8. w \in [Numero -> Palabra]  BY <1>1, <2>5, <2>6
  <2>9. UNCHANGED memoria  BY <1>9 DEF CopiarPedido
  <2>. QED  BY <1>1, <2>7, <2>8, <2>9 DEF MemoriaTipo
<1>10. \/ UNCHANGED <<memoria, archivo>>
       \/ Crear_archivo_swap \/ Eliminar_archivo_swap \/ BorrarFrame
       \/ Traer_a_memoria \/ Escritura \/ CopiarPedido
  <2>1. CASE UNCHANGED vars  BY <2>1 DEF vars
  <2>2. CASE KernelYCpu
    BY <2>2 DEF KernelYCpu, PedirInicializar, Despachar, Bloquear, Desbloquear, Suspender,
                Terminar, Acceso
  <2>3. CASE Funciones_kernel
    BY <2>3 DEF Funciones_kernel, Inicializar_proceso, Suspender_proceso, LiberarPagina,
                LimpiarBit, FinSuspender, Finalizar_proceso, MuereKernel, Morir
  <2>4. CASE Funciones_cpu
    BY <2>4 DEF Funciones_cpu, Entrada1, EntradaPresente, BuscarFrameLibre, TomarFrame,
                Reemplazar, ReemplazarSinPaginas, ResponderMarco, Lectura, Marcar, Morir
  <2>5. CASE Swap_
    BY <2>5 DEF Swap_, TomarPedido, QuitarPedido, CopiarSinArchivo, Morir
  <2>. QED  BY <2>1, <2>2, <2>3, <2>4, <2>5 DEF Next, Viva
<1>. QED  BY <1>3, <1>4, <1>5, <1>6, <1>7, <1>8, <1>9, <1>10

LEMMA PedidoConservado ==
    ASSUME Conserva, NEW p, NEW r, PedidoDe(p, r)
    PROVE  PedidoDe(p, r)'
<1>1. p \in Iniciados' /\ EntradasDe(p)' = EntradasDe(p)  BY DEF PedidoDe, Conserva
<1>. QED  BY <1>1 DEF PedidoDe, Conserva

LEMMA SwapQuieto ==
    ASSUME SwapTipo, Conserva, UNCHANGED <<s_swap, pedidos_swap_l, swap>>
    PROVE  SwapTipo'
<1>1. \A i \in DOMAIN pedidos_swap_l : PedidoDe(pedidos_swap_l[i].pid, pedidos_swap_l[i])'
  <2>1. SUFFICES ASSUME NEW i \in DOMAIN pedidos_swap_l
        PROVE  PedidoDe(pedidos_swap_l[i].pid, pedidos_swap_l[i])'
    OBVIOUS
  <2>2. PICK r : r = pedidos_swap_l[i] /\ PedidoDe(r.pid, r)  BY DEF SwapTipo
  <2>3. PedidoDe(r.pid, r)'  BY <2>2, PedidoConservado
  <2>4. pedidos_swap_l'[i] = r  BY <2>2
  <2>. QED  BY <2>2, <2>3, <2>4 DEF PedidoDe
<1>2. swap.pc # "libre" => PedidoDe(swap.pedido.pid, swap.pedido)'
  <2>1. SUFFICES ASSUME swap.pc # "libre" PROVE PedidoDe(swap.pedido.pid, swap.pedido)'
    OBVIOUS
  <2>2. PICK r : r = swap.pedido /\ PedidoDe(r.pid, r)  BY <2>1 DEF SwapTipo
  <2>3. PedidoDe(r.pid, r)'  BY <2>2, PedidoConservado
  <2>. QED  BY <2>2, <2>3 DEF PedidoDe
<1>. QED  BY <1>1, <1>2 DEF SwapTipo, PedidoDe

\* A request is added to the list.
LEMMA SwapTrasEncolar ==
    ASSUME SwapTipo, Conserva, NEW r \in TipoPedido, PedidoDe(r.pid, r), NEW ns,
           Encolar(r, ns), UNCHANGED swap
    PROVE  SwapTipo'
<1>1. s_swap' = s_swap + 1 /\ s_swap \in Nat /\ s_swap' \in Nat
  BY DEF Encolar, SwapTipo
<1>2. CASE pedidos_swap_l' = pedidos_swap_l
  <2>1. \A i \in DOMAIN pedidos_swap_l : PedidoDe(pedidos_swap_l[i].pid, pedidos_swap_l[i])'
    <3>1. SUFFICES ASSUME NEW i \in DOMAIN pedidos_swap_l
          PROVE  PedidoDe(pedidos_swap_l[i].pid, pedidos_swap_l[i])'
      OBVIOUS
    <3>2. PICK t : t = pedidos_swap_l[i] /\ PedidoDe(t.pid, t)  BY DEF SwapTipo
    <3>3. PedidoDe(t.pid, t)'  BY <3>2, PedidoConservado
    <3>4. pedidos_swap_l'[i] = t  BY <1>2, <3>2
    <3>. QED  BY <3>2, <3>3, <3>4 DEF PedidoDe
  <2>2. swap.pc # "libre" => PedidoDe(swap.pedido.pid, swap.pedido)'
    <3>1. SUFFICES ASSUME swap.pc # "libre" PROVE PedidoDe(swap.pedido.pid, swap.pedido)'
      OBVIOUS
    <3>2. PICK t : t = swap.pedido /\ PedidoDe(t.pid, t)  BY <3>1 DEF SwapTipo
    <3>3. PedidoDe(t.pid, t)'  BY <3>2, PedidoConservado
    <3>. QED  BY <3>2, <3>3 DEF PedidoDe
  <2>3. Len(pedidos_swap_l) <= s_swap' + (IF swap.pc = "quitar" THEN 1 ELSE 0)
    <3>1. Len(pedidos_swap_l) \in Nat
          /\ Len(pedidos_swap_l) <= s_swap + (IF swap.pc = "quitar" THEN 1 ELSE 0)
      BY DEF SwapTipo
    <3>. QED  BY <1>1, <3>1
  <2>. QED  BY <1>1, <1>2, <2>1, <2>2, <2>3 DEF SwapTipo, PedidoDe
<1>3. CASE pedidos_swap_l' = Append(pedidos_swap_l, r)
  <2>1. PICK l \in Nat : l = Len(pedidos_swap_l) /\ DOMAIN pedidos_swap_l = 1 .. l
    BY DEF SwapTipo
  <2>2. /\ pedidos_swap_l' \in Seq(TipoPedido) /\ Len(pedidos_swap_l') = l + 1
        /\ DOMAIN pedidos_swap_l' = 1 .. l + 1
        /\ \A i \in 1 .. l : pedidos_swap_l'[i] = pedidos_swap_l[i]
        /\ pedidos_swap_l'[l + 1] = r
    BY <1>3, <2>1, AppendProperties DEF SwapTipo
  <2>3. \A i \in DOMAIN pedidos_swap_l' :
           PedidoDe(pedidos_swap_l[i].pid, pedidos_swap_l[i])'
    <3>1. SUFFICES ASSUME NEW i \in DOMAIN pedidos_swap_l'
          PROVE  PedidoDe(pedidos_swap_l[i].pid, pedidos_swap_l[i])'
      OBVIOUS
    <3>2. PICK t : t = pedidos_swap_l'[i] /\ PedidoDe(t.pid, t)
      <4>1. CASE i = l + 1  BY <2>2, <4>1
      <4>2. CASE i # l + 1
        <5>1. i \in 1 .. l  BY <2>2, <4>2
        <5>2. pedidos_swap_l'[i] = pedidos_swap_l[i]  BY <2>2, <5>1
        <5>. QED  BY <2>1, <5>1, <5>2 DEF SwapTipo
      <4>. QED  BY <4>1, <4>2
    <3>3. PedidoDe(t.pid, t)'  BY <3>2, PedidoConservado
    <3>. QED  BY <3>2, <3>3 DEF PedidoDe
  <2>4. swap.pc # "libre" => PedidoDe(swap.pedido.pid, swap.pedido)'
    <3>1. SUFFICES ASSUME swap.pc # "libre" PROVE PedidoDe(swap.pedido.pid, swap.pedido)'
      OBVIOUS
    <3>2. PICK t : t = swap.pedido /\ PedidoDe(t.pid, t)  BY <3>1 DEF SwapTipo
    <3>3. PedidoDe(t.pid, t)'  BY <3>2, PedidoConservado
    <3>. QED  BY <3>2, <3>3 DEF PedidoDe
  <2>5. Len(pedidos_swap_l') <= s_swap' + (IF swap.pc = "quitar" THEN 1 ELSE 0)
    <3>1. l <= s_swap + (IF swap.pc = "quitar" THEN 1 ELSE 0)  BY <2>1 DEF SwapTipo
    <3>. QED  BY <1>1, <2>2, <3>1
  <2>6. swap.pc = "quitar" => pedidos_swap_l' # <<>> /\ swap.pedido = pedidos_swap_l'[1]
    <3>1. SUFFICES ASSUME swap.pc = "quitar"
          PROVE  pedidos_swap_l' # <<>> /\ swap.pedido = pedidos_swap_l'[1]
      OBVIOUS
    <3>2. pedidos_swap_l # <<>> /\ swap.pedido = pedidos_swap_l[1]  BY <3>1 DEF SwapTipo
    <3>3. l >= 1  BY <2>1, <3>2 DEF SwapTipo
    <3>. QED  BY <2>2, <3>2, <3>3
  <2>. QED  BY <1>1, <2>2, <2>3, <2>4, <2>5, <2>6 DEF SwapTipo, PedidoDe
<1>. QED  BY <1>2, <1>3 DEF Encolar

\* swap_ takes the first request, removes it and copies its pages.
LEMMA SwapDeSwap ==
    ASSUME SwapTipo, Conserva, Swap_
    PROVE  SwapTipo'
<1>. USE DEF enSwap
<1>1. /\ s_swap \in Nat /\ pedidos_swap_l \in Seq(TipoPedido)
      /\ Len(pedidos_swap_l) \in Nat /\ DOMAIN pedidos_swap_l = 1 .. Len(pedidos_swap_l)
      /\ Len(pedidos_swap_l) <= s_swap + (IF swap.pc = "quitar" THEN 1 ELSE 0)
  BY DEF SwapTipo
<1>2. \A i \in DOMAIN pedidos_swap_l : PedidoDe(pedidos_swap_l[i].pid, pedidos_swap_l[i])
  BY DEF SwapTipo
<1>3. CASE UNCHANGED <<s_swap, pedidos_swap_l, swap>>  BY <1>3, SwapQuieto
<1>4. CASE TomarPedido
  <2>1. CASE pedidos_swap_l = <<>>  BY <1>3, <1>4, <2>1 DEF TomarPedido, Morir
  <2>2. CASE pedidos_swap_l # <<>>
    <3>1. PICK r \in TipoPedido : r = pedidos_swap_l[1] /\ PedidoDe(r.pid, r)
          /\ Head(pedidos_swap_l) = r
      <4>1. 1 \in DOMAIN pedidos_swap_l /\ Head(pedidos_swap_l) = pedidos_swap_l[1]
        BY <1>1, <2>2
      <4>2. pedidos_swap_l[1] \in TipoPedido  BY <1>1, <4>1
      <4>. QED  BY <1>2, <4>1, <4>2
    <3>2. /\ s_swap > 0 /\ s_swap' = s_swap - 1 /\ UNCHANGED pedidos_swap_l
          /\ swap' = [pc |-> "quitar", pedido |-> r] /\ swap.pc = "libre"
      BY <1>4, <2>2, <3>1 DEF TomarPedido
    <3>3. PedidoDe(r.pid, r)'  BY <3>1, PedidoConservado
    <3>4. ASSUME NEW i \in DOMAIN pedidos_swap_l
          PROVE  PedidoDe(pedidos_swap_l[i].pid, pedidos_swap_l[i])'
      <4>1. PICK t : t = pedidos_swap_l[i] /\ PedidoDe(t.pid, t)  BY <1>2
      <4>2. PedidoDe(t.pid, t)'  BY <4>1, PedidoConservado
      <4>. QED  BY <3>2, <4>1, <4>2 DEF PedidoDe
    <3>5. s_swap' \in Nat /\ Len(pedidos_swap_l) <= s_swap' + 1  BY <1>1, <3>2
    <3>6. swap'.pc = "quitar" /\ swap'.pedido = r  BY <3>2
    <3>7. swap' \in [pc : {"quitar", "copiar"}, pedido : TipoPedido]  BY <3>2
    <3>8. PedidoDe(swap.pedido.pid, swap.pedido)'  BY <3>3, <3>6 DEF PedidoDe
    <3>. QED
      BY <1>1, <2>2, <3>1, <3>2, <3>4, <3>5, <3>6, <3>7, <3>8 DEF SwapTipo, PedidoDe
  <2>. QED  BY <2>1, <2>2
<1>5. CASE QuitarPedido
  <2>1. swap.pc = "quitar"  BY <1>5 DEF QuitarPedido
  <2>2. PICK r \in TipoPedido : r = swap.pedido /\ PedidoDe(r.pid, r)
           /\ swap = [pc |-> "quitar", pedido |-> r]
    <3>1. swap \in [pc : {"quitar", "copiar"}, pedido : TipoPedido]
          /\ PedidoDe(swap.pedido.pid, swap.pedido)
      BY <2>1 DEF SwapTipo
    <3>. QED  BY <2>1, <3>1
  <2>3. /\ pedidos_swap_l' = Tail(pedidos_swap_l) /\ UNCHANGED s_swap
        /\ swap' = [pc |-> "copiar", pedido |-> r]
    BY <1>5, <2>2 DEF QuitarPedido
  <2>4. pedidos_swap_l # <<>>  BY <2>1 DEF SwapTipo
  <2>5. /\ pedidos_swap_l' \in Seq(TipoPedido) /\ Len(pedidos_swap_l') = Len(pedidos_swap_l) - 1
        /\ \A i \in 1 .. Len(pedidos_swap_l) - 1 : pedidos_swap_l'[i] = pedidos_swap_l[i + 1]
        /\ DOMAIN pedidos_swap_l' = 1 .. Len(pedidos_swap_l) - 1
    BY <1>1, <2>3, <2>4
  <2>6. ASSUME NEW i \in DOMAIN pedidos_swap_l'
        PROVE  PedidoDe(pedidos_swap_l[i].pid, pedidos_swap_l[i])'
    <3>1. i + 1 \in DOMAIN pedidos_swap_l /\ pedidos_swap_l'[i] = pedidos_swap_l[i + 1]
      BY <1>1, <2>5
    <3>2. PICK t : t = pedidos_swap_l[i + 1] /\ PedidoDe(t.pid, t)  BY <1>2, <3>1
    <3>3. PedidoDe(t.pid, t)'  BY <3>2, PedidoConservado
    <3>. QED  BY <3>1, <3>2, <3>3 DEF PedidoDe
  <2>7. swap'.pc = "copiar" /\ swap'.pedido = r  BY <2>3
  <2>8. swap' \in [pc : {"quitar", "copiar"}, pedido : TipoPedido]  BY <2>3
  <2>9. PedidoDe(swap.pedido.pid, swap.pedido)'
    <3>1. PedidoDe(r.pid, r)'  BY <2>2, PedidoConservado
    <3>. QED  BY <2>7, <3>1 DEF PedidoDe
  <2>10. Len(pedidos_swap_l') <= s_swap' /\ s_swap' \in Nat
    BY <1>1, <2>1, <2>3, <2>5
  <2>. QED  BY <2>5, <2>6, <2>7, <2>8, <2>9, <2>10 DEF SwapTipo, PedidoDe
<1>6. ASSUME Servido, swap.pc = "copiar", UNCHANGED <<s_swap, pedidos_swap_l>>
      PROVE  SwapTipo'
  <2>1. swap \in [pc : {"quitar", "copiar"}, pedido : TipoPedido]
    BY <1>6 DEF SwapTipo
  <2>2. swap' = [pc |-> "libre", pedido |-> <<>>]
    BY <1>6, <2>1 DEF Servido
  <2>3. swap'.pc = "libre" /\ swap' \in [pc : {"libre"}, pedido : {<<>>}]  BY <2>2
  <2>4. ASSUME NEW i \in DOMAIN pedidos_swap_l
        PROVE  PedidoDe(pedidos_swap_l[i].pid, pedidos_swap_l[i])'
    <3>1. PICK t : t = pedidos_swap_l[i] /\ PedidoDe(t.pid, t)  BY <1>2
    <3>2. PedidoDe(t.pid, t)'  BY <3>1, PedidoConservado
    <3>. QED  BY <1>6, <3>1, <3>2 DEF PedidoDe
  <2>. QED  BY <1>1, <1>6, <2>3, <2>4 DEF SwapTipo, PedidoDe
<1>7. CASE CopiarPedido  BY <1>6, <1>7 DEF CopiarPedido
<1>8. CASE CopiarSinArchivo
  BY <1>3, <1>6, <1>8 DEF CopiarSinArchivo, Morir
<1>. QED  BY <1>4, <1>5, <1>7, <1>8 DEF Swap_

LEMMA SwapPaso ==
    ASSUME IInv, DInv, Conserva, [Next]_vars
    PROVE  SwapTipo'
<1>. USE DEF enSwap
<1>1. SwapTipo /\ PaginasTipo /\ MemoriaTipo  BY DEF DInv
<1>2. CASE UNCHANGED <<s_swap, pedidos_swap_l, swap>>  BY <1>1, <1>2, SwapQuieto
<1>3. CASE Swap_  BY <1>1, <1>3, SwapDeSwap
<1>4. CASE Suspender_proceso
  <2>1. PICK p \in Iniciados, ys \in Parcial(Nat) :
           /\ \A k \in DOMAIN ys : \E j \in Posiciones(p) : ys[k] = PagMem(p)[j]
           /\ Encolar(Pedido(p, ys), SinMarcar(p))
    <3>1. PICK p \in Iniciados :
           LET xs == PagMem(p)
               ms == {k \in DOMAIN xs : EntradaDe(xs[k]).bMod = 1}
               ys == Restrict(xs, ms) IN
           /\ ys \in Parcial(Nat)
           /\ \A k \in DOMAIN ys : k \in Posiciones(p) /\ ys[k] = PagMem(p)[k]
           /\ Encolar(Pedido(p, ys), SinMarcar(p))
      BY <1>4, PedidoAlSuspender
    <3>2. PICK zs : zs = Restrict(PagMem(p), {k \in DOMAIN PagMem(p) :
                                                EntradaDe(PagMem(p)[k]).bMod = 1})
      OBVIOUS
    <3>3. /\ zs \in Parcial(Nat)
          /\ \A k \in DOMAIN zs : k \in Posiciones(p) /\ zs[k] = PagMem(p)[k]
          /\ Encolar(Pedido(p, zs), SinMarcar(p))
      BY ONLY <3>1, <3>2
    <3>4. p \in Iniciados  OBVIOUS
    <3>. QED  BY ONLY <3>3, <3>4
  <2>2. PICK r \in TipoPedido : r = Pedido(p, ys) /\ r.pid = p /\ PedidoDe(p, r)
    BY <1>1, <2>1, PedidoBien
  <2>3. UNCHANGED swap  BY <1>4 DEF Suspender_proceso
  <2>4. PICK ns : ns = SinMarcar(p)  OBVIOUS
  <2>5. Encolar(r, ns)  BY ONLY <2>1, <2>2, <2>4
  <2>6. PedidoDe(r.pid, r)  BY <2>2
  <2>. QED  BY <1>1, <2>3, <2>5, <2>6, SwapTrasEncolar
<1>5. CASE Reemplazar
  <2>1. PICK p \in Iniciados : \E j0 \in Posiciones(p) :
           \E u \in EntradasDe(p), v \in EntradasDe(p) : Reemplaza(p, j0, u, v)
    BY <1>5, TrasReemplazar
  <2>2. PICK j0 \in Posiciones(p), u \in EntradasDe(p), v \in EntradasDe(p) :
           Reemplaza(p, j0, u, v)
    BY ONLY <2>1
  <2>3. UNCHANGED swap  BY <2>2 DEF Reemplaza
  <2>4. CASE UNCHANGED <<pedidos_swap_l, s_swap>>  BY <1>2, <2>3, <2>4
  <2>5. CASE Encolar(Pedido(p, <<PagMem(p)[j0]>>), {})
    <3>1. PICK ys \in Parcial(Nat) : ys = <<PagMem(p)[j0]>> /\ DOMAIN ys = {1}
             /\ ys[1] = PagMem(p)[j0]
      <4>1. PICK j \in Posiciones(p) : j = j0  BY <2>2
      <4>. QED  BY <4>1, PedidoAlReemplazar
    <3>2. \A k \in DOMAIN ys : \E j \in Posiciones(p) : ys[k] = PagMem(p)[j]
      <4>1. j0 \in Posiciones(p)  BY <2>2
      <4>. QED  BY <3>1, <4>1
    <3>3. PICK r \in TipoPedido : r = Pedido(p, ys) /\ r.pid = p /\ PedidoDe(p, r)
      BY <1>1, <3>2, PedidoBien
    <3>4. Encolar(r, {})  BY ONLY <2>5, <3>1, <3>3
    <3>5. PedidoDe(r.pid, r)  BY <3>3
    <3>6. PICK ns : ns = {}  OBVIOUS
    <3>7. Encolar(r, ns)  BY ONLY <3>4, <3>6
    <3>. QED  BY <1>1, <2>3, <3>5, <3>7, SwapTrasEncolar
  <2>. QED  BY <2>2, <2>4, <2>5 DEF Reemplaza
<1>6. CASE UNCHANGED vars  BY <1>2, <1>6 DEF vars
<1>7. CASE KernelYCpu
  BY <1>2, <1>7 DEF KernelYCpu, PedirInicializar, Despachar, Bloquear, Desbloquear, Suspender,
              Terminar, Acceso
<1>8. CASE Funciones_kernel
  BY <1>2, <1>4, <1>8 DEF Funciones_kernel, Inicializar_proceso, Crear_archivo_swap,
              LiberarPagina, LimpiarBit, FinSuspender, Finalizar_proceso, BorrarFrame,
              Eliminar_archivo_swap, MuereKernel, Morir
<1>9. CASE Funciones_cpu
  BY <1>2, <1>5, <1>9 DEF Funciones_cpu, Entrada1, EntradaPresente, BuscarFrameLibre,
              TomarFrame, ReemplazarSinPaginas, Traer_a_memoria, ResponderMarco, Lectura,
              Escritura, Marcar, Morir
<1>. QED  BY <1>3, <1>6, <1>7, <1>8, <1>9 DEF Next, Viva

LEMMA DInvInicio == Init => DInv
<1>. SUFFICES ASSUME Init PROVE DInv  OBVIOUS
<1>. USE DEF Init
<1>1. 0 \in Palabra /\ 0 \in Nat  BY CotasAssumption DEF Palabra
<1>2. PaginasTipo  BY DEF PaginasTipo
<1>3. AccesoTipo  BY <1>1 DEF AccesoTipo, CpuLibre
<1>4. MemoriaTipo  BY <1>1 DEF MemoriaTipo
<1>5. SwapTipo  BY DEF SwapTipo
<1>. QED  BY <1>2, <1>3, <1>4, <1>5 DEF DInv

LEMMA DInvPaso ==
    ASSUME IInv, DInv, [Next]_vars
    PROVE  DInv'
<1>1. Conserva /\ PaginasTipo'  BY TablasCrecen DEF DInv
<1>2. AccesoTipo'  BY <1>1, AccesoPaso DEF DInv
<1>3. MemoriaTipo'  BY MemoriaPaso
<1>4. SwapTipo'  BY <1>1, SwapPaso
<1>. QED  BY <1>1, <1>2, <1>3, <1>4 DEF DInv

\* The invariants of the structures and of the data, together.
LEMMA InvarianteDeDatos == ASSUME OrdenDePids PROVE Spec => []IInv /\ []DInv
<1>1. Init => IInv /\ DInv  BY IInvInicio, DInvInicio
<1>2. (IInv /\ DInv) /\ [Next]_vars => (IInv /\ DInv)'  BY IInvPaso, DInvPaso
<1>. QED  BY <1>1, <1>2, PTL DEF Spec

(* The types of Memoria, for any number of processes, pages, frames, bytes  *)
(* of bitMem and operations: every frame an entry is given is one of the    *)
(* bit array, every word comes from a WRITE, and pagMem and the requests    *)
(* name pages that exist.                                                   *)
THEOREM TiposDeMemoria == ASSUME OrdenDePids PROVE Spec => []TypeOK
<1>1. IInv /\ DInv => TypeOK
  <2>. SUFFICES ASSUME IInv, DInv PROVE TypeOK  OBVIOUS
  <2>1. bitMem \subseteq Frame  BY DEF IInv, Tipos, TipoTablas
  <2>2. memoria \in [Frame -> 0 .. OPERACIONES] /\ DOMAIN archivo \subseteq Proceso
    BY DEF DInv, MemoriaTipo, Palabra
  <2>3. Len(pedidos_swap_l) <= s_swap + (IF swap.pc = "quitar" THEN 1 ELSE 0)
    BY DEF DInv, SwapTipo
  <2>4. \A i \in DOMAIN tabla_2_l : tabla_2_l[i] \in
          [frame : Frame \union {NADIE}, bUso : {0, 1}, bMod : {0, 1}, bPres : {0, 1}]
    <3>1. SUFFICES ASSUME NEW i \in DOMAIN tabla_2_l
          PROVE  tabla_2_l[i] \in EntradaTabla
      BY DEF EntradaTabla
    <3>2. tabla_2_l \in Seq(EntradaTabla)  BY DEF IInv, Tipos, TipoTablas
    <3>3. i \in 1 .. Len(tabla_2_l)  BY <3>2
    <3>. QED  BY ONLY <3>2, <3>3, ElementOfSeq
  <2>5. ASSUME NEW i \in DOMAIN procesos
        PROVE  procesos[i].puntero \in Nat /\ ToSet(procesos[i].pagMem) \subseteq DOMAIN paginas
    <3>1. PICK p \in Iniciados : i = p + 1
      <4>1. procesos \in Seq(FilaProceso) /\ DOMAIN procesos = 1 .. Len(procesos)
            /\ Len(procesos) \in Nat
        BY DEF IInv, Tipos, TipoTablas, FilaProceso
      <4>2. i - 1 \in Iniciados /\ i = (i - 1) + 1  BY <4>1 DEF Iniciados
      <4>. QED  BY ONLY <4>2
    <3>2. procesos[i] \in FilaProceso
      <4>1. procesos \in Seq(FilaProceso)  BY DEF IInv, Tipos, TipoTablas, FilaProceso
      <4>2. i \in 1 .. Len(procesos)  BY <4>1
      <4>. QED  BY ONLY <4>1, <4>2, ElementOfSeq
    <3>3. PagMem(p) = procesos[i].pagMem  BY <3>1 DEF PagMem, Get
    <3>4. \A k \in DOMAIN PagMem(p) : PagMem(p)[k] \in DOMAIN paginas
      BY PaginaListada DEF Posiciones
    <3>5. procesos[i].puntero \in Nat  BY <3>2 DEF FilaProceso
    <3>. QED  BY <3>3, <3>4, <3>5 DEF ToSet
  <2>6. ASSUME NEW x \in DOMAIN paginas
        PROVE  {paginas[x].numero, paginas[x].entrada} \subseteq Numero
    BY EntradasEnArchivo DEF DInv, PaginasTipo
  <2>7. TipoEstado
    <3>1. TipoHilos  BY DEF IInv, Tipos
    <3>. QED  BY <3>1 DEF TipoHilos, TipoEstado
  <2>. QED  BY <2>1, <2>2, <2>3, <2>4, <2>5, <2>6, <2>7 DEF TypeOK, TipoEstado
<1>. QED  BY <1>1, InvarianteDeDatos, PTL

-----------------------------------------------------------------------------
(* The TLB, and the frames of the process in the CPU.                       *)

\* The pages in memory of a process that has not ended.
Usadas(p) == {n \in EntradasDe(p) : Presente(n) /\ estado[p] # "exit"}

\* No process but the last one in the CPU has a page in frame f.
Propio(f) ==
    \A p \in Iniciados : \A n \in Usadas(p) : MarcoDe(n) = f => p = idAnteriorPCB

TlbInv ==
    /\ \A p \in Proceso : Ejecuta(p) => p = idAnteriorPCB
    /\ carrera \/
          /\ \A e \in tlb : Propio(e.marco)
          /\ cpu.pc = "memcpy" => Propio(cpu.marco)
          /\ cpu.pc \in {"traer", "responder"} => Propio(MarcoDe(cpu.numero))

\* A page of a process that has not ended holds its frame.
LEMMA UsadaOcupa ==
    ASSUME IInv, NEW p \in Iniciados, NEW n \in Usadas(p)
    PROVE  n \in Ocupadas
<1>1. n \in EntradasDe(p) /\ Presente(n) /\ estado[p] # "exit"  BY DEF Usadas
<1>2. ~ Devuelta(p, n)
  BY <1>1, ProcesoQueTermina DEF Devuelta, Finalizado, Borrando
<1>3. n \in 0 .. Len(tabla_2_l) - 1  BY <1>1, EntradasTipo
<1>. QED  BY <1>1, <1>2, <1>3 DEF Ocupadas, Ocupa

\* A frame that is that of a page in memory of the process in the CPU is its own.
LEMMA MarcoPropio ==
    ASSUME IInv, MarcosInv, NEW p \in Iniciados, NEW n \in Usadas(p), p = idAnteriorPCB
    PROVE  Propio(MarcoDe(n))
<1>1. SUFFICES ASSUME NEW q \in Iniciados, NEW m \in Usadas(q), MarcoDe(m) = MarcoDe(n)
      PROVE  q = p
  BY DEF Propio
<1>2. n \in Ocupadas /\ m \in Ocupadas  BY UsadaOcupa
<1>3. n = m  BY <1>1, <1>2 DEF MarcosInv
<1>. QED  BY <1>3, EntradasPropias DEF Usadas

\* The process in the CPU gets a page in frame cpu.marco, and nothing else moves.
LlegaPagina ==
    /\ cpu.pc \in {"tomar", "entrada2"} /\ cpu'.pc = "traer"
    /\ cpu.pid \in Iniciados /\ estado[cpu.pid] = "exec" /\ cpu'.pid = cpu.pid
    /\ UNCHANGED <<estado, tlb, idAnteriorPCB>> /\ Iniciados' = Iniciados
    /\ \A q : EntradasDe(q)' = EntradasDe(q)
    /\ \E u \in EntradasDe(cpu.pid) :
          /\ cpu'.numero = u /\ MarcoDe(u)' = cpu'.marco
          /\ \A n \in 0 .. Len(tabla_2_l) - 1 : n # u =>
                MarcoDe(n)' = MarcoDe(n) /\ (Presente(n)' => Presente(n))
    /\ MarcosInv /\ ~ carrera' =>
          \A q \in Iniciados : \A n \in Usadas(q)' : MarcoDe(n)' = cpu'.marco => q = cpu.pid

\* No page comes to memory.
NoLlega ==
    /\ Iniciados \subseteq Iniciados'
    /\ \A q \in Iniciados' : \A n \in Usadas(q)' : q \in Iniciados /\ n \in Usadas(q)
    /\ \A n \in 0 .. Len(tabla_2_l) - 1 : MarcoDe(n)' = MarcoDe(n)

LEMMA LlegaAlTomar ==
    ASSUME IInv, TomarFrame
    PROVE  LlegaPagina
<1>. USE DEF enCpu
<1>1. PICK p \in Iniciados : p = cpu.pid  BY TrasTomar
<1>2. PICK u \in EntradasDe(p) : u = cpu.numero  BY <1>1, TrasTomar
<1>3. /\ estado[p] = "exec" /\ cpu.pc = "tomar" /\ ~ Presente(u) /\ u \in 0 .. Len(tabla_2_l) - 1
      /\ cpu' = [cpu EXCEPT !.pc = "traer", !.byte = {}, !.nueva = Len(paginas) + 1]
      /\ tabla_2_l'[u + 1].frame = cpu.marco
      /\ \A n \in 0 .. Len(tabla_2_l) - 1 : n # u => tabla_2_l'[n + 1] = tabla_2_l[n + 1]
      /\ Iniciados' = Iniciados /\ \A q : EntradasDe(q)' = EntradasDe(q)
      /\ UNCHANGED <<enCpu, estado>>
  BY <1>1, <1>2, TrasTomar
<1>4. /\ cpu'.pc = "traer" /\ cpu'.pid = p /\ cpu'.numero = u /\ cpu'.marco = cpu.marco
  BY <1>1, <1>2, <1>3 DEF IInv, Tipos, TipoHilos, TipoCpu
<1>5. \A n \in 0 .. Len(tabla_2_l) - 1 : n # u =>
          MarcoDe(n)' = MarcoDe(n) /\ (Presente(n)' <=> Presente(n))
  BY <1>3 DEF MarcoDe, Presente
<1>6. ASSUME MarcosInv, NEW q \in Iniciados, NEW n \in Usadas(q)', MarcoDe(n)' = cpu.marco
      PROVE  q = p
  <2>1. n \in EntradasDe(q) /\ Presente(n)' /\ estado[q] # "exit"
    BY <1>3 DEF Usadas
  <2>2. CASE n = u  BY <2>1, <2>2, EntradasPropias
  <2>3. CASE n # u
    <3>1. n \in 0 .. Len(tabla_2_l) - 1  BY <2>1, EntradasTipo
    <3>2. n \in Usadas(q)  BY <1>5, <2>1, <2>3, <3>1 DEF Usadas
    <3>3. n \in Ocupadas  BY <3>2, UsadaOcupa
    <3>4. MarcoDe(n) \in bitMem /\ cpu.marco \notin bitMem  BY <1>3, <1>6, <3>3 DEF MarcosInv
    <3>. QED  BY <1>5, <1>6, <2>3, <3>1, <3>4
  <2>. QED  BY <2>2, <2>3
<1>7. \A q \in Iniciados : \A n \in Usadas(q)' :
         MarcosInv /\ MarcoDe(n)' = cpu'.marco => q = p
  BY <1>4, <1>6
<1>8. MarcoDe(u)' = cpu'.marco  BY <1>3, <1>4 DEF MarcoDe
<1>10. UNCHANGED <<estado, tlb, idAnteriorPCB>>  BY <1>3
<1>. QED  BY <1>1, <1>3, <1>4, <1>5, <1>7, <1>8, <1>10 DEF LlegaPagina

LEMMA LlegaAlReemplazar ==
    ASSUME IInv, Reemplazar
    PROVE  LlegaPagina
<1>. USE DEF enCpu
<1>1. PICK p \in Iniciados : \E j0 \in Posiciones(p) :
         \E u \in EntradasDe(p), v \in EntradasDe(p) : Reemplaza(p, j0, u, v)
  BY TrasReemplazar
<1>2. PICK j0 \in Posiciones(p), u \in EntradasDe(p), v \in EntradasDe(p) :
         Reemplaza(p, j0, u, v)
  BY ONLY <1>1
<1>3. /\ p = cpu.pid /\ estado[p] = "exec" /\ cpu.pc = "entrada2" /\ ~ Presente(u)
      /\ v = EntradaDePag(p, j0)
      /\ cpu' = [cpu EXCEPT !.pc = "traer", !.numero = u, !.marco = MarcoDe(v),
                            !.nueva = NADIE]
      /\ tabla_2_l'[u + 1].frame = tabla_2_l[v + 1].frame
      /\ tabla_2_l'[v + 1].bPres = 0 /\ Len(tabla_2_l') = Len(tabla_2_l)
      /\ \A n \in 0 .. Len(tabla_2_l) - 1 : n # u =>
          /\ tabla_2_l'[n + 1].frame = tabla_2_l[n + 1].frame
          /\ n # v => tabla_2_l'[n + 1].bPres = tabla_2_l[n + 1].bPres
      /\ UNCHANGED <<enCpu, estado, tabla_1_l>>
      /\ \E c \in Nat, d \in Nat :
            procesos' = [procesos EXCEPT ![p + 1].contador = c, ![p + 1].puntero = d]
  BY <1>2 DEF Reemplaza
<1>4. Len(procesos') = Len(procesos)
  <2>1. PICK c \in Nat, d \in Nat :
           procesos' = [procesos EXCEPT ![p + 1].contador = c, ![p + 1].puntero = d]
    BY <1>3
  <2>2. p \in Iniciados  OBVIOUS
  <2>. QED  BY <2>1, <2>2, RelojMovido DEF IInv, Tipos, LlegadaInv
<1>5. Iniciados' = Iniciados /\ \A q : EntradasDe(q)' = EntradasDe(q)
  BY <1>3, <1>4 DEF Iniciados, EntradasDe, TablasDe
<1>6. /\ cpu'.pc = "traer" /\ cpu'.pid = p /\ cpu'.numero = u /\ cpu'.marco = MarcoDe(v)
  BY <1>3 DEF IInv, Tipos, TipoHilos, TipoCpu
<1>7. \A n \in 0 .. Len(tabla_2_l) - 1 : n # u => MarcoDe(n)' = MarcoDe(n)
  BY <1>3 DEF MarcoDe
<1>8. Presente(v) /\ v # u  BY <1>3, PaginaListada
<1>9. v \in 0 .. Len(tabla_2_l) - 1 /\ u \in 0 .. Len(tabla_2_l) - 1  BY EntradasTipo
<1>10. ~ Presente(v)'  BY <1>3 DEF Presente
<1>11. \A n \in 0 .. Len(tabla_2_l) - 1 : n # u => (Presente(n)' => Presente(n))
  <2>1. \A n \in 0 .. Len(tabla_2_l) - 1 : n # u /\ n # v => (Presente(n)' <=> Presente(n))
    BY <1>3 DEF Presente
  <2>. QED  BY <1>10, <2>1
<1>12. ASSUME MarcosInv, NEW q \in Iniciados, NEW n \in Usadas(q)', MarcoDe(n)' = MarcoDe(v)
       PROVE  q = p
  <2>1. n \in EntradasDe(q) /\ Presente(n)' /\ estado[q] # "exit"
    BY <1>3, <1>5 DEF Usadas
  <2>2. CASE n = u  BY <2>1, <2>2, EntradasPropias
  <2>3. CASE n # u
    <3>1. n \in 0 .. Len(tabla_2_l) - 1  BY <2>1, EntradasTipo
    <3>2. n \in Usadas(q)  BY <1>11, <2>1, <2>3, <3>1 DEF Usadas
    <3>3. v \in Usadas(p)  BY <1>3, <1>8 DEF Usadas
    <3>4. n \in Ocupadas /\ v \in Ocupadas  BY <3>2, <3>3, UsadaOcupa
    <3>5. n = v  BY <1>7, <1>12, <2>3, <3>1, <3>4 DEF MarcosInv
    <3>. QED  BY <1>10, <2>1, <3>5
  <2>. QED  BY <2>2, <2>3
<1>13. MarcoDe(u)' = MarcoDe(v)  BY <1>3 DEF MarcoDe
<1>14. MarcoDe(u)' = cpu'.marco  BY <1>6, <1>13
<1>15. \A q \in Iniciados : \A n \in Usadas(q)' :
          MarcosInv /\ MarcoDe(n)' = cpu'.marco => q = p
  BY <1>6, <1>12
<1>16. UNCHANGED <<estado, tlb, idAnteriorPCB>>  BY <1>3
<1>. QED
  BY <1>3, <1>5, <1>6, <1>7, <1>11, <1>14, <1>15, <1>16 DEF LlegaPagina

\* Every other step brings no page to memory.
LEMMA SinLlegada ==
    ASSUME IInv, [Next]_vars, ~ TomarFrame, ~ Reemplazar
    PROVE  NoLlega
<1>1. \A p \in Iniciados : estado[p] = "exit" => estado'[p] = "exit"
  <2>1. CASE estado' = estado  BY <2>1
  <2>2. CASE Crear_archivo_swap
    <3>1. kernel.pc = "crear_archivo" /\ estado' = [estado EXCEPT ![kernel.pid] = "ready"]
      BY <2>2 DEF Crear_archivo_swap
    <3>2. estado[kernel.pid] = "ini"  BY <3>1 DEF IInv, LlegadaInv
    <3>. QED  BY <3>1, <3>2
  <2>3. CASE PedirInicializar
    <3>1. PICK q : estado[q] = "new" /\ estado' = [estado EXCEPT ![q] = "ini"]
      BY <2>3 DEF PedirInicializar
    <3>. QED  BY <3>1
  <2>4. ASSUME NEW q \in Proceso,
               Despachar(q) \/ Bloquear(q) \/ Suspender(q) \/ Desbloquear(q) \/ Terminar(q)
        PROVE  \A p \in Iniciados : estado[p] = "exit" => estado'[p] = "exit"
    <3>1. estado[q] # "exit" /\ \E e : estado' = [estado EXCEPT ![q] = e]
      BY <2>4 DEF Despachar, Bloquear, Suspender, Desbloquear, Terminar, Ejecuta
    <3>. QED  BY <3>1
  <2>5. CASE KernelYCpu
    <3>1. ASSUME NEW p \in Proceso, NEW n \in Pagina, NEW op \in INSTRUCCIONES, Acceso(p, n, op)
          PROVE  estado' = estado
      BY <3>1 DEF Acceso, ambiente
    <3>. QED  BY <2>1, <2>3, <2>4, <2>5, <3>1 DEF KernelYCpu
  <2>6. CASE UNCHANGED vars  BY <2>1, <2>6 DEF vars
  <2>7. CASE Funciones_kernel
    BY <2>1, <2>2, <2>7 DEF Funciones_kernel, Inicializar_proceso, Suspender_proceso,
                LiberarPagina, LimpiarBit, FinSuspender, Finalizar_proceso, BorrarFrame,
                Eliminar_archivo_swap, MuereKernel, Morir, ambiente
  <2>8. CASE Funciones_cpu
    BY <2>1, <2>8 DEF Funciones_cpu, Entrada1, EntradaPresente, BuscarFrameLibre, TomarFrame,
                Reemplazar, ReemplazarSinPaginas, Traer_a_memoria, ResponderMarco, Lectura,
                Escritura, Marcar, Morir, ambiente
  <2>9. CASE Swap_
    BY <2>1, <2>9 DEF Swap_, TomarPedido, QuitarPedido, CopiarPedido, CopiarSinArchivo, Morir,
                ambiente
  <2>. QED  BY <2>5, <2>6, <2>7, <2>8, <2>9 DEF Next, Viva
<1>2. ASSUME Iniciados' = Iniciados, \A q : EntradasDe(q)' = EntradasDe(q),
             \A n \in 0 .. Len(tabla_2_l) - 1 :
                 MarcoDe(n)' = MarcoDe(n) /\ (Presente(n)' => Presente(n))
      PROVE  NoLlega
  <2>1. ASSUME NEW q \in Iniciados, NEW n \in Usadas(q)'
        PROVE  n \in Usadas(q)
    <3>1. n \in EntradasDe(q) /\ Presente(n)' /\ estado'[q] # "exit"  BY <1>2 DEF Usadas
    <3>2. n \in 0 .. Len(tabla_2_l) - 1  BY <3>1, EntradasTipo
    <3>. QED  BY <1>1, <1>2, <3>1, <3>2 DEF Usadas
  <2>. QED  BY <1>2, <2>1 DEF NoLlega
<1>3. CASE UNCHANGED datos  BY <1>2, <1>3, DatosQuietos
<1>4. CASE Inicializar_proceso
  <2>1. PICK p \in Proceso :
           /\ Iniciados' = Iniciados \union {p} /\ p \notin Iniciados
           /\ \A q \in Iniciados : EntradasDe(q)' = EntradasDe(q)
           /\ \A n \in EntradasDe(p)' : ~ Presente(n)'
           /\ \A n \in 0 .. Len(tabla_2_l) - 1 : tabla_2_l'[n + 1] = tabla_2_l[n + 1]
    BY <1>4, TrasCrear
  <2>2. \A n \in 0 .. Len(tabla_2_l) - 1 :
           MarcoDe(n)' = MarcoDe(n) /\ (Presente(n)' <=> Presente(n))
    BY <2>1 DEF MarcoDe, Presente
  <2>3. ASSUME NEW q \in Iniciados', NEW n \in Usadas(q)'
        PROVE  q \in Iniciados /\ n \in Usadas(q)
    <3>1. n \in EntradasDe(q)' /\ Presente(n)' /\ estado'[q] # "exit"  BY DEF Usadas
    <3>2. q \in Iniciados  BY <2>1, <3>1
    <3>3. n \in EntradasDe(q) /\ n \in 0 .. Len(tabla_2_l) - 1
      BY <2>1, <3>1, <3>2, EntradasTipo
    <3>. QED  BY <1>1, <2>2, <3>1, <3>2, <3>3 DEF Usadas
  <2>. QED  BY <2>1, <2>2, <2>3 DEF NoLlega
<1>5. CASE LiberarPagina
  <2>1. \E n0 \in 0 .. Len(tabla_2_l) - 1 :
           /\ \A n \in 0 .. Len(tabla_2_l) - 1 :
                 /\ (Presente(n)' <=> Presente(n) /\ n # n0)
                 /\ MarcoDe(n)' = MarcoDe(n)
           /\ \A q : EntradasDe(q)' = EntradasDe(q)
           /\ Iniciados' = Iniciados
    BY <1>5, TrasLiberar
  <2>. QED  BY <1>2, <2>1
<1>6. CASE Traer_a_memoria
  <2>1. CASE UNCHANGED datos  BY <1>3, <2>1
  <2>2. CASE Iniciados' = Iniciados /\ UNCHANGED <<tabla_1_l, tabla_2_l>>
    BY <1>2, <2>2 DEF EntradasDe, TablasDe, MarcoDe, Presente
  <2>. QED  BY <1>6, <2>1, <2>2, TrasTraer
<1>7. CASE Marcar
  <2>1. /\ \A n : MarcoDe(n)' = MarcoDe(n) /\ (Presente(n)' <=> Presente(n))
        /\ Iniciados' = Iniciados /\ \A q : EntradasDe(q)' = EntradasDe(q)
    BY <1>7, TrasMarcar
  <2>. QED  BY <1>2, <2>1
<1>. QED  BY <1>3, <1>4, <1>5, <1>6, <1>7, DatosDelPaso

\* A frame that no other process has stays so while no other is dispatched.
LEMMA PropioQueda ==
    ASSUME IInv, NEW f, Propio(f), idAnteriorPCB' = idAnteriorPCB,
           NoLlega \/ (LlegaPagina /\ cpu.pid = idAnteriorPCB)
    PROVE  Propio(f)'
<1>1. SUFFICES ASSUME NEW q \in Iniciados', NEW n \in Usadas(q)', MarcoDe(n)' = f
      PROVE  q = idAnteriorPCB
  BY DEF Propio
<1>2. CASE NoLlega
  <2>1. q \in Iniciados /\ n \in Usadas(q)  BY <1>2 DEF NoLlega
  <2>2. n \in 0 .. Len(tabla_2_l) - 1  BY <2>1, EntradasTipo DEF Usadas
  <2>3. MarcoDe(n)' = MarcoDe(n)  BY <1>2, <2>2 DEF NoLlega
  <2>. QED  BY <1>1, <2>1, <2>3 DEF Propio
<1>3. CASE LlegaPagina /\ cpu.pid = idAnteriorPCB
  <2>1. PICK u \in EntradasDe(cpu.pid) :
           \A m \in 0 .. Len(tabla_2_l) - 1 : m # u =>
                MarcoDe(m)' = MarcoDe(m) /\ (Presente(m)' => Presente(m))
    BY <1>3 DEF LlegaPagina
  <2>2. /\ q \in Iniciados /\ n \in EntradasDe(q) /\ Presente(n)' /\ estado[q] # "exit"
        /\ cpu.pid \in Iniciados
    BY <1>3 DEF LlegaPagina, Usadas
  <2>3. CASE n = u  BY <1>3, <2>2, <2>3, EntradasPropias
  <2>4. CASE n # u
    <3>1. n \in 0 .. Len(tabla_2_l) - 1  BY <2>2, EntradasTipo
    <3>2. n \in Usadas(q) /\ MarcoDe(n) = f  BY <1>1, <2>1, <2>2, <2>4, <3>1 DEF Usadas
    <3>. QED  BY <2>2, <3>2 DEF Propio
  <2>. QED  BY <2>3, <2>4
<1>. QED  BY <1>2, <1>3

LEMMA CarreraQueda ==
    ASSUME [Next]_vars, IInv
    PROVE  carrera => carrera'
<1>. USE DEF historia
<1>1. CASE UNCHANGED vars  BY <1>1 DEF vars
<1>2. CASE KernelYCpu
  BY <1>2 DEF KernelYCpu, PedirInicializar, Despachar, Bloquear, Desbloquear, Suspender,
              Terminar, Acceso
<1>3. CASE Funciones_kernel
  BY <1>3 DEF Funciones_kernel, Inicializar_proceso, Crear_archivo_swap, Suspender_proceso,
              LiberarPagina, LimpiarBit, FinSuspender, Finalizar_proceso, BorrarFrame,
              Eliminar_archivo_swap, MuereKernel, Morir
<1>4. CASE Funciones_cpu
  BY <1>4 DEF Funciones_cpu, Entrada1, EntradaPresente, BuscarFrameLibre, TomarFrame,
              Reemplazar, ReemplazarSinPaginas, Traer_a_memoria, ResponderMarco, Lectura,
              Escritura, Marcar, Morir
<1>5. CASE Swap_
  BY <1>5 DEF Swap_, TomarPedido, QuitarPedido, CopiarPedido, CopiarSinArchivo, Morir
<1>. QED  BY <1>1, <1>2, <1>3, <1>4, <1>5 DEF Next, Viva

\* A step that brings no page and leaves the CPU where it was.
LEMMA TlbQuieta ==
    ASSUME IInv, DInv, TlbInv, NoLlega, carrera => carrera',
           UNCHANGED <<cpu, idAnteriorPCB>>, tlb' \subseteq tlb,
           \A p \in Proceso : Ejecuta(p)' => Ejecuta(p)
    PROVE  TlbInv'
<1>1. \A p \in Proceso : Ejecuta(p)' => p = idAnteriorPCB'  BY DEF TlbInv
<1>2. ASSUME ~ carrera'
      PROVE  /\ \A e \in tlb' : Propio(e.marco)'
             /\ cpu.pc = "memcpy" => Propio(cpu.marco)'
             /\ cpu.pc \in {"traer", "responder"} => Propio(MarcoDe(cpu.numero))'
  <2>0. ~ carrera  BY <1>2
  <2>1. ASSUME NEW e \in tlb' PROVE Propio(e.marco)'
    <3>1. PICK f : f = e.marco  OBVIOUS
    <3>2. Propio(f)  BY <2>0, <3>1 DEF TlbInv
    <3>3. Propio(f)'  BY <3>2, PropioQueda
    <3>. QED  BY <3>1, <3>3 DEF Propio
  <2>2. ASSUME cpu.pc = "memcpy" PROVE Propio(cpu.marco)'
    <3>1. PICK f : f = cpu.marco  OBVIOUS
    <3>2. Propio(f)  BY <2>0, <2>2, <3>1 DEF TlbInv
    <3>3. Propio(f)'  BY <3>2, PropioQueda
    <3>. QED  BY <3>1, <3>3 DEF Propio
  <2>3. ASSUME cpu.pc \in {"traer", "responder"} PROVE Propio(MarcoDe(cpu.numero))'
    <3>1. PICK f : f = MarcoDe(cpu.numero)  OBVIOUS
    <3>2. Propio(f)  BY <2>0, <2>3, <3>1 DEF TlbInv
    <3>3. Propio(f)'  BY <3>2, PropioQueda
    <3>4. PICK n \in 0 .. Len(tabla_2_l) - 1 : n = cpu.numero  BY <2>3 DEF DInv, AccesoTipo
    <3>5. MarcoDe(n)' = f  BY <3>1, <3>4 DEF NoLlega
    <3>6. MarcoDe(cpu.numero)' = f  BY <3>4, <3>5 DEF MarcoDe
    <3>. QED  BY <3>3, <3>6 DEF Propio
  <2>. QED  BY <2>1, <2>2, <2>3
<1>. QED  BY <1>1, <1>2 DEF TlbInv

\* A step of the process in the CPU: what it works with, and what the TLB holds.
LEMMA TlbDelAcceso ==
    ASSUME IInv, DInv, TlbInv, NoLlega, carrera => carrera',
           UNCHANGED <<estado, idAnteriorPCB>>,
           NEW f, ~ carrera => Propio(f),
           \A e \in tlb' : e.marco = f \/ \E d \in tlb : e.marco = d.marco,
           cpu'.pc = "memcpy" => cpu'.marco = f,
           cpu'.pc \in {"traer", "responder"} =>
               cpu'.numero \in 0 .. Len(tabla_2_l) - 1 /\ MarcoDe(cpu'.numero) = f
    PROVE  TlbInv'
<1>1. \A p \in Proceso : Ejecuta(p)' => p = idAnteriorPCB'  BY DEF TlbInv, Ejecuta
<1>2. ASSUME ~ carrera'
      PROVE  /\ \A e \in tlb' : Propio(e.marco)'
             /\ cpu'.pc = "memcpy" => Propio(cpu.marco)'
             /\ cpu'.pc \in {"traer", "responder"} => Propio(MarcoDe(cpu.numero))'
  <2>0. ~ carrera /\ Propio(f)  BY <1>2
  <2>1. Propio(f)'  BY <2>0, PropioQueda
  <2>2. ASSUME NEW e \in tlb' PROVE Propio(e.marco)'
    <3>1. PICK g : g = e.marco  OBVIOUS
    <3>2. Propio(g)  BY <2>0, <3>1 DEF TlbInv
    <3>3. Propio(g)'  BY <3>2, PropioQueda
    <3>. QED  BY <3>1, <3>3 DEF Propio
  <2>3. ASSUME cpu'.pc = "memcpy" PROVE Propio(cpu.marco)'
    <3>1. cpu'.marco = f  BY <2>3
    <3>. QED  BY <2>1, <3>1 DEF Propio
  <2>4. ASSUME cpu'.pc \in {"traer", "responder"} PROVE Propio(MarcoDe(cpu.numero))'
    <3>1. PICK n \in 0 .. Len(tabla_2_l) - 1 : n = cpu'.numero /\ MarcoDe(n) = f  BY <2>4
    <3>2. MarcoDe(n)' = f  BY <3>1 DEF NoLlega
    <3>3. MarcoDe(cpu.numero)' = f  BY <3>1, <3>2 DEF MarcoDe
    <3>. QED  BY <2>1, <3>3 DEF Propio
  <2>. QED  BY <2>2, <2>3, <2>4
<1>. QED  BY <1>1, <1>2 DEF TlbInv

\* A step of the CPU that is not at a frame any more.
LEMMA TlbSinAcceso ==
    ASSUME IInv, DInv, TlbInv, NoLlega, carrera => carrera',
           UNCHANGED <<estado, idAnteriorPCB, tlb>>,
           cpu'.pc \notin {"memcpy", "traer", "responder"}
    PROVE  TlbInv'
<1>1. \A p \in Proceso : Ejecuta(p)' => p = idAnteriorPCB'  BY DEF TlbInv, Ejecuta
<1>2. ASSUME ~ carrera', NEW e \in tlb' PROVE Propio(e.marco)'
  <2>1. PICK g : g = e.marco  OBVIOUS
  <2>2. Propio(g)  BY <1>2, <2>1 DEF TlbInv
  <2>3. Propio(g)'  BY <2>2, PropioQueda
  <2>. QED  BY <2>1, <2>3 DEF Propio
<1>. QED  BY <1>1, <1>2 DEF TlbInv

\* A page comes to memory: its frame was free, or of another page of the process.
LEMMA TlbAlLlegar ==
    ASSUME IInv, TlbInv, LlegaPagina, carrera => carrera'
    PROVE  TlbInv'
<1>0. PICK u \in EntradasDe(cpu.pid) :
         /\ cpu'.numero = u /\ MarcoDe(u)' = cpu'.marco
         /\ \A n \in 0 .. Len(tabla_2_l) - 1 : n # u =>
               MarcoDe(n)' = MarcoDe(n) /\ (Presente(n)' => Presente(n))
  BY DEF LlegaPagina
<1>1. /\ UNCHANGED <<estado, tlb, idAnteriorPCB>> /\ cpu'.pc = "traer"
      /\ cpu.pid \in Iniciados /\ estado[cpu.pid] = "exec" /\ Iniciados' = Iniciados
  BY DEF LlegaPagina
<1>2. \A p \in Proceso : Ejecuta(p)' => p = idAnteriorPCB'  BY <1>1 DEF TlbInv, Ejecuta
<1>3. cpu.pid = idAnteriorPCB
  <2>1. cpu.pid \in Proceso  BY <1>1, IniciadosProceso
  <2>. QED  BY <1>1, <2>1 DEF TlbInv, Ejecuta
<1>4. ASSUME ~ carrera'
      PROVE  /\ \A e \in tlb' : Propio(e.marco)'
             /\ Propio(MarcoDe(cpu.numero))'
  <2>0. ~ carrera  BY <1>4
  <2>1. ASSUME NEW e \in tlb' PROVE Propio(e.marco)'
    <3>1. PICK g : g = e.marco  OBVIOUS
    <3>2. Propio(g)  BY <1>1, <2>0, <3>1 DEF TlbInv
    <3>3. Propio(g)'  BY <1>1, <1>3, <3>2, PropioQueda
    <3>. QED  BY <3>1, <3>3 DEF Propio
  <2>2. MarcosInv  BY <2>0 DEF IInv
  <2>3. PICK f : f = cpu'.marco  OBVIOUS
  <2>4. \A q \in Iniciados : \A n \in Usadas(q)' : MarcoDe(n)' = f => q = cpu.pid
    BY <1>4, <2>2, <2>3 DEF LlegaPagina
  <2>5. Propio(f)'  BY <1>1, <1>3, <2>4 DEF Propio
  <2>6. MarcoDe(cpu.numero)' = f  BY <1>0, <2>3 DEF MarcoDe
  <2>7. Propio(MarcoDe(cpu.numero))'  BY <2>5, <2>6 DEF Propio
  <2>. QED  BY <2>1, <2>7
<1>. QED  BY <1>1, <1>2, <1>4 DEF TlbInv

LEMMA TlbPaso ==
    ASSUME IInv, DInv, TlbInv, [Next]_vars
    PROVE  TlbInv'
<1>. USE DEF enCpu, ambiente
<1>0. (carrera => carrera') /\ TipoCpu  BY CarreraQueda DEF IInv, Tipos, TipoHilos
<1>1. CASE TomarFrame \/ Reemplazar
  BY <1>0, <1>1, LlegaAlTomar, LlegaAlReemplazar, TlbAlLlegar
<1>2. CASE ~ TomarFrame /\ ~ Reemplazar
  <2>0. NoLlega  BY <1>2, SinLlegada
  <2>1. CASE UNCHANGED vars  BY <1>0, <2>0, <2>1, TlbQuieta DEF vars, Ejecuta
  <2>2. CASE PedirInicializar
    <3>1. PICK q : estado' = [estado EXCEPT ![q] = "ini"]  BY <2>2 DEF PedirInicializar
    <3>2. \A p \in Proceso : Ejecuta(p)' => Ejecuta(p)
      BY <3>1 DEF Ejecuta, IInv, Tipos, TipoHilos
    <3>. QED  BY <1>0, <2>0, <2>2, <3>2, TlbQuieta DEF PedirInicializar
  <2>3. ASSUME NEW q \in Proceso, Bloquear(q) \/ Suspender(q) \/ Desbloquear(q) \/ Terminar(q)
        PROVE  TlbInv'
    <3>1. PICK x : x # "exec" /\ estado' = [estado EXCEPT ![q] = x]
      BY <2>3 DEF Bloquear, Suspender, Desbloquear, Terminar
    <3>2. \A p \in Proceso : Ejecuta(p)' => Ejecuta(p)
      BY <3>1 DEF Ejecuta, IInv, Tipos, TipoHilos
    <3>3. UNCHANGED <<cpu, idAnteriorPCB>> /\ tlb' = tlb
      BY <2>3 DEF Bloquear, Suspender, Desbloquear, Terminar
    <3>. QED  BY <1>0, <2>0, <3>2, <3>3, TlbQuieta
  <2>4. ASSUME NEW q \in Proceso, Despachar(q)
        PROVE  TlbInv'
    <3>1. /\ ~ \E p \in Proceso : Ejecuta(p)
          /\ estado' = [estado EXCEPT ![q] = "exec"] /\ tlb' = TlbPara(q)
          /\ idAnteriorPCB' = q /\ UNCHANGED cpu
      BY <2>4 DEF Despachar
    <3>2. \A p \in Proceso : Ejecuta(p)' => p = q
      BY <3>1 DEF Ejecuta, IInv, Tipos, TipoHilos
    <3>3. cpu.pc \in {"libre", "marca"}  BY <3>1 DEF IInv, CpuInv
    <3>4. ASSUME ~ carrera', NEW e \in tlb' PROVE Propio(e.marco)'
      <4>1. q = idAnteriorPCB /\ e \in tlb  BY <3>1, <3>4 DEF TlbPara
      <4>2. PICK f : f = e.marco  OBVIOUS
      <4>3. Propio(f)  BY <1>0, <3>4, <4>1, <4>2 DEF TlbInv
      <4>4. Propio(f)'  BY <2>0, <3>1, <4>1, <4>3, PropioQueda
      <4>. QED  BY <4>2, <4>4 DEF Propio
    <3>. QED  BY <3>1, <3>2, <3>3, <3>4 DEF TlbInv
  <2>5. ASSUME NEW p \in Proceso, NEW n \in Pagina, NEW op \in INSTRUCCIONES, Acceso(p, n, op)
        PROVE  TlbInv'
    <3>1. UNCHANGED <<estado, idAnteriorPCB>> /\ accesos' = accesos + 1
      BY <2>5 DEF Acceso
    <3>2. CASE \E e \in Coincide(tlb, n) :
                 /\ tlb' = Referenciada(tlb, e, accesos')
                 /\ cpu' = [[cpu EXCEPT !.pid = p, !.pag = n, !.op = op, !.valor = accesos']
                              EXCEPT !.pc = "memcpy", !.marco = e.marco]
      <4>1. PICK e \in Coincide(tlb, n) :
                 /\ tlb' = Referenciada(tlb, e, accesos')
                 /\ cpu' = [[cpu EXCEPT !.pid = p, !.pag = n, !.op = op, !.valor = accesos']
                              EXCEPT !.pc = "memcpy", !.marco = e.marco]
        BY <3>2
      <4>2. e \in EntradaTLB /\ e \in tlb  BY DEF Coincide, DInv, AccesoTipo
      <4>3. [e EXCEPT !.ultima_referencia = accesos'].marco = e.marco
        BY <4>2 DEF EntradaTLB
      <4>4. cpu'.pc = "memcpy" /\ cpu'.marco = e.marco  BY <1>0, <4>1 DEF TipoCpu
      <4>5. PICK f : f = e.marco  OBVIOUS
      <4>6. ~ carrera => Propio(f)  BY <4>2, <4>5 DEF TlbInv
      <4>7. \A d \in tlb' : d.marco = f \/ \E c \in tlb : d.marco = c.marco
        BY <4>1, <4>3, <4>5 DEF Referenciada
      <4>8. (cpu'.pc = "memcpy" => cpu'.marco = f) /\ cpu'.pc \notin {"traer", "responder"}
        BY <4>4, <4>5
      <4>. QED  BY <1>0, <2>0, <3>1, <4>6, <4>7, <4>8, TlbDelAcceso
    <3>3. CASE /\ cpu' = [[cpu EXCEPT !.pid = p, !.pag = n, !.op = op, !.valor = accesos']
                              EXCEPT !.pc = "entrada1"]
               /\ UNCHANGED tlb
      <4>1. cpu'.pc = "entrada1"  BY <1>0, <3>3 DEF TipoCpu
      <4>. QED  BY <1>0, <2>0, <3>1, <3>3, <4>1, TlbSinAcceso
    <3>. QED  BY <2>5, <3>2, <3>3 DEF Acceso
  <2>6. CASE Funciones_kernel
    <3>1. UNCHANGED <<cpu, idAnteriorPCB>> /\ tlb' = tlb
      BY <2>6 DEF Funciones_kernel, Inicializar_proceso, Crear_archivo_swap, LiberarPagina,
                Suspender_proceso, LimpiarBit, FinSuspender, Finalizar_proceso,
                BorrarFrame, Eliminar_archivo_swap, MuereKernel, Morir
    <3>2. estado' = estado \/ \E q : estado' = [estado EXCEPT ![q] = "ready"]
      BY <2>6 DEF Funciones_kernel, Inicializar_proceso, Crear_archivo_swap, LiberarPagina,
                Suspender_proceso, LimpiarBit, FinSuspender, Finalizar_proceso,
                BorrarFrame, Eliminar_archivo_swap, MuereKernel, Morir
    <3>3. \A p \in Proceso : Ejecuta(p)' => Ejecuta(p)
      BY <3>2 DEF Ejecuta, IInv, Tipos, TipoHilos
    <3>. QED  BY <1>0, <2>0, <3>1, <3>3, TlbQuieta
  <2>7. CASE Swap_
    <3>1. UNCHANGED <<cpu, idAnteriorPCB, estado>> /\ tlb' = tlb
      BY <2>7 DEF Swap_, TomarPedido, QuitarPedido, CopiarPedido, CopiarSinArchivo, Morir
    <3>. QED  BY <1>0, <2>0, <3>1, TlbQuieta DEF Ejecuta
  <2>8. ASSUME UNCHANGED <<cpu, estado, idAnteriorPCB, tlb>> PROVE TlbInv'
    BY <1>0, <2>0, <2>8, TlbQuieta DEF Ejecuta
  <2>9. CASE Entrada1
    <3>1. CASE cpu' # cpu
      <4>1. cpu'.pc = "entrada2" /\ UNCHANGED <<estado, idAnteriorPCB, tlb>>
        BY <1>0, <2>9, <3>1 DEF Entrada1, Morir, TipoCpu
      <4>. QED  BY <1>0, <2>0, <4>1, TlbSinAcceso
    <3>. QED  BY <2>8, <2>9, <3>1 DEF Entrada1, Morir
  <2>10. CASE EntradaPresente
    <3>1. /\ cpu'.pc = "responder" /\ cpu'.numero = NumeroPedido /\ cpu.pc = "entrada2"
          /\ UNCHANGED <<estado, idAnteriorPCB, tlb>> /\ Presente(NumeroPedido)
      BY <1>0, <2>10 DEF EntradaPresente, TipoCpu, Presente, Get
    <3>2. PICK p \in Iniciados : p = cpu.pid  BY <3>1, PedidoPropio
    <3>3. PICK n \in EntradasDe(p) : n = NumeroPedido  BY <3>1, <3>2, PedidoPropio
    <3>4. p \in Proceso /\ estado[p] = "exec"  BY <3>1, <3>2 DEF IInv, CpuInv, Ejecuta
    <3>5. p = idAnteriorPCB /\ n \in Usadas(p)  BY <3>1, <3>3, <3>4 DEF TlbInv, Ejecuta, Usadas
    <3>6. PICK f : f = MarcoDe(n)  OBVIOUS
    <3>7. ~ carrera => Propio(f)  BY <3>5, <3>6, MarcoPropio DEF IInv
    <3>8. cpu'.numero \in 0 .. Len(tabla_2_l) - 1 /\ MarcoDe(cpu'.numero) = f
      BY <3>1, <3>3, <3>6, EntradasTipo
    <3>. QED  BY <1>0, <2>0, <3>1, <3>7, <3>8, TlbDelAcceso
  <2>11. CASE BuscarFrameLibre
    <3>1. cpu'.pc = "tomar" /\ UNCHANGED <<estado, idAnteriorPCB, tlb>>
      BY <1>0, <2>11 DEF BuscarFrameLibre, TipoCpu
    <3>. QED  BY <1>0, <2>0, <3>1, TlbSinAcceso
  <2>12. CASE ReemplazarSinPaginas
    <3>1. CASE cpu' # cpu
      <4>1. cpu'.pc = "bucle" /\ UNCHANGED <<estado, idAnteriorPCB, tlb>>
        BY <1>0, <2>12, <3>1 DEF ReemplazarSinPaginas, Morir, TipoCpu
      <4>. QED  BY <1>0, <2>0, <4>1, TlbSinAcceso
    <3>. QED  BY <2>8, <2>12, <3>1 DEF ReemplazarSinPaginas, Morir
  <2>13. CASE Traer_a_memoria
    <3>1. CASE cpu' # cpu
      <4>1. /\ cpu.pc = "traer" /\ cpu'.pc = "responder" /\ cpu'.numero = cpu.numero
            /\ UNCHANGED <<estado, idAnteriorPCB, tlb>>
        BY <1>0, <2>13, <3>1 DEF Traer_a_memoria, Morir, TipoCpu
      <4>2. PICK f : f = MarcoDe(cpu.numero)  OBVIOUS
      <4>3. ~ carrera => Propio(f)  BY <4>1, <4>2 DEF TlbInv
      <4>4. cpu'.numero \in 0 .. Len(tabla_2_l) - 1 /\ MarcoDe(cpu'.numero) = f
        BY <4>1, <4>2 DEF DInv, AccesoTipo
      <4>. QED  BY <1>0, <2>0, <4>1, <4>3, <4>4, TlbDelAcceso
    <3>. QED  BY <2>8, <2>13, <3>1 DEF Traer_a_memoria, Morir
  <2>14. CASE ResponderMarco
    <3>1. PICK f : f = MarcoDe(cpu.numero)  OBVIOUS
    <3>2. /\ cpu' = [cpu EXCEPT !.pc = "memcpy", !.marco = f, !.numero = NADIE,
                          !.tabla2 = NADIE]
          /\ tlb' \in Cargada(tlb, cpu.pag, f, accesos, REEMPLAZO_TLB)
          /\ UNCHANGED <<estado, idAnteriorPCB>> /\ cpu.pc = "responder"
      BY <2>14, <3>1 DEF ResponderMarco, MarcoDe, Get
    <3>3. cpu'.pc = "memcpy" /\ cpu'.marco = f  BY <1>0, <3>2 DEF TipoCpu
    <3>4. tlb' \subseteq tlb \union {NuevaEntrada(cpu.pag, f, accesos)}
      BY <3>2 DEF Cargada
    <3>5. NuevaEntrada(cpu.pag, f, accesos).marco = f  BY DEF NuevaEntrada
    <3>6. ~ carrera => Propio(f)  BY <3>1, <3>2 DEF TlbInv
    <3>7. \A d \in tlb' : d.marco = f \/ \E c \in tlb : d.marco = c.marco
      BY <3>4, <3>5
    <3>. QED  BY <1>0, <2>0, <3>2, <3>3, <3>6, <3>7, TlbDelAcceso
  <2>15. CASE Lectura \/ Escritura
    <3>1. cpu'.pc = "marca" /\ UNCHANGED <<estado, idAnteriorPCB, tlb>>
      BY <1>0, <2>15 DEF Lectura, Escritura, TipoCpu
    <3>. QED  BY <1>0, <2>0, <3>1, TlbSinAcceso
  <2>16. CASE Marcar
    <3>1. cpu'.pc = "libre" /\ UNCHANGED <<estado, idAnteriorPCB, tlb>>
      BY <2>16 DEF Marcar, CpuLibre
    <3>. QED  BY <1>0, <2>0, <3>1, TlbSinAcceso
  <2>17. CASE Funciones_cpu
    BY <1>2, <2>9, <2>10, <2>11, <2>12, <2>13, <2>14, <2>15, <2>16, <2>17
       DEF Funciones_cpu
  <2>18. CASE KernelYCpu  BY <2>2, <2>3, <2>4, <2>5, <2>18 DEF KernelYCpu
  <2>. QED  BY <2>1, <2>6, <2>7, <2>17, <2>18 DEF Next, Viva
<1>. QED  BY <1>1, <1>2

\* The invariants of the structures, of the data and of the TLB.
LEMMA InvarianteDeTlb == ASSUME OrdenDePids PROVE Spec => []IInv /\ []DInv /\ []TlbInv
<1>1. Init => IInv /\ DInv /\ TlbInv
  <2>1. Init => TlbInv
    BY DEF Init, TlbInv, Ejecuta, CpuLibre
  <2>. QED  BY <2>1, IInvInicio, DInvInicio
<1>2. (IInv /\ DInv /\ TlbInv) /\ [Next]_vars => (IInv /\ DInv /\ TlbInv)'
  BY IInvPaso, DInvPaso, TlbPaso
<1>. QED  BY <1>1, <1>2, PTL DEF Spec

(* A process reads and writes frames of its own, or that nobody has, with   *)
(* any number of entries in the TLB, any replacement and any number of      *)
(* suspensions: an entry that is out of date names a frame that only the    *)
(* same process can take before the TLB is emptied for another.             *)
THEOREM CadaUnoEnSusMarcos == ASSUME OrdenDePids PROVE Spec => []AccesoAislado
<1>1. IInv /\ TlbInv => AccesoAislado
  <2>1. SUFFICES ASSUME IInv, TlbInv, cpu.pc = "memcpy", ~ carrera, NEW n \in Presentes,
                        Get(tabla_2_l, n).frame = cpu.marco
        PROVE  n \div ENTRADAS_POR_TABLA \in ToSet(Get(tabla_1_l, cpu.pid).entradas)
    BY DEF AccesoAislado
  <2>2. PICK t \in ToSet(tabla_1_l) : /\ n \div ENTRADAS_POR_TABLA \in ToSet(t.entradas)
                                      /\ estado[t.pid] # "exit"
    BY DEF Presentes
  <2>3. PICK i \in DOMAIN tabla_1_l : t = tabla_1_l[i]  BY DEF ToSet
  <2>4. DOMAIN tabla_1_l = 1 .. Len(procesos) /\ Len(procesos) \in Nat
    BY <2>1 DEF IInv, Tipos, TipoTablas, LlegadaInv
  <2>5. PICK q \in Iniciados : i = q + 1 /\ t.pid = q
    <3>1. tabla_1_l[i].pid = i - 1
      <4>1. \A j \in DOMAIN tabla_1_l : tabla_1_l[j].pid = j - 1  BY <2>1 DEF IInv, LlegadaInv
      <4>2. i \in DOMAIN tabla_1_l  OBVIOUS
      <4>. QED  BY ONLY <4>1, <4>2
    <3>2. i - 1 \in Iniciados /\ (i - 1) + 1 = i  BY <2>4 DEF Iniciados
    <3>3. t.pid = i - 1  BY <2>3, <3>1
    <3>. QED  BY ONLY <3>2, <3>3
  <2>6. n \in Usadas(q) /\ MarcoDe(n) = cpu.marco
    <3>1. n \in 0 .. Len(tabla_2_l) - 1 /\ Presente(n)  BY DEF Presentes, Presente, Get
    <3>2. n \in EntradasDe(q)  BY <2>2, <2>3, <2>5, <3>1 DEF EntradasDe, TablasDe
    <3>. QED  BY <2>1, <2>2, <2>5, <3>1, <3>2 DEF Usadas, MarcoDe, Get
  <2>7. q = idAnteriorPCB  BY <2>1, <2>6 DEF TlbInv, Propio
  <2>8. cpu.pid = idAnteriorPCB  BY <2>1 DEF IInv, CpuInv, TlbInv
  <2>. QED  BY <2>2, <2>3, <2>5, <2>7, <2>8 DEF Get
<1>. QED  BY <1>1, InvarianteDeTlb, PTL

-----------------------------------------------------------------------------
(* The words: where the last word written to each page is.  A page in       *)
(* memory has it in its frame; the swap file has it, or will have it once   *)
(* the requests of swap_ are served, unless the page is marked as modified  *)
(* and will thus be asked for before its frame is given away.               *)

\* The entry of page n of p.
EntradaPag(p, n) ==
    Get(tabla_1_l[p + 1].entradas, EntradaPrimerNivel(n)) * ENTRADAS_POR_TABLA
        + EntradaSegundoNivel(n)

\* The requests that are still to be copied, from that of swap_ on.
Turnos == DOMAIN pedidos_swap_l \union (IF swap.pc = "copiar" THEN {0} ELSE {})
PedidoEn(i) == IF i = 0 THEN swap.pedido ELSE pedidos_swap_l[i]

\* Request r is about entry e, and says of it only word w.
Menciona(r, e) == \E k \in DOMAIN r.entradas : r.entradas[k] = e
Dice(r, e, w) == \A k \in DOMAIN r.entradas : r.entradas[k] = e => r.palabras[k] = w

\* The swap file of p has word w for entry e, or will have it when the requests
\* are served.
Guardada(p, e, w) ==
    /\ \A i \in Turnos :
          /\ Menciona(PedidoEn(i), e)
          /\ \A j \in Turnos : i < j => ~ Menciona(PedidoEn(j), e)
          => Dice(PedidoEn(i), e, w)
    /\ (\A i \in Turnos : ~ Menciona(PedidoEn(i), e)) /\ p \in DOMAIN archivo
          => archivo[p][e] = w

\* traer_a_memoria is bringing the page.
Llegando(e) == cpu.pc = "traer" /\ cpu.numero = e

\* The page has been written and is still to be marked.
Escrita(p, n) == cpu.pc = "marca" /\ cpu.op = "WRITE" /\ cpu.pid = p /\ cpu.pag = n

\* The page is marked as modified, and no suspension is freeing it.
Modificada(p, e) == Presente(e) /\ tabla_2_l[e + 1].bMod = 1 /\ ~ Suspendiendo(p)

\* A page in memory has its word in its frame, and what may be thrown away is
\* in the swap file or on its way there.
EnSuSitio(p, n, e, w) ==
    /\ Presente(e) /\ ~ Llegando(e) => memoria[MarcoDe(e)] = w
    /\ Escrita(p, n) \/ Modificada(p, e) \/ Guardada(p, e, w)

\* A process writes nothing before it has its swap file.
ArchivoInv ==
    /\ \A p \in DOMAIN archivo : ~ SinIniciar(p)
    /\ \A p \in Proceso : SinIniciar(p) => \A n \in Pagina : escrito[p][n] = 0

\* A page on its way to memory is not marked, and no other has its frame.
TraidaInv ==
    cpu.pc = "traer" =>
        /\ MarcoDe(cpu.numero) = cpu.marco
        /\ tabla_2_l[cpu.numero + 1].bMod = 0
        /\ carrera \/ \A p \in Iniciados : \A m \in Usadas(p) :
                          MarcoDe(m) = cpu.marco => m = cpu.numero

\* obtener_entrada goes by the last table asked for, which is that of the
\* process in the CPU when the TLB has something for it.
IndiceInv ==
    /\ cpu.pc \in {"entrada2", "tomar", "traer", "responder", "memcpy", "marca"} =>
          cpu.backup_indice_1 = cpu.pid
    /\ cpu.pc = "marca" => cpu.pid \in Iniciados /\ cpu.pag \in Pagina
    /\ tlb # {} => cpu.backup_indice_1 = idAnteriorPCB

\* A page that was written and is still to be marked is not freed before.
MarcaInv ==
    /\ cpu.pc = "marca" /\ cpu.op = "WRITE" /\ ~ carrera
    /\ fiel[cpu.pid][cpu.pag] /\ estado[cpu.pid] # "exit"
    => Vigente /\ ~ Suspendiendo(cpu.pid)

\* Every page of a live process that is not said to be lost is in its place.
SitioInv ==
    carrera \/ \A p \in Iniciados : \A n \in Pagina :
        estado[p] # "exit" /\ fiel[p][n] => EnSuSitio(p, n, EntradaPag(p, n), escrito[p][n])

\* The types of the history.
HistoriaTipo ==
    /\ escrito \in [Proceso -> [Pagina -> Palabra]]
    /\ fiel \in [Proceso -> [Pagina -> BOOLEAN]]

\* The invariant of the words, over IInv, DInv and TlbInv.
PalabrasInv ==
    /\ HistoriaTipo /\ ArchivoInv /\ IndiceInv /\ TraidaInv /\ MarcaInv
    /\ SitioInv /\ LecturaFiel

\* The entry of a page is one of those of its process.
LEMMA EntradaPagPropia ==
    ASSUME IInv, NEW p \in Iniciados, NEW n \in Pagina
    PROVE  EntradaPag(p, n) \in EntradasDe(p)
<1>1. Get(tabla_1_l[p + 1].entradas, EntradaPrimerNivel(n)) \in TablasDe(p)
  BY TablaDePagina
<1>2. EntradaSegundoNivel(n) \in Nat /\ EntradaSegundoNivel(n) < ENTRADAS_POR_TABLA
  <2>1. n \in Nat  BY DEF Pagina
  <2>2. n % ENTRADAS_POR_TABLA \in 0 .. ENTRADAS_POR_TABLA - 1
    BY <2>1, TablaAssumption, Resto
  <2>. QED  BY <2>2, TablaAssumption DEF EntradaSegundoNivel
<1>. QED  BY <1>1, <1>2, EntradaDeTabla DEF EntradaPag

\* What obtener_entrada finds for the process in the CPU.
LEMMA EntradaObtenida ==
    ASSUME cpu.backup_indice_1 = cpu.pid
    PROVE  Obtener_entrada(cpu.pag) = EntradaPag(cpu.pid, cpu.pag)
BY DEF Obtener_entrada, EntradaPag, Get

\* What is guarded stays so while the requests and the file do.
LEMMA GuardadaQueda ==
    ASSUME NEW p, NEW e, NEW w, Guardada(p, e, w), Turnos' = Turnos,
           \A i \in Turnos : PedidoEn(i)' = PedidoEn(i),
           p \in DOMAIN archivo' => p \in DOMAIN archivo /\ archivo'[p][e] = archivo[p][e]
    PROVE  Guardada(p, e, w)'
<1>1. \A i \in Turnos : Menciona(PedidoEn(i), e)' <=> Menciona(PedidoEn(i), e)
  BY DEF Menciona
<1>2. \A i \in Turnos : Dice(PedidoEn(i), e, w)' <=> Dice(PedidoEn(i), e, w)
  BY DEF Dice
<1>. QED  BY <1>1, <1>2 DEF Guardada

\* swap_ has removed the request that it took.
LEMMA GuardadaTrasQuitar ==
    ASSUME NEW p, NEW e, NEW w, Guardada(p, e, w), NEW l \in Nat,
           Turnos = 1 .. l, Turnos' = 0 .. l - 1,
           \A i \in 0 .. l - 1 : PedidoEn(i)' = PedidoEn(i + 1),
           UNCHANGED archivo
    PROVE  Guardada(p, e, w)'
<1>1. \A i \in 0 .. l - 1 : Menciona(PedidoEn(i), e)' <=> Menciona(PedidoEn(i + 1), e)
  BY DEF Menciona
<1>2. \A i \in 0 .. l - 1 : Dice(PedidoEn(i), e, w)' <=> Dice(PedidoEn(i + 1), e, w)
  BY DEF Dice
<1>3. \A i \in 0 .. l - 1 : i + 1 \in 1 .. l  OBVIOUS
<1>4. \A i \in 1 .. l : i - 1 \in 0 .. l - 1 /\ (i - 1) + 1 = i  OBVIOUS
<1>5. ASSUME NEW i \in Turnos', Menciona(PedidoEn(i), e)',
             \A j \in Turnos' : i < j => ~ Menciona(PedidoEn(j), e)'
      PROVE  Dice(PedidoEn(i), e, w)'
  <2>1. i \in 0 .. l - 1 /\ i + 1 \in Turnos /\ Menciona(PedidoEn(i + 1), e)
    BY <1>1, <1>3, <1>5
  <2>2. ASSUME NEW j \in Turnos, i + 1 < j
        PROVE  ~ Menciona(PedidoEn(j), e)
    <3>1. PICK k \in 0 .. l - 1 : j = k + 1 /\ i < k
      <4>1. j - 1 \in 0 .. l - 1 /\ j = (j - 1) + 1 /\ i < j - 1  BY <2>1, <2>2
      <4>. QED  BY ONLY <4>1
    <3>. QED  BY <1>1, <1>5, <3>1
  <2>3. Dice(PedidoEn(i + 1), e, w)  BY <2>1, <2>2 DEF Guardada
  <2>. QED  BY <1>2, <2>1, <2>3
<1>6. (\A i \in Turnos' : ~ Menciona(PedidoEn(i), e)') => \A i \in Turnos : ~ Menciona(PedidoEn(i), e)
  <2>1. SUFFICES ASSUME \A i \in Turnos' : ~ Menciona(PedidoEn(i), e)', NEW i \in Turnos
        PROVE  ~ Menciona(PedidoEn(i), e)
    OBVIOUS
  <2>2. PICK k \in 0 .. l - 1 : i = k + 1  BY <1>4
  <2>. QED  BY <1>1, <2>1, <2>2
<1>. QED  BY <1>5, <1>6 DEF Guardada

\* A request has been added at the end.
LEMMA GuardadaTrasEncolar ==
    ASSUME NEW p, NEW e, NEW w, NEW r, NEW m \in Nat,
           Turnos \subseteq 0 .. m - 1, Turnos' = Turnos \union {m},
           \A i \in Turnos : PedidoEn(i)' = PedidoEn(i), PedidoEn(m)' = r,
           UNCHANGED archivo, Dice(r, e, w), Menciona(r, e) \/ Guardada(p, e, w)
    PROVE  Guardada(p, e, w)'
<1>1. \A i \in Turnos : Menciona(PedidoEn(i), e)' <=> Menciona(PedidoEn(i), e)
  BY DEF Menciona
<1>2. \A i \in Turnos : Dice(PedidoEn(i), e, w)' <=> Dice(PedidoEn(i), e, w)
  BY DEF Dice
<1>3. (Menciona(PedidoEn(m), e)' <=> Menciona(r, e)) /\ Dice(PedidoEn(m), e, w)'
  BY DEF Menciona, Dice
<1>4. \A i \in Turnos : i < m  OBVIOUS
<1>5. CASE Menciona(r, e)  BY <1>3, <1>4, <1>5 DEF Guardada
<1>6. CASE ~ Menciona(r, e) /\ Guardada(p, e, w)
  BY <1>1, <1>2, <1>3, <1>6 DEF Guardada
<1>. QED  BY <1>5, <1>6

\* swap_ has copied its request.
LEMMA GuardadaTrasCopiar ==
    ASSUME NEW p, NEW e, NEW w, Guardada(p, e, w),
           0 \in Turnos, Turnos' = Turnos \ {0}, Turnos \subseteq Nat,
           \A i \in Turnos' : PedidoEn(i)' = PedidoEn(i),
           p \in DOMAIN archivo' =>
               /\ p \in DOMAIN archivo
               /\ Menciona(swap.pedido, e) /\ Dice(swap.pedido, e, w) => archivo'[p][e] = w
               /\ ~ Menciona(swap.pedido, e) => archivo'[p][e] = archivo[p][e]
    PROVE  Guardada(p, e, w)'
<1>1. \A i \in Turnos' : Menciona(PedidoEn(i), e)' <=> Menciona(PedidoEn(i), e)
  BY DEF Menciona
<1>2. \A i \in Turnos' : Dice(PedidoEn(i), e, w)' <=> Dice(PedidoEn(i), e, w)
  BY DEF Dice
<1>3. PedidoEn(0) = swap.pedido  BY DEF PedidoEn
<1>4. ASSUME NEW i \in Turnos', Menciona(PedidoEn(i), e)',
             \A j \in Turnos' : i < j => ~ Menciona(PedidoEn(j), e)'
      PROVE  Dice(PedidoEn(i), e, w)'
  <2>1. \A j \in Turnos : i < j => ~ Menciona(PedidoEn(j), e)
    <3>1. SUFFICES ASSUME NEW j \in Turnos, i < j PROVE ~ Menciona(PedidoEn(j), e)
      OBVIOUS
    <3>2. j \in Turnos'  BY <3>1
    <3>. QED  BY <1>1, <1>4, <3>1, <3>2
  <2>2. i \in Turnos /\ Menciona(PedidoEn(i), e)  BY <1>1, <1>4
  <2>3. Dice(PedidoEn(i), e, w)  BY <2>1, <2>2 DEF Guardada
  <2>. QED  BY <1>2, <2>3
<1>5. ASSUME \A i \in Turnos' : ~ Menciona(PedidoEn(i), e)', p \in DOMAIN archivo'
      PROVE  archivo'[p][e] = w
  <2>1. \A i \in Turnos : i # 0 => ~ Menciona(PedidoEn(i), e)  BY <1>1, <1>5
  <2>2. CASE Menciona(swap.pedido, e)
    <3>1. \A j \in Turnos : 0 < j => ~ Menciona(PedidoEn(j), e)  BY <2>1
    <3>2. Dice(PedidoEn(0), e, w)  BY <1>3, <2>2, <3>1 DEF Guardada
    <3>. QED  BY <1>3, <1>5, <2>2, <3>2
  <2>3. CASE ~ Menciona(swap.pedido, e)
    <3>1. \A i \in Turnos : ~ Menciona(PedidoEn(i), e)  BY <1>3, <2>1, <2>3
    <3>2. archivo[p][e] = w  BY <1>5, <3>1 DEF Guardada
    <3>. QED  BY <1>5, <2>3, <3>2
  <2>. QED  BY <2>2, <2>3
<1>. QED  BY <1>4, <1>5 DEF Guardada

\* A process that has ended does not come back, and one that has been
\* initialised is never new again.
LEMMA EstadoAvanza ==
    ASSUME IInv, [Next]_vars
    PROVE  \A p \in Proceso : /\ estado[p] = "exit" => estado'[p] = "exit"
                              /\ SinIniciar(p)' => SinIniciar(p)
<1>. USE DEF SinIniciar
<1>0. estado \in [Proceso -> {"new", "ini", "ready", "exec", "block", "susp", "exit"}]
  BY DEF IInv, Tipos, TipoHilos
<1>1. CASE estado' = estado  BY <1>1
<1>2. CASE Crear_archivo_swap
  <2>1. kernel.pc = "crear_archivo" /\ estado' = [estado EXCEPT ![kernel.pid] = "ready"]
    BY <1>2 DEF Crear_archivo_swap
  <2>2. estado[kernel.pid] = "ini"  BY <2>1 DEF IInv, LlegadaInv
  <2>. QED  BY <1>0, <2>1, <2>2
<1>3. CASE PedirInicializar
  <2>1. PICK q : estado[q] = "new" /\ estado' = [estado EXCEPT ![q] = "ini"]
    BY <1>3 DEF PedirInicializar
  <2>. QED  BY <1>0, <2>1
<1>4. ASSUME NEW q \in Proceso,
             Despachar(q) \/ Bloquear(q) \/ Suspender(q) \/ Desbloquear(q) \/ Terminar(q)
      PROVE  \A p \in Proceso : /\ estado[p] = "exit" => estado'[p] = "exit"
                                /\ SinIniciar(p)' => SinIniciar(p)
  <2>1. /\ estado[q] # "exit"
        /\ \E e \in {"exec", "block", "susp", "ready", "exit"} : estado' = [estado EXCEPT ![q] = e]
    BY <1>4 DEF Despachar, Bloquear, Suspender, Desbloquear, Terminar, Ejecuta
  <2>. QED  BY <1>0, <2>1
<1>5. CASE KernelYCpu
  <2>1. ASSUME NEW p \in Proceso, NEW n \in Pagina, NEW op \in INSTRUCCIONES, Acceso(p, n, op)
        PROVE  estado' = estado
    BY <2>1 DEF Acceso, ambiente
  <2>. QED  BY <1>1, <1>3, <1>4, <1>5, <2>1 DEF KernelYCpu
<1>6. CASE UNCHANGED vars  BY <1>1, <1>6 DEF vars
<1>7. CASE Funciones_kernel
  BY <1>1, <1>2, <1>7 DEF Funciones_kernel, Inicializar_proceso, Suspender_proceso,
              LiberarPagina, LimpiarBit, FinSuspender, Finalizar_proceso, BorrarFrame,
              Eliminar_archivo_swap, MuereKernel, Morir, ambiente
<1>8. CASE Funciones_cpu
  BY <1>1, <1>8 DEF Funciones_cpu, Entrada1, EntradaPresente, BuscarFrameLibre, TomarFrame,
              Reemplazar, ReemplazarSinPaginas, Traer_a_memoria, ResponderMarco, Lectura,
              Escritura, Marcar, Morir, ambiente
<1>9. CASE Swap_
  BY <1>1, <1>9 DEF Swap_, TomarPedido, QuitarPedido, CopiarPedido, CopiarSinArchivo, Morir,
              ambiente
<1>. QED  BY <1>5, <1>6, <1>7, <1>8, <1>9 DEF Next, Viva

\* The tables of a process are for ever, and so are the entries of its pages.
LEMMA TablaQueda ==
    ASSUME IInv, [Next]_vars, NEW p \in Iniciados
    PROVE  /\ tabla_1_l'[p + 1] = tabla_1_l[p + 1]
           /\ \A n : EntradaPag(p, n)' = EntradaPag(p, n)
<1>1. tabla_1_l'[p + 1] = tabla_1_l[p + 1]
  <2>1. CASE tabla_1_l' = tabla_1_l  BY <2>1
  <2>2. CASE Inicializar_proceso
    <3>1. PICK r : tabla_1_l' = Append(tabla_1_l, r)  BY <2>2 DEF Inicializar_proceso
    <3>2. tabla_1_l \in Seq([pid : Proceso, entradas : Seq(Nat)]) /\ p + 1 \in 1 .. Len(tabla_1_l)
      BY DEF IInv, Tipos, TipoTablas, LlegadaInv, Iniciados
    <3>. QED  BY <3>1, <3>2, AppendProperties
  <2>3. CASE UNCHANGED datos  BY <2>1, <2>3 DEF datos
  <2>. QED
    BY <2>1, <2>2, <2>3, DatosDelPaso
       DEF LiberarPagina, TomarFrame, Reemplazar, Traer_a_memoria, Marcar, Morir, tablas
<1>. QED  BY <1>1 DEF EntradaPag

\* The entries of the pages, for all processes.
LEMMA EntradasPropiasTodas ==
    IInv => /\ \A p \in Iniciados, n \in Pagina : EntradaPag(p, n) \in EntradasDe(p)
            /\ \A p, q \in Iniciados : \A e \in EntradasDe(p) : e \in EntradasDe(q) => p = q
BY EntradaPagPropia, EntradasPropias

\* FielSin keeps only what it does not name.
LEMMA FielSinDe ==
    ASSUME IInv, NEW p \in Iniciados, p \in Proceso, NEW n \in Pagina, NEW ns, NEW g,
           g = FielSin(ns), g[p][n]
    PROVE  fiel[p][n] /\ EntradaPag(p, n) \notin ns
<1>1. g[p][n] = (fiel[p][n] /\ ~ \E t \in ToSet(tabla_1_l) :
            /\ t.pid = p
            /\ Get(t.entradas, EntradaPrimerNivel(n)) * ENTRADAS_POR_TABLA
                 + EntradaSegundoNivel(n) \in ns)
  BY DEF FielSin
<1>2. p + 1 \in DOMAIN tabla_1_l /\ tabla_1_l[p + 1].pid = p
  <2>1. p + 1 \in DOMAIN tabla_1_l /\ (p + 1) - 1 = p
    BY DEF IInv, Tipos, TipoTablas, LlegadaInv, Iniciados
  <2>2. \A i \in DOMAIN tabla_1_l : tabla_1_l[i].pid = i - 1  BY DEF IInv, LlegadaInv
  <2>3. tabla_1_l[p + 1].pid = (p + 1) - 1  BY ONLY <2>1, <2>2
  <2>. QED  BY <2>1, <2>3
<1>3. tabla_1_l[p + 1] \in ToSet(tabla_1_l)  BY <1>2 DEF ToSet
<1>. QED  BY <1>1, <1>2, <1>3 DEF EntradaPag

\* What may be lost is no longer said to be in its place.
LEMMA FielTras ==
    ASSUME IInv, NEW p \in Iniciados, p \in Proceso, NEW n \in Pagina, NEW ns, fiel' = FielSin(ns),
           fiel'[p][n]
    PROVE  fiel[p][n] /\ EntradaPag(p, n) \notin ns
BY FielSinDe

\* A step that neither moves the page nor its requests leaves it in its place.
LEMMA SitioQuieto ==
    ASSUME NEW p, NEW n, NEW e, NEW w, EnSuSitio(p, n, e, w),
           Presente(e)' <=> Presente(e), MarcoDe(e)' = MarcoDe(e),
           tabla_2_l'[e + 1].bMod = tabla_2_l[e + 1].bMod,
           UNCHANGED memoria, Llegando(e) => Llegando(e)',
           Escrita(p, n) => Escrita(p, n)', Suspendiendo(p)' => Suspendiendo(p),
           Guardada(p, e, w) => Guardada(p, e, w)'
    PROVE  EnSuSitio(p, n, e, w)'
<1>1. Presente(e)' /\ ~ Llegando(e)' => memoria'[MarcoDe(e)'] = w
  BY DEF EnSuSitio
<1>2. Modificada(p, e) => Modificada(p, e)'  BY DEF Modificada
<1>. QED  BY <1>1, <1>2 DEF EnSuSitio

\* The words written are numbers of accesses.
LEMMA HistoriaPaso ==
    ASSUME IInv, DInv, HistoriaTipo, [Next]_vars
    PROVE  HistoriaTipo'
<1>. USE DEF historia
<1>1. CASE UNCHANGED <<escrito, fiel>>  BY <1>1 DEF HistoriaTipo
<1>2. ASSUME NEW ns, fiel' = FielSin(ns)
      PROVE  fiel' \in [Proceso -> [Pagina -> BOOLEAN]]
  <2>1. PICK S : S = ToSet(tabla_1_l)  OBVIOUS
  <2>2. fiel' = [p \in Proceso |-> [n \in Pagina |->
            fiel[p][n] /\ ~ \E t \in S :
                /\ t.pid = p
                /\ Get(t.entradas, EntradaPrimerNivel(n)) * ENTRADAS_POR_TABLA
                     + EntradaSegundoNivel(n) \in ns]]
    BY <1>2, <2>1 DEF FielSin
  <2>3. \A p \in Proceso : \A n \in Pagina : fiel[p][n] \in BOOLEAN  BY DEF HistoriaTipo
  <2>. QED  BY ONLY <2>2, <2>3
<1>3. ASSUME NEW ns, Dudosas(ns), UNCHANGED escrito
      PROVE  HistoriaTipo'
  BY <1>2, <1>3 DEF Dudosas, HistoriaTipo
<1>4. ASSUME NEW r, NEW ns, Encolar(r, ns), UNCHANGED escrito
      PROVE  HistoriaTipo'
  BY <1>3, <1>4 DEF Encolar
<1>5. CASE Suspender_proceso
  <2>1. PICK r, ns : Encolar(r, ns)  BY <1>5 DEF Suspender_proceso
  <2>2. UNCHANGED escrito  BY <1>5 DEF Suspender_proceso
  <2>. QED  BY <1>4, <2>1, <2>2
<1>6. CASE Reemplazar
  <2>1. UNCHANGED escrito /\ (UNCHANGED fiel \/ \E r, ns : Encolar(r, ns))
    BY <1>6 DEF Reemplazar
  <2>. QED  BY <1>1, <1>4, <2>1
<1>7. CASE Traer_a_memoria
  BY <1>1, <1>3, <1>7 DEF Traer_a_memoria, Morir
<1>8. CASE CopiarPedido
  BY <1>3, <1>8 DEF CopiarPedido
<1>9. CASE Escritura
  <2>1. PICK g : g = FielSin(EnMarco(cpu.marco))  OBVIOUS
  <2>2. PICK v \in BOOLEAN : v = (Vigente /\ ~ Suspendiendo(cpu.pid))
    <3>1. (Vigente /\ ~ Suspendiendo(cpu.pid)) \in BOOLEAN  BY DEF Vigente, Suspendiendo
    <3>. QED  BY <3>1
  <2>3. fiel' = [g EXCEPT ![cpu.pid][cpu.pag] = v]
    BY <1>9, <2>1, <2>2 DEF Escritura
  <2>4. g \in [Proceso -> [Pagina -> BOOLEAN]]
    <3>1. PICK S, T : S = ToSet(tabla_1_l) /\ T = EnMarco(cpu.marco)  OBVIOUS
    <3>2. g = [p \in Proceso |-> [n \in Pagina |->
            fiel[p][n] /\ ~ \E t \in S :
                /\ t.pid = p
                /\ Get(t.entradas, EntradaPrimerNivel(n)) * ENTRADAS_POR_TABLA
                     + EntradaSegundoNivel(n) \in T]]
      BY <2>1, <3>1 DEF FielSin
    <3>3. \A p \in Proceso : \A n \in Pagina : fiel[p][n] \in BOOLEAN  BY DEF HistoriaTipo
    <3>. QED  BY ONLY <3>2, <3>3
  <2>5. fiel' \in [Proceso -> [Pagina -> BOOLEAN]]  BY ONLY <2>2, <2>3, <2>4
  <2>6. cpu.valor \in Palabra  BY DEF DInv, AccesoTipo
  <2>7. escrito' = [escrito EXCEPT ![cpu.pid][cpu.pag] = cpu.valor]  BY <1>9 DEF Escritura
  <2>8. escrito \in [Proceso -> [Pagina -> Palabra]]  BY DEF HistoriaTipo
  <2>9. escrito' \in [Proceso -> [Pagina -> Palabra]]  BY ONLY <2>6, <2>7, <2>8
  <2>. QED  BY <2>5, <2>9 DEF HistoriaTipo
<1>10. CASE UNCHANGED vars  BY <1>1, <1>10 DEF vars
<1>11. CASE KernelYCpu
  BY <1>1, <1>11 DEF KernelYCpu, PedirInicializar, Despachar, Bloquear, Desbloquear, Suspender,
              Terminar, Acceso
<1>12. CASE Funciones_kernel
  BY <1>1, <1>5, <1>12 DEF Funciones_kernel, Inicializar_proceso, Crear_archivo_swap,
              LiberarPagina, LimpiarBit, FinSuspender, Finalizar_proceso, BorrarFrame,
              Eliminar_archivo_swap, MuereKernel, Morir
<1>13. CASE Funciones_cpu
  BY <1>1, <1>6, <1>7, <1>9, <1>13 DEF Funciones_cpu, Entrada1, EntradaPresente,
              BuscarFrameLibre, TomarFrame, ReemplazarSinPaginas, ResponderMarco, Lectura,
              Marcar, Morir
<1>14. CASE Swap_
  BY <1>1, <1>8, <1>14 DEF Swap_, TomarPedido, QuitarPedido, CopiarSinArchivo, Morir
<1>. QED  BY <1>10, <1>11, <1>12, <1>13, <1>14 DEF Next, Viva

\* A process has its swap file from its initialisation on, and writes after it.
LEMMA ArchivoPaso ==
    ASSUME IInv, DInv, ArchivoInv, HistoriaTipo, [Next]_vars
    PROVE  ArchivoInv'
<1>. USE DEF historia, enSwap
<1>0. /\ \A p \in Proceso : SinIniciar(p)' => SinIniciar(p)
      /\ estado \in [Proceso -> {"new", "ini", "ready", "exec", "block", "susp", "exit"}]
  BY EstadoAvanza DEF IInv, Tipos, TipoHilos
<1>1. \A p \in DOMAIN archivo : ~ SinIniciar(p)'
  <2>1. DOMAIN archivo \subseteq Proceso  BY DEF DInv, MemoriaTipo
  <2>. QED  BY <1>0, <2>1 DEF ArchivoInv
<1>2. \A p \in DOMAIN archivo' : p \in DOMAIN archivo \/ (p \in Proceso /\ ~ SinIniciar(p)')
  <2>1. CASE DOMAIN archivo' \subseteq DOMAIN archivo  BY <2>1
  <2>2. CASE Crear_archivo_swap
    <3>1. kernel.pid \in Proceso
      BY <2>2 DEF Crear_archivo_swap, IInv, LlegadaInv
    <3>2. DOMAIN archivo' = DOMAIN archivo \union {kernel.pid} /\ estado'[kernel.pid] = "ready"
      BY <1>0, <2>2, <3>1 DEF Crear_archivo_swap
    <3>3. ~ SinIniciar(kernel.pid)'
      <4>1. PICK q : q = kernel.pid  OBVIOUS
      <4>2. estado'[q] = "ready"  BY <3>2, <4>1
      <4>3. kernel'.pid = q  BY <2>2, <4>1 DEF Crear_archivo_swap, IInv, Tipos, TipoHilos
      <4>. QED  BY <4>2, <4>3 DEF SinIniciar
    <3>4. kernel'.pid = kernel.pid  BY <2>2 DEF Crear_archivo_swap, IInv, Tipos, TipoHilos
    <3>. QED  BY <3>1, <3>2, <3>3, <3>4 DEF SinIniciar
  <2>3. CASE CopiarPedido
    <3>1. \E f : archivo' = [archivo EXCEPT ![swap.pedido.pid] = f]  BY <2>3 DEF CopiarPedido
    <3>. QED  BY <2>1, <3>1
  <2>4. CASE Eliminar_archivo_swap
    BY <2>1, <2>4 DEF Eliminar_archivo_swap
  <2>5. CASE UNCHANGED archivo  BY <2>1, <2>5
  <2>6. CASE UNCHANGED vars  BY <2>5, <2>6 DEF vars
  <2>7. CASE KernelYCpu
    BY <2>5, <2>7 DEF KernelYCpu, PedirInicializar, Despachar, Bloquear, Desbloquear, Suspender,
                Terminar, Acceso
  <2>8. CASE Funciones_kernel
    BY <2>2, <2>4, <2>5, <2>8 DEF Funciones_kernel, Inicializar_proceso, Suspender_proceso,
                LiberarPagina, LimpiarBit, FinSuspender, Finalizar_proceso, BorrarFrame,
                MuereKernel, Morir
  <2>9. CASE Funciones_cpu
    BY <2>5, <2>9 DEF Funciones_cpu, Entrada1, EntradaPresente, BuscarFrameLibre, TomarFrame,
                Reemplazar, ReemplazarSinPaginas, Traer_a_memoria, ResponderMarco, Lectura,
                Escritura, Marcar, Morir
  <2>10. CASE Swap_
    BY <2>3, <2>5, <2>10 DEF Swap_, TomarPedido, QuitarPedido, CopiarSinArchivo, Morir
  <2>. QED  BY <2>6, <2>7, <2>8, <2>9, <2>10 DEF Next, Viva
<1>3. ASSUME NEW p \in Proceso, SinIniciar(p)', NEW n \in Pagina
      PROVE  escrito'[p][n] = 0
  <2>1. SinIniciar(p) /\ escrito[p][n] = 0  BY <1>0, <1>3 DEF ArchivoInv
  <2>2. escrito'[p] = escrito[p]
    <3>1. CASE UNCHANGED escrito  BY <3>1
    <3>2. CASE Escritura
      <4>1. cpu.pid \in Proceso /\ estado[cpu.pid] = "exec"
        BY <3>2 DEF Escritura, IInv, CpuInv, Ejecuta
      <4>2. p # cpu.pid  BY <2>1, <4>1 DEF SinIniciar
      <4>. QED  BY <3>2, <4>2 DEF Escritura
    <3>3. CASE UNCHANGED vars  BY <3>1, <3>3 DEF vars
    <3>4. CASE KernelYCpu
      BY <3>1, <3>4 DEF KernelYCpu, PedirInicializar, Despachar, Bloquear, Desbloquear,
                  Suspender, Terminar, Acceso
    <3>5. CASE Funciones_kernel
      BY <3>1, <3>5 DEF Funciones_kernel, Inicializar_proceso, Crear_archivo_swap,
                  Suspender_proceso, LiberarPagina, LimpiarBit, FinSuspender,
                  Finalizar_proceso, BorrarFrame, Eliminar_archivo_swap, MuereKernel, Morir
    <3>6. CASE Funciones_cpu
      BY <3>1, <3>2, <3>6 DEF Funciones_cpu, Entrada1, EntradaPresente, BuscarFrameLibre,
                  TomarFrame, Reemplazar, ReemplazarSinPaginas, Traer_a_memoria,
                  ResponderMarco, Lectura, Marcar, Morir
    <3>7. CASE Swap_
      BY <3>1, <3>7 DEF Swap_, TomarPedido, QuitarPedido, CopiarPedido, CopiarSinArchivo, Morir
    <3>. QED  BY <3>3, <3>4, <3>5, <3>6, <3>7 DEF Next, Viva
  <2>. QED  BY <2>1, <2>2
<1>. QED  BY <1>1, <1>2, <1>3 DEF ArchivoInv

\* While the handler of the CPU waits, no page comes to memory and none moves.
LEMMA CpuParada ==
    ASSUME IInv, [Next]_vars, UNCHANGED cpu
    PROVE  /\ \A m \in 0 .. Len(tabla_2_l) - 1 :
                 /\ MarcoDe(m)' = MarcoDe(m) /\ (Presente(m)' => Presente(m))
                 /\ tabla_2_l'[m + 1].bMod = tabla_2_l[m + 1].bMod
           /\ ~ TomarFrame /\ ~ Reemplazar
<1>0. TipoCpu  BY DEF IInv, Tipos, TipoHilos
<1>1. ~ TomarFrame
  BY <1>0 DEF TomarFrame, TipoCpu
<1>2. ~ Reemplazar
  BY <1>0 DEF Reemplazar, EnPageFault, TipoCpu
<1>3. ~ Marcar
  BY <1>0 DEF Marcar, CpuLibre, TipoCpu
<1>4. CASE UNCHANGED datos
  BY <1>1, <1>2, <1>4 DEF datos, MarcoDe, Presente
<1>5. CASE Inicializar_proceso
  <2>1. \A n \in 0 .. Len(tabla_2_l) - 1 : tabla_2_l'[n + 1] = tabla_2_l[n + 1]
    BY <1>5, TrasCrear
  <2>. QED  BY <1>1, <1>2, <2>1 DEF MarcoDe, Presente
<1>6. CASE LiberarPagina
  <2>1. \A n \in 0 .. Len(tabla_2_l) - 1 :
           /\ (Presente(n)' => Presente(n))
           /\ MarcoDe(n)' = MarcoDe(n)
           /\ tabla_2_l'[n + 1].bMod = tabla_2_l[n + 1].bMod
    BY <1>6, TrasLiberar
  <2>. QED  BY <1>1, <1>2, <2>1
<1>7. CASE Traer_a_memoria
  BY <1>1, <1>2, <1>7, TrasTraer DEF datos, MarcoDe, Presente
<1>. QED  BY <1>1, <1>2, <1>3, <1>4, <1>5, <1>6, <1>7, DatosDelPaso

\* The index that obtener_entrada uses.
LEMMA IndicePaso ==
    ASSUME IInv, DInv, TlbInv, IndiceInv, Iniciados \subseteq Iniciados', [Next]_vars
    PROVE  IndiceInv'
<1>. USE DEF enCpu, ambiente
<1>0. TipoCpu  BY DEF IInv, Tipos, TipoHilos
<1>1. cpu.pc \notin {"libre", "marca"} =>
         cpu.pid = idAnteriorPCB /\ cpu.pid \in Iniciados /\ cpu.pag \in Pagina
  BY DEF IInv, CpuInv, TlbInv, LlegadaInv, SinIniciar, Ejecuta
<1>2. ASSUME UNCHANGED <<cpu, idAnteriorPCB>>, tlb' \subseteq tlb PROVE IndiceInv'
  BY <1>2 DEF IndiceInv
<1>3. CASE UNCHANGED vars  BY <1>2, <1>3 DEF vars
<1>4. CASE KernelYCpu
  <2>1. ASSUME NEW p \in Proceso, Despachar(p) PROVE IndiceInv'
    <3>1. UNCHANGED cpu /\ tlb' = TlbPara(p) /\ idAnteriorPCB' = p  BY <2>1 DEF Despachar
    <3>. QED  BY <3>1 DEF IndiceInv, TlbPara
  <2>2. ASSUME NEW p \in Proceso, NEW n \in Pagina, NEW op \in INSTRUCCIONES, Acceso(p, n, op)
        PROVE  IndiceInv'
    <3>1. p = idAnteriorPCB /\ UNCHANGED idAnteriorPCB  BY <2>2 DEF Acceso, TlbInv
    <3>2. CASE \E e \in Coincide(tlb, n) :
                 /\ tlb' = Referenciada(tlb, e, accesos')
                 /\ cpu' = [[cpu EXCEPT !.pid = p, !.pag = n, !.op = op, !.valor = accesos']
                              EXCEPT !.pc = "memcpy", !.marco = e.marco]
      <4>1. tlb # {}  BY <3>2 DEF Coincide
      <4>2. cpu'.pc = "memcpy" /\ cpu'.pid = p /\ cpu'.backup_indice_1 = cpu.backup_indice_1
        BY <1>0, <3>2 DEF TipoCpu
      <4>. QED  BY <3>1, <4>1, <4>2 DEF IndiceInv
    <3>3. CASE /\ cpu' = [[cpu EXCEPT !.pid = p, !.pag = n, !.op = op, !.valor = accesos']
                              EXCEPT !.pc = "entrada1"]
               /\ UNCHANGED tlb
      <4>1. cpu'.pc = "entrada1" /\ cpu'.backup_indice_1 = cpu.backup_indice_1
        BY <1>0, <3>3 DEF TipoCpu
      <4>. QED  BY <3>1, <3>3, <4>1 DEF IndiceInv
    <3>. QED  BY <2>2, <3>2, <3>3 DEF Acceso
  <2>3. ASSUME NEW p \in Proceso, Bloquear(p) \/ Suspender(p) \/ Desbloquear(p) \/ Terminar(p)
        PROVE  IndiceInv'
    BY <1>2, <2>3 DEF Bloquear, Suspender, Desbloquear, Terminar
  <2>4. CASE PedirInicializar  BY <1>2, <2>4 DEF PedirInicializar
  <2>. QED  BY <1>4, <2>1, <2>2, <2>3, <2>4 DEF KernelYCpu
<1>5. CASE Funciones_kernel
  <2>1. UNCHANGED <<cpu, tlb, idAnteriorPCB>>
    BY <1>5 DEF Funciones_kernel, Inicializar_proceso, Crear_archivo_swap, LiberarPagina,
                Suspender_proceso, LimpiarBit, FinSuspender, Finalizar_proceso,
                BorrarFrame, Eliminar_archivo_swap, MuereKernel, Morir
  <2>. QED  BY <1>2, <2>1
<1>6. CASE Swap_
  <2>1. UNCHANGED <<cpu, tlb, idAnteriorPCB>>
    BY <1>6 DEF Swap_, TomarPedido, QuitarPedido, CopiarPedido, CopiarSinArchivo, Morir
  <2>. QED  BY <1>2, <2>1
<1>7. CASE Entrada1
  <2>1. CASE cpu' # cpu
    <3>1. /\ cpu'.pc = "entrada2" /\ cpu'.backup_indice_1 = cpu.pid /\ cpu'.pid = cpu.pid
          /\ UNCHANGED <<tlb, idAnteriorPCB>> /\ cpu.pc = "entrada1"
      BY <1>0, <1>7, <2>1 DEF Entrada1, Morir, TipoCpu
    <3>. QED  BY <1>1, <3>1 DEF IndiceInv
  <2>. QED  BY <1>2, <1>7, <2>1 DEF Entrada1, Morir
<1>8. ASSUME cpu.pc \in {"entrada2", "tomar", "traer", "responder", "memcpy"},
             UNCHANGED idAnteriorPCB, tlb' \subseteq tlb \/ cpu.pc = "responder",
             cpu'.backup_indice_1 = cpu.backup_indice_1, cpu'.pid = cpu.pid, cpu'.pag = cpu.pag
      PROVE  IndiceInv'
  BY <1>1, <1>8 DEF IndiceInv
<1>9. CASE EntradaPresente \/ BuscarFrameLibre \/ Lectura \/ Escritura
  BY <1>0, <1>8, <1>9 DEF EntradaPresente, BuscarFrameLibre, EnPageFault, Lectura, Escritura,
                          TipoCpu
<1>10. CASE TomarFrame
  <2>1. /\ cpu.pc = "tomar" /\ UNCHANGED <<tlb, idAnteriorPCB>>
        /\ \E x : cpu' = [cpu EXCEPT !.pc = "traer", !.byte = {}, !.nueva = x]
    BY <1>10 DEF TomarFrame
  <2>. QED  BY <1>0, <1>8, <2>1 DEF TipoCpu
<1>11. CASE Reemplazar
  <2>1. /\ cpu.pc = "entrada2" /\ UNCHANGED <<tlb, idAnteriorPCB>>
        /\ \E x, y : cpu' = [cpu EXCEPT !.pc = "traer", !.numero = x, !.marco = y,
                                        !.nueva = NADIE]
    BY <1>11 DEF Reemplazar, EnPageFault
  <2>. QED  BY <1>0, <1>8, <2>1 DEF TipoCpu
<1>12. CASE ReemplazarSinPaginas
  <2>1. CASE cpu' # cpu
    <3>1. /\ cpu.pc = "entrada2" /\ UNCHANGED <<tlb, idAnteriorPCB>>
          /\ cpu' = [cpu EXCEPT !.pc = "bucle"]
      BY <1>12, <2>1 DEF ReemplazarSinPaginas, EnPageFault, Morir
    <3>. QED  BY <1>0, <1>8, <3>1 DEF TipoCpu
  <2>. QED  BY <1>2, <1>12, <2>1 DEF ReemplazarSinPaginas, Morir
<1>13. CASE Traer_a_memoria
  <2>1. CASE cpu' # cpu
    <3>1. /\ cpu.pc = "traer" /\ UNCHANGED <<tlb, idAnteriorPCB>>
          /\ cpu' = [cpu EXCEPT !.pc = "responder", !.nueva = NADIE]
      BY <1>13, <2>1 DEF Traer_a_memoria, Morir
    <3>. QED  BY <1>0, <1>8, <3>1 DEF TipoCpu
  <2>. QED  BY <1>2, <1>13, <2>1 DEF Traer_a_memoria, Morir
<1>14. CASE ResponderMarco
  <2>1. /\ cpu.pc = "responder" /\ UNCHANGED idAnteriorPCB
        /\ \E f : cpu' = [cpu EXCEPT !.pc = "memcpy", !.marco = f, !.numero = NADIE,
                                     !.tabla2 = NADIE]
    BY <1>14 DEF ResponderMarco
  <2>. QED  BY <1>0, <1>8, <2>1 DEF TipoCpu
<1>15. CASE Marcar
  <2>1. /\ cpu'.pc = "libre" /\ cpu'.backup_indice_1 = cpu.backup_indice_1
        /\ UNCHANGED <<tlb, idAnteriorPCB>>
    BY <1>15 DEF Marcar, CpuLibre
  <2>. QED  BY <2>1 DEF IndiceInv
<1>16. CASE Funciones_cpu
  BY <1>7, <1>9, <1>10, <1>11, <1>12, <1>13, <1>14, <1>15, <1>16 DEF Funciones_cpu
<1>. QED  BY <1>3, <1>4, <1>5, <1>6, <1>16 DEF Next, Viva

\* The page that comes to memory is present, not marked, and in its frame.
LEMMA LlegaLimpia ==
    ASSUME IInv, TomarFrame \/ Reemplazar
    PROVE  \E u \in EntradasDe(cpu.pid) :
              /\ cpu.pid \in Iniciados /\ cpu.pid \in Iniciados' /\ estado'[cpu.pid] = "exec"
              /\ u \in EntradasDe(cpu.pid)' /\ u \in 0 .. Len(tabla_2_l) - 1
              /\ cpu'.pc = "traer" /\ cpu'.numero = u /\ MarcoDe(u)' = cpu'.marco
              /\ tabla_2_l'[u + 1].bMod = 0 /\ Presente(u)'
              /\ \A q : EntradasDe(q)' = EntradasDe(q)
<1>1. CASE TomarFrame
  <2>1. LlegaPagina  BY <1>1, LlegaAlTomar
  <2>2. PICK u \in EntradasDe(cpu.pid) : u = cpu.numero  BY <1>1, TrasTomar
  <2>3. tabla_2_l'[u + 1].bMod = 0 /\ Presente(u)'
    BY <1>1, <2>2, TrasTomar DEF Presente
  <2>4. cpu'.numero = u
    <3>1. \E x : cpu' = [cpu EXCEPT !.pc = "traer", !.byte = {}, !.nueva = x]
      BY <1>1 DEF TomarFrame
    <3>. QED  BY <2>2, <3>1 DEF IInv, Tipos, TipoHilos, TipoCpu
  <2>5. MarcoDe(u)' = cpu'.marco  BY <2>1, <2>4 DEF LlegaPagina
  <2>. QED  BY <2>1, <2>3, <2>4, <2>5, EntradasTipo DEF LlegaPagina
<1>2. CASE Reemplazar
  <2>1. LlegaPagina  BY <1>2, LlegaAlReemplazar
  <2>2. PICK p \in Iniciados : \E j0 \in Posiciones(p) :
         \E u \in EntradasDe(p), v \in EntradasDe(p) : Reemplaza(p, j0, u, v)
    BY <1>2, TrasReemplazar
  <2>3. PICK j0 \in Posiciones(p), u \in EntradasDe(p), v \in EntradasDe(p) :
         Reemplaza(p, j0, u, v)
    BY ONLY <2>2
  <2>4. /\ tabla_2_l'[u + 1].bMod = 0 /\ Presente(u)' /\ p = cpu.pid
        /\ cpu' = [cpu EXCEPT !.pc = "traer", !.numero = u, !.marco = MarcoDe(v),
                              !.nueva = NADIE]
    BY <2>3 DEF Reemplaza, Presente
  <2>5. cpu'.numero = u  BY <2>4 DEF IInv, Tipos, TipoHilos, TipoCpu
  <2>6. MarcoDe(u)' = cpu'.marco  BY <2>1, <2>5 DEF LlegaPagina
  <2>7. u \in EntradasDe(cpu.pid)  BY <2>4
  <2>. QED  BY <2>1, <2>4, <2>5, <2>6, <2>7, EntradasTipo DEF LlegaPagina
<1>. QED  BY <1>1, <1>2

\* The same of every state: no two pages of live processes have one frame.
LEMMA MarcosUsados ==
    IInv => carrera \/ \A p, q \in Iniciados : \A n \in Usadas(p), m \in Usadas(q) :
                          MarcoDe(n) = MarcoDe(m) => n = m
<1>. SUFFICES ASSUME IInv, ~ carrera, NEW p \in Iniciados, NEW q \in Iniciados,
                     NEW n \in Usadas(p), NEW m \in Usadas(q), MarcoDe(n) = MarcoDe(m)
     PROVE  n = m
  OBVIOUS
<1>1. n \in Ocupadas /\ m \in Ocupadas  BY UsadaOcupa
<1>. QED  BY <1>1 DEF IInv, MarcosInv

\* And so after a step.
LEMMA MarcosUsadosLuego ==
    IInv' => (carrera \/ \A p, q \in Iniciados : \A n \in Usadas(p), m \in Usadas(q) :
                          MarcoDe(n) = MarcoDe(m) => n = m)'
<1>1. IInv => carrera \/ \A p, q \in Iniciados : \A n \in Usadas(p), m \in Usadas(q) :
                          MarcoDe(n) = MarcoDe(m) => n = m
  BY MarcosUsados
<1>. QED  BY <1>1, PTL

\* The steps after which a page is on its way to memory, or is to be marked.
LEMMA PasosDelAcceso ==
    ASSUME IInv, [Next]_vars, cpu'.pc \in {"traer", "marca"}
    PROVE  cpu' = cpu \/ TomarFrame \/ Reemplazar \/ Lectura \/ Escritura
<1>0. TipoCpu  BY DEF IInv, Tipos, TipoHilos
<1>1. CASE UNCHANGED vars  BY <1>1 DEF vars
<1>2. CASE KernelYCpu
  <2>1. ASSUME NEW p \in Proceso, NEW n \in Pagina, NEW op \in INSTRUCCIONES, Acceso(p, n, op)
        PROVE  FALSE
    <3>1. CASE \E e \in Coincide(tlb, n) :
                 cpu' = [[cpu EXCEPT !.pid = p, !.pag = n, !.op = op, !.valor = accesos']
                              EXCEPT !.pc = "memcpy", !.marco = e.marco]
      BY <1>0, <3>1 DEF TipoCpu
    <3>2. CASE cpu' = [[cpu EXCEPT !.pid = p, !.pag = n, !.op = op, !.valor = accesos']
                              EXCEPT !.pc = "entrada1"]
      BY <1>0, <3>2 DEF TipoCpu
    <3>. QED  BY <2>1, <3>1, <3>2 DEF Acceso
  <2>2. ASSUME NEW p \in Proceso,
               Despachar(p) \/ Bloquear(p) \/ Suspender(p) \/ Desbloquear(p) \/ Terminar(p)
        PROVE  cpu' = cpu
    BY <2>2 DEF Despachar, Bloquear, Suspender, Desbloquear, Terminar
  <2>. QED  BY <1>2, <2>1, <2>2 DEF KernelYCpu, PedirInicializar
<1>3. CASE Funciones_kernel
  BY <1>3 DEF Funciones_kernel, Inicializar_proceso, Crear_archivo_swap, LiberarPagina,
              Suspender_proceso, LimpiarBit, FinSuspender, Finalizar_proceso,
              BorrarFrame, Eliminar_archivo_swap, MuereKernel, Morir
<1>4. CASE Swap_
  BY <1>4 DEF Swap_, TomarPedido, QuitarPedido, CopiarPedido, CopiarSinArchivo, Morir
<1>5. CASE Funciones_cpu
  <2>1. CASE Entrada1
    BY <1>0, <2>1 DEF Entrada1, Morir, TipoCpu
  <2>2. CASE EntradaPresente \/ BuscarFrameLibre
    BY <1>0, <2>2 DEF EntradaPresente, BuscarFrameLibre, TipoCpu
  <2>3. CASE ReemplazarSinPaginas
    <3>1. cpu' = cpu \/ cpu' = [cpu EXCEPT !.pc = "bucle"]
      BY <2>3 DEF ReemplazarSinPaginas, Morir
    <3>. QED  BY <1>0, <3>1 DEF TipoCpu
  <2>4. CASE Traer_a_memoria
    <3>1. cpu' = cpu \/ cpu' = [cpu EXCEPT !.pc = "responder", !.nueva = NADIE]
      BY <2>4 DEF Traer_a_memoria, Morir
    <3>. QED  BY <1>0, <3>1 DEF TipoCpu
  <2>5. CASE ResponderMarco
    <3>1. \E f : cpu' = [cpu EXCEPT !.pc = "memcpy", !.marco = f, !.numero = NADIE,
                                    !.tabla2 = NADIE]
      BY <2>5 DEF ResponderMarco
    <3>. QED  BY <1>0, <3>1 DEF TipoCpu
  <2>6. CASE Marcar
    BY <2>6 DEF Marcar, CpuLibre
  <2>. QED  BY <1>5, <2>1, <2>2, <2>3, <2>4, <2>5, <2>6 DEF Funciones_cpu
<1>. QED  BY <1>1, <1>2, <1>3, <1>4, <1>5 DEF Next, Viva

\* The page being brought in keeps its frame to itself, and is not marked before
\* it is there.
LEMMA TraidaPaso ==
    ASSUME IInv, IInv', DInv, TraidaInv, [Next]_vars
    PROVE  TraidaInv'
<1>1. SUFFICES ASSUME cpu'.pc = "traer" PROVE TraidaInv'  BY DEF TraidaInv
<1>2. CASE UNCHANGED cpu
  <2>1. PICK u \in EntradasDe(cpu.pid) : u = cpu.numero /\ u \in 0 .. Len(tabla_2_l) - 1
    BY <1>1, <1>2, EntradasTipo DEF IInv, CpuInv
  <2>2. MarcoDe(u)' = MarcoDe(u) /\ tabla_2_l'[u + 1].bMod = tabla_2_l[u + 1].bMod
        /\ ~ TomarFrame /\ ~ Reemplazar
    BY <1>2, <2>1, CpuParada
  <2>3. MarcoDe(u)' = cpu'.marco /\ tabla_2_l'[u + 1].bMod = 0
    BY <1>1, <1>2, <2>1, <2>2 DEF TraidaInv
  <2>4. NoLlega  BY <2>2, SinLlegada
  <2>5. ASSUME ~ carrera', NEW p \in Iniciados', NEW m \in Usadas(p)', MarcoDe(m)' = cpu'.marco
        PROVE  m = u
    <3>1. p \in Iniciados /\ m \in Usadas(p)  BY <2>4 DEF NoLlega
    <3>2. m \in 0 .. Len(tabla_2_l) - 1  BY <3>1, EntradasTipo DEF Usadas
    <3>3. MarcoDe(m) = cpu.marco  BY <1>2, <2>4, <2>5, <3>2 DEF NoLlega
    <3>4. ~ carrera  BY <2>5, CarreraQueda
    <3>. QED  BY <1>1, <1>2, <2>1, <3>1, <3>3, <3>4 DEF TraidaInv
  <2>6. MarcoDe(cpu.numero)' = MarcoDe(u)'  BY <1>2, <2>1 DEF MarcoDe
  <2>7. cpu'.numero = u  BY <1>2, <2>1
  <2>. QED  BY <2>3, <2>5, <2>6, <2>7 DEF TraidaInv
<1>3. CASE TomarFrame \/ Reemplazar
  <2>1. PICK u \in EntradasDe(cpu.pid) :
              /\ cpu.pid \in Iniciados' /\ estado'[cpu.pid] = "exec"
              /\ u \in EntradasDe(cpu.pid)'
              /\ cpu'.numero = u /\ MarcoDe(u)' = cpu'.marco
              /\ tabla_2_l'[u + 1].bMod = 0 /\ Presente(u)'
              /\ \A q : EntradasDe(q)' = EntradasDe(q)
    BY <1>3, LlegaLimpia
  <2>2. PICK t : t = cpu.pid  OBVIOUS
  <2>3. t \in Iniciados' /\ u \in Usadas(t)'
    <3>1. u \in EntradasDe(t)'  BY <2>1, <2>2
    <3>. QED  BY <2>1, <2>2, <3>1 DEF Usadas
  <2>4. carrera' \/ \A p \in Iniciados' : \A n \in Usadas(p)', m \in Usadas(t)' :
                          MarcoDe(n)' = MarcoDe(m)' => n = m
    BY <2>3, MarcosUsadosLuego
  <2>5. MarcoDe(cpu.numero)' = MarcoDe(u)'  BY <2>1 DEF MarcoDe
  <2>. QED  BY <2>1, <2>3, <2>4, <2>5 DEF TraidaInv
<1>4. ~ Lectura /\ ~ Escritura
  BY <1>1 DEF Lectura, Escritura, IInv, Tipos, TipoHilos, TipoCpu
<1>. QED  BY <1>1, <1>2, <1>3, <1>4, PasosDelAcceso

\* Only escritura writes, and nothing else gives a page its word back.
LEMMA FielBaja ==
    ASSUME IInv, [Next]_vars, ~ Escritura
    PROVE  /\ escrito' = escrito
           /\ \A p \in Proceso : \A n \in Pagina : fiel'[p][n] => fiel[p][n]
<1>. USE DEF historia
<1>1. CASE UNCHANGED <<escrito, fiel>>  BY <1>1
<1>2. ASSUME NEW ns, Dudosas(ns), UNCHANGED escrito
      PROVE  /\ escrito' = escrito
             /\ \A p \in Proceso : \A n \in Pagina : fiel'[p][n] => fiel[p][n]
  <2>1. SUFFICES ASSUME NEW p \in Proceso, NEW n \in Pagina PROVE fiel'[p][n] => fiel[p][n]
    BY <1>2
  <2>2. fiel'[p][n] = (fiel[p][n] /\ ~ \E t \in ToSet(tabla_1_l) :
            /\ t.pid = p
            /\ Get(t.entradas, EntradaPrimerNivel(n)) * ENTRADAS_POR_TABLA
                 + EntradaSegundoNivel(n) \in ns)
    BY <1>2 DEF Dudosas, FielSin
  <2>. QED  BY <2>2
<1>3. ASSUME NEW r, NEW ns, Encolar(r, ns), UNCHANGED escrito
      PROVE  /\ escrito' = escrito
             /\ \A p \in Proceso : \A n \in Pagina : fiel'[p][n] => fiel[p][n]
  <2>1. PICK ms : Dudosas(ms)  BY <1>3 DEF Encolar
  <2>. QED  BY <1>2, <1>3, <2>1
<1>4. CASE Suspender_proceso
  <2>1. PICK r, ns : Encolar(r, ns)  BY <1>4 DEF Suspender_proceso
  <2>2. UNCHANGED escrito  BY <1>4 DEF Suspender_proceso
  <2>. QED  BY <1>3, <2>1, <2>2
<1>5. CASE Reemplazar
  <2>1. UNCHANGED escrito /\ (UNCHANGED fiel \/ \E r, ns : Encolar(r, ns))
    BY <1>5 DEF Reemplazar
  <2>. QED  BY <1>1, <1>3, <2>1
<1>6. CASE Traer_a_memoria
  BY <1>1, <1>2, <1>6 DEF Traer_a_memoria, Morir
<1>7. CASE CopiarPedido
  BY <1>2, <1>7 DEF CopiarPedido
<1>8. CASE UNCHANGED vars  BY <1>1, <1>8 DEF vars
<1>9. CASE KernelYCpu
  BY <1>1, <1>9 DEF KernelYCpu, PedirInicializar, Despachar, Bloquear, Desbloquear, Suspender,
              Terminar, Acceso
<1>10. CASE Funciones_kernel
  BY <1>1, <1>4, <1>10 DEF Funciones_kernel, Inicializar_proceso, Crear_archivo_swap,
              LiberarPagina, LimpiarBit, FinSuspender, Finalizar_proceso, BorrarFrame,
              Eliminar_archivo_swap, MuereKernel, Morir
<1>11. CASE Funciones_cpu
  BY <1>1, <1>5, <1>6, <1>11 DEF Funciones_cpu, Entrada1, EntradaPresente,
              BuscarFrameLibre, TomarFrame, ReemplazarSinPaginas, ResponderMarco, Lectura,
              Marcar, Morir
<1>12. CASE Swap_
  BY <1>1, <1>7, <1>12 DEF Swap_, TomarPedido, QuitarPedido, CopiarSinArchivo, Morir
<1>. QED  BY <1>8, <1>9, <1>10, <1>11, <1>12 DEF Next, Viva

\* A suspension begins with its message.
LEMMA SuspensionEmpieza ==
    ASSUME IInv, [Next]_vars, NEW p, Suspendiendo(p)'
    PROVE  Suspendiendo(p) \/ (Suspender_proceso /\ p = Head(socket_kernel).pid)
<1>. USE DEF Suspendiendo
<1>0. kernel \in [pc : {"libre", "crear_archivo", "liberar", "limpiar",
                         "borrar", "limpiar_fin"},
                   pid : Proceso \union {NADIE}, i : Nat,
                   frame : Frame \union {NADIE}, byte : SUBSET Frame]
  BY DEF IInv, Tipos, TipoHilos
<1>1. CASE kernel' = kernel  BY <1>1
<1>2. CASE UNCHANGED vars  BY <1>1, <1>2 DEF vars
<1>3. CASE KernelYCpu
  BY <1>1, <1>3 DEF KernelYCpu, PedirInicializar, Despachar, Bloquear, Desbloquear, Suspender,
              Terminar, Acceso
<1>4. CASE Funciones_cpu
  BY <1>1, <1>4 DEF Funciones_cpu, Entrada1, EntradaPresente, BuscarFrameLibre, TomarFrame,
              Reemplazar, ReemplazarSinPaginas, Traer_a_memoria, ResponderMarco, Lectura,
              Escritura, Marcar, Morir
<1>5. CASE Swap_
  BY <1>1, <1>5 DEF Swap_, TomarPedido, QuitarPedido, CopiarPedido, CopiarSinArchivo, Morir
<1>6. CASE Inicializar_proceso
  <2>1. kernel'.pc = "crear_archivo"  BY <1>6, TrasCrear
  <2>. QED  BY <2>1
<1>7. CASE Suspender_proceso
  <2>1. \E q : q = Head(socket_kernel).pid /\ kernel' = [kernel EXCEPT !.pc = "liberar", !.pid = q]
    BY <1>7 DEF Suspender_proceso
  <2>. QED  BY <1>0, <1>7, <2>1
<1>8. CASE LiberarPagina
  <2>1. /\ kernel.pc = "liberar"
        /\ \E f, b : kernel' = [kernel EXCEPT !.pc = "limpiar", !.frame = f, !.byte = b]
    BY <1>8 DEF LiberarPagina
  <2>. QED  BY <1>0, <2>1
<1>9. CASE LimpiarBit
  <2>1. kernel.pc \in {"limpiar", "limpiar_fin"}
        /\ kernel' = IF kernel.pc = "limpiar"
                 THEN [kernel EXCEPT !.pc = "liberar", !.byte = {}]
                 ELSE [kernel EXCEPT !.pc = "borrar", !.byte = {}, !.i = kernel.i + 1]
    BY <1>9 DEF LimpiarBit
  <2>. QED  BY <1>0, <2>1
<1>10. CASE Crear_archivo_swap \/ FinSuspender \/ Eliminar_archivo_swap
  BY <1>0, <1>10 DEF Crear_archivo_swap, FinSuspender, Eliminar_archivo_swap
<1>11. CASE Finalizar_proceso
  <2>1. \E q : kernel' = [kernel EXCEPT !.pc = "borrar", !.pid = q, !.i = 0]
    BY <1>11 DEF Finalizar_proceso
  <2>. QED  BY <1>0, <2>1
<1>12. CASE BorrarFrame
  <2>1. \E f, b : kernel' = [kernel EXCEPT !.pc = "limpiar_fin", !.frame = f, !.byte = b]
    BY <1>12 DEF BorrarFrame
  <2>. QED  BY <1>0, <2>1
<1>13. CASE Funciones_kernel
  BY <1>1, <1>6, <1>7, <1>8, <1>9, <1>10, <1>11, <1>12, <1>13
     DEF Funciones_kernel, MuereKernel, Morir
<1>. QED  BY <1>2, <1>3, <1>4, <1>5, <1>13 DEF Next, Viva

\* What Vigente says of the page of the access.
LEMMA VigenteEs ==
    cpu.backup_indice_1 = cpu.pid =>
        (Vigente <=> /\ Presente(EntradaPag(cpu.pid, cpu.pag))
                     /\ MarcoDe(EntradaPag(cpu.pid, cpu.pag)) = cpu.marco)
BY EntradaObtenida DEF Vigente, Presente, MarcoDe, Get

\* The access is current after a step in terms of one entry, whatever its number
\* was obtained from.
LEMMA VigenteLuego ==
    ASSUME NEW p, NEW n, NEW e, EntradaPag(p, n)' = e, cpu'.backup_indice_1 = p, cpu'.pid = p,
           cpu'.pag = n
    PROVE  Vigente' <=> Presente(e)' /\ MarcoDe(e)' = cpu'.marco
BY DEF Vigente, Presente, MarcoDe, Get, Obtener_entrada, EntradaPag

\* While the handler waits to mark a page, the page stays where it was, unless
\* a suspension of its process takes it.
LEMMA PaginaDelAcceso ==
    ASSUME IInv, DInv, IndiceInv, [Next]_vars, UNCHANGED cpu, cpu.pc = "marca"
    PROVE  \E p \in Iniciados, n \in Pagina : \E e \in EntradasDe(p) :
           /\ p = cpu.pid /\ n = cpu.pag /\ p \in Proceso /\ e = EntradaPag(p, n)
           /\ (Vigente <=> Presente(e) /\ MarcoDe(e) = cpu.marco)
           /\ (Vigente' <=> Presente(e)' /\ MarcoDe(e)' = cpu.marco)
           /\ MarcoDe(e)' = MarcoDe(e) /\ (Presente(e)' => Presente(e))
           /\ Presente(e) /\ ~ Suspendiendo(p) => Presente(e)'
<1>1. PICK p \in Iniciados, n \in Pagina : p = cpu.pid /\ n = cpu.pag
  BY DEF IndiceInv
<1>2. PICK e \in EntradasDe(p) : e = EntradaPag(p, n)  BY EntradaPagPropia
<1>3. e \in 0 .. Len(tabla_2_l) - 1  BY EntradasTipo
<1>4. Vigente <=> Presente(e) /\ MarcoDe(e) = cpu.marco
  BY <1>1, <1>2, VigenteEs DEF IndiceInv
<1>5. Vigente' <=> Presente(e)' /\ MarcoDe(e)' = cpu.marco
  <2>1. EntradaPag(p, n)' = e  BY <1>2, TablaQueda
  <2>2. cpu'.backup_indice_1 = p /\ cpu'.pid = p /\ cpu'.pag = n
    BY <1>1 DEF IndiceInv
  <2>. QED  BY <2>1, <2>2, VigenteLuego
<1>6. MarcoDe(e)' = MarcoDe(e) /\ (Presente(e)' => Presente(e))  BY <1>3, CpuParada
<1>7. Presente(e) /\ ~ Suspendiendo(p) => Presente(e)'
  <2>1. SUFFICES ASSUME Presente(e), ~ Suspendiendo(p) PROVE Presente(e)'  OBVIOUS
  <2>2. CASE UNCHANGED datos  BY <2>1, <2>2 DEF datos, Presente
  <2>3. CASE Inicializar_proceso
    <3>1. tabla_2_l'[e + 1] = tabla_2_l[e + 1]  BY <1>3, <2>3, TrasCrear
    <3>. QED  BY <2>1, <3>1 DEF Presente
  <2>4. CASE LiberarPagina
    <3>1. PICK n0 \in 0 .. Len(tabla_2_l) - 1 :
           /\ kernel.pid \in Iniciados /\ kernel.pc = "liberar"
           /\ n0 \in EntradasDe(kernel.pid)
           /\ \A m \in 0 .. Len(tabla_2_l) - 1 : (Presente(m)' <=> Presente(m) /\ m # n0)
      BY <2>4, TrasLiberar
    <3>2. kernel.pid # p  BY <2>1, <3>1 DEF Suspendiendo
    <3>3. e # n0
      <4>1. PICK q \in Iniciados : q = kernel.pid  BY <3>1
      <4>. QED  BY <3>1, <3>2, <4>1, EntradasPropias
    <3>. QED  BY <1>3, <2>1, <3>1, <3>3
  <2>5. (~ Marcar /\ ~ Traer_a_memoria) \/ UNCHANGED datos
    BY DEF Marcar, CpuLibre, Traer_a_memoria, Morir, datos, tablas, IInv, Tipos, TipoHilos, TipoCpu
  <2>. QED  BY <2>2, <2>3, <2>4, <2>5, CpuParada, DatosDelPaso
<1>. QED  BY <1>1, <1>2, <1>4, <1>5, <1>6, <1>7, IniciadosProceso

\* A page written and not yet marked is not taken from its frame.
LEMMA MarcaPaso ==
    ASSUME IInv, DInv, IndiceInv, MarcaInv, [Next]_vars
    PROVE  MarcaInv'
<1>0. TipoCpu  BY DEF IInv, Tipos, TipoHilos
<1>1. SUFFICES ASSUME cpu'.pc = "marca", cpu'.op = "WRITE", ~ carrera', NEW q, q = cpu'.pid,
                      fiel'[q][cpu'.pag], estado'[q] # "exit"
      PROVE  Vigente' /\ ~ Suspendiendo(q)'
  BY DEF MarcaInv, Suspendiendo
<1>2. CASE UNCHANGED cpu
  <2>1. cpu.pc = "marca" /\ cpu.op = "WRITE"  BY <1>1, <1>2
  <2>2. PICK p \in Iniciados, n \in Pagina : \E e \in EntradasDe(p) :
           /\ p = cpu.pid /\ n = cpu.pag /\ p \in Proceso /\ e = EntradaPag(p, n)
           /\ (Vigente <=> Presente(e) /\ MarcoDe(e) = cpu.marco)
           /\ (Vigente' <=> Presente(e)' /\ MarcoDe(e)' = cpu.marco)
           /\ MarcoDe(e)' = MarcoDe(e) /\ (Presente(e)' => Presente(e))
           /\ Presente(e) /\ ~ Suspendiendo(p) => Presente(e)'
    BY <1>2, <2>1, PaginaDelAcceso
  <2>3. PICK e \in EntradasDe(p) :
           /\ p = cpu.pid /\ n = cpu.pag /\ p \in Proceso /\ e = EntradaPag(p, n)
           /\ (Vigente <=> Presente(e) /\ MarcoDe(e) = cpu.marco)
           /\ (Vigente' <=> Presente(e)' /\ MarcoDe(e)' = cpu.marco)
           /\ MarcoDe(e)' = MarcoDe(e) /\ (Presente(e)' => Presente(e))
           /\ Presente(e) /\ ~ Suspendiendo(p) => Presente(e)'
    BY ONLY <2>2
  <2>5. ~ Escritura  BY <2>1 DEF Escritura
  <2>6. fiel'[p][n] /\ fiel[p][n] /\ estado[p] # "exit" /\ ~ carrera
    BY <1>1, <1>2, <2>3, <2>5, FielBaja, EstadoAvanza, CarreraQueda
  <2>7. Vigente /\ ~ Suspendiendo(p)  BY <2>1, <2>3, <2>6 DEF MarcaInv
  <2>8. ~ Suspendiendo(p)'
    <3>1. SUFFICES ASSUME Suspendiendo(p)' PROVE FALSE  OBVIOUS
    <3>2. Suspender_proceso /\ p = Head(socket_kernel).pid
      BY <2>7, <3>1, SuspensionEmpieza
    <3>3. PICK r : Encolar(r, SinMarcar(p))  BY <3>2 DEF Suspender_proceso
    <3>4. SinMarcar(p) = {e}
      <4>1. Obtener_entrada(cpu.pag) = e
        BY <2>1, <2>3, EntradaObtenida DEF IndiceInv
      <4>. QED  BY <2>1, <2>3, <4>1 DEF SinMarcar
    <3>5. PICK ns : fiel' = FielSin(ns) /\ e \in ns
      <4>1. fiel' = FielSin({e}) \/ fiel' = FielSin({e} \union ToSet(r.entradas))
        BY <3>3, <3>4 DEF Encolar, Dudosas
      <4>2. PICK n1, n2 : n1 = {e} /\ n2 = {e} \union ToSet(r.entradas)  OBVIOUS
      <4>3. e \in n1 /\ e \in n2  BY <4>2
      <4>4. fiel' = FielSin(n1) \/ fiel' = FielSin(n2)  BY ONLY <4>1, <4>2
      <4>. QED  BY ONLY <4>3, <4>4
    <3>. QED  BY <2>3, <2>6, <3>5, FielTras
  <2>9. p = q  BY <1>1, <1>2, <2>3
  <2>. QED  BY <2>3, <2>7, <2>8, <2>9
<1>3. CASE Escritura
  <2>1. /\ cpu' = [cpu EXCEPT !.pc = "marca"] /\ cpu.pc = "memcpy"
        /\ UNCHANGED <<tabla_1_l, tabla_2_l, kernel>>
        /\ fiel' = [FielSin(EnMarco(cpu.marco)) EXCEPT ![cpu.pid][cpu.pag] =
                   Vigente /\ ~ Suspendiendo(cpu.pid)]
    BY <1>3 DEF Escritura, tablas
  <2>2. PICK p \in Iniciados, n \in Pagina : p = cpu.pid /\ n = cpu.pag /\ p \in Proceso
    BY <2>1 DEF IInv, CpuInv, LlegadaInv, SinIniciar, Ejecuta
  <2>3. cpu'.pid = p /\ cpu'.pag = n /\ cpu'.marco = cpu.marco
        /\ cpu'.backup_indice_1 = cpu.backup_indice_1
    BY <1>0, <2>1, <2>2 DEF TipoCpu
  <2>4. fiel'[p][n] = (Vigente /\ ~ Suspendiendo(p))
    <3>1. PICK g : g = FielSin(EnMarco(cpu.marco))  OBVIOUS
    <3>2. p \in DOMAIN g /\ n \in DOMAIN g[p]  BY <2>2, <3>1 DEF FielSin
    <3>3. PICK v : v = (Vigente /\ ~ Suspendiendo(p))  OBVIOUS
    <3>4. fiel' = [g EXCEPT ![p][n] = v]  BY <2>1, <2>2, <3>1, <3>3
    <3>5. fiel'[p][n] = v  BY ONLY <3>2, <3>4
    <3>. QED  BY <3>3, <3>5
  <2>5. Vigente /\ ~ Suspendiendo(p)  BY <1>1, <2>3, <2>4
  <2>6. Vigente'
    BY <2>1, <2>3, <2>5 DEF Vigente, Obtener_entrada, Get
  <2>7. ~ Suspendiendo(p)'  BY <2>1, <2>5 DEF Suspendiendo
  <2>8. p = q  BY <1>1, <2>3
  <2>. QED  BY <2>6, <2>7, <2>8
<1>4. CASE Lectura
  <2>1. /\ \E v : cpu' = [cpu EXCEPT !.pc = "marca", !.valor = v]
        /\ cpu.op = "READ"
    BY <1>4 DEF Lectura
  <2>2. cpu'.op = "READ"  BY <1>0, <2>1 DEF TipoCpu
  <2>. QED  BY <1>1, <2>2
<1>5. ~ TomarFrame /\ ~ Reemplazar
  <2>1. cpu'.pc = "marca"  BY <1>1
  <2>. QED  BY <2>1, LlegaLimpia
<1>. QED  BY <1>1, <1>2, <1>3, <1>4, <1>5, PasosDelAcceso

\* What the CPU has read is the last word written, as long as it waits.
LEMMA LecturaPaso ==
    ASSUME IInv, DInv, PalabrasInv, [Next]_vars
    PROVE  LecturaFiel'
<1>0. TipoCpu /\ IndiceInv /\ LecturaFiel /\ SitioInv
  BY DEF IInv, Tipos, TipoHilos, PalabrasInv
<1>1. SUFFICES ASSUME cpu'.pc = "marca", cpu'.op = "READ", Vigente', fiel'[cpu'.pid][cpu'.pag],
                      ~ carrera'
      PROVE  cpu'.valor = escrito'[cpu'.pid][cpu'.pag]
  BY DEF LecturaFiel
<1>2. CASE UNCHANGED cpu
  <2>1. cpu.pc = "marca" /\ cpu.op = "READ"  BY <1>1, <1>2
  <2>2. PICK p \in Iniciados, n \in Pagina : \E e \in EntradasDe(p) :
           /\ p = cpu.pid /\ n = cpu.pag /\ p \in Proceso /\ e = EntradaPag(p, n)
           /\ (Vigente <=> Presente(e) /\ MarcoDe(e) = cpu.marco)
           /\ (Vigente' <=> Presente(e)' /\ MarcoDe(e)' = cpu.marco)
           /\ MarcoDe(e)' = MarcoDe(e) /\ (Presente(e)' => Presente(e))
    BY <1>0, <1>2, <2>1, PaginaDelAcceso
  <2>3. Vigente' => Vigente
    BY ONLY <2>2
  <2>4. ~ Escritura  BY <2>1 DEF Escritura
  <2>5. escrito' = escrito /\ fiel[p][n] /\ ~ carrera
    BY <1>1, <1>2, <2>2, <2>4, FielBaja, CarreraQueda
  <2>. QED  BY <1>0, <1>1, <1>2, <2>1, <2>2, <2>3, <2>5 DEF LecturaFiel
<1>3. CASE Lectura
  <2>1. /\ cpu' = [cpu EXCEPT !.pc = "marca", !.valor = memoria[cpu.marco]]
        /\ cpu.pc = "memcpy"
        /\ UNCHANGED <<tabla_1_l, tabla_2_l, fiel, escrito, carrera>>
    BY <1>3 DEF Lectura, tablas, historia
  <2>2. PICK p \in Iniciados, n \in Pagina : p = cpu.pid /\ n = cpu.pag /\ p \in Proceso
           /\ estado[p] = "exec"
    BY <2>1 DEF IInv, CpuInv, LlegadaInv, SinIniciar, Ejecuta
  <2>3. cpu'.pid = p /\ cpu'.pag = n /\ cpu'.marco = cpu.marco
        /\ cpu'.backup_indice_1 = cpu.backup_indice_1 /\ cpu'.valor = memoria[cpu.marco]
    BY <1>0, <2>1, <2>2 DEF TipoCpu
  <2>4. PICK e : e = EntradaPag(p, n)  OBVIOUS
  <2>5. Vigente
    BY <1>1, <2>1, <2>3 DEF Vigente, Obtener_entrada, Get
  <2>6. Presente(e) /\ MarcoDe(e) = cpu.marco
    BY <1>0, <2>1, <2>2, <2>4, <2>5, VigenteEs DEF IndiceInv
  <2>7. PICK w : w = escrito[p][n]  OBVIOUS
  <2>8. EnSuSitio(p, n, e, w)
    BY <1>0, <1>1, <2>1, <2>2, <2>3, <2>4, <2>7 DEF SitioInv
  <2>9. ~ Llegando(e)  BY <2>1 DEF Llegando
  <2>10. memoria[MarcoDe(e)] = w  BY <2>6, <2>8, <2>9 DEF EnSuSitio
  <2>. QED  BY <2>1, <2>3, <2>6, <2>7, <2>10
<1>4. CASE Escritura
  <2>1. cpu' = [cpu EXCEPT !.pc = "marca"] /\ cpu.op = "WRITE"
    BY <1>4 DEF Escritura
  <2>2. cpu'.op = "WRITE"  BY <1>0, <2>1 DEF TipoCpu
  <2>. QED  BY <1>1, <2>2
<1>5. ~ TomarFrame /\ ~ Reemplazar
  <2>1. cpu'.pc = "marca"  BY <1>1
  <2>. QED  BY <2>1, LlegaLimpia
<1>. QED  BY <1>1, <1>2, <1>3, <1>4, <1>5, PasosDelAcceso

\* Page n of p, whose entry is e, has word w and nothing has happened to lose it.
EsPalabra(p, n, e, w) ==
    /\ p \in Iniciados /\ p \in Proceso /\ n \in Pagina
    /\ e = EntradaPag(p, n) /\ e \in EntradasDe(p) /\ e \in 0 .. Len(tabla_2_l) - 1
    /\ fiel[p][n] /\ estado[p] # "exit" /\ ~ carrera
    /\ EnSuSitio(p, n, e, w)

\* The turns of the requests.
LEMMA TurnosNat ==
    ASSUME DInv
    PROVE  /\ Turnos \subseteq Nat
           /\ \E l \in Nat : l = Len(pedidos_swap_l) /\ DOMAIN pedidos_swap_l = 1 .. l
BY DEF Turnos, DInv, SwapTipo

\* What is guarded stays so when only swap_ goes on to take a request.
LEMMA GuardadaMisma ==
    ASSUME DInv,
           NEW p, NEW e, NEW w, Guardada(p, e, w), UNCHANGED <<pedidos_swap_l, archivo>>,
           UNCHANGED swap \/ (swap.pc # "copiar" /\ swap'.pc # "copiar")
    PROVE  Guardada(p, e, w)'
<1>1. Turnos' = Turnos  BY DEF Turnos
<1>2. ASSUME NEW i \in Turnos PROVE PedidoEn(i)' = PedidoEn(i)
  <2>1. CASE UNCHANGED swap  BY <2>1 DEF PedidoEn
  <2>2. CASE swap.pc # "copiar" /\ i # 0  BY <2>2 DEF PedidoEn
  <2>3. swap.pc # "copiar" => i # 0  BY TurnosNat DEF Turnos
  <2>. QED  BY <2>1, <2>2, <2>3
<1>. QED  BY <1>1, <1>2, GuardadaQueda

\* The steps that do not touch the page or its word.
LEMMA SitioDeQuietos ==
    ASSUME DInv, NEW p, NEW n, NEW e, NEW w, EsPalabra(p, n, e, w),
           UNCHANGED <<tabla_2_l, memoria, archivo, pedidos_swap_l>>,
           UNCHANGED swap \/ (swap.pc # "copiar" /\ swap'.pc # "copiar"),
           UNCHANGED cpu \/ cpu.pc \notin {"traer", "marca"},
           Suspendiendo(p)' => Suspendiendo(p)
    PROVE  EnSuSitio(p, n, e, w)'
<1>1. EnSuSitio(p, n, e, w)  BY DEF EsPalabra
<1>2. Guardada(p, e, w) => Guardada(p, e, w)'  BY GuardadaMisma
<1>3. (Llegando(e) => Llegando(e)') /\ (Escrita(p, n) => Escrita(p, n)')
  BY DEF Llegando, Escrita
<1>4. (Presente(e)' <=> Presente(e)) /\ MarcoDe(e)' = MarcoDe(e)
  BY DEF Presente, MarcoDe
<1>. QED  BY <1>1, <1>2, <1>3, <1>4, SitioQuieto

\* swap_ removes from the list the request that it has taken.
LEMMA SitioAlQuitar ==
    ASSUME DInv, NEW p, NEW n, NEW e, NEW w, EsPalabra(p, n, e, w), QuitarPedido
    PROVE  EnSuSitio(p, n, e, w)'
<1>1. EnSuSitio(p, n, e, w)  BY DEF EsPalabra
<1>2. /\ swap.pc = "quitar" /\ pedidos_swap_l' = Tail(pedidos_swap_l)
      /\ swap' = [swap EXCEPT !.pc = "copiar"]
      /\ UNCHANGED <<tabla_2_l, memoria, archivo, cpu, kernel>>
  BY DEF QuitarPedido
<1>3. /\ pedidos_swap_l # <<>> /\ swap.pedido = pedidos_swap_l[1]
      /\ swap \in [pc : {"quitar", "copiar"}, pedido : TipoPedido]
      /\ pedidos_swap_l \in Seq(TipoPedido)
  BY <1>2 DEF DInv, SwapTipo
<1>4. swap'.pc = "copiar" /\ swap'.pedido = pedidos_swap_l[1]
  BY <1>2, <1>3
<1>5. PICK l \in Nat : l = Len(pedidos_swap_l) /\ DOMAIN pedidos_swap_l = 1 .. l /\ l > 0
  BY <1>3
<1>6. /\ DOMAIN pedidos_swap_l' = 1 .. l - 1
      /\ \A i \in 1 .. l - 1 : pedidos_swap_l'[i] = pedidos_swap_l[i + 1]
  BY <1>2, <1>3, <1>5
<1>7. Turnos = 1 .. l  BY <1>2, <1>5 DEF Turnos
<1>8. Turnos' = 0 .. l - 1
  <2>1. Turnos' = (1 .. l - 1) \union {0}  BY <1>4, <1>6 DEF Turnos
  <2>. QED  BY <1>5, <2>1
<1>9. ASSUME NEW i \in 0 .. l - 1 PROVE PedidoEn(i)' = PedidoEn(i + 1)
  <2>1. CASE i = 0  BY <1>4, <2>1 DEF PedidoEn
  <2>2. CASE i # 0
    <3>1. i \in 1 .. l - 1 /\ i + 1 # 0  BY <2>2
    <3>. QED  BY <1>6, <2>2, <3>1 DEF PedidoEn
  <2>. QED  BY <2>1, <2>2
<1>10. Guardada(p, e, w) => Guardada(p, e, w)'
  BY <1>2, <1>7, <1>8, <1>9, GuardadaTrasQuitar
<1>11. (Llegando(e) => Llegando(e)') /\ (Escrita(p, n) => Escrita(p, n)')
       /\ (Suspendiendo(p)' => Suspendiendo(p))
  BY <1>2 DEF Llegando, Escrita, Suspendiendo
<1>12. (Presente(e)' <=> Presente(e)) /\ MarcoDe(e)' = MarcoDe(e)
  BY <1>2 DEF Presente, MarcoDe
<1>. QED  BY <1>1, <1>2, <1>10, <1>11, <1>12, SitioQuieto

\* A request for marked pages says of each the word that it has in memory.
LEMMA DiceAlPedir ==
    ASSUME IInv, DInv, TraidaInv, NEW q \in Iniciados, NEW ys \in Parcial(Nat),
           \A k \in DOMAIN ys : /\ \E j \in Posiciones(q) : ys[k] = PagMem(q)[j]
                                /\ EntradaDe(ys[k]).bMod = 1,
           NEW p, NEW n, NEW e, NEW w, EnSuSitio(p, n, e, w)
    PROVE  /\ Dice(Pedido(q, ys), e, w)
           /\ Menciona(Pedido(q, ys), e) <=> \E k \in DOMAIN ys : paginas[ys[k]].entrada = e
           /\ Pedido(q, ys) \in TipoPedido /\ PedidoDe(q, Pedido(q, ys))
<1>1. PICK r : r = Pedido(q, ys)  OBVIOUS
<1>2. /\ r \in TipoPedido /\ PedidoDe(q, r) /\ DOMAIN r.entradas = DOMAIN ys
      /\ \A k \in DOMAIN ys :
            /\ r.entradas[k] = paginas[ys[k]].entrada
            /\ r.palabras[k] = memoria[MarcoDe(paginas[ys[k]].entrada)]
            /\ Presente(paginas[ys[k]].entrada)
  BY <1>1, PedidoBien DEF DInv
<1>3. ASSUME NEW k \in DOMAIN r.entradas, r.entradas[k] = e PROVE r.palabras[k] = w
  <2>1. k \in DOMAIN ys /\ paginas[ys[k]].entrada = e /\ Presente(e)
        /\ r.palabras[k] = memoria[MarcoDe(e)]
    BY <1>2, <1>3
  <2>2. tabla_2_l[e + 1].bMod = 1
    BY <2>1 DEF EntradaDe, Get
  <2>3. ~ Llegando(e)  BY <2>2 DEF TraidaInv, Llegando
  <2>. QED  BY <2>1, <2>3 DEF EnSuSitio
<1>4. Dice(r, e, w)  BY <1>3 DEF Dice
<1>5. Menciona(r, e) <=> \E k \in DOMAIN ys : paginas[ys[k]].entrada = e
  BY <1>2 DEF Menciona
<1>. QED  BY <1>1, <1>2, <1>4, <1>5

\* A page that is still faithful after a request is guarded, in it or before it.
LEMMA GuardadaAlEncolar ==
    ASSUME IInv, DInv, NEW r, NEW ns, Encolar(r, ns), UNCHANGED <<swap, archivo>>,
           NEW p, NEW n, NEW e, NEW w, EsPalabra(p, n, e, w), fiel'[p][n],
           Dice(r, e, w), Menciona(r, e) \/ Guardada(p, e, w)
    PROVE  Guardada(p, e, w)'
<1>1. p \in Iniciados /\ p \in Proceso /\ n \in Pagina /\ e = EntradaPag(p, n)
  BY DEF EsPalabra
<1>2. CASE pedidos_swap_l' = Append(pedidos_swap_l, r)
  <2>1. PICK l \in Nat : l = Len(pedidos_swap_l) /\ DOMAIN pedidos_swap_l = 1 .. l
    BY TurnosNat
  <2>2. /\ DOMAIN pedidos_swap_l' = 1 .. l + 1
        /\ \A i \in 1 .. l : pedidos_swap_l'[i] = pedidos_swap_l[i]
        /\ pedidos_swap_l'[l + 1] = r
    <3>1. pedidos_swap_l \in Seq(TipoPedido)  BY DEF DInv, SwapTipo
    <3>2. pedidos_swap_l \in Seq(TipoPedido \union {r}) /\ r \in TipoPedido \union {r}
      BY <3>1, <2>1
    <3>. QED  BY <1>2, <2>1, <3>2, AppendProperties
  <2>3. Turnos \subseteq 0 .. (l + 1) - 1  BY <2>1 DEF Turnos
  <2>4. Turnos' = Turnos \union {l + 1}
    <3>1. DOMAIN pedidos_swap_l' = DOMAIN pedidos_swap_l \union {l + 1}  BY <2>1, <2>2
    <3>. QED  BY <3>1 DEF Turnos
  <2>5. \A i \in Turnos : PedidoEn(i)' = PedidoEn(i)
    <3>1. \A i \in Turnos : i = 0 \/ i \in 1 .. l  BY <2>1 DEF Turnos
    <3>. QED  BY <2>2, <3>1 DEF PedidoEn
  <2>6. PedidoEn(l + 1)' = r  BY <2>2 DEF PedidoEn
  <2>7. l + 1 \in Nat  OBVIOUS
  <2>8. UNCHANGED archivo  OBVIOUS
  <2>. QED  BY <2>3, <2>4, <2>5, <2>6, <2>7, <2>8, GuardadaTrasEncolar
<1>3. CASE pedidos_swap_l' = pedidos_swap_l /\ Dudosas(ns \union ToSet(r.entradas))
  <2>1. PICK ms : ms = ns \union ToSet(r.entradas)  OBVIOUS
  <2>2. fiel' = FielSin(ms)  BY <1>3, <2>1 DEF Dudosas
  <2>3. e \notin ms  BY <1>1, <2>2, FielTras
  <2>4. ~ Menciona(r, e)
    <3>1. \A k \in DOMAIN r.entradas : r.entradas[k] \in ToSet(r.entradas)  BY DEF ToSet
    <3>. QED  BY <2>1, <2>3, <3>1 DEF Menciona
  <2>. QED  BY <1>3, <2>4, GuardadaMisma
<1>. QED  BY <1>2, <1>3 DEF Encolar

\* A suspension asks for the pages it is about to free.
LEMMA SitioAlSuspender ==
    ASSUME IInv, DInv, TraidaInv, NEW p, NEW n, NEW e, NEW w, EsPalabra(p, n, e, w),
           Suspender_proceso, fiel'[p][n]
    PROVE  EnSuSitio(p, n, e, w)'
<1>1. EnSuSitio(p, n, e, w) /\ p \in Iniciados /\ e \in EntradasDe(p)  BY DEF EsPalabra
<1>2. PICK q \in Iniciados :
           LET xs == PagMem(q)
               ms == {k \in DOMAIN xs : EntradaDe(xs[k]).bMod = 1}
               ys == Restrict(xs, ms) IN
           /\ q = Head(socket_kernel).pid /\ Recibe("SUSPENDER_PROCESO")
           /\ ys \in Parcial(Nat) /\ DOMAIN ys = ms
           /\ \A k \in DOMAIN ys : k \in Posiciones(q) /\ ys[k] = PagMem(q)[k]
           /\ Encolar(Pedido(q, ys), SinMarcar(q))
           /\ kernel'.pc = "liberar" /\ kernel'.pid = q
  BY PedidoAlSuspender
<1>3. PICK ys : ys = Restrict(PagMem(q), {k \in Posiciones(q) : EntradaDe(PagMem(q)[k]).bMod = 1})
  OBVIOUS
<1>4. /\ ys \in Parcial(Nat)
      /\ DOMAIN ys = {k \in Posiciones(q) : EntradaDe(PagMem(q)[k]).bMod = 1}
      /\ \A k \in DOMAIN ys : k \in Posiciones(q) /\ ys[k] = PagMem(q)[k]
      /\ Encolar(Pedido(q, ys), SinMarcar(q))
      /\ kernel'.pc = "liberar" /\ kernel'.pid = q
  BY <1>2, <1>3 DEF Posiciones
<1>5. UNCHANGED <<tabla_2_l, memoria, archivo, swap, cpu>>
  BY DEF Suspender_proceso
<1>6. /\ Dice(Pedido(q, ys), e, w)
      /\ Menciona(Pedido(q, ys), e) <=> \E k \in DOMAIN ys : paginas[ys[k]].entrada = e
  <2>1. \A k \in DOMAIN ys : /\ \E j \in Posiciones(q) : ys[k] = PagMem(q)[j]
                             /\ EntradaDe(ys[k]).bMod = 1
    BY <1>4
  <2>. QED  BY <1>1, <1>4, <2>1, DiceAlPedir
<1>7. Menciona(Pedido(q, ys), e) \/ Guardada(p, e, w) => Guardada(p, e, w)'
  BY <1>4, <1>5, <1>6, GuardadaAlEncolar
<1>8. /\ Presente(e)' /\ ~ Llegando(e)' => memoria'[MarcoDe(e)'] = w
      /\ Escrita(p, n) => Escrita(p, n)'
  BY <1>1, <1>5 DEF EnSuSitio, Presente, MarcoDe, Llegando, Escrita
<1>9. CASE Modificada(p, e) /\ p = q
  <2>1. Presente(e) /\ tabla_2_l[e + 1].bMod = 1  BY <1>9 DEF Modificada
  <2>2. ~ Llega(e)  BY <2>1 DEF Llega, IInv, CpuInv, TraidaInv
  <2>3. e \in Listadas(p)  BY <1>1, <2>1, <2>2 DEF IInv, PaginasInv
  <2>4. PICK k \in Posiciones(p) : e = EntradaDePag(p, k)  BY <2>3 DEF Listadas
  <2>5. EntradaDe(PagMem(p)[k]) = tabla_2_l[e + 1] /\ e = paginas[PagMem(p)[k]].entrada
    BY <1>1, <2>4, EntradaListada
  <2>6. k \in DOMAIN ys /\ paginas[ys[k]].entrada = e
    BY <1>4, <1>9, <2>1, <2>4, <2>5
  <2>7. Guardada(p, e, w)'  BY <1>6, <1>7, <2>6
  <2>. QED  BY <1>8, <2>7 DEF EnSuSitio
<1>10. CASE Modificada(p, e) /\ p # q
  <2>1. Modificada(p, e)'  BY <1>4, <1>5, <1>10 DEF Modificada, Presente, Suspendiendo
  <2>. QED  BY <1>8, <2>1 DEF EnSuSitio
<1>11. CASE Guardada(p, e, w)  BY <1>7, <1>8, <1>11 DEF EnSuSitio
<1>12. CASE Escrita(p, n)  BY <1>8, <1>12 DEF EnSuSitio
<1>. QED  BY <1>1, <1>9, <1>10, <1>11, <1>12 DEF EnSuSitio

\* page_fault takes the frame of a page, and asks for its word if it is marked.
LEMMA SitioAlReemplazar ==
    ASSUME IInv, DInv, TraidaInv, NEW p, NEW n, NEW e, NEW w, EsPalabra(p, n, e, w),
           Reemplazar, fiel'[p][n]
    PROVE  EnSuSitio(p, n, e, w)'
<1>1. EnSuSitio(p, n, e, w) /\ p \in Iniciados /\ e \in 0 .. Len(tabla_2_l) - 1
  BY DEF EsPalabra
<1>2. PICK q \in Iniciados : \E j0 \in Posiciones(q) :
         \E u \in EntradasDe(q), v \in EntradasDe(q) : Reemplaza(q, j0, u, v)
  BY TrasReemplazar
<1>3. PICK j0 \in Posiciones(q), u \in EntradasDe(q), v \in EntradasDe(q) :
         Reemplaza(q, j0, u, v)
  BY ONLY <1>2
<1>4. /\ ~ Presente(u) /\ v = EntradaDePag(q, j0) /\ cpu.pc = "entrada2"
      /\ cpu' = [cpu EXCEPT !.pc = "traer", !.numero = u, !.marco = MarcoDe(v),
                            !.nueva = NADIE]
      /\ tabla_2_l'[v + 1].bPres = 0
      /\ \A m \in 0 .. Len(tabla_2_l) - 1 : m # u =>
            /\ tabla_2_l'[m + 1].frame = tabla_2_l[m + 1].frame
            /\ tabla_2_l'[m + 1].bMod = tabla_2_l[m + 1].bMod
            /\ m # v => tabla_2_l'[m + 1].bPres = tabla_2_l[m + 1].bPres
      /\ UNCHANGED <<memoria, archivo, swap, kernel>>
  BY <1>3 DEF Reemplaza
<1>5. IF tabla_2_l[v + 1].bMod = 1
      THEN Encolar(Pedido(q, <<PagMem(q)[j0]>>), {})
      ELSE UNCHANGED <<pedidos_swap_l, s_swap, sinCopiar, fiel>>
  BY <1>3 DEF Reemplaza
<1>6. cpu'.pc = "traer" /\ cpu'.numero = u
  BY <1>4 DEF IInv, Tipos, TipoHilos, TipoCpu
<1>7. ~ Llegando(e) /\ ~ Escrita(p, n)  BY <1>4 DEF Llegando, Escrita
<1>8. ASSUME Guardada(p, e, w) \/ (e = v /\ tabla_2_l[v + 1].bMod = 1)
      PROVE  Guardada(p, e, w)'
  <2>1. CASE tabla_2_l[v + 1].bMod # 1
    BY <1>4, <1>5, <1>8, <2>1, GuardadaMisma
  <2>2. CASE tabla_2_l[v + 1].bMod = 1
    <3>1. PICK ys : ys = <<PagMem(q)[j0]>>  OBVIOUS
    <3>2. ys \in Parcial(Nat) /\ DOMAIN ys = {1} /\ ys[1] = PagMem(q)[j0]
      BY <3>1, PedidoAlReemplazar
    <3>3. EntradaDe(PagMem(q)[j0]) = tabla_2_l[v + 1] /\ v = paginas[PagMem(q)[j0]].entrada
      BY <1>4, EntradaListada
    <3>4. \A k \in DOMAIN ys : /\ \E j \in Posiciones(q) : ys[k] = PagMem(q)[j]
                               /\ EntradaDe(ys[k]).bMod = 1
      BY <2>2, <3>2, <3>3
    <3>5. /\ Dice(Pedido(q, ys), e, w)
          /\ Menciona(Pedido(q, ys), e) <=> \E k \in DOMAIN ys : paginas[ys[k]].entrada = e
      BY <1>1, <3>2, <3>4, DiceAlPedir
    <3>6. Menciona(Pedido(q, ys), e) \/ Guardada(p, e, w)
      BY <1>8, <3>2, <3>3, <3>5
    <3>7. Encolar(Pedido(q, ys), {})  BY <1>5, <2>2, <3>1
    <3>. QED  BY <1>4, <3>5, <3>6, <3>7, GuardadaAlEncolar
  <2>. QED  BY <2>1, <2>2
<1>9. CASE e = u
  <2>1. Guardada(p, e, w)  BY <1>1, <1>4, <1>7, <1>9 DEF EnSuSitio, Modificada
  <2>2. Guardada(p, e, w)' /\ Llegando(e)'  BY <1>6, <1>8, <1>9, <2>1 DEF Llegando
  <2>. QED  BY <2>2 DEF EnSuSitio
<1>10. CASE e # u /\ e = v
  <2>1. ~ Presente(e)'  BY <1>4, <1>10 DEF Presente
  <2>2. Guardada(p, e, w)'  BY <1>1, <1>7, <1>8, <1>10 DEF EnSuSitio, Modificada
  <2>. QED  BY <2>1, <2>2 DEF EnSuSitio
<1>11. CASE e # u /\ e # v
  <2>1. /\ Presente(e)' <=> Presente(e)
        /\ MarcoDe(e)' = MarcoDe(e) /\ tabla_2_l'[e + 1].bMod = tabla_2_l[e + 1].bMod
    BY <1>1, <1>4, <1>11 DEF Presente, MarcoDe
  <2>2. Suspendiendo(p)' <=> Suspendiendo(p)  BY <1>4 DEF Suspendiendo
  <2>. QED  BY <1>1, <1>4, <1>7, <1>8, <2>1, <2>2, SitioQuieto
<1>. QED  BY <1>9, <1>10, <1>11

\* page_fault gives a free frame to a page that is not in memory.
LEMMA SitioAlTomar ==
    ASSUME IInv, DInv, NEW p, NEW n, NEW e, NEW w, EsPalabra(p, n, e, w), TomarFrame
    PROVE  EnSuSitio(p, n, e, w)'
<1>1. EnSuSitio(p, n, e, w) /\ p \in Iniciados /\ e \in 0 .. Len(tabla_2_l) - 1
  BY DEF EsPalabra
<1>2. PICK u : u = cpu.numero  OBVIOUS
<1>3. /\ cpu.pc = "tomar" /\ ~ Presente(u)
      /\ cpu' = [cpu EXCEPT !.pc = "traer", !.byte = {}, !.nueva = Len(paginas) + 1]
      /\ \A m \in 0 .. Len(tabla_2_l) - 1 : m # u => tabla_2_l'[m + 1] = tabla_2_l[m + 1]
      /\ UNCHANGED <<memoria, enSwap, kernel, swap>>
  BY <1>2, TrasTomar
<1>4. cpu'.pc = "traer" /\ cpu'.numero = u
  BY <1>2, <1>3 DEF IInv, Tipos, TipoHilos, TipoCpu
<1>5. ~ Llegando(e) /\ ~ Escrita(p, n)  BY <1>3 DEF Llegando, Escrita
<1>6. Guardada(p, e, w) => Guardada(p, e, w)'  BY <1>3, GuardadaMisma DEF enSwap
<1>7. CASE e = u
  <2>1. Guardada(p, e, w)  BY <1>1, <1>3, <1>5, <1>7 DEF EnSuSitio, Modificada
  <2>2. Llegando(e)'  BY <1>4, <1>7 DEF Llegando
  <2>. QED  BY <1>6, <2>1, <2>2 DEF EnSuSitio
<1>8. CASE e # u
  <2>1. /\ Presente(e)' <=> Presente(e)
        /\ MarcoDe(e)' = MarcoDe(e) /\ tabla_2_l'[e + 1].bMod = tabla_2_l[e + 1].bMod
    BY <1>1, <1>3, <1>8 DEF Presente, MarcoDe
  <2>2. Suspendiendo(p)' <=> Suspendiendo(p)  BY <1>3 DEF Suspendiendo
  <2>. QED  BY <1>1, <1>3, <1>5, <1>6, <2>1, <2>2, SitioQuieto
<1>. QED  BY <1>7, <1>8

\* A suspension frees a page.
LEMMA SitioAlLiberar ==
    ASSUME IInv, DInv, NEW p, NEW n, NEW e, NEW w, EsPalabra(p, n, e, w), LiberarPagina
    PROVE  EnSuSitio(p, n, e, w)'
<1>1. EnSuSitio(p, n, e, w) /\ p \in Iniciados /\ e \in EntradasDe(p)
      /\ e \in 0 .. Len(tabla_2_l) - 1
  BY DEF EsPalabra
<1>2. PICK n0 \in 0 .. Len(tabla_2_l) - 1 :
         /\ kernel.pid \in Iniciados /\ kernel.pc = "liberar"
         /\ n0 \in EntradasDe(kernel.pid)
         /\ \A m \in 0 .. Len(tabla_2_l) - 1 :
               /\ (Presente(m)' <=> Presente(m) /\ m # n0)
               /\ MarcoDe(m)' = MarcoDe(m)
               /\ tabla_2_l'[m + 1].bMod = tabla_2_l[m + 1].bMod
         /\ kernel'.pc = "limpiar" /\ kernel'.pid = kernel.pid
         /\ UNCHANGED <<memoria, enSwap, swap, cpu>>
  BY TrasLiberar
<1>3. Guardada(p, e, w) => Guardada(p, e, w)'  BY <1>2, GuardadaMisma DEF enSwap
<1>4. (Llegando(e)' <=> Llegando(e)) /\ (Escrita(p, n)' <=> Escrita(p, n))
      /\ (Suspendiendo(p)' <=> Suspendiendo(p))
  BY <1>2 DEF Llegando, Escrita, Suspendiendo
<1>5. CASE e = n0
  <2>1. p = kernel.pid
    <3>1. PICK q \in Iniciados : q = kernel.pid  BY <1>2
    <3>. QED  BY <1>1, <1>2, <1>5, <3>1, EntradasPropias
  <2>2. ~ Modificada(p, e)  BY <1>2, <2>1 DEF Modificada, Suspendiendo
  <2>3. ~ Presente(e)'  BY <1>2, <1>5
  <2>. QED  BY <1>1, <1>3, <1>4, <2>2, <2>3 DEF EnSuSitio
<1>6. CASE e # n0
  <2>1. /\ Presente(e)' <=> Presente(e)
        /\ MarcoDe(e)' = MarcoDe(e) /\ tabla_2_l'[e + 1].bMod = tabla_2_l[e + 1].bMod
    BY <1>1, <1>2, <1>6
  <2>. QED  BY <1>1, <1>2, <1>3, <1>4, <2>1, SitioQuieto
<1>. QED  BY <1>5, <1>6

\* A page that has been written is marked as modified.
LEMMA SitioAlMarcar ==
    ASSUME IInv, DInv, IndiceInv, MarcaInv, NEW p, NEW n, NEW e, NEW w,
           EsPalabra(p, n, e, w), Marcar
    PROVE  EnSuSitio(p, n, e, w)'
<1>1. EnSuSitio(p, n, e, w) /\ e = EntradaPag(p, n) /\ e \in 0 .. Len(tabla_2_l) - 1
      /\ fiel[p][n] /\ estado[p] # "exit" /\ ~ carrera
  BY DEF EsPalabra
<1>2. PICK u : u = Obtener_entrada(cpu.pag)  OBVIOUS
<1>3. /\ cpu.pc = "marca"
      /\ \A m \in 0 .. Len(tabla_2_l) - 1 :
            tabla_2_l'[m + 1].bMod = IF m + 1 = u + 1 /\ cpu.op = "WRITE" THEN 1
                                     ELSE tabla_2_l[m + 1].bMod
      /\ \A m : MarcoDe(m)' = MarcoDe(m) /\ (Presente(m)' <=> Presente(m))
      /\ UNCHANGED <<memoria, enSwap, kernel, swap>>
  BY <1>2, TrasMarcar
<1>4. Guardada(p, e, w) => Guardada(p, e, w)'  BY <1>3, GuardadaMisma DEF enSwap
<1>5. ~ Llegando(e) /\ (Suspendiendo(p)' <=> Suspendiendo(p))
  BY <1>3 DEF Llegando, Suspendiendo
<1>6. Modificada(p, e) => Modificada(p, e)'
  BY <1>1, <1>3, <1>5 DEF Modificada
<1>7. Escrita(p, n) => Modificada(p, e)'
  <2>1. SUFFICES ASSUME Escrita(p, n) PROVE Modificada(p, e)'  OBVIOUS
  <2>2. cpu.op = "WRITE" /\ cpu.pid = p /\ cpu.pag = n  BY <2>1 DEF Escrita
  <2>3. u = e  BY <1>1, <1>2, <1>3, <2>2, EntradaObtenida DEF IndiceInv
  <2>4. Vigente /\ ~ Suspendiendo(p)  BY <1>1, <1>3, <2>2 DEF MarcaInv
  <2>5. Presente(e)  BY <1>1, <1>3, <2>2, <2>4, VigenteEs DEF IndiceInv
  <2>. QED  BY <1>1, <1>3, <1>5, <2>2, <2>3, <2>4, <2>5 DEF Modificada
<1>8. memoria' = memoria /\ (Presente(e) => memoria[MarcoDe(e)] = w)
  BY <1>1, <1>3, <1>5 DEF EnSuSitio
<1>. QED  BY <1>1, <1>3, <1>4, <1>6, <1>7, <1>8 DEF EnSuSitio

\* What is not on its way is in no request.
LEMMA SinPedido ==
    ASSUME DInv, NEW e, e \notin EnCamino
    PROVE  \A i \in Turnos : ~ Menciona(PedidoEn(i), e)
<1>1. SUFFICES ASSUME NEW i \in Turnos, Menciona(PedidoEn(i), e) PROVE FALSE
  OBVIOUS
<1>2. PICK r : r = PedidoEn(i)  OBVIOUS
<1>3. r \in ToSet(pedidos_swap_l) \/ (swap.pc # "libre" /\ r = swap.pedido)
  BY <1>1, <1>2, TurnosNat DEF Turnos, PedidoEn, ToSet
<1>4. e \in ToSet(r.entradas)  BY <1>1, <1>2 DEF Menciona, ToSet
<1>. QED  BY <1>3, <1>4 DEF EnCamino

\* traer_a_memoria brings the word of a page that no request is about.
LEMMA SitioAlTraer ==
    ASSUME IInv, DInv, TraidaInv, NEW p, NEW n, NEW e, NEW w, EsPalabra(p, n, e, w),
           Traer_a_memoria, fiel'[p][n]
    PROVE  EnSuSitio(p, n, e, w)'
<1>1. EnSuSitio(p, n, e, w) /\ p \in Iniciados /\ p \in Proceso /\ n \in Pagina
      /\ e = EntradaPag(p, n) /\ e \in EntradasDe(p) /\ e \in 0 .. Len(tabla_2_l) - 1
      /\ estado[p] # "exit" /\ ~ carrera
  BY DEF EsPalabra
<1>2. CASE UNCHANGED <<datos, cpu, memoria, archivo, pedidos_swap_l, swap, kernel>>
  <2>1. Suspendiendo(p)' => Suspendiendo(p)  BY <1>2 DEF Suspendiendo
  <2>. QED  BY <1>2, <2>1, SitioDeQuietos DEF datos
<1>3. CASE /\ cpu.pid \in DOMAIN archivo /\ cpu.pc = "traer"
           /\ cpu.pid \in Iniciados /\ cpu.numero \in EntradasDe(cpu.pid)
           /\ memoria' = [memoria EXCEPT ![cpu.marco] = archivo[cpu.pid][cpu.numero]]
           /\ cpu' = [cpu EXCEPT !.pc = "responder", !.nueva = NADIE]
           /\ Dudosas({cpu.numero} \intersect EnCamino)
           /\ UNCHANGED <<tabla_2_l, enSwap, kernel, swap>>
  <2>1. PICK q \in Iniciados, u \in EntradasDe(cpu.pid) : q = cpu.pid /\ u = cpu.numero
    BY <1>3
  <2>2. PICK f \in Frame : f = cpu.marco  BY <1>3 DEF DInv, AccesoTipo
  <2>3. MarcoDe(u) = f /\ tabla_2_l[u + 1].bMod = 0
        /\ \A m \in Usadas(p) : MarcoDe(m) = f => m = u
    BY <1>1, <1>3, <2>1, <2>2 DEF TraidaInv
  <2>4. memoria \in [Frame -> Palabra] /\ memoria' = [memoria EXCEPT ![f] = archivo[q][u]]
    BY <1>3, <2>1, <2>2 DEF DInv, MemoriaTipo
  <2>5. ~ Escrita(p, n) /\ (Presente(e)' <=> Presente(e)) /\ MarcoDe(e)' = MarcoDe(e)
        /\ (Modificada(p, e)' <=> Modificada(p, e))
    BY <1>3 DEF Escrita, Presente, MarcoDe, Modificada, Suspendiendo
  <2>6. Guardada(p, e, w) => Guardada(p, e, w)'  BY <1>3, GuardadaMisma DEF enSwap
  <2>7. CASE e = u
    <3>1. p = q  BY <1>1, <2>1, <2>7, EntradasPropias
    <3>2. Guardada(p, e, w)  BY <1>1, <2>3, <2>5, <2>7 DEF EnSuSitio, Modificada
    <3>3. e \notin EnCamino
      <4>1. PICK ns : ns = {cpu.numero} \intersect EnCamino  OBVIOUS
      <4>2. fiel' = FielSin(ns)  BY <1>3, <4>1 DEF Dudosas
      <4>3. e \notin ns  BY <1>1, <4>2, FielTras
      <4>. QED  BY <2>1, <2>7, <4>1, <4>3
    <3>4. archivo[p][e] = w  BY <1>3, <2>1, <3>1, <3>2, <3>3, SinPedido DEF Guardada
    <3>5. memoria'[MarcoDe(e)'] = w  BY <2>3, <2>4, <2>5, <2>7, <3>1, <3>4
    <3>. QED  BY <2>6, <3>2, <3>5 DEF EnSuSitio
  <2>8. CASE e # u
    <3>1. Presente(e) => memoria'[MarcoDe(e)] = memoria[MarcoDe(e)]
      <4>1. SUFFICES ASSUME Presente(e) PROVE memoria'[MarcoDe(e)] = memoria[MarcoDe(e)]
        OBVIOUS
      <4>2. MarcoDe(e) \in Frame  BY <1>1, <4>1, MarcoPresente DEF DInv
      <4>3. MarcoDe(e) # f  BY <1>1, <2>3, <2>8, <4>1 DEF Usadas
      <4>. QED  BY <2>4, <4>2, <4>3
    <3>2. ~ Llegando(e)  BY <2>1, <2>8 DEF Llegando
    <3>. QED  BY <1>1, <2>5, <2>6, <3>1, <3>2 DEF EnSuSitio
  <2>. QED  BY <2>7, <2>8
<1>. QED  BY <1>2, <1>3, TrasTraer

\* escritura puts the new word in the frame of the page and of no other.
LEMMA SitioAlEscribir ==
    ASSUME IInv, DInv, IndiceInv, HistoriaTipo, SitioInv, Escritura, ~ carrera,
           NEW p \in Iniciados, p \in Proceso, NEW n \in Pagina, estado[p] # "exit",
           fiel'[p][n], NEW e, e = EntradaPag(p, n), e \in 0 .. Len(tabla_2_l) - 1,
           NEW w, w = escrito'[p][n]
    PROVE  EnSuSitio(p, n, e, w)'
<1>1. PICK f \in Frame : f = cpu.marco  BY DEF Escritura, DInv, AccesoTipo
<1>2. PICK q \in Iniciados, m \in Pagina : q = cpu.pid /\ m = cpu.pag /\ q \in Proceso
  BY DEF Escritura, IInv, CpuInv, LlegadaInv, SinIniciar, Ejecuta
<1>3. PICK v : v = cpu.valor  OBVIOUS
<1>4. /\ cpu.pc = "memcpy" /\ cpu.op = "WRITE"
      /\ memoria' = [memoria EXCEPT ![f] = v] /\ memoria \in [Frame -> Palabra]
      /\ escrito' = [escrito EXCEPT ![q][m] = v]
      /\ fiel' = [FielSin(EnMarco(f)) EXCEPT ![q][m] = Vigente /\ ~ Suspendiendo(q)]
      /\ cpu' = [cpu EXCEPT !.pc = "marca"]
      /\ UNCHANGED <<tabla_2_l, enSwap, kernel, swap>>
  BY <1>1, <1>2, <1>3 DEF Escritura, DInv, MemoriaTipo
<1>5. PICK g : g = FielSin(EnMarco(f))  OBVIOUS
<1>6. PICK b : b = (Vigente /\ ~ Suspendiendo(q))  OBVIOUS
<1>7. /\ fiel' = [g EXCEPT ![q][m] = b]
      /\ DOMAIN g = Proceso /\ \A x \in Proceso : DOMAIN g[x] = Pagina
  BY <1>4, <1>5, <1>6 DEF FielSin
<1>8. (Presente(e)' <=> Presente(e)) /\ MarcoDe(e)' = MarcoDe(e)
      /\ (Modificada(p, e)' <=> Modificada(p, e))
  BY <1>4 DEF Presente, MarcoDe, Modificada, Suspendiendo
<1>9. CASE p = q /\ n = m
  <2>1. w = v
    <3>1. escrito \in [Proceso -> [Pagina -> Palabra]]  BY DEF HistoriaTipo
    <3>. QED  BY <1>4, <1>9, <3>1
  <2>2. Vigente
    <3>1. fiel'[q][m] = b  BY ONLY <1>2, <1>7
    <3>. QED  BY <1>6, <1>9, <3>1
  <2>3. Presente(e) /\ MarcoDe(e) = f
    BY <1>1, <1>2, <1>4, <1>9, <2>2, VigenteEs DEF IndiceInv
  <2>4. memoria'[MarcoDe(e)'] = w  BY <1>4, <1>8, <2>1, <2>3
  <2>5. Escrita(p, n)'
    BY <1>2, <1>4, <1>9 DEF Escrita, IInv, Tipos, TipoHilos, TipoCpu
  <2>. QED  BY <2>4, <2>5 DEF EnSuSitio
<1>10. CASE ~ (p = q /\ n = m)
  <2>1. w = escrito[p][n]
    <3>1. escrito \in [Proceso -> [Pagina -> Palabra]]  BY DEF HistoriaTipo
    <3>. QED  BY <1>2, <1>4, <1>10, <3>1
  <2>2. fiel'[p][n] = g[p][n]
    BY <1>2, <1>7, <1>10
  <2>3. fiel[p][n] /\ e \notin EnMarco(f)
    <3>1. PICK ns : ns = EnMarco(f)  OBVIOUS
    <3>2. g = FielSin(ns) /\ g[p][n]  BY <1>5, <2>2, <3>1
    <3>. QED  BY <3>1, <3>2, FielSinDe
  <2>4. EnSuSitio(p, n, e, w)  BY <2>1, <2>3 DEF SitioInv
  <2>5. ~ Llegando(e) /\ ~ Escrita(p, n)  BY <1>4 DEF Llegando, Escrita
  <2>6. Presente(e) => memoria'[MarcoDe(e)] = memoria[MarcoDe(e)]
    <3>1. SUFFICES ASSUME Presente(e) PROVE memoria'[MarcoDe(e)] = memoria[MarcoDe(e)]
      OBVIOUS
    <3>2. MarcoDe(e) \in Frame  BY <3>1, MarcoPresente DEF DInv
    <3>3. MarcoDe(e) # f  BY <2>3, <3>1 DEF EnMarco, Presente, MarcoDe, Get
    <3>. QED  BY <1>4, <3>2, <3>3
  <2>7. Guardada(p, e, w) => Guardada(p, e, w)'  BY <1>4, GuardadaMisma DEF enSwap
  <2>. QED  BY <1>8, <2>4, <2>5, <2>6, <2>7 DEF EnSuSitio
<1>. QED  BY <1>9, <1>10

\* finalizar_proceso clears the frames of a process that has ended.
LEMMA SitioAlBorrar ==
    ASSUME IInv, DInv, NEW p, NEW n, NEW e, NEW w, EsPalabra(p, n, e, w), BorrarFrame
    PROVE  EnSuSitio(p, n, e, w)'
<1>1. EnSuSitio(p, n, e, w) /\ p \in Iniciados /\ e \in EntradasDe(p)
      /\ e \in 0 .. Len(tabla_2_l) - 1 /\ estado[p] # "exit" /\ ~ carrera
  BY DEF EsPalabra
<1>2. kernel.pc = "borrar" /\ kernel.i < Len(PagMem(kernel.pid))
      /\ memoria' = [memoria EXCEPT ![EntradaDe(Get(PagMem(kernel.pid), kernel.i)).frame] = 0]
      /\ UNCHANGED <<tabla_2_l, enSwap, swap, cpu>>
      /\ \E f, b : kernel' = [kernel EXCEPT !.pc = "limpiar_fin", !.frame = f, !.byte = b]
  BY DEF BorrarFrame
<1>3. PICK q \in Iniciados : q = kernel.pid /\ estado[q] = "exit"
  BY <1>2, ProcesoQueTermina
<1>4. PICK j \in Posiciones(q) : j = kernel.i + 1 /\ \A k \in 1 .. kernel.i : k \in Posiciones(q) /\ k # j
  <2>1. Posiciones(q) = 1 .. Len(PagMem(q)) /\ Len(PagMem(q)) \in Nat
    BY Filas DEF IInv, Tipos, LlegadaInv
  <2>2. kernel.i \in Nat  BY DEF IInv, Tipos, TipoHilos
  <2>. QED  BY <1>2, <1>3, <2>1, <2>2
<1>5. PICK v : v = EntradaDePag(q, j)  OBVIOUS
<1>6. /\ v \in EntradasDe(q) /\ Presente(v) /\ v \in 0 .. Len(tabla_2_l) - 1
      /\ EntradaDe(PagMem(q)[j]) = tabla_2_l[v + 1]
  BY <1>5, EntradaListada, EntradasTipo
<1>7. memoria' = [memoria EXCEPT ![MarcoDe(v)] = 0]
  BY <1>2, <1>3, <1>4, <1>6 DEF Get, MarcoDe
<1>8. v \in Ocupadas
  <2>1. ~ Finalizado(q)  BY <1>2, <1>3 DEF Finalizado, Borrando
  <2>2. \A k \in 1 .. kernel.i : EntradaDePag(q, k) # v
    BY <1>3, <1>4, <1>5 DEF IInv, PaginasInv
  <2>. QED  BY <1>3, <1>6, <2>1, <2>2 DEF Ocupadas, Ocupa, Devuelta
<1>9. Presente(e) => memoria'[MarcoDe(e)] = memoria[MarcoDe(e)]
  <2>1. SUFFICES ASSUME Presente(e) PROVE memoria'[MarcoDe(e)] = memoria[MarcoDe(e)]
    OBVIOUS
  <2>2. e \in Ocupadas  BY <1>1, <2>1, UsadaOcupa DEF Usadas
  <2>3. e # v  BY <1>1, <1>3, <1>6, EntradasPropias
  <2>4. MarcoDe(e) # MarcoDe(v) /\ MarcoDe(e) \in Frame
    BY <1>1, <1>8, <2>2, <2>3 DEF IInv, MarcosInv
  <2>. QED  BY <1>7, <2>4 DEF DInv, MemoriaTipo
<1>10. (Llegando(e)' <=> Llegando(e)) /\ (Escrita(p, n)' <=> Escrita(p, n))
       /\ (Presente(e)' <=> Presente(e)) /\ MarcoDe(e)' = MarcoDe(e)
  BY <1>2 DEF Llegando, Escrita, Presente, MarcoDe
<1>11. Modificada(p, e) => Modificada(p, e)'
  <2>1. kernel'.pc = "limpiar_fin"  BY <1>2 DEF IInv, Tipos, TipoHilos
  <2>. QED  BY <1>2, <2>1 DEF Modificada, Presente, Suspendiendo
<1>12. Guardada(p, e, w) => Guardada(p, e, w)'  BY <1>2, GuardadaMisma DEF enSwap
<1>. QED  BY <1>1, <1>9, <1>10, <1>11, <1>12 DEF EnSuSitio

\* A page whose copy does it good: its number is its entry, within the file, and
\* its frame still has the word of the request.
LEMMA BienCopiada ==
    ASSUME NEW r, NEW e, e \notin MalCopiadas(r), NEW k \in DOMAIN r.paginas,
           r.entradas[k] = e \/ paginas[r.paginas[k]].numero = e
    PROVE  /\ memoria[EntradaDe(r.paginas[k]).frame] = r.palabras[k]
           /\ paginas[r.paginas[k]].numero = e /\ r.entradas[k] = e
           /\ ~ (e >= Paginas)
<1>1. PICK numero : numero = paginas[r.paginas[k]].numero  OBVIOUS
<1>2. PICK s : s = IF \/ memoria[EntradaDe(r.paginas[k]).frame] # r.palabras[k]
                      \/ numero # r.entradas[k]
                      \/ numero >= Paginas
                   THEN {r.entradas[k], numero} ELSE {}
  OBVIOUS
<1>3. s \subseteq MalCopiadas(r)  BY <1>1, <1>2 DEF MalCopiadas
<1>4. e \notin s /\ (r.entradas[k] = e \/ numero = e)  BY <1>1, <1>3
<1>5. s = {}  BY ONLY <1>2, <1>4
<1>. QED  BY <1>1, <1>2, <1>4, <1>5

\* swap_ has served its request.
LEMMA TurnosTrasServir ==
    ASSUME DInv, swap.pc = "copiar", Servido, UNCHANGED pedidos_swap_l
    PROVE  /\ 0 \in Turnos /\ Turnos' = Turnos \ {0} /\ Turnos \subseteq Nat
           /\ \A i \in Turnos' : PedidoEn(i)' = PedidoEn(i)
<1>1. swap'.pc = "libre"
  <2>1. swap \in [pc : {"quitar", "copiar"}, pedido : TipoPedido]  BY DEF DInv, SwapTipo
  <2>. QED  BY <2>1 DEF Servido
<1>2. 0 \notin DOMAIN pedidos_swap_l  BY TurnosNat
<1>3. Turnos' = DOMAIN pedidos_swap_l /\ Turnos = DOMAIN pedidos_swap_l \union {0}
  BY <1>1 DEF Turnos
<1>. QED  BY <1>2, <1>3, TurnosNat DEF PedidoEn

\* What a step of swap_ or of the files leaves where it was.
LEMMA SitioConArchivo ==
    ASSUME NEW p, NEW n, NEW e, NEW w, EsPalabra(p, n, e, w),
           UNCHANGED <<tabla_2_l, memoria, cpu>>, Suspendiendo(p)' => Suspendiendo(p),
           Guardada(p, e, w) => Guardada(p, e, w)'
    PROVE  EnSuSitio(p, n, e, w)'
<1>1. EnSuSitio(p, n, e, w)  BY DEF EsPalabra
<1>2. (Llegando(e) => Llegando(e)') /\ (Escrita(p, n) => Escrita(p, n)')
      /\ (Presente(e)' <=> Presente(e)) /\ MarcoDe(e)' = MarcoDe(e)
  BY DEF Llegando, Escrita, Presente, MarcoDe
<1>. QED  BY <1>1, <1>2, SitioQuieto

\* The copy of a request puts in its place the word that it says.
LEMMA SitioAlCopiar ==
    ASSUME IInv, DInv, NEW p, NEW n, NEW e, NEW w, EsPalabra(p, n, e, w),
           CopiarPedido, fiel'[p][n]
    PROVE  EnSuSitio(p, n, e, w)'
<1>1. EnSuSitio(p, n, e, w) /\ p \in Iniciados /\ p \in Proceso /\ n \in Pagina
      /\ e = EntradaPag(p, n) /\ e \in EntradasDe(p) /\ e \in 0 .. Len(tabla_2_l) - 1
  BY DEF EsPalabra
<1>. DEFINE r == swap.pedido
<1>2. r = swap.pedido  OBVIOUS
<1>. DEFINE Ks(m) == {k \in DOMAIN r.paginas : paginas[r.paginas[k]].numero = m}
<1>3. PICK guarda \in BOOLEAN : archivo' = [archivo EXCEPT ![r.pid] = [m \in Numero |->
            IF Ks(m) # {} /\ (m < Paginas \/ guarda)
            THEN memoria[EntradaDe(r.paginas[Max(Ks(m))]).frame]
            ELSE archivo[r.pid][m]]]
  BY DEF CopiarPedido
<1>. HIDE DEF r
<1>4. /\ swap.pc = "copiar" /\ r.pid \in DOMAIN archivo
      /\ Dudosas(MalCopiadas(r)) /\ Servido
      /\ UNCHANGED <<tabla_2_l, memoria, pedidos_swap_l, kernel, cpu>>
  BY <1>2 DEF CopiarPedido
<1>5. r \in TipoPedido /\ PedidoDe(r.pid, r)
  BY <1>2, <1>4 DEF DInv, SwapTipo
<1>6. DOMAIN archivo' = DOMAIN archivo /\ \A x \in DOMAIN archivo : x # r.pid => archivo'[x] = archivo[x]
  BY <1>3, <1>4
<1>7. e \notin MalCopiadas(r)
  <2>1. PICK ns : ns = MalCopiadas(r)  OBVIOUS
  <2>2. fiel' = FielSin(ns)  BY <1>4, <2>1 DEF Dudosas
  <2>. QED  BY <1>1, <2>1, <2>2, FielTras
<1>8. CASE p # r.pid
  <2>1. ~ Menciona(r, e)
    BY <1>1, <1>5, <1>8, EntradasPropias DEF Menciona, PedidoDe
  <2>2. /\ 0 \in Turnos /\ Turnos' = Turnos \ {0} /\ Turnos \subseteq Nat
        /\ \A i \in Turnos' : PedidoEn(i)' = PedidoEn(i)
    BY <1>4, TurnosTrasServir
  <2>3. Guardada(p, e, w) => Guardada(p, e, w)'
    BY <1>2, <1>6, <1>8, <2>1, <2>2, GuardadaTrasCopiar
  <2>4. Suspendiendo(p)' => Suspendiendo(p)  BY <1>4 DEF Suspendiendo
  <2>. QED  BY <1>4, <2>3, <2>4, SitioConArchivo
<1>9. CASE p = r.pid
  <2>1. PICK ks : ks = Ks(e)  OBVIOUS
  <2>2. e \in Numero  BY <1>1, EntradasEnArchivo
  <2>3. archivo'[p][e] = IF ks # {} /\ (e < Paginas \/ guarda)
                         THEN memoria[EntradaDe(r.paginas[Max(ks)]).frame]
                         ELSE archivo[p][e]
    BY <1>3, <1>4, <1>9, <2>1, <2>2
  <2>4. \A k \in DOMAIN r.paginas : k \in ks <=> r.entradas[k] = e
    BY <1>7, <2>1, BienCopiada
  <2>5. DOMAIN r.entradas = DOMAIN r.paginas /\ DOMAIN r.paginas \subseteq 1 .. MARCOS_POR_PROCESO
    BY <1>5 DEF PedidoDe, TipoPedido, Parcial
  <2>6. Menciona(r, e) <=> ks # {}
    BY <2>1, <2>4, <2>5 DEF Menciona
  <2>7. ASSUME Menciona(r, e), Dice(r, e, w) PROVE archivo'[p][e] = w
    <3>1. Max(ks) \in ks
      <4>1. ks \subseteq 1 .. MARCOS_POR_PROCESO /\ ks # {}  BY <2>1, <2>5, <2>6, <2>7
      <4>. QED  BY <4>1, MaximoDe, MarcosAssumption
    <3>2. PICK k \in DOMAIN r.paginas : k = Max(ks) /\ k \in ks  BY <2>1, <3>1
    <3>3. r.entradas[k] = e /\ memoria[EntradaDe(r.paginas[k]).frame] = r.palabras[k]
          /\ ~ (e >= Paginas)
      BY <1>7, <2>4, <3>2, BienCopiada
    <3>4. r.palabras[k] = w  BY <2>5, <2>7, <3>2, <3>3 DEF Dice
    <3>5. e < Paginas  BY <1>1, <3>3, ProcesosAssumption
    <3>. QED  BY <2>3, <3>1, <3>2, <3>3, <3>4, <3>5
  <2>8. ~ Menciona(r, e) => archivo'[p][e] = archivo[p][e]  BY <2>3, <2>6
  <2>9. /\ 0 \in Turnos /\ Turnos' = Turnos \ {0} /\ Turnos \subseteq Nat
        /\ \A i \in Turnos' : PedidoEn(i)' = PedidoEn(i)
    BY <1>4, TurnosTrasServir
  <2>10. Guardada(p, e, w) => Guardada(p, e, w)'
    BY <1>2, <1>6, <2>7, <2>8, <2>9, GuardadaTrasCopiar
  <2>11. Suspendiendo(p)' => Suspendiendo(p)  BY <1>4 DEF Suspendiendo
  <2>. QED  BY <1>4, <2>10, <2>11, SitioConArchivo
<1>. QED  BY <1>8, <1>9

\* A request of a process without a file is about no page, or Memoria dies.
LEMMA SitioSinArchivo ==
    ASSUME IInv, DInv, NEW p, NEW n, NEW e, NEW w, EsPalabra(p, n, e, w), CopiarSinArchivo
    PROVE  EnSuSitio(p, n, e, w)'
<1>1. Suspendiendo(p)' => Suspendiendo(p)
  BY DEF CopiarSinArchivo, Morir, Suspendiendo
<1>2. CASE Morir
  <2>1. UNCHANGED <<tabla_2_l, memoria, archivo, pedidos_swap_l, swap, cpu>>  BY <1>2 DEF Morir
  <2>. QED  BY <1>1, <2>1, SitioDeQuietos
<1>3. CASE Servido /\ swap.pedido.paginas = <<>>
  <2>1. PICK r : r = swap.pedido  OBVIOUS
  <2>2. swap.pc = "copiar" /\ PedidoDe(r.pid, r) /\ r.paginas = <<>>
    BY <1>3, <2>1 DEF CopiarSinArchivo, DInv, SwapTipo
  <2>3. ~ Menciona(r, e)  BY <2>2 DEF Menciona, PedidoDe
  <2>4. UNCHANGED <<tabla_2_l, memoria, archivo, pedidos_swap_l, cpu>>
    BY <1>3, <2>2 DEF CopiarSinArchivo
  <2>5. /\ 0 \in Turnos /\ Turnos' = Turnos \ {0} /\ Turnos \subseteq Nat
        /\ \A i \in Turnos' : PedidoEn(i)' = PedidoEn(i)
    BY <1>3, <2>2, <2>4, TurnosTrasServir
  <2>6. Guardada(p, e, w) => Guardada(p, e, w)'
    BY <2>1, <2>3, <2>4, <2>5, GuardadaTrasCopiar
  <2>. QED  BY <1>1, <2>4, <2>6, SitioConArchivo
<1>. QED  BY <1>2, <1>3 DEF CopiarSinArchivo

\* A new swap file has the words of a process that has written none.
LEMMA SitioAlCrearArchivo ==
    ASSUME IInv, DInv, ArchivoInv, NEW p, NEW n, NEW e, NEW w, EsPalabra(p, n, e, w),
           w = escrito[p][n], Crear_archivo_swap
    PROVE  EnSuSitio(p, n, e, w)'
<1>1. EnSuSitio(p, n, e, w) /\ p \in Iniciados /\ p \in Proceso /\ n \in Pagina
      /\ e \in 0 .. Len(tabla_2_l) - 1
  BY DEF EsPalabra
<1>2. /\ kernel.pc = "crear_archivo" /\ kernel' = [kernel EXCEPT !.pc = "libre"]
      /\ archivo' = [q \in DOMAIN archivo \union {kernel.pid} |->
                      IF q \in DOMAIN archivo THEN archivo[q] ELSE [m \in Numero |-> 0]]
      /\ UNCHANGED <<tabla_2_l, memoria, pedidos_swap_l, swap, cpu>>
  BY DEF Crear_archivo_swap
<1>3. ~ Suspendiendo(p)'
  <2>1. kernel'.pc = "libre"  BY <1>2 DEF IInv, Tipos, TipoHilos
  <2>. QED  BY <2>1 DEF Suspendiendo
<1>4. \A i : PedidoEn(i)' = PedidoEn(i)  BY <1>2 DEF PedidoEn
<1>5. Turnos' = Turnos  BY <1>2 DEF Turnos
<1>6. CASE p \in DOMAIN archivo \/ p # kernel.pid
  <2>1. p \in DOMAIN archivo' => p \in DOMAIN archivo /\ archivo'[p][e] = archivo[p][e]
    BY <1>2, <1>6
  <2>2. Guardada(p, e, w) => Guardada(p, e, w)'
    BY <1>4, <1>5, <2>1, GuardadaQueda
  <2>. QED  BY <1>2, <1>3, <2>2, SitioConArchivo
<1>7. CASE p \notin DOMAIN archivo /\ p = kernel.pid
  <2>1. w = 0  BY <1>1, <1>2, <1>7 DEF IInv, LlegadaInv, SinIniciar, ArchivoInv
  <2>2. archivo'[p][e] = w  BY <1>1, <1>2, <1>7, <2>1, EntradasEnArchivo
  <2>3. Guardada(p, e, w) => Guardada(p, e, w)'
    <3>1. \A i : Menciona(PedidoEn(i), e)' <=> Menciona(PedidoEn(i), e)
      BY <1>4 DEF Menciona
    <3>2. \A i : Dice(PedidoEn(i), e, w)' <=> Dice(PedidoEn(i), e, w)  BY <1>4 DEF Dice
    <3>. QED  BY <1>5, <2>2, <3>1, <3>2 DEF Guardada
  <2>. QED  BY <1>2, <1>3, <2>3, SitioConArchivo
<1>. QED  BY <1>6, <1>7

\* The swap file that goes is that of a process that has ended.
LEMMA SitioAlEliminar ==
    ASSUME IInv, DInv, NEW p, NEW n, NEW e, NEW w, EsPalabra(p, n, e, w),
           Eliminar_archivo_swap
    PROVE  EnSuSitio(p, n, e, w)'
<1>1. /\ kernel' = [kernel EXCEPT !.pc = "libre"]
      /\ archivo' = [q \in DOMAIN archivo \ {kernel.pid} |-> archivo[q]]
      /\ UNCHANGED <<tabla_2_l, memoria, pedidos_swap_l, swap, cpu>>
  BY DEF Eliminar_archivo_swap
<1>2. ~ Suspendiendo(p)'
  <2>1. kernel'.pc = "libre"  BY <1>1 DEF IInv, Tipos, TipoHilos
  <2>. QED  BY <2>1 DEF Suspendiendo
<1>3. Guardada(p, e, w) => Guardada(p, e, w)'
  <2>1. \A i : PedidoEn(i)' = PedidoEn(i)  BY <1>1 DEF PedidoEn
  <2>2. Turnos' = Turnos  BY <1>1 DEF Turnos
  <2>3. p \in DOMAIN archivo' => p \in DOMAIN archivo /\ archivo'[p][e] = archivo[p][e]
    BY <1>1
  <2>. QED  BY <2>1, <2>2, <2>3, GuardadaQueda
<1>. QED  BY <1>1, <1>2, <1>3, SitioConArchivo

\* Every request is about the entries of a process.
LEMMA PedidosDeIniciados ==
    ASSUME DInv, NEW e, NEW i \in Turnos, Menciona(PedidoEn(i), e)
    PROVE  \E q \in Iniciados : e \in EntradasDe(q)
<1>1. PICK r : r = PedidoEn(i)  OBVIOUS
<1>2. PedidoDe(r.pid, r)
  <2>1. CASE i = 0
    <3>1. swap.pc = "copiar"  BY <2>1, TurnosNat DEF Turnos
    <3>. QED  BY <1>1, <2>1, <3>1 DEF PedidoEn, DInv, SwapTipo
  <2>2. CASE i # 0
    <3>1. i \in DOMAIN pedidos_swap_l  BY <2>2 DEF Turnos
    <3>. QED  BY <1>1, <2>2, <3>1 DEF PedidoEn, DInv, SwapTipo
  <2>. QED  BY <2>1, <2>2
<1>. QED  BY <1>1, <1>2 DEF Menciona, PedidoDe

\* After a step too each page has its entry among those of its process only.
LEMMA EntradasPropiasLuego ==
    IInv' => (/\ \A p \in Iniciados, n \in Pagina : EntradaPag(p, n) \in EntradasDe(p)
              /\ \A p, q \in Iniciados : \A e \in EntradasDe(p) : e \in EntradasDe(q) => p = q)'
<1>1. IInv => /\ \A p \in Iniciados, n \in Pagina : EntradaPag(p, n) \in EntradasDe(p)
              /\ \A p, q \in Iniciados : \A e \in EntradasDe(p) : e \in EntradasDe(q) => p = q
  BY EntradasPropiasTodas
<1>. QED  BY <1>1, PTL

\* The pages of a process that is created are nowhere and have no word yet.
LEMMA SitioAlNacer ==
    ASSUME IInv, IInv', DInv, ArchivoInv, Inicializar_proceso,
           NEW p \in Iniciados', p \notin Iniciados, NEW n \in Pagina,
           NEW e, e = EntradaPag(p, n)', NEW w, w = escrito[p][n]
    PROVE  EnSuSitio(p, n, e, w)'
<1>1. PICK k \in Proceso :
           /\ k = Len(procesos) /\ estado[k] = "ini"
           /\ Iniciados' = Iniciados \union {k} /\ k \notin Iniciados
           /\ \A q \in Iniciados : EntradasDe(q)' = EntradasDe(q)
           /\ \A m \in EntradasDe(k)' : ~ Presente(m)'
           /\ UNCHANGED <<memoria, enSwap, swap, cpu>>
  BY TrasCrear
<1>2. p = k  BY <1>1
<1>3. w = 0 /\ p \notin DOMAIN archivo
  BY <1>1, <1>2 DEF ArchivoInv, SinIniciar
<1>4. e \in EntradasDe(p)'  BY EntradasPropiasLuego
<1>5. ~ Presente(e)'
  <2>1. PICK q \in Iniciados' : q = k /\ q = p  BY <1>1, <1>2
  <2>2. e \in EntradasDe(q)'  BY <1>4, <2>1
  <2>. QED  BY <1>1, <2>1, <2>2
<1>6. Turnos' = Turnos /\ \A i : PedidoEn(i)' = PedidoEn(i)
  BY <1>1 DEF Turnos, PedidoEn, enSwap
<1>7. \A i \in Turnos : ~ Menciona(PedidoEn(i), e)
  <2>1. SUFFICES ASSUME NEW i \in Turnos, Menciona(PedidoEn(i), e) PROVE FALSE  OBVIOUS
  <2>2. PICK q \in Iniciados : e \in EntradasDe(q)  BY <2>1, PedidosDeIniciados
  <2>3. q \in Iniciados' /\ e \in EntradasDe(q)'  BY <1>1, <2>2
  <2>4. q = p  BY <1>4, <2>3, EntradasPropiasLuego
  <2>. QED  BY <1>1, <1>2, <2>2, <2>4
<1>8. Guardada(p, e, w)'
  <2>1. \A i \in Turnos' : ~ Menciona(PedidoEn(i), e)'  BY <1>6, <1>7 DEF Menciona
  <2>2. p \notin DOMAIN archivo'  BY <1>1, <1>3 DEF enSwap
  <2>. QED  BY <2>1, <2>2 DEF Guardada
<1>. QED  BY <1>5, <1>8 DEF EnSuSitio

\* And the others stay where they were.
LEMMA SitioAlInicializar ==
    ASSUME IInv, DInv, NEW p, NEW n, NEW e, NEW w, EsPalabra(p, n, e, w),
           Inicializar_proceso
    PROVE  EnSuSitio(p, n, e, w)'
<1>1. EnSuSitio(p, n, e, w) /\ e \in 0 .. Len(tabla_2_l) - 1  BY DEF EsPalabra
<1>2. /\ \A m \in 0 .. Len(tabla_2_l) - 1 : tabla_2_l'[m + 1] = tabla_2_l[m + 1]
      /\ UNCHANGED <<memoria, enSwap, swap, cpu>> /\ kernel'.pc = "crear_archivo"
  BY TrasCrear
<1>3. tabla_2_l'[e + 1] = tabla_2_l[e + 1]  BY <1>1, <1>2
<1>4. Guardada(p, e, w) => Guardada(p, e, w)'  BY <1>2, GuardadaMisma DEF enSwap
<1>5. /\ (Llegando(e) => Llegando(e)') /\ (Escrita(p, n) => Escrita(p, n)')
      /\ (Presente(e)' <=> Presente(e)) /\ MarcoDe(e)' = MarcoDe(e)
      /\ (Suspendiendo(p)' => Suspendiendo(p))
  BY <1>2, <1>3 DEF Llegando, Escrita, Presente, MarcoDe, Suspendiendo
<1>. QED  BY <1>1, <1>2, <1>3, <1>4, <1>5, SitioQuieto

\* The steps of the Kernel and of the dispatches to the CPU touch no page.
LEMMA SitioDelAmbiente ==
    ASSUME IInv, DInv, NEW p, NEW n, NEW e, NEW w, EsPalabra(p, n, e, w),
           KernelYCpu \/ UNCHANGED vars
    PROVE  EnSuSitio(p, n, e, w)'
<1>1. UNCHANGED <<tabla_2_l, memoria, archivo, pedidos_swap_l, swap, kernel>>
  BY DEF KernelYCpu, PedirInicializar, Despachar, Bloquear, Desbloquear, Suspender, Terminar,
         Acceso, enSwap, vars
<1>2. UNCHANGED cpu \/ cpu.pc \notin {"traer", "marca"}
  BY DEF KernelYCpu, PedirInicializar, Despachar, Bloquear, Desbloquear, Suspender, Terminar,
         Acceso, vars
<1>3. Suspendiendo(p)' => Suspendiendo(p)  BY <1>1 DEF Suspendiendo
<1>. QED  BY <1>1, <1>2, <1>3, SitioDeQuietos

\* funciones_kernel.
LEMMA SitioDelKernel ==
    ASSUME IInv, DInv, TraidaInv, ArchivoInv, NEW p, NEW n, NEW e, NEW w,
           EsPalabra(p, n, e, w), w = escrito[p][n], Funciones_kernel, [Next]_vars,
           fiel'[p][n]
    PROVE  EnSuSitio(p, n, e, w)'
<1>1. CASE LimpiarBit \/ FinSuspender \/ Finalizar_proceso \/ MuereKernel
  <2>1. UNCHANGED <<tabla_2_l, memoria, archivo, pedidos_swap_l, swap, cpu>>
    BY <1>1 DEF LimpiarBit, FinSuspender, Finalizar_proceso, MuereKernel, Morir, enSwap
  <2>2. Suspendiendo(p)' => Suspendiendo(p)
    <3>1. ~ Suspender_proceso \/ UNCHANGED kernel
      <4>1. SUFFICES ASSUME Suspender_proceso PROVE UNCHANGED kernel  OBVIOUS
      <4>2. PICK r, ns : Encolar(r, ns)  BY <4>1 DEF Suspender_proceso
      <4>3. s_swap' = s_swap + 1 /\ s_swap \in Nat  BY <4>2 DEF Encolar, DInv, SwapTipo
      <4>4. s_swap' # s_swap  BY <4>3
      <4>. QED  BY <1>1, <4>4 DEF LimpiarBit, FinSuspender, Finalizar_proceso, MuereKernel,
                    Morir, enSwap
    <3>. QED  BY <3>1, SuspensionEmpieza DEF Suspendiendo
  <2>. QED  BY <2>1, <2>2, SitioDeQuietos
<1>. QED
  BY <1>1, SitioAlInicializar, SitioAlCrearArchivo, SitioAlSuspender, SitioAlLiberar,
     SitioAlBorrar, SitioAlEliminar DEF Funciones_kernel

\* funciones_cpu, but for escritura.
LEMMA SitioDeCpu ==
    ASSUME IInv, DInv, TraidaInv, IndiceInv, MarcaInv, NEW p, NEW n, NEW e, NEW w,
           EsPalabra(p, n, e, w), Funciones_cpu, ~ Escritura, fiel'[p][n]
    PROVE  EnSuSitio(p, n, e, w)'
<1>1. CASE Entrada1 \/ EntradaPresente \/ BuscarFrameLibre \/ ReemplazarSinPaginas
           \/ ResponderMarco \/ Lectura
  <2>1. UNCHANGED <<tabla_2_l, memoria, archivo, pedidos_swap_l, swap, kernel>>
        /\ cpu.pc \notin {"traer", "marca"}
    BY <1>1 DEF Entrada1, EntradaPresente, BuscarFrameLibre, ReemplazarSinPaginas, EnPageFault,
                ResponderMarco, Lectura, Morir, enSwap
  <2>2. Suspendiendo(p)' => Suspendiendo(p)  BY <2>1 DEF Suspendiendo
  <2>. QED  BY <2>1, <2>2, SitioDeQuietos
<1>. QED
  BY <1>1, SitioAlTomar, SitioAlReemplazar, SitioAlTraer, SitioAlMarcar DEF Funciones_cpu

\* swap_.
LEMMA SitioDeSwap ==
    ASSUME IInv, DInv, NEW p, NEW n, NEW e, NEW w, EsPalabra(p, n, e, w), Swap_, fiel'[p][n]
    PROVE  EnSuSitio(p, n, e, w)'
<1>1. CASE TomarPedido
  <2>1. UNCHANGED <<tabla_2_l, memoria, archivo, pedidos_swap_l, kernel, cpu>>
        /\ swap.pc = "libre" /\ (UNCHANGED swap \/ swap'.pc = "quitar")
    BY <1>1 DEF TomarPedido, Morir
  <2>2. Suspendiendo(p)' => Suspendiendo(p)  BY <2>1 DEF Suspendiendo
  <2>3. UNCHANGED swap \/ (swap.pc # "copiar" /\ swap'.pc # "copiar")  BY <2>1
  <2>. QED  BY <2>1, <2>2, <2>3, SitioDeQuietos
<1>. QED
  BY <1>1, SitioAlQuitar, SitioAlCopiar, SitioSinArchivo DEF Swap_

\* After a step too the initialised pids are processes.
LEMMA IniciadosProcesoLuego == IInv' => (Iniciados \subseteq Proceso)'
<1>1. IInv => Iniciados \subseteq Proceso  BY IniciadosProceso
<1>. QED  BY <1>1, PTL

\* Every word stays in its place.
LEMMA SitioPaso ==
    ASSUME IInv, IInv', DInv, PalabrasInv, [Next]_vars
    PROVE  SitioInv'
<1>1. HistoriaTipo /\ ArchivoInv /\ IndiceInv /\ TraidaInv /\ MarcaInv /\ SitioInv
  BY DEF PalabrasInv
<1>2. SUFFICES ASSUME ~ carrera', NEW p \in Iniciados', NEW n \in Pagina, estado'[p] # "exit",
                      fiel'[p][n], NEW e, e = EntradaPag(p, n)', NEW w, w = escrito'[p][n]
      PROVE  EnSuSitio(p, n, e, w)'
  BY DEF SitioInv
<1>3. p \in Proceso /\ ~ carrera
  <2>1. Iniciados' \subseteq Proceso  BY IniciadosProcesoLuego DEF Proceso
  <2>. QED  BY <1>2, <2>1, CarreraQueda
<1>4. CASE p \notin Iniciados
  <2>1. Inicializar_proceso
    <3>1. CASE UNCHANGED datos  BY <1>2, <1>4, <3>1 DEF datos, Iniciados
    <3>2. LiberarPagina \/ TomarFrame \/ Marcar \/ Traer_a_memoria \/ Reemplazar
             => Iniciados' = Iniciados
      BY TrasLiberar, TrasTomar, TrasMarcar, TrasTraer, LlegaAlReemplazar
         DEF LlegaPagina, datos, Iniciados
    <3>. QED  BY <1>2, <1>4, <3>1, <3>2, DatosDelPaso
  <2>2. w = escrito[p][n]  BY <1>2, <2>1 DEF Inicializar_proceso, historia
  <2>. QED  BY <1>1, <1>2, <1>4, <2>1, <2>2, SitioAlNacer
<1>5. CASE p \in Iniciados
  <2>1. e = EntradaPag(p, n)  BY <1>2, <1>5, TablaQueda
  <2>2. e \in EntradasDe(p) /\ e \in 0 .. Len(tabla_2_l) - 1
    BY <1>2, <1>5, <2>1, EntradaPagPropia, EntradasTipo
  <2>3. estado[p] # "exit"  BY <1>2, <1>3, EstadoAvanza
  <2>4. CASE Escritura
    BY <1>1, <1>2, <1>3, <1>5, <2>1, <2>2, <2>3, <2>4, SitioAlEscribir
  <2>5. CASE ~ Escritura
    <3>1. fiel[p][n] /\ w = escrito[p][n]  BY <1>2, <1>3, <2>5, FielBaja
    <3>2. EsPalabra(p, n, e, w)
      BY <1>1, <1>2, <1>3, <1>5, <2>1, <2>2, <2>3, <3>1 DEF EsPalabra, SitioInv
    <3>. QED
      BY <1>1, <1>2, <2>5, <3>1, <3>2, SitioDelAmbiente, SitioDelKernel, SitioDeCpu,
         SitioDeSwap DEF Next, Viva
  <2>. QED  BY <2>4, <2>5
<1>. QED  BY <1>4, <1>5

\* It holds at the start, and every step keeps it.
LEMMA PalabrasInicio == Init => PalabrasInv
<1>1. SUFFICES ASSUME Init PROVE PalabrasInv  OBVIOUS
<1>2. cpu.pc = "libre" /\ tlb = {} /\ Iniciados = {}
  BY <1>1 DEF Init, CpuLibre, Iniciados
<1>3. HistoriaTipo  BY <1>1, CotasAssumption DEF Init, HistoriaTipo, Palabra
<1>4. ArchivoInv  BY <1>1 DEF Init, ArchivoInv
<1>. QED
  BY <1>2, <1>3, <1>4
     DEF PalabrasInv, IndiceInv, TraidaInv, MarcaInv, SitioInv, LecturaFiel

\* PalabrasInv is inductive.
LEMMA PalabrasPaso ==
    ASSUME IInv, IInv', DInv, TlbInv, PalabrasInv, [Next]_vars
    PROVE  PalabrasInv'
<1>1. HistoriaTipo /\ ArchivoInv /\ IndiceInv /\ TraidaInv /\ MarcaInv
  BY DEF PalabrasInv
<1>2. Iniciados \subseteq Iniciados'  BY TablasCrecen DEF DInv, Conserva
<1>. QED
  BY <1>1, <1>2, HistoriaPaso, ArchivoPaso, IndicePaso, TraidaPaso, MarcaPaso, SitioPaso,
     LecturaPaso DEF PalabrasInv

(* A READ answers the last word written to the page, in its frame or        *)
(* brought back from the swap file (lectura, funciones_cpu.c; swap.c:229),  *)
(* for any number of processes, pages, frames, accesses and suspensions,    *)
(* as long as none of the losses that LecturaFiel names has happened to it. *)
THEOREM LecturasFieles == ASSUME OrdenDePids PROVE Spec => []LecturaFiel
<1>. USE OrdenDePids
<1>1. Init => IInv /\ DInv /\ TlbInv /\ PalabrasInv
  <2>1. Init => TlbInv  BY DEF Init, CpuLibre, TlbInv, Ejecuta
  <2>. QED  BY <2>1, IInvInicio, DInvInicio, PalabrasInicio
<1>2. IInv /\ DInv /\ TlbInv /\ PalabrasInv /\ [Next]_vars
         => (IInv /\ DInv /\ TlbInv /\ PalabrasInv)'
  BY IInvPaso, DInvPaso, TlbPaso, PalabrasPaso
<1>3. PalabrasInv => LecturaFiel  BY DEF PalabrasInv
<1>. QED  BY <1>1, <1>2, <1>3, PTL DEF Spec
=============================================================================
