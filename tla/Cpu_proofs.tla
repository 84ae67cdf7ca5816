------------------------------ MODULE Cpu_proofs ------------------------------
(***************************************************************************)
(* Theorems on the CPU, for every number of processes, script, size of the  *)
(* TLB and order of dispatches and interruptions.                           *)
(*                                                                          *)
(* First the TLB alone: a page occurs once, it never outgrows ENTRADAS_TLB, *)
(* LRU evicts what it should among the pages that were hit, and FIFO is the *)
(* abstract Cache.  Nothing is assumed there of the PCB in the CPU: an      *)
(* access that is made is to a page of the process.                         *)
(*                                                                          *)
(* Then the PCBs (CInv): each one is what its process has still to execute, *)
(* wherever it is, and the TLB has frames of one process.  From that follow *)
(* the types and that Cpu implements Programa.                              *)
(***************************************************************************)
EXTENDS Cpu, Mensajes_proofs

\* The frame of an entry may be anything here.
EntradaTlb(e) ==
    e \in [numero_pagina : Pagina, marco : {e.marco}, tiempo_carga : Nat,
           ultima_referencia : Nat]

\* An entry tells when its page was last used, once it has been hit.
TlbInv ==
    /\ IsFiniteSet(tlb) /\ Cardinality(tlb) <= ENTRADAS_TLB
    /\ \A e \in tlb : EntradaTlb(e)
    /\ \A e, f \in tlb : e.numero_pagina = f.numero_pagina => e = f
    /\ reloj \in Nat \ {0}
    /\ algoritmo \in {"FIFO", "LRU"}
    /\ ultimoUso \in [Pagina -> Nat]
    /\ \A e \in tlb :
          e.ultima_referencia \in {0, ultimoUso[e.numero_pagina]}

-----------------------------------------------------------------------------
\* The address of an access that is made is in a page of the process.
LEMMA PaginaDeDireccion ==
    ASSUME NEW d \in Direccion
    PROVE  NumeroPagina(d) \in Pagina
<1>1. PAGINAS \in Nat \ {0} /\ TAM_PAGINA \in Nat \ {0}  BY PaginasAssumption
<1> DEFINE T == PAGINAS * TAM_PAGINA
<1>2. T \in Nat  BY <1>1
<1>3. PICK i \in 0 .. T \div 4 - 1 : d = 4 * i  BY DEF Direccion, TAMANO
<1>. HIDE DEF T
<1>4. d \in Nat /\ d < T  BY <1>2, <1>3
<1> DEFINE n == d \div TAM_PAGINA
<1>5. n \in Nat /\ n * TAM_PAGINA <= d  BY <1>1, <1>4, SMTT(30)
<1>. HIDE DEF n
<1>6. ~ n >= PAGINAS
  <2>1. SUFFICES ASSUME n >= PAGINAS PROVE FALSE  OBVIOUS
  <2>2. n * TAM_PAGINA >= PAGINAS * TAM_PAGINA  BY <2>1, <1>1, <1>5, SMTT(30)
  <2>. QED  BY <2>2, <1>4, <1>5, <1>1 DEF T
<1>. QED  BY <1>5, <1>6, <1>1 DEF n, NumeroPagina, Pagina

\* What an access to page p does to the TLB and its clock.
Acceso(pid, p) ==
    /\ p \in Pagina
    /\ Get_marco(pid, p)

\* buscar_marco and cargar_entrada are the only ones to change the TLB, but for
\* the change of process.
LEMMA PasosDeLaTlb ==
    ASSUME [Next]_vars
    PROVE  \/ \E pid, p : Acceso(pid, p)
           \/ \E pid : PrepararTlb(pid)
           \/ UNCHANGED <<tlb, reloj, algoritmo, ultimoUso>>
<1> DEFINE G == \/ \E pid, p : Acceso(pid, p)
                \/ \E pid : PrepararTlb(pid)
                \/ UNCHANGED <<tlb, reloj, algoritmo, ultimoUso>>
<1>1. ASSUME NEW d, Traducir(d)
      PROVE  \E pid, p : Acceso(pid, p)
  BY <1>1, PaginaDeDireccion DEF Traducir, Acceso
<1> DEFINE I == UNCHANGED <<tlb, reloj, algoritmo, ultimoUso>>
<1>2. I => G  OBVIOUS
<1>. HIDE DEF G
<1>3. CASE UNCHANGED vars  BY <1>3, <1>2 DEF vars, varsMmu
<1>4. CASE \/ Arrancar(PasoMemoria) \/ Arrancar(PasoCpu) \/ Arrancar(PasoKernel)
           \/ Arrancar(Lanzar)
  <2>1. I  BY <1>4 DEF Arrancar, varsMmu
  <2>. QED  BY <2>1, <1>2
<1>5. CASE Atender
  <2>1. I  BY <1>5 DEF Atender, ConsolaEnvia, GestionarComunicacion,
                       AvisarConsola, varsMmu
  <2>. QED  BY <2>1, <1>2
<1>6. CASE \/ \E p \in Procesos : Despachar(p)
           \/ Interrumpir \/ RecibirDelCpu \/ AtencionInterrupt
  <2>1. I  BY <1>6 DEF Despachar, Interrumpir, RecibirDelCpu, AtencionInterrupt,
                       varsMmu
  <2>. QED  BY <2>1, <1>2
<1>10. CASE ReciboPCBdesdeKernel
  <2>1. \E pid : PrepararTlb(pid)  BY <1>10 DEF ReciboPCBdesdeKernel
  <2>. QED  BY <2>1 DEF G
<1>11. CASE FetchOperands
  <2>1. Traducir(Parametro(2))  BY <1>11 DEF FetchOperands
  <2>. QED  BY <2>1, <1>1 DEF G
<1>12. CASE Escribir \/ Leer
  <2>1. Traducir(Parametro(1))  BY <1>12 DEF Escribir, Leer
  <2>. QED  BY <2>1, <1>1 DEF G
<1>13. CASE Reiniciar
  <2>1. I  BY <1>13 DEF Reiniciar
  <2>. QED  BY <2>1, <1>2
<1>14. CASE Fetch \/ AccesoFuera \/ ExecuteNoOp \/ ExecuteIO \/ ExecuteExit
            \/ ExecuteOtra \/ CheckInterrupt \/ Devolver
  <2>1. I
    BY <1>14 DEF Fetch, AccesoFuera, ExecuteNoOp, ExecuteIO, ExecuteExit,
                 ExecuteOtra, CheckInterrupt, Devolver, varsMmu
  <2>. QED  BY <2>1, <1>2
<1>15. CASE Hilo  BY <1>15, <1>10, <1>11, <1>12, <1>13, <1>14 DEF Hilo
<1>16. CASE Next  BY <1>16, <1>4, <1>5, <1>6, <1>15 DEF Next
<1>. QED  BY <1>3, <1>16 DEF G

-----------------------------------------------------------------------------
\* A hit leaves the page where it was, with the time of its use.
LEMMA TlbAcierta ==
    ASSUME TlbInv, NEW p \in Pagina, Acierta(p),
           ultimoUso' = [ultimoUso EXCEPT ![p] = reloj],
           reloj' = reloj + RETARDO, algoritmo' = algoritmo
    PROVE  TlbInv'
<1>1. PICK e \in tlb : /\ e.numero_pagina = p
                       /\ tlb' = (tlb \ {e}) \union
                                   {[e EXCEPT !.ultima_referencia = reloj]}
  BY DEF Acierta, Coincide, Referenciada
<1> DEFINE r == [e EXCEPT !.ultima_referencia = reloj]
<1>2. EntradaTlb(e) /\ reloj \in Nat \ {0}  BY DEF TlbInv
<1>3. /\ EntradaTlb(r) /\ r.numero_pagina = p /\ r.ultima_referencia = reloj
  BY <1>1, <1>2 DEF EntradaTlb
<1>. HIDE DEF r
<1>4. tlb' = (tlb \ {e}) \union {r}  BY <1>1 DEF r
<1>5. IsFiniteSet(tlb') /\ Cardinality(tlb') <= ENTRADAS_TLB
  <2>1. /\ IsFiniteSet(tlb \ {e})
        /\ Cardinality(tlb \ {e}) = Cardinality(tlb) - 1
        /\ Cardinality(tlb) \in Nat
    BY FS_RemoveElement, FS_CardinalityType DEF TlbInv
  <2>2. /\ IsFiniteSet((tlb \ {e}) \union {r})
        /\ Cardinality((tlb \ {e}) \union {r})
              \in {Cardinality(tlb \ {e}), Cardinality(tlb \ {e}) + 1}
    BY <2>1, FS_AddElement, FS_CardinalityType
  <2>. QED  BY <2>1, <2>2, <1>4, EntradasAssumption DEF TlbInv
<1>6. \A f \in tlb \ {e} : EntradaTlb(f) /\ f.numero_pagina # p
  BY <1>1 DEF TlbInv
<1>7. reloj' \in Nat \ {0} /\ ultimoUso' \in [Pagina -> Nat]
  BY RetardoAssumption DEF TlbInv
<1>8. /\ ultimoUso'[p] = reloj
      /\ \A q \in Pagina \ {p} : ultimoUso'[q] = ultimoUso[q]
  BY DEF TlbInv
<1>9. \A f \in tlb' : EntradaTlb(f)  BY <1>3, <1>4, <1>6
<1>10. \A f, g \in tlb' : f.numero_pagina = g.numero_pagina => f = g
  BY <1>3, <1>4, <1>6 DEF TlbInv
<1>11. \A f \in tlb' :
          f.ultima_referencia \in {0, ultimoUso'[f.numero_pagina]}
  <2>1. ASSUME NEW f \in tlb \ {e}
        PROVE  f.ultima_referencia \in {0, ultimoUso'[f.numero_pagina]}
    <3>1. f.numero_pagina \in Pagina \ {p}  BY <1>6 DEF EntradaTlb
    <3>. QED  BY <3>1, <1>8 DEF TlbInv
  <2>. QED  BY <2>1, <1>3, <1>4, <1>8
<1>. QED  BY <1>5, <1>7, <1>9, <1>10, <1>11 DEF TlbInv

\* The victim is in the TLB, so that a new entry takes no place of its own.
LEMMA TlbFalla ==
    ASSUME TlbInv, NEW pid, NEW p \in Pagina, Falla(pid, p),
           ultimoUso' = [ultimoUso EXCEPT ![p] = reloj],
           reloj' = reloj + RETARDO, algoritmo' = algoritmo
    PROVE  TlbInv'
<1> DEFINE n == NuevaEntrada(p, get_marco_memoria(pid, p), reloj)
<1>1. PICK S : /\ tlb' = S \union {n} /\ S \subseteq tlb
               /\ \/ S = tlb /\ Cardinality(tlb) < ENTRADAS_TLB
                  \/ \E v \in tlb : S = tlb \ {v}
  BY DEF Falla, Cargada, Victimas
<1>2. reloj \in Nat \ {0}  BY DEF TlbInv
<1>3. EntradaTlb(n) /\ n.numero_pagina = p /\ n.ultima_referencia = 0
  BY <1>2 DEF NuevaEntrada, EntradaTlb
<1>. HIDE DEF n
<1>4. IsFiniteSet(tlb') /\ Cardinality(tlb') <= ENTRADAS_TLB
  <2>1. IsFiniteSet(S) /\ Cardinality(S) \in Nat /\ Cardinality(S) < ENTRADAS_TLB
    <3>1. CASE S = tlb /\ Cardinality(tlb) < ENTRADAS_TLB
      BY <3>1, FS_CardinalityType DEF TlbInv
    <3>2. CASE \E v \in tlb : S = tlb \ {v}
      <4>1. PICK v \in tlb : S = tlb \ {v}  BY <3>2
      <4>2. /\ IsFiniteSet(tlb) /\ Cardinality(tlb) \in Nat
            /\ Cardinality(tlb) <= ENTRADAS_TLB
        BY FS_CardinalityType DEF TlbInv
      <4>3. IsFiniteSet(S) /\ Cardinality(S) = Cardinality(tlb) - 1
        BY <4>1, <4>2, FS_RemoveElement
      <4>4. Cardinality(S) \in Nat  BY <4>3, FS_CardinalityType
      <4>. QED  BY <4>2, <4>3, <4>4, EntradasAssumption
    <3>. QED  BY <3>1, <3>2, <1>1
  <2>2. /\ IsFiniteSet(S \union {n})
        /\ Cardinality(S \union {n}) \in {Cardinality(S), Cardinality(S) + 1}
    BY <2>1, FS_AddElement
  <2>. QED  BY <2>1, <2>2, <1>1, EntradasAssumption
<1>5. \A f \in S : EntradaTlb(f) /\ f.numero_pagina # p
  BY <1>1 DEF TlbInv, Falla, Coincide
<1>6. reloj' \in Nat \ {0} /\ ultimoUso' \in [Pagina -> Nat]
  BY RetardoAssumption DEF TlbInv
<1>7. \A q \in Pagina \ {p} : ultimoUso'[q] = ultimoUso[q]
  BY DEF TlbInv
<1>8. \A f \in tlb' : EntradaTlb(f)  BY <1>1, <1>3, <1>5
<1>9. \A f, g \in tlb' : f.numero_pagina = g.numero_pagina => f = g
  BY <1>1, <1>3, <1>5 DEF TlbInv
<1>10. \A f \in tlb' :
          f.ultima_referencia \in {0, ultimoUso'[f.numero_pagina]}
  <2>1. ASSUME NEW f \in S
        PROVE  f.ultima_referencia \in {0, ultimoUso'[f.numero_pagina]}
    <3>1. f.numero_pagina \in Pagina \ {p}  BY <1>5 DEF EntradaTlb
    <3>. QED  BY <3>1, <1>1, <1>7 DEF TlbInv
  <2>. QED  BY <2>1, <1>1, <1>3
<1>. QED  BY <1>4, <1>6, <1>8, <1>9, <1>10 DEF TlbInv

LEMMA TlbAcceso ==
    ASSUME TlbInv, NEW pid, NEW p, Acceso(pid, p)
    PROVE  TlbInv'
BY TlbAcierta, TlbFalla DEF Acceso, Get_marco

\* The change of process forgets everything.
LEMMA TlbPreparar ==
    ASSUME TlbInv, NEW pid, PrepararTlb(pid)
    PROVE  TlbInv'
<1>1. /\ \/ tlb' = {} /\ ultimoUso' = [q \in Pagina |-> 0]
         \/ UNCHANGED <<tlb, ultimoUso>>
      /\ UNCHANGED <<reloj, algoritmo>>
  BY DEF PrepararTlb
<1>2. CASE tlb' = {} /\ ultimoUso' = [q \in Pagina |-> 0]
  BY <1>1, <1>2, FS_EmptySet, EntradasAssumption DEF TlbInv
<1>3. CASE UNCHANGED <<tlb, ultimoUso>>
  BY <1>1, <1>3 DEF TlbInv
<1>. QED  BY <1>1, <1>2, <1>3

LEMMA TlbInicio == Init => TlbInv
BY FS_EmptySet, EntradasAssumption DEF Init, InitMmu, TlbInv

LEMMA TlbPaso == TlbInv /\ [Next]_vars => TlbInv'
<1> SUFFICES ASSUME TlbInv, [Next]_vars PROVE TlbInv'  OBVIOUS
<1>1. ASSUME UNCHANGED <<tlb, reloj, algoritmo, ultimoUso>> PROVE TlbInv'
  BY <1>1 DEF TlbInv
<1>. QED  BY <1>1, PasosDeLaTlb, TlbAcceso, TlbPreparar

\* In every state the TLB has ENTRADAS_TLB entries at most, no page twice, and
\* the last reference of a page that was hit is its last use (buscar_marco,
\* cargar_entrada, limpiar_tlb).
THEOREM TlbSinRepetir == Spec => []TlbInv
BY TlbInicio, TlbPaso, PTL DEF Spec

-----------------------------------------------------------------------------
\* The step of LruEntreReferenciadas.
LruPaso ==
    \A e \in tlb :
        /\ algoritmo = "LRU"
        /\ tlb' # {}
        /\ e.ultima_referencia # 0
        /\ \A f \in tlb' : f.numero_pagina # e.numero_pagina
        => \A f \in tlb : /\ f.ultima_referencia # 0
                          /\ ultimoUso[f.numero_pagina]
                               >= ultimoUso[e.numero_pagina]

\* Only a replacement takes a page away and leaves others.
LEMMA SoloReemplazo ==
    ASSUME TlbInv, [Next]_vars, NEW e \in tlb, tlb' # {}, algoritmo = "LRU",
           \A f \in tlb' : f.numero_pagina # e.numero_pagina
    PROVE  \A f \in tlb : ~ MenorLRU(f, e)
<1>1. ~ UNCHANGED tlb  OBVIOUS
<1>2. ASSUME NEW pid, PrepararTlb(pid) PROVE FALSE
  BY <1>2, <1>1 DEF PrepararTlb
<1>3. PICK pid, p : Acceso(pid, p)  BY <1>1, <1>2, PasosDeLaTlb
<1>4. ~ Acierta(p)
  <2>1. SUFFICES ASSUME Acierta(p) PROVE FALSE  OBVIOUS
  <2>2. PICK h \in tlb : tlb' = (tlb \ {h}) \union
                                 {[h EXCEPT !.ultima_referencia = reloj]}
    BY <2>1 DEF Acierta, Coincide, Referenciada
  <2>3. EntradaTlb(h)  BY DEF TlbInv
  <2>4. [h EXCEPT !.ultima_referencia = reloj].numero_pagina = h.numero_pagina
    BY <2>3 DEF EntradaTlb
  <2>. QED  BY <2>2, <2>4
<1>5. Falla(pid, p)  BY <1>3, <1>4 DEF Acceso, Get_marco
<1>6. PICK v \in Victimas(tlb, algoritmo) : tlb \ {v} \subseteq tlb'
  <2>1. ~ tlb \subseteq tlb'  OBVIOUS
  <2>. QED  BY <1>5, <2>1 DEF Falla, Cargada
<1>7. e = v  BY <1>6
<1>. QED  BY <1>6, <1>7 DEF Victimas

LEMMA LruDeUnPaso == TlbInv /\ [Next]_vars => LruPaso
<1> SUFFICES ASSUME TlbInv, [Next]_vars, NEW e \in tlb,
                    algoritmo = "LRU", tlb' # {}, e.ultima_referencia # 0,
                    \A f \in tlb' : f.numero_pagina # e.numero_pagina,
                    NEW f \in tlb
             PROVE  /\ f.ultima_referencia # 0
                    /\ ultimoUso[f.numero_pagina] >= ultimoUso[e.numero_pagina]
  BY DEF LruPaso
<1>1. ~ MenorLRU(f, e)  BY SoloReemplazo
<1>2. e.ultima_referencia \in Nat /\ f.ultima_referencia \in Nat
  BY DEF TlbInv, EntradaTlb
<1>3. f.ultima_referencia >= e.ultima_referencia
  BY <1>1, <1>2 DEF MenorLRU
<1>4. f.ultima_referencia # 0  BY <1>2, <1>3
<1>5. /\ e.ultima_referencia = ultimoUso[e.numero_pagina]
      /\ f.ultima_referencia = ultimoUso[f.numero_pagina]
  BY <1>4 DEF TlbInv
<1>. QED  BY <1>3, <1>4, <1>5

\* For every size of the TLB and every order of accesses: of the pages used
\* again after their load LRU evicts the one used longest ago, and only when
\* none of the others is unused (reemplazar_entrada_LRU).
THEOREM LruDesaloja == Spec => LruEntreReferenciadas
<1>1. TlbInv /\ [Next]_vars => [LruPaso]_varsMmu  BY LruDeUnPaso
<1>2. Spec => [][LruPaso]_varsMmu
  BY <1>1, TlbSinRepetir, PTL DEF Spec
<1>. QED  BY <1>2 DEF LruPaso, LruEntreReferenciadas

-----------------------------------------------------------------------------
(* The TLB with FIFO is a cache.                                            *)

\* s has the entries of S in the order of their loads.
Enumera(s, S) ==
    /\ s \in [1 .. Cardinality(S) -> S]
    /\ \A e \in S : \E i \in 1 .. Cardinality(S) : s[i] = e
    /\ \A i, j \in 1 .. Cardinality(S) :
          i < j => s[i].tiempo_carga < s[j].tiempo_carga

\* The entries have an order, and the clock is past their loads.
OrdenInv ==
    algoritmo = "FIFO" =>
        /\ \A e \in tlb : e.tiempo_carga < reloj
        /\ \E s : Enumera(s, tlb)

\* There is one order only.
LEMMA OrdenUnico ==
    ASSUME NEW S, Cardinality(S) \in Nat, \A e \in S : e.tiempo_carga \in Nat,
           NEW s, NEW t, Enumera(s, S), Enumera(t, S)
    PROVE  s = t
<1> DEFINE N == 1 .. Cardinality(S)
           D == {i \in N : s[i] # t[i]}
<1>1. s \in [N -> S] /\ t \in [N -> S]  BY DEF Enumera
<1>2. SUFFICES ASSUME D # {} PROVE FALSE
  <2>1. SUFFICES ASSUME s # t PROVE D # {}  OBVIOUS
  <2>2. s = [i \in N |-> s[i]] /\ t = [i \in N |-> t[i]]  BY <1>1
  <2>3. \E i \in N : s[i] # t[i]
    <3>1. SUFFICES ASSUME \A i \in N : s[i] = t[i] PROVE FALSE  OBVIOUS
    <3>. HIDE DEF N
    <3>2. [i \in N |-> s[i]] = [i \in N |-> t[i]]  BY <3>1
    <3>. QED  BY <3>2, <2>2, <2>1
  <2>. QED  BY <2>3
<1>3. PICK i \in D : \A k \in D : i <= k
  <2>1. D \subseteq Nat  OBVIOUS
  <2>. HIDE DEF D
  <2>. QED  BY <1>2, <2>1, MenorNat
<1>4. i \in N /\ s[i] # t[i] /\ s[i] \in S /\ t[i] \in S  BY <1>1
<1>5. \A k \in N : k < i => s[k] = t[k]
  <2>1. \A k \in N : k < i => k \notin D  BY <1>3, <1>4
  <2>. QED  BY <2>1
<1>6. PICK j \in N : t[j] = s[i]  BY <1>4 DEF Enumera
<1>7. PICK k \in N : s[k] = t[i]  BY <1>4 DEF Enumera
<1>8. i < j
  <2>1. j # i  BY <1>4, <1>6
  <2>2. ~ j < i
    <3>1. SUFFICES ASSUME j < i PROVE FALSE  OBVIOUS
    <3>2. s[j] = s[i]  BY <3>1, <1>5, <1>6
    <3>3. s[j].tiempo_carga < s[i].tiempo_carga  BY <3>1, <1>4 DEF Enumera
    <3>4. s[i].tiempo_carga \in Nat  BY <1>4
    <3>. QED  BY <3>2, <3>3, <3>4
  <2>. QED  BY <2>1, <2>2, <1>4
<1>9. i < k
  <2>1. k # i  BY <1>4, <1>7
  <2>2. ~ k < i
    <3>1. SUFFICES ASSUME k < i PROVE FALSE  OBVIOUS
    <3>2. t[k] = t[i]  BY <3>1, <1>5, <1>7
    <3>3. t[k].tiempo_carga < t[i].tiempo_carga  BY <3>1, <1>4 DEF Enumera
    <3>4. t[i].tiempo_carga \in Nat  BY <1>4
    <3>. QED  BY <3>2, <3>3, <3>4
  <2>. QED  BY <2>1, <2>2, <1>4
<1>10. t[i].tiempo_carga < s[i].tiempo_carga  BY <1>8, <1>6, <1>4 DEF Enumera
<1>11. s[i].tiempo_carga < t[i].tiempo_carga  BY <1>9, <1>7, <1>4 DEF Enumera
<1>12. s[i].tiempo_carga \in Nat /\ t[i].tiempo_carga \in Nat  BY <1>4
<1>. QED  BY <1>10, <1>11, <1>12

\* A sequence that grows and has a place for each entry leaves none out.
LEMMA EnumeraTodas ==
    ASSUME NEW S, IsFiniteSet(S), \A e \in S : e.tiempo_carga \in Nat,
           NEW s \in [1 .. Cardinality(S) -> S],
           \A i, j \in 1 .. Cardinality(S) :
              i < j => s[i].tiempo_carga < s[j].tiempo_carga
    PROVE  Enumera(s, S)
<1> DEFINE N == 1 .. Cardinality(S)
<1>1. Cardinality(S) \in Nat  BY FS_CardinalityType
<1>2. IsFiniteSet(N) /\ Cardinality(N) = Cardinality(S)
  BY <1>1, FS_Interval
<1>3. \A i, j \in N : s[i] = s[j] => i = j
  <2>1. SUFFICES ASSUME NEW i \in N, NEW j \in N, s[i] = s[j], i # j
                 PROVE FALSE
    OBVIOUS
  <2>2. s[i].tiempo_carga \in Nat /\ s[j] \in S  OBVIOUS
  <2>3. i < j \/ j < i  BY <2>1, <1>1
  <2>. QED  BY <2>1, <2>2, <2>3
<1>4. ASSUME NEW e \in S, \A i \in N : s[i] # e PROVE FALSE
  <2>1. s \in [N -> S \ {e}]  BY <1>4
  <2>2. IsFiniteSet(S \ {e}) /\ Cardinality(S \ {e}) = Cardinality(S) - 1
    BY FS_RemoveElement
  <2>3. Cardinality(S \ {e}) < Cardinality(N)  BY <2>2, <1>1, <1>2
  <2>. HIDE DEF N
  <2>4. \E x, y \in N : x # y /\ s[x] = s[y]
    BY ONLY <2>1, <2>2, <2>3, <1>2, FS_PigeonHole
  <2>. QED  BY <2>4, <1>3
<1>. QED  BY <1>4 DEF Enumera

\* What the TLB is in the order of its loads.
LEMMA EnOrdenEs ==
    ASSUME NEW s, Enumera(s, tlb), TlbInv
    PROVE  EnOrden = s
<1> DEFINE N == 1 .. Cardinality(tlb)
           Crece(t) == \A i, j \in DOMAIN t :
                          i < j => t[i].tiempo_carga < t[j].tiempo_carga
<1>1. s \in [N -> tlb] /\ Crece(s)  BY DEF Enumera
<1>2. EnOrden \in [N -> tlb] /\ Crece(EnOrden)
  <2>1. EnOrden = CHOOSE t \in [N -> tlb] : Crece(t)  BY DEF EnOrden
  <2>. HIDE DEF N, Crece
  <2>. QED  BY <1>1, <2>1
<1>3. \A e \in tlb : e.tiempo_carga \in Nat  BY DEF TlbInv, EntradaTlb
<1>4. IsFiniteSet(tlb) /\ Cardinality(tlb) \in Nat
  BY FS_CardinalityType DEF TlbInv
<1>5. Enumera(EnOrden, tlb)
  <2>1. DOMAIN EnOrden = N  BY <1>2
  <2>2. \A i, j \in N :
           i < j => EnOrden[i].tiempo_carga < EnOrden[j].tiempo_carga
    BY <1>2, <2>1
  <2>. QED  BY <1>2, <1>3, <1>4, <2>2, EnumeraTodas
<1>. QED  BY <1>3, <1>4, <1>5, OrdenUnico

\* The same, after a step.
LEMMA EnOrdenEsPrima ==
    ASSUME NEW s, Enumera(s, tlb'), TlbInv'
    PROVE  EnOrden' = s
<1> DEFINE N == 1 .. Cardinality(tlb')
           Crece(t) == \A i, j \in DOMAIN t :
                          i < j => t[i].tiempo_carga < t[j].tiempo_carga
<1>1. s \in [N -> tlb'] /\ Crece(s)  BY DEF Enumera
<1>2. EnOrden' \in [N -> tlb'] /\ Crece(EnOrden')
  <2>1. EnOrden' = CHOOSE t \in [N -> tlb'] : Crece(t)  BY DEF EnOrden
  <2>. HIDE DEF N, Crece
  <2>. QED  BY <1>1, <2>1
<1>3. \A e \in tlb' : e.tiempo_carga \in Nat  BY DEF TlbInv, EntradaTlb
<1>4. IsFiniteSet(tlb') /\ Cardinality(tlb') \in Nat
  BY FS_CardinalityType DEF TlbInv
<1>5. Enumera(EnOrden', tlb')
  <2>1. DOMAIN (EnOrden') = N  BY <1>2
  <2>2. \A i, j \in N :
           i < j => EnOrden'[i].tiempo_carga < EnOrden'[j].tiempo_carga
    BY <1>2, <2>1
  <2>. QED  BY <1>2, <1>3, <1>4, <2>2, EnumeraTodas
<1>. QED  BY <1>3, <1>4, <1>5, OrdenUnico

\* A hit leaves the order of the loads.
LEMMA OrdenAcierta ==
    ASSUME TlbInv, TlbInv', NEW p \in Pagina, Acierta(p), NEW s, Enumera(s, tlb),
           \A e \in tlb : e.tiempo_carga < reloj,
           reloj' = reloj + RETARDO
    PROVE  /\ Cola' = Cola
           /\ \E t : Enumera(t, tlb')
           /\ \A e \in tlb' : e.tiempo_carga < reloj'
<1>1. PICK e \in tlb : /\ e.numero_pagina = p
                       /\ tlb' = (tlb \ {e}) \union
                                   {[e EXCEPT !.ultima_referencia = reloj]}
  BY DEF Acierta, Coincide, Referenciada
<1> DEFINE r == [e EXCEPT !.ultima_referencia = reloj]
           N == 1 .. Cardinality(tlb)
           t == [i \in N |-> IF s[i] = e THEN r ELSE s[i]]
<1>2. EntradaTlb(e) /\ reloj \in Nat  BY DEF TlbInv
<1>3. r.numero_pagina = p /\ r.tiempo_carga = e.tiempo_carga
  BY <1>1, <1>2 DEF EntradaTlb
<1>. HIDE DEF r
<1>4. tlb' = (tlb \ {e}) \union {r}  BY <1>1 DEF r
<1>5. r \notin tlb \ {e}  BY <1>1, <1>3 DEF TlbInv
<1>6. Cardinality(tlb') = Cardinality(tlb)
  <2>1. /\ IsFiniteSet(tlb \ {e})
        /\ Cardinality(tlb \ {e}) = Cardinality(tlb) - 1
        /\ Cardinality(tlb) \in Nat
    BY FS_RemoveElement, FS_CardinalityType DEF TlbInv
  <2>2. Cardinality((tlb \ {e}) \union {r}) = Cardinality(tlb \ {e}) + 1
    BY <1>5, <2>1, FS_AddElement
  <2>. QED  BY <1>4, <2>1, <2>2
<1>7. s \in [N -> tlb] /\ \A i, j \in N :
                             i < j => s[i].tiempo_carga < s[j].tiempo_carga
  BY DEF Enumera
<1>8. \A i \in N : /\ t[i] \in tlb'
                   /\ t[i].tiempo_carga = s[i].tiempo_carga
                   /\ t[i].numero_pagina = s[i].numero_pagina
  BY <1>1, <1>3, <1>4, <1>7
<1>9. t \in [1 .. Cardinality(tlb') -> tlb']  BY <1>6, <1>8
<1>10. Enumera(t, tlb')
  <2>1. IsFiniteSet(tlb') /\ \A f \in tlb' : f.tiempo_carga \in Nat
    BY DEF TlbInv, EntradaTlb
  <2>2. \A i, j \in N : i < j => t[i].tiempo_carga < t[j].tiempo_carga
    BY <1>7, <1>8
  <2>. HIDE DEF t
  <2>. QED  BY <1>6, <1>9, <2>1, <2>2, EnumeraTodas
<1>11. EnOrden = s /\ EnOrden' = t  BY <1>10, EnOrdenEs, EnOrdenEsPrima
<1>12. Cola' = Cola
  <2>1. DOMAIN s = N /\ DOMAIN t = N  BY <1>7
  <2>2. Cola = [i \in N |-> s[i].numero_pagina]  BY <1>11, <2>1 DEF Cola
  <2>3. Cola' = [i \in N |-> t[i].numero_pagina]  BY <1>11, <2>1 DEF Cola
  <2>. HIDE DEF t, N
  <2>. QED  BY <1>8, <2>2, <2>3
<1>13. \A f \in tlb' : f.tiempo_carga < reloj'
  <2>1. \A f \in tlb' : f.tiempo_carga \in Nat /\ f.tiempo_carga < reloj
    BY <1>2, <1>3, <1>4 DEF TlbInv, EntradaTlb
  <2>. QED  BY <2>1, <1>2, RetardoAssumption
<1>. QED  BY <1>10, <1>12, <1>13

\* The order with the page just loaded after those of S, the last in time.
LEMMA OrdenConNueva ==
    ASSUME NEW S, IsFiniteSet(S), NEW s, Enumera(s, S), NEW n,
           n \notin S, n.tiempo_carga \in Nat,
           \A e \in S : e.tiempo_carga \in Nat /\ e.tiempo_carga < n.tiempo_carga
    PROVE  /\ Enumera(Append(s, n), S \union {n})
           /\ s \in Seq(S) /\ Len(s) = Cardinality(S)
<1> DEFINE k == Cardinality(S)
           T == S \union {n}
           t == Append(s, n)
<1>1. k \in Nat /\ IsFiniteSet(T) /\ Cardinality(T) = k + 1
  BY FS_CardinalityType, FS_AddElement
<1>2. s \in [1 .. k -> S] /\ \A i, j \in 1 .. k :
                                i < j => s[i].tiempo_carga < s[j].tiempo_carga
  BY DEF Enumera
<1>. HIDE DEF k, T
<1>3. s \in Seq(S) /\ Len(s) = k  BY <1>1, <1>2
<1>4. /\ t \in Seq(T) /\ Len(t) = k + 1
      /\ \A i \in 1 .. k : t[i] = s[i]
      /\ t[k + 1] = n
  <2>1. s \in Seq(T)  BY <1>1, <1>2 DEF T
  <2>2. n \in T  BY DEF T
  <2>. QED  BY <2>1, <2>2, <1>1, <1>3, AppendProperties
<1>. HIDE DEF t
<1>5. t \in [1 .. Cardinality(T) -> T]  BY <1>1, <1>4, LenProperties
<1>6. \A i, j \in 1 .. k + 1 : i < j => t[i].tiempo_carga < t[j].tiempo_carga
  <2>1. SUFFICES ASSUME NEW i \in 1 .. k + 1, NEW j \in 1 .. k + 1, i < j
                 PROVE  t[i].tiempo_carga < t[j].tiempo_carga
    OBVIOUS
  <2>2. i \in 1 .. k  BY <1>1, <2>1
  <2>3. CASE j \in 1 .. k  BY <2>1, <2>2, <2>3, <1>2, <1>4
  <2>4. CASE j = k + 1
    <3>1. s[i] \in S  BY <2>2, <1>2
    <3>. QED  BY <2>2, <2>4, <3>1, <1>4
  <2>. QED  BY <2>3, <2>4, <1>1
<1>7. \A e \in T : e.tiempo_carga \in Nat  BY DEF T
<1>8. Enumera(t, T)  BY <1>1, <1>5, <1>6, <1>7, EnumeraTodas
<1>. QED  BY <1>3, <1>8 DEF k, t, T

\* The order without its head, which is the entry loaded first.
LEMMA OrdenSinCabeza ==
    ASSUME NEW S, IsFiniteSet(S), \A e \in S : e.tiempo_carga \in Nat,
           NEW s, Enumera(s, S), NEW v \in S, \A e \in S : ~ MenorFIFO(e, v)
    PROVE  /\ s \in Seq(S) /\ Len(s) = Cardinality(S) /\ s # <<>>
           /\ s[1] = v /\ Enumera(Tail(s), S \ {v})
<1> DEFINE k == Cardinality(S)
           T == S \ {v}
           t == Tail(s)
<1>1. k \in Nat /\ IsFiniteSet(T) /\ Cardinality(T) = k - 1 /\ Cardinality(T) \in Nat
  BY FS_CardinalityType, FS_RemoveElement
<1>2. s \in [1 .. k -> S] /\ \A i, j \in 1 .. k :
                                i < j => s[i].tiempo_carga < s[j].tiempo_carga
  BY DEF Enumera
<1>. HIDE DEF k, T
<1>3. k > 0  BY <1>1
<1>4. s \in Seq(S) /\ Len(s) = k /\ s # <<>>  BY <1>1, <1>2, <1>3
<1>5. s[1] = v
  <2>1. PICK i \in 1 .. k : s[i] = v  BY DEF Enumera, k
  <2>2. ~ i > 1
    <3>1. SUFFICES ASSUME i > 1 PROVE FALSE  OBVIOUS
    <3>2. 1 \in 1 .. k  BY <1>3, <1>1
    <3>3. s[1].tiempo_carga < v.tiempo_carga  BY <2>1, <3>1, <3>2, <1>2
    <3>4. s[1] \in S  BY <3>2, <1>2
    <3>. QED  BY <3>3, <3>4 DEF MenorFIFO
  <2>. QED  BY <2>1, <2>2, <1>1
<1>6. /\ t \in Seq(S) /\ Len(t) = k - 1
      /\ \A i \in 1 .. k - 1 : t[i] = s[i + 1]
  BY <1>1, <1>4, HeadTailProperties
<1>. HIDE DEF t
<1>7. \A i \in 1 .. k - 1 : t[i] \in T
  <2>1. SUFFICES ASSUME NEW i \in 1 .. k - 1 PROVE t[i] \in T  OBVIOUS
  <2>2. i + 1 \in 1 .. k /\ 1 \in 1 .. k /\ 1 < i + 1  BY <1>1, <1>3
  <2>3. t[i] = s[i + 1] /\ s[i + 1] \in S  BY <2>2, <1>2, <1>6
  <2>4. v.tiempo_carga < s[i + 1].tiempo_carga  BY <2>2, <1>2, <1>5
  <2>5. v.tiempo_carga \in Nat  OBVIOUS
  <2>. QED  BY <2>3, <2>4, <2>5 DEF T
<1>8. t \in [1 .. Cardinality(T) -> T]
  <2>1. DOMAIN t = 1 .. k - 1  BY <1>6, <1>1
  <2>2. t = [i \in 1 .. k - 1 |-> t[i]]  BY <1>6, <2>1, LenProperties
  <2>. QED  BY <1>1, <1>7, <2>2
<1>9. \A i, j \in 1 .. k - 1 : i < j => t[i].tiempo_carga < t[j].tiempo_carga
  <2>1. \A i, j \in 1 .. k - 1 : i < j => i + 1 \in 1 .. k /\ j + 1 \in 1 .. k
                                          /\ i + 1 < j + 1
    BY <1>1
  <2>. QED  BY <2>1, <1>2, <1>6
<1>10. \A e \in T : e.tiempo_carga \in Nat  BY DEF T
<1>11. Enumera(t, T)  BY <1>1, <1>8, <1>9, <1>10, EnumeraTodas
<1>. QED  BY <1>4, <1>5, <1>11 DEF k, t, T

\* The pages of an order of the loads.
Paginado(s) == [i \in DOMAIN s |-> s[i].numero_pagina]

LEMMA PaginadoDe ==
    ASSUME NEW S, NEW s \in Seq(S), NEW n
    PROVE  /\ Paginado(Append(s, n)) = Append(Paginado(s), n.numero_pagina)
           /\ Len(Paginado(s)) = Len(s)
           /\ s # <<>> => Paginado(Tail(s)) = Tail(Paginado(s))
           /\ ToSet(Paginado(s)) = {s[i].numero_pagina : i \in DOMAIN s}
<1> DEFINE q == Paginado(s)
           U == {e.numero_pagina : e \in S}
<1>1. /\ q \in Seq(U) /\ Len(q) = Len(s) /\ DOMAIN q = DOMAIN s
      /\ \A i \in DOMAIN s : q[i] = s[i].numero_pagina
  BY DEF Paginado
<1>2. Paginado(Append(s, n)) = Append(Paginado(s), n.numero_pagina)
  BY <1>1 DEF Paginado
<1>3. s # <<>> => Paginado(Tail(s)) = Tail(Paginado(s))
  BY <1>1 DEF Paginado
<1>. HIDE DEF q
<1>4. ToSet(q) = {q[i] : i \in DOMAIN q}  BY DEF ToSet
<1>5. ToSet(q) = {s[i].numero_pagina : i \in DOMAIN s}
  <2>1. {q[i] : i \in DOMAIN q} = {q[i] : i \in DOMAIN s}  BY <1>1
  <2>2. {q[i] : i \in DOMAIN s} = {s[i].numero_pagina : i \in DOMAIN s}
    BY ONLY <1>1
  <2>. QED  BY <1>4, <2>1, <2>2
<1>. QED  BY <1>1, <1>2, <1>3, <1>5 DEF q

\* A page that is not held takes a free place or that of the head.
LEMMA OrdenFalla ==
    ASSUME TlbInv, TlbInv', NEW pid, NEW p \in Pagina, Falla(pid, p),
           NEW s, Enumera(s, tlb), algoritmo = "FIFO",
           \A e \in tlb : e.tiempo_carga < reloj,
           reloj' = reloj + RETARDO, RETARDO # 0
    PROVE  /\ C!Fallo(p)
           /\ \E t : Enumera(t, tlb')
           /\ \A e \in tlb' : e.tiempo_carga < reloj'
<1> DEFINE n == NuevaEntrada(p, get_marco_memoria(pid, p), reloj)
<1>1. /\ n.numero_pagina = p /\ n.tiempo_carga = reloj
      /\ reloj \in Nat
  BY DEF NuevaEntrada, TlbInv
<1>2. Coincide(tlb, p) = {} /\ tlb' \in Cargada(tlb, p, get_marco_memoria(pid, p), reloj, "FIFO")
  BY DEF Falla
<1>3. \/ Cardinality(tlb) < ENTRADAS_TLB /\ tlb' = tlb \union {n}
      \/ /\ ~ Cardinality(tlb) < ENTRADAS_TLB
         /\ \E v \in tlb : /\ \A e \in tlb : ~ MenorFIFO(e, v)
                           /\ tlb' = (tlb \ {v}) \union {n}
  BY <1>2 DEF Cargada, Victimas
<1>. HIDE DEF n
<1>4. /\ IsFiniteSet(tlb) /\ Cardinality(tlb) \in Nat
      /\ Cardinality(tlb) <= ENTRADAS_TLB
      /\ \A e \in tlb : e.tiempo_carga \in Nat
  BY FS_CardinalityType DEF TlbInv, EntradaTlb
<1>5. n \notin tlb
  BY <1>1, <1>2 DEF Coincide
<1>6. Cola = Paginado(EnOrden) /\ Cola' = Paginado(EnOrden')
  BY DEF Cola, Paginado
<1>7. EnOrden = s  BY EnOrdenEs
<1>8. \A e \in tlb' : e.tiempo_carga < reloj'
  <2>1. \A e \in tlb' : e \in tlb \/ e = n  BY <1>3
  <2>. QED  BY <2>1, <1>1, <1>4, RetardoAssumption
<1>9. p \notin ToSet(Cola)
  <2>1. s \in Seq(tlb)  BY <1>4 DEF Enumera
  <2>2. ToSet(Cola) = {s[i].numero_pagina : i \in DOMAIN s}
    BY <2>1, <1>6, <1>7, PaginadoDe
  <2>3. \A i \in DOMAIN s : s[i] \in tlb  BY <2>1
  <2>. QED  BY <2>2, <2>3, <1>2 DEF Coincide
<1>10. CASE Cardinality(tlb) < ENTRADAS_TLB /\ tlb' = tlb \union {n}
  <2>1. /\ Enumera(Append(s, n), tlb') /\ s \in Seq(tlb)
        /\ Len(s) = Cardinality(tlb)
    BY <1>10, <1>1, <1>4, <1>5, OrdenConNueva
  <2>2. Cola' = Append(Cola, p) /\ Len(Cola) = Len(s)
    BY <2>1, <1>1, <1>6, <1>7, EnOrdenEsPrima, PaginadoDe
  <2>3. Len(Cola) < ENTRADAS_TLB  BY <1>10, <2>1, <2>2
  <2>4. C!Fallo(p)  BY <1>9, <2>2, <2>3 DEF C!Fallo, C!ToSet, ToSet
  <2>. QED  BY <1>8, <2>1, <2>4
<1>11. ASSUME NEW v \in tlb, ~ Cardinality(tlb) < ENTRADAS_TLB,
              \A e \in tlb : ~ MenorFIFO(e, v), tlb' = (tlb \ {v}) \union {n}
       PROVE  C!Fallo(p) /\ \E t : Enumera(t, tlb')
  <2>1. /\ s \in Seq(tlb) /\ Len(s) = Cardinality(tlb) /\ s # <<>>
        /\ Enumera(Tail(s), tlb \ {v})
    BY <1>11, <1>4, OrdenSinCabeza
  <2>2. IsFiniteSet(tlb \ {v})  BY <1>4, FS_RemoveElement
  <2>3. /\ Enumera(Append(Tail(s), n), tlb') /\ Tail(s) \in Seq(tlb \ {v})
    BY <1>11, <1>1, <1>4, <1>5, <2>1, <2>2, OrdenConNueva
  <2>4. Cola' = Append(Paginado(Tail(s)), p)
    BY <2>3, <1>1, <1>6, EnOrdenEsPrima, PaginadoDe
  <2>5. Paginado(Tail(s)) = Tail(Cola) /\ Len(Cola) = Cardinality(tlb)
    BY <2>1, <1>6, <1>7, PaginadoDe
  <2>6. ~ Len(Cola) < ENTRADAS_TLB /\ Cola' = Append(Tail(Cola), p)
    BY <1>11, <2>4, <2>5
  <2>7. C!Fallo(p)  BY <1>9, <2>6 DEF C!Fallo, C!ToSet, ToSet
  <2>. QED  BY <2>3, <2>7
<1>. QED  BY <1>3, <1>8, <1>10, <1>11

\* What a step does to the cache.
CachePaso == algoritmo = "FIFO" => C!Next \/ UNCHANGED Cola

LEMMA OrdenPaso ==
    ASSUME RETARDO # 0, TlbInv, TlbInv', OrdenInv, [Next]_vars
    PROVE  OrdenInv' /\ CachePaso
<1>1. CASE algoritmo # "FIFO"
  <2>1. algoritmo' = algoritmo
    <3>1. ASSUME NEW pid, NEW p, Acceso(pid, p) PROVE algoritmo' = algoritmo
      BY <3>1 DEF Acceso, Get_marco
    <3>2. ASSUME NEW pid, PrepararTlb(pid) PROVE algoritmo' = algoritmo
      BY <3>2 DEF PrepararTlb
    <3>. QED  BY <3>1, <3>2, PasosDeLaTlb
  <2>. QED  BY <1>1, <2>1 DEF OrdenInv, CachePaso
<1>2. CASE algoritmo = "FIFO"
  <2>1. PICK s : Enumera(s, tlb)  BY <1>2 DEF OrdenInv
  <2>2. \A e \in tlb : e.tiempo_carga < reloj  BY <1>2 DEF OrdenInv
  <2>3. ASSUME NEW pid, NEW p, Acceso(pid, p)
        PROVE  OrdenInv' /\ CachePaso
    <3>1. p \in Pagina /\ reloj' = reloj + RETARDO /\ algoritmo' = algoritmo
      BY <2>3 DEF Acceso, Get_marco
    <3>2. CASE Acierta(p)
      BY <3>1, <3>2, <2>1, <2>2, OrdenAcierta DEF OrdenInv, CachePaso
    <3>3. CASE Falla(pid, p)
      <4>1. /\ C!Fallo(p) /\ \E t : Enumera(t, tlb')
            /\ \A e \in tlb' : e.tiempo_carga < reloj'
        BY <3>1, <3>3, <1>2, <2>1, <2>2, OrdenFalla
      <4>2. C!Next  BY <3>1, <4>1 DEF C!Next
      <4>. QED  BY <4>1, <4>2 DEF OrdenInv, CachePaso
    <3>4. Acierta(p) \/ Falla(pid, p)  BY <2>3 DEF Acceso, Get_marco
    <3>. QED  BY <3>2, <3>3, <3>4
  <2>4. ASSUME UNCHANGED <<tlb, reloj, algoritmo>>
        PROVE  OrdenInv' /\ CachePaso
    <3>1. EnOrden' = EnOrden  BY <2>4 DEF EnOrden
    <3>2. Cola' = Cola  BY <3>1 DEF Cola
    <3>. QED  BY <2>4, <3>2, <2>1, <2>2 DEF OrdenInv, CachePaso
  <2>5. ASSUME NEW pid, PrepararTlb(pid)
        PROVE  OrdenInv' /\ CachePaso
    <3>1. CASE tlb' = {}
      <4>1. Enumera(<<>>, tlb')  BY <3>1, FS_EmptySet DEF Enumera
      <4>2. EnOrden' = <<>>  BY <4>1, EnOrdenEsPrima
      <4>3. Cola' = <<>>  BY <4>2 DEF Cola
      <4>4. C!Next  BY <4>3 DEF C!Next, C!Vaciar
      <4>. QED  BY <3>1, <4>1, <4>4 DEF OrdenInv, CachePaso
    <3>2. CASE UNCHANGED tlb  BY <2>4, <2>5, <3>2 DEF PrepararTlb
    <3>. QED  BY <2>5, <3>1, <3>2 DEF PrepararTlb
  <2>. QED  BY <2>3, <2>4, <2>5, PasosDeLaTlb
<1>. QED  BY <1>1, <1>2

LEMMA OrdenInicio == Init => OrdenInv /\ C!Init
<1> SUFFICES ASSUME Init PROVE OrdenInv /\ C!Init  OBVIOUS
<1>1. tlb = {} /\ TlbInv  BY TlbInicio DEF Init, InitMmu
<1>2. Enumera(<<>>, tlb)  BY <1>1, FS_EmptySet DEF Enumera
<1>3. EnOrden = <<>>  BY <1>1, <1>2, EnOrdenEs
<1>4. Cola = <<>>  BY <1>3 DEF Cola
<1>. QED  BY <1>1, <1>2, <1>4 DEF OrdenInv, C!Init

\* With FIFO and accesses that take a second, the TLB of any size evicts the
\* page loaded longest ago, hits and changes of process notwithstanding
\* (reemplazar_entrada_FIFO): it is the abstract cache.
THEOREM CacheFifo == ASSUME RETARDO # 0 PROVE Spec => ImplementaCache
<1>1. TlbInv /\ TlbInv' /\ OrdenInv /\ [Next]_vars => OrdenInv' /\ [CachePaso]_varsMmu
  BY OrdenPaso
<1>2. Spec => C!Init /\ [][CachePaso]_varsMmu
  BY <1>1, OrdenInicio, TlbSinRepetir, PTL DEF Spec
<1>. QED  BY <1>2 DEF CachePaso, ImplementaCache

-----------------------------------------------------------------------------
(* The invariant of the PCBs.                                               *)
(*                                                                          *)
(* Between two instructions the PCB of a process is Quieta: past the first  *)
(* h of its lines, with the rest as its console sent them up to the first   *)
(* ill written one.  Of a script that has one nothing is said from it on.   *)

\* The lines that process p is to execute.
Lineas(p) == Renglones(guion[p])

\* A line with as many numbers as its name calls for.
BienHecha(linea) ==
    CASE linea.nombre \in {"I/O", "READ", "NO_OP"} -> Len(linea.numeros) = 1
      [] linea.nombre \in {"WRITE", "COPY"} -> Len(linea.numeros) = 2
      [] linea.nombre = "EXIT" -> Len(linea.numeros) = 0
      [] OTHER -> FALSE

\* The first k lines of s are well written; none of them is EXIT.
Bien(s, k) == \A j \in 1 .. k : BienHecha(s[j])
SinExit(s, k) == \A j \in 1 .. k : s[j].nombre # "EXIT"

\* The PCBs of p that the programs make.
PcbBueno(p) == [pid : {p}, tamano : {TAMANO}, program_counter : Nat,
                estimado_rafaga : {0}, estado : INICIADO .. INTERRUMPIDO,
                tiempo_block : Nat, tabla_paginas : {0}, tiempo_ejecucion : {0},
                instrucciones : Seq(Leida)]

\* The instructions of PCB b after the first n are those of the lines s.
Siguen(s, b, n) ==
    \A i \in n + 1 .. Len(s) : Bien(s, i) => b.instrucciones[i] = DelRenglon(s[i])

\* A PCB of p, with the lines s to execute, between its first h instructions and
\* the rest.
Quieta(p, s, h, b) ==
    /\ b \in PcbBueno(p)
    /\ Len(b.instrucciones) = Len(s)
    /\ b.program_counter = h /\ h <= Len(s)
    /\ Siguen(s, b, h)
    /\ Bien(s, h) => IF b.estado = FINALIZADO THEN h # 0 /\ s[h].nombre = "EXIT"
                                              ELSE SinExit(s, h)
Lista(p, s, h, b) == Quieta(p, s, h, b) /\ b.estado # FINALIZADO

\* With an instruction fetched.
Buscada(p, s, h, b) ==
    /\ b \in PcbBueno(p)
    /\ Len(b.instrucciones) = Len(s)
    /\ b.program_counter = h + 1 /\ h + 1 <= Len(s)
    /\ Siguen(s, b, h + 1)
    /\ b.estado # FINALIZADO
    /\ Bien(s, h) => SinExit(s, h)

\* With the operand of COPY still to fetch, or with it, from the words m.
SinOperando(p, s, h, b) ==
    /\ Buscada(p, s, h, b)
    /\ b.instrucciones[h + 1].id = COPY
    /\ Bien(s, h + 1) => b.instrucciones[h + 1] = DelRenglon(s[h + 1])
Operando(l, ins, m) ==
    /\ ins.id = COPY /\ ins.parametros[1] = l.numeros[1]
    /\ l.numeros[2] \in Direccion /\ ins.parametros[2] = m[l.numeros[2]]
ConOperando(p, s, h, b, m) ==
    /\ Buscada(p, s, h, b)
    /\ Bien(s, h + 1) =>
         LET l == s[h + 1] IN
         IF l.nombre = "COPY" THEN Operando(l, b.instrucciones[h + 1], m)
                              ELSE b.instrucciones[h + 1] = DelRenglon(l)

\* Where Memoria keeps the word of an address of p, and the words of p.
Dir(p, d) == DireccionFisica(get_marco_memoria(p, NumeroPagina(d)), d)
Mem(p) == [d \in Direccion |-> ram[Dir(p, d)]]

\* The main thread has a PCB to execute.
Ocupado == {"fetch", "operandos", "execute", "check", "send", "caida"}

\* Where the PCB of a process in the CPU is: on its way there, there, or back.
Yendo(p) ==
    /\ haciaCpu = pcb_serializar(pcbs[p], 0) /\ desdeCpu = <<>>
    /\ Lista(p, Lineas(p), hechas[p], pcbs[p]) /\ pc.cpu \notin Ocupado
Alla(p) == haciaCpu = <<>> /\ desdeCpu = <<>> /\ pc.cpu \in Ocupado /\ pcb.pid = p
Volviendo(p) ==
    /\ haciaCpu = <<>> /\ pc.cpu \notin Ocupado
    /\ \E b \in recibirPCB(desdeCpu) :
         desdeCpu = pcb_serializar(b, 1) /\ Quieta(p, Lineas(p), hechas[p], b)

EnKernel(p) ==
    /\ lugar[p] = "no" => pcbs[p] = NULO /\ hechas[p] = 0
    /\ lugar[p] # "no" => pcbs[p] \in PcbBueno(p)
    /\ lugar[p] = "ready" => Lista(p, Lineas(p), hechas[p], pcbs[p])
    /\ lugar[p] = "finalizado" => /\ hechas[p] <= Len(Lineas(p))
                                  /\ Bien(Lineas(p), hechas[p]) =>
                                       /\ hechas[p] # 0
                                       /\ Lineas(p)[hechas[p]].nombre = "EXIT"
    /\ lugar[p] = "cpu" => Yendo(p) \/ Alla(p) \/ Volviendo(p)

KernelInv ==
    /\ \A p \in Procesos : EnKernel(p)
    /\ \A p, q \in Procesos : lugar[p] = "cpu" /\ lugar[q] = "cpu" => p = q
    /\ ~ Fuera => haciaCpu = <<>> /\ desdeCpu = <<>> /\ pc.cpu \notin Ocupado

\* The process in the CPU is p.
EnCpu(p) ==
    /\ pc.cpu = "fetch" => Lista(p, Lineas(p), hechas[p], pcb)
    /\ pc.cpu = "operandos" => SinOperando(p, Lineas(p), hechas[p], pcb)
    /\ pc.cpu = "execute" => ConOperando(p, Lineas(p), hechas[p], pcb, Mem(p))
    /\ pc.cpu = "check" => /\ Quieta(p, Lineas(p), hechas[p], pcb)
                           /\ pcb.estado = FINALIZADO => devolver_pcb
    /\ pc.cpu = "send" => Quieta(p, Lineas(p), hechas[p], pcb)

CpuInv ==
    /\ pc.cpu \in Ocupado \union {"reset"} =>
          \E p \in Procesos : pcb \in PcbBueno(p)
    /\ pc.cpu \in Ocupado => lugar[pcb.pid] = "cpu" /\ EnCpu(pcb.pid)
    /\ pc.cpu \notin Ocupado \union {"reset"} => pcb = NULO

\* The TLB has pages of one process, the one in the CPU or the last there.
DeProceso(t, p) == \A e \in t : e.marco = get_marco_memoria(p, e.numero_pagina)
DuenoInv ==
    /\ idAnteriorPCB \in Procesos \union {-1}
    /\ pc.cpu \in Ocupado \union {"reset"} => DeProceso(tlb, pcb.pid)
    /\ pc.cpu \notin Ocupado \union {"reset"} =>
          IF idAnteriorPCB = -1 THEN tlb = {} ELSE DeProceso(tlb, idAnteriorPCB)

\* A process has a script once its console has sent it.
GuionDe(p) ==
    /\ consola[p] \in {"no", "aceptada"} =>
         guion[p] = <<>> /\ mensaje[p] = <<>> /\ lugar[p] = "no"
    /\ mensaje[p] # <<>> =>
         /\ consola[p] = "enviado" /\ lugar[p] = "no"
         /\ mensaje[p] = serializar_mensaje(obtener_intrucciones(guion[p]), TAMANO)
GuionInv ==
    /\ guion \in [Procesos -> Seq(Renglon)]
    /\ \A p \in Procesos : GuionDe(p)

\* The places that Memoria has given.
LugaresInv ==
    /\ pc \in [memoria : {"no", "accept", "entrada", "hilos"},
               cpu : {"no", "fin", "memoria", "entradas", "dispatch", "interrupt",
                      "select", "reset"} \union Ocupado,
               kernel : {"no", "fin", "memoria", "dispatch", "recv_dispatch",
                         "interrupt", "recv_interrupt", "listo"}]
    /\ Total(aceptadas) <= ConexionesMemoria
    /\ pc.memoria \in {"no", "accept"} => Total(aceptadas) < ConexionesMemoria

ArranqueInv == TypeOKArranque /\ LugaresInv

DatosInv ==
    /\ hechas \in [Procesos -> Nat]
    /\ mensaje = [p \in Procesos |-> mensaje[p]]
    /\ pcbs = [p \in Procesos |-> pcbs[p]]
    /\ leido = [p \in Procesos |-> leido[p]]
    /\ lugar \in [Procesos -> {"no", "ready", "cpu", "finalizado", "perdido"}]
    /\ pedidos \in 0 .. interrupciones /\ interrupciones \in 0 .. INTERRUPCIONES
    /\ devolver_pcb \in BOOLEAN /\ interrupcion \in BOOLEAN
    /\ ram \in [Memoria -> Nat]

CInv == ArranqueInv /\ DatosInv /\ GuionInv /\ KernelInv /\ CpuInv /\ DuenoInv

-----------------------------------------------------------------------------
(* Where the words of a process are.                                        *)

LEMMA Producto ==
    ASSUME NEW a \in Nat, NEW b \in Nat, NEW c \in Nat
    PROVE  /\ a * c \in Nat /\ (a + 1) * c = a * c + c
           /\ a <= b => a * c <= b * c
<1>1. a * c \in Nat  OBVIOUS
<1>2. (a + 1) * c = a * c + c  BY SMTT(30)
<1>3. ASSUME a <= b PROVE a * c <= b * c  BY <1>3, SMTT(30)
<1>. QED  BY <1>1, <1>2, <1>3

LEMMA Division ==
    ASSUME NEW a \in Nat, NEW b \in Nat \ {0}
    PROVE  /\ a \div b \in Nat /\ a % b \in 0 .. b - 1
           /\ a = (a \div b) * b + (a % b)
<1>1. a \div b \in Nat  BY SMTT(30)
<1>2. a % b \in 0 .. b - 1  BY SMTT(30)
<1>3. a = b * (a \div b) + (a % b)  OBVIOUS
<1> DEFINE q == a \div b
           r == a % b
<1>4. q \in Nat /\ r \in 0 .. b - 1 /\ a = b * q + r  BY <1>1, <1>2, <1>3
<1>. HIDE DEF q, r
<1>5. q \in Nat /\ b \in Nat  BY <1>4
<1>6. q * b = b * q  BY ONLY <1>5
<1>7. a = q * b + r  BY <1>4, <1>6
<1>. QED  BY <1>4, <1>7 DEF q, r

\* The words that Memoria keeps for each process.
BytesPorProceso == TablasPorProceso * ENTRADAS_POR_TABLA * TAM_PAGINA

\* The tables of a process have an entry at least for each of its pages.
LEMMA TablasBastan ==
    /\ TablasPorProceso \in Nat /\ TablasPorProceso * ENTRADAS_POR_TABLA \in Nat
    /\ PAGINAS <= TablasPorProceso * ENTRADAS_POR_TABLA
<1> DEFINE E == ENTRADAS_POR_TABLA
           x == PAGINAS + E - 1
           t == x \div E
           u == x % E
           y == t * E
<1>1. PAGINAS \in Nat \ {0} /\ E \in Nat \ {0}  BY PaginasAssumption, TablaAssumption
<1>2. x \in Nat  BY <1>1
<1>. HIDE DEF x
<1>3. t \in Nat /\ u \in 0 .. E - 1 /\ x = y + u  BY <1>1, <1>2, Division
<1>4. TablasPorProceso = t  BY DEF TablasPorProceso, t, x
<1>5. y \in Nat  BY <1>1, <1>3
<1>. HIDE DEF t, y, u
<1>6. PAGINAS <= y  BY <1>1, <1>3, <1>5 DEF x
<1>. QED  BY <1>3, <1>4, <1>5, <1>6 DEF y

\* A page of process p has the frame that its number says.
LEMMA MarcoDe ==
    ASSUME NEW p \in Nat, NEW n \in Nat
    PROVE  /\ get_marco_memoria(p, n) \in Nat
           /\ get_marco_memoria(p, n)
                = p * (TablasPorProceso * ENTRADAS_POR_TABLA) + n
<1> DEFINE E == ENTRADAS_POR_TABLA
           t == TablasPorProceso
           q == n \div E
           r == n % E
<1>1. t \in Nat /\ E \in Nat \ {0}  BY TablasBastan, TablaAssumption
<1>2. q \in Nat /\ r \in 0 .. E - 1 /\ n = q * E + r  BY <1>1, Division
<1>3. get_marco_memoria(p, n) = (p * t + q) * E + r
  BY DEF get_marco_memoria, ValorEntrada1, ValorEntrada2, EntradaPrimerNivel,
         EntradaSegundoNivel
<1>. HIDE DEF E, t, q, r
<1>4. p * t \in Nat /\ t * E \in Nat /\ q * E \in Nat  BY <1>1, <1>2
<1>5. (p * t + q) * E = (p * t) * E + q * E
  <2> DEFINE x == p * t
  <2>1. x \in Nat  BY <1>4
  <2>. HIDE DEF x
  <2>2. (x + q) * E = x * E + q * E  BY <1>1, <1>2, <2>1, SMTT(30)
  <2>. QED  BY <2>2 DEF x
<1>6. (p * t) * E = p * (t * E) /\ p * (t * E) \in Nat  BY <1>1, <1>4, SMTT(30)
<1> DEFINE y == p * (t * E)
           z == q * E
<1>7. y \in Nat /\ z \in Nat  BY <1>4, <1>6
<1>8. get_marco_memoria(p, n) = y + z + r  BY <1>3, <1>5, <1>6
<1>9. n = z + r  BY <1>2
<1>. HIDE DEF y, z
<1>10. get_marco_memoria(p, n) = y + n /\ y + n \in Nat  BY <1>1, <1>2, <1>7, <1>8, <1>9
<1>. QED  BY <1>10 DEF y, t, E

\* An address of a process is that many bytes into its part of Memoria.
LEMMA DirEs ==
    ASSUME NEW p \in Nat, NEW d \in Direccion
    PROVE  /\ Dir(p, d) = p * BytesPorProceso + d
           /\ BytesPorProceso \in Nat /\ d \in Nat /\ d < BytesPorProceso
           /\ \E i \in Nat : d = 4 * i
           /\ \E w \in Nat : BytesPorProceso = 4 * w
<1> DEFINE T == TAM_PAGINA
           e == TablasPorProceso * ENTRADAS_POR_TABLA
           K == e * T
           n == NumeroPagina(d)
           c == PAGINAS * T
<1>1. /\ T \in Nat \ {0} /\ PAGINAS \in Nat \ {0} /\ e \in Nat /\ PAGINAS <= e
  BY TablasBastan, PaginasAssumption
<1>2. c \in Nat /\ K \in Nat /\ c <= K  BY <1>1, Producto
<1>3. PICK i \in 0 .. c \div 4 - 1 : d = 4 * i  BY DEF Direccion, TAMANO
<1>4. d \in Nat /\ d < c /\ i \in Nat
  <2>. HIDE DEF c
  <2>. QED  BY <1>2, <1>3
<1>5. n \in Nat  BY <1>4, PaginaDeDireccion DEF Pagina
<1>6. T % 4 = 0  BY PalabrasAssumption
<1>7. BytesPorProceso = K  BY DEF BytesPorProceso
<1>8. Dir(p, d) = (p * e + n) * T + (d - n * T)
  BY <1>5, MarcoDe DEF Dir, DireccionFisica, Desplazamiento
<1>. HIDE DEF T, e, n, K, c
<1>9. PICK w \in Nat : T = 4 * w  BY <1>1, <1>6
<1>10. K = 4 * (e * w) /\ e * w \in Nat  BY <1>1, <1>9, SMTT(30) DEF K
<1>11. p * e \in Nat /\ n * T \in Nat /\ p * K \in Nat  BY <1>1, <1>2, <1>5
<1>12. (p * e + n) * T = (p * e) * T + n * T
  <2> DEFINE x == p * e
  <2>1. x \in Nat  BY <1>11
  <2>. HIDE DEF x
  <2>2. (x + n) * T = x * T + n * T  BY <1>1, <1>5, <2>1, SMTT(30)
  <2>. QED  BY <2>2 DEF x
<1>13. (p * e) * T = p * K  BY <1>1, SMTT(30) DEF K
<1>14. Dir(p, d) = p * K + d
  <2> DEFINE y == p * K
             z == n * T
  <2>1. y \in Nat /\ z \in Nat  BY <1>11
  <2>2. Dir(p, d) = (y + z) + (d - z)  BY <1>8, <1>12, <1>13
  <2>. HIDE DEF y, z
  <2>3. Dir(p, d) = y + d  BY <1>4, <2>1, <2>2
  <2>. QED  BY <2>3 DEF y
<1>15. d < K  BY <1>2, <1>4
<1>16. \E j \in Nat : d = 4 * j  BY <1>3, <1>4
<1>17. \E j \in Nat : BytesPorProceso = 4 * j  BY <1>7, <1>10
<1>. QED  BY <1>2, <1>4, <1>7, <1>14, <1>15, <1>16, <1>17

LEMMA PidsSon ==
    /\ Cardinality(Procesos) \in Nat
    /\ \A p \in Procesos : p \in Nat /\ p + 1 <= Cardinality(Procesos) /\ p # -1
<1>1. Cardinality(Procesos) \in Nat  BY PidsAssumption, FS_CardinalityType
<1> DEFINE N == Cardinality(Procesos)
<1>2. Procesos = 0 .. N - 1  BY PidsAssumption
<1>. HIDE DEF N
<1>. QED  BY <1>1, <1>2 DEF N

\* Memoria has the words of every process.
LEMMA DirEnMemoria ==
    ASSUME NEW p \in Procesos, NEW d \in Direccion
    PROVE  Dir(p, d) \in Memoria
<1> DEFINE K == BytesPorProceso
           N == Cardinality(Procesos)
           M == CantMarcos * TAM_PAGINA
           x == p * K
<1>0. p \in Nat /\ p + 1 <= N /\ N \in Nat  BY PidsSon
<1>1. /\ Dir(p, d) = x + d /\ K \in Nat /\ d \in Nat /\ d < K  BY <1>0, DirEs
<1>2. PICK i \in Nat : d = 4 * i  BY <1>0, DirEs
<1>3. PICK w \in Nat : K = 4 * w  BY <1>0, DirEs
<1>4. M = N * K
  <2> DEFINE t == TablasPorProceso
             E == ENTRADAS_POR_TABLA
             T == TAM_PAGINA
             g == t * E
  <2>1. t \in Nat /\ E \in Nat /\ T \in Nat
    BY TablasBastan, TablaAssumption, PaginasAssumption
  <2>2. M = ((N * t) * E) * T  BY DEF CantMarcos
  <2>3. K = g * T  BY DEF BytesPorProceso
  <2>. HIDE DEF N, t, E, T, M, K
  <2>4. (N * t) * E = N * g /\ g \in Nat  BY <1>0, <2>1, SMTT(30)
  <2>. HIDE DEF g
  <2>5. (N * g) * T = N * (g * T)  BY <1>0, <2>1, <2>4, SMTT(30)
  <2>. QED  BY <2>2, <2>3, <2>4, <2>5
<1>. HIDE DEF K, N, M
<1>5. x \in Nat /\ x = 4 * (p * w) /\ p * w \in Nat  BY <1>0, <1>1, <1>3, SMTT(30)
<1>6. M \in Nat /\ x + K <= M
  <2>1. (p + 1) * K = x + K  BY <1>0, <1>1, Producto
  <2>2. p + 1 \in Nat /\ (p + 1) * K <= N * K /\ N * K \in Nat  BY <1>0, <1>1, Producto
  <2>. QED  BY <1>4, <2>1, <2>2
<1> DEFINE j == p * w + i
<1>7. j \in Nat /\ x + d = 4 * j
  <2> DEFINE y == p * w
  <2>1. y \in Nat /\ x = 4 * y  BY <1>5
  <2>. HIDE DEF y, x
  <2>. QED  BY <1>2, <2>1 DEF y
<1>. HIDE DEF x, j
<1>8. 4 * j < M  BY <1>1, <1>5, <1>6, <1>7
<1>9. M = 4 * (N * w) /\ N * w \in Nat  BY <1>0, <1>3, <1>4, SMTT(30)
<1> DEFINE m == N * w
<1>10. m \in Nat /\ M = 4 * m  BY <1>9
<1>. HIDE DEF m
<1>11. M \div 4 = m /\ j < m  BY <1>7, <1>8, <1>10
<1>12. j \in 0 .. M \div 4 - 1  BY <1>7, <1>10, <1>11
<1>13. Dir(p, d) = 4 * j  BY <1>1, <1>7
<1>. QED  BY <1>12, <1>13 DEF Memoria, M

\* No two words of the processes are one word of Memoria.
LEMMA DirUnica ==
    ASSUME NEW p \in Procesos, NEW d \in Direccion, NEW q \in Procesos, NEW e \in Direccion,
           Dir(p, d) = Dir(q, e)
    PROVE  p = q /\ d = e
<1> DEFINE K == BytesPorProceso
           x == p * K
           y == q * K
<1>0. p \in Nat /\ q \in Nat  BY PidsSon
<1>1. Dir(p, d) = x + d /\ K \in Nat /\ d \in Nat /\ d < K  BY <1>0, DirEs
<1>2. Dir(q, e) = y + e /\ e \in Nat /\ e < K  BY <1>0, DirEs
<1>. HIDE DEF K
<1>3. /\ x \in Nat /\ y \in Nat /\ (p + 1) * K = x + K /\ (q + 1) * K = y + K
      /\ p + 1 <= q => (p + 1) * K <= y
      /\ q + 1 <= p => (q + 1) * K <= x
  <2>1. p + 1 \in Nat /\ q + 1 \in Nat  BY <1>0
  <2>. QED  BY <1>0, <1>1, <2>1, Producto
<1>4. p = q => x = y  OBVIOUS
<1> DEFINE u == (p + 1) * K
           v == (q + 1) * K
<1>5. /\ u = x + K /\ v = y + K
      /\ p + 1 <= q => u <= y
      /\ q + 1 <= p => v <= x
  BY <1>3
<1>. HIDE DEF x, y, u, v
<1>6. x + d = y + e /\ x \in Nat /\ y \in Nat  BY <1>1, <1>2, <1>3
<1>7. ~ p + 1 <= q  BY <1>1, <1>2, <1>5, <1>6
<1>8. ~ q + 1 <= p  BY <1>1, <1>2, <1>5, <1>6
<1>9. p = q  BY <1>0, <1>7, <1>8
<1>. QED  BY <1>1, <1>2, <1>4, <1>6, <1>9

\* The frame that the TLB of process p gives, or Memoria.
LEMMA MarcoDelProceso ==
    ASSUME NEW p, NEW n, DeProceso(tlb, p)
    PROVE  Marco(p, n) = get_marco_memoria(p, n)
<1>1. CASE Coincide(tlb, n) = {}  BY <1>1 DEF Marco
<1>2. CASE Coincide(tlb, n) # {}
  <2> DEFINE e == CHOOSE e \in Coincide(tlb, n) : TRUE
  <2>1. e \in Coincide(tlb, n)  BY <1>2
  <2>2. Marco(p, n) = e.marco  BY <1>2 DEF Marco
  <2>. HIDE DEF e
  <2>3. e \in tlb /\ e.numero_pagina = n  BY <2>1 DEF Coincide
  <2>. QED  BY <2>2, <2>3 DEF DeProceso
<1>. QED  BY <1>1, <1>2

-----------------------------------------------------------------------------
(* What the steps of the cycle do to a PCB.                                 *)

LEMMA TamanoEs == TAMANO \in Nat
BY PaginasAssumption DEF TAMANO

LEMMA PcbBuenoEs ==
    ASSUME NEW p \in Procesos, NEW b \in PcbBueno(p)
    PROVE  /\ b \in PcbSano /\ b \in PcbDe(p) /\ b # NULO /\ b.pid = p
           /\ b.instrucciones \in Seq(Leida) /\ b.program_counter \in Nat
           /\ Len(b.instrucciones) \in Nat
           /\ \A i \in 1 .. Len(b.instrucciones) : b.instrucciones[i] \in Leida
<1>1. p \in Nat /\ p # -1  BY PidsSon
<1>2. /\ b.pid = p /\ b.tamano = TAMANO /\ b.program_counter \in Nat
      /\ b.estimado_rafaga = 0 /\ b.estado \in 0 .. 4 /\ b.tiempo_block \in Nat
      /\ b.tabla_paginas = 0 /\ b.tiempo_ejecucion = 0
      /\ b.instrucciones \in Seq(Leida)
      /\ b = [pid |-> b.pid, tamano |-> b.tamano, program_counter |-> b.program_counter,
              estimado_rafaga |-> b.estimado_rafaga, estado |-> b.estado,
              tiempo_block |-> b.tiempo_block, tabla_paginas |-> b.tabla_paginas,
              tiempo_ejecucion |-> b.tiempo_ejecucion,
              instrucciones |-> b.instrucciones]
  BY DEF PcbBueno, INICIADO, INTERRUMPIDO
<1>3. b \in PcbSano
  <2>. QED  BY <1>1, <1>2, TamanoEs DEF PcbSano
<1>4. b \in PcbDe(p)
  <2>1. Leida \subseteq [id : 0 .. 255, parametros : Seq(Nat)]  BY DEF Leida, Byte
  <2> DEFINE S == [id : 0 .. 255, parametros : Seq(Nat)]
  <2>2. Leida \subseteq S  BY <2>1
  <2>. HIDE DEF S
  <2>3. b.instrucciones \in Seq(S)  BY <1>2, <2>2, SeqMonotonic
  <2>. QED  BY <1>2, <2>3 DEF PcbDe, INICIADO, INTERRUMPIDO, S
<1>5. b # NULO  BY <1>1, <1>2 DEF NULO
<1>. QED  BY <1>2, <1>3, <1>4, <1>5

LEMMA LeidaTipo ==
    ASSUME NEW ins \in Leida
    PROVE  /\ ins.id \in 0 .. 255 /\ ins.parametros \in Seq(Nat)
           /\ Len(ins.parametros) = getCantidadParametros(ins.id)
           /\ ins.id \in {I_O, READ, WRITE, COPY} => ins.parametros[1] \in Nat
           /\ ins.id \in {WRITE, COPY} =>
                ins.parametros[2] \in Nat /\ Len(ins.parametros) = 2
<1>1. /\ ins.id \in 0 .. 255 /\ ins.parametros \in Seq(Nat)
      /\ Len(ins.parametros) = getCantidadParametros(ins.id)
  BY DEF Leida, Byte
<1>2. ASSUME ins.id \in {I_O, READ, WRITE, COPY} PROVE ins.parametros[1] \in Nat
  <2>1. Len(ins.parametros) \in {1, 2}
    BY <1>1, <1>2 DEF getCantidadParametros, I_O, READ, WRITE, COPY
  <2>. QED  BY <1>1, <2>1
<1>3. ASSUME ins.id \in {WRITE, COPY}
      PROVE  ins.parametros[2] \in Nat /\ Len(ins.parametros) = 2
  <2>1. Len(ins.parametros) = 2
    BY <1>1, <1>3 DEF getCantidadParametros, I_O, READ, WRITE, COPY
  <2>. QED  BY <1>1, <2>1
<1>. QED  BY <1>1, <1>2, <1>3

\* The codes are all different.
LEMMA Codigos ==
    ASSUME NEW nombre \in STRING
    PROVE  /\ definirCodigo(nombre) = NO_OP <=> nombre = "NO_OP"
           /\ definirCodigo(nombre) = I_O <=> nombre = "I/O"
           /\ definirCodigo(nombre) = WRITE <=> nombre = "WRITE"
           /\ definirCodigo(nombre) = COPY <=> nombre = "COPY"
           /\ definirCodigo(nombre) = READ <=> nombre = "READ"
           /\ definirCodigo(nombre) = EXIT <=> nombre = "EXIT"
BY DEF definirCodigo, NO_OP, I_O, WRITE, COPY, READ, EXIT, DESCONOCIDA

LEMMA BienHechaEs ==
    ASSUME NEW linea \in Renglon
    PROVE  /\ P!BienEscrita(linea) <=> BienHecha(linea)
           /\ BienHecha(linea) => DelRenglon(linea) \in Leida
           /\ BienHecha(linea) => linea.nombre \in {"NO_OP", "I/O", "WRITE", "COPY", "READ", "EXIT"}
<1>1. linea.nombre \in STRING /\ linea.numeros \in Seq(Numero) /\ Len(linea.numeros) \in Nat
  BY DEF Renglon
<1>2. P!BienEscrita(linea) <=> BienHecha(linea)
  <2>1. Len(linea.numeros) # -1  BY <1>1
  <2>. QED  BY <2>1 DEF P!BienEscrita, P!Numeros, BienHecha
<1>3. BienHecha(linea) => linea.nombre \in {"NO_OP", "I/O", "WRITE", "COPY", "READ", "EXIT"}
  BY DEF BienHecha
<1>4. ASSUME BienHecha(linea) PROVE DelRenglon(linea) \in Leida
  <2>1. linea.numeros \in Seq(Nat)
    <3>1. Numero \subseteq Nat  BY DEF Numero
    <3>. QED  BY <1>1, <3>1, SeqMonotonic
  <2>2. definirCodigo(linea.nombre) \in Byte  BY <1>1, CodigoNoOp
  <2> DEFINE c == definirCodigo(linea.nombre)
             n == IF linea.nombre = "NO_OP" THEN <<>> ELSE linea.numeros
  <2>3. n \in Seq(Nat)  BY <2>1
  <2>4. Len(n) = getCantidadParametros(c)
    <3>1. CASE linea.nombre = "NO_OP"
      <4>1. n = <<>> /\ c = NO_OP  BY <1>1, <3>1, Codigos
      <4>2. getCantidadParametros(NO_OP) = 0
        BY DEF getCantidadParametros, NO_OP, I_O, READ, WRITE, COPY
      <4>. QED  BY <4>1, <4>2
    <3>2. CASE linea.nombre \in {"I/O", "READ"}
      <4>1. n = linea.numeros /\ c \in {I_O, READ}  BY <1>1, <3>2, Codigos
      <4>2. Len(linea.numeros) = 1  BY <1>4, <3>2 DEF BienHecha
      <4>3. getCantidadParametros(c) = 1
        <5>. HIDE DEF c
        <5>. QED  BY <4>1 DEF getCantidadParametros, I_O, READ, WRITE, COPY
      <4>. QED  BY <4>1, <4>2, <4>3
    <3>3. CASE linea.nombre \in {"WRITE", "COPY"}
      <4>1. n = linea.numeros /\ c \in {WRITE, COPY}  BY <1>1, <3>3, Codigos
      <4>2. Len(linea.numeros) = 2  BY <1>4, <3>3 DEF BienHecha
      <4>3. getCantidadParametros(c) = 2
        <5>. HIDE DEF c
        <5>. QED  BY <4>1 DEF getCantidadParametros, I_O, READ, WRITE, COPY
      <4>. QED  BY <4>1, <4>2, <4>3
    <3>4. CASE linea.nombre = "EXIT"
      <4>1. n = linea.numeros /\ c = EXIT  BY <1>1, <3>4, Codigos
      <4>2. Len(linea.numeros) = 0  BY <1>4, <3>4 DEF BienHecha
      <4>3. getCantidadParametros(c) = 0
        <5>. HIDE DEF c
        <5>. QED  BY <4>1 DEF getCantidadParametros, I_O, READ, WRITE, COPY, EXIT
      <4>. QED  BY <4>1, <4>2, <4>3
    <3>. QED  BY <1>3, <1>4, <3>1, <3>2, <3>3, <3>4
  <2>5. DelRenglon(linea) = [id |-> c, parametros |-> n]  BY DEF DelRenglon
  <2>. HIDE DEF c, n
  <2>. QED  BY <2>2, <2>3, <2>4, <2>5 DEF Leida, c
<1>. QED  BY <1>2, <1>3, <1>4

\* The lines of a script.
LEMMA BienMenos ==
    ASSUME NEW s, NEW h \in Nat, Bien(s, h + 1)
    PROVE  Bien(s, h) /\ BienHecha(s[h + 1])
BY DEF Bien

LEMMA SinExitMas ==
    ASSUME NEW s, NEW h \in Nat, SinExit(s, h), s[h + 1].nombre # "EXIT"
    PROVE  SinExit(s, h + 1)
<1>1. SUFFICES ASSUME NEW j \in 1 .. h + 1 PROVE s[j].nombre # "EXIT"  BY DEF SinExit
<1>2. CASE j = h + 1  BY <1>2
<1>3. CASE j # h + 1
  <2>1. j \in 1 .. h  BY <1>3
  <2>. QED  BY <2>1 DEF SinExit
<1>. QED  BY <1>2, <1>3

\* A PCB that Kernel makes of the message of a console.
LEMMA PcbNuevo ==
    ASSUME NEW p \in Procesos, NEW s \in Seq(Renglon), NEW I, NEW m,
           Len(I) = Len(s), \A k \in 1 .. Len(s) : I[k] = DelRenglon(s[k]),
           LeidaHasta(m, I),
           NEW b, b = pcb_create(TAMANO, m, p, 0, 0)
    PROVE  Lista(p, s, 0, b)
<1>1. /\ m \in Seq(Leida) /\ Len(m) = Len(s) /\ Len(s) \in Nat
      /\ \A k \in 0 .. Len(s) :
            (\A i \in 1 .. k : I[i] \in Leida) => \A i \in 1 .. k : m[i] = I[i]
  <2>1. /\ m \in Seq(Leida) /\ Len(m) = Len(I)
        /\ \A k \in 0 .. Len(I) :
              (\A i \in 1 .. k : I[i] \in Leida) => \A i \in 1 .. k : m[i] = I[i]
    BY DEF LeidaHasta
  <2>2. Len(s) \in Nat  BY LenProperties
  <2>. QED  BY ONLY <2>1, <2>2, Len(I) = Len(s)
<1>2. b = [pid |-> p, tamano |-> TAMANO, program_counter |-> 0,
           estimado_rafaga |-> 0, estado |-> 0, tiempo_block |-> 0,
           tabla_paginas |-> 0, tiempo_ejecucion |-> 0, instrucciones |-> m]
  BY DEF pcb_create, INICIADO
<1>3. b \in PcbBueno(p)
  <2>. QED  BY <1>1, <1>2 DEF PcbBueno, INICIADO, INTERRUMPIDO
<1>4. ASSUME NEW i \in 0 + 1 .. Len(s), Bien(s, i)
      PROVE  b.instrucciones[i] = DelRenglon(s[i])
  <2>1. i \in Nat /\ i \in 0 .. Len(s) /\ i \in 1 .. i /\ i \in 1 .. Len(s)  BY <1>1
  <2>2. ASSUME NEW j \in 1 .. i PROVE I[j] \in Leida
    <3>1. BienHecha(s[j])  BY <1>4 DEF Bien
    <3>2. j \in 1 .. Len(s)  BY <1>1, <2>1
    <3>3. s[j] \in Renglon  BY <3>2, ElementOfSeq
    <3>4. DelRenglon(s[j]) \in Leida  BY <3>1, <3>3, BienHechaEs
    <3>. QED  BY <3>2, <3>4
  <2>3. m[i] = I[i]  BY <1>1, <2>1, <2>2
  <2>. QED  BY <1>2, <2>1, <2>3
<1>5. Siguen(s, b, 0)  BY <1>4 DEF Siguen
<1>6. SinExit(s, 0)  BY DEF SinExit
<1>7. b.program_counter = 0 /\ b.estado = 0 /\ b.instrucciones = m  BY <1>2
<1>. QED
  BY <1>1, <1>3, <1>5, <1>6, <1>7 DEF Lista, Quieta, FINALIZADO

\* Changing the estado to one that is not the end.
LEMMA PcbInterrumpido ==
    ASSUME NEW p \in Procesos, NEW s, NEW h, NEW b, Lista(p, s, h, b),
           NEW c, c = [b EXCEPT !.estado = INTERRUMPIDO]
    PROVE  Lista(p, s, h, c)
<1>1. b \in PcbBueno(p)  BY DEF Lista, Quieta
<1>2. /\ c \in PcbBueno(p) /\ c.estado = INTERRUMPIDO
      /\ c.instrucciones = b.instrucciones /\ c.program_counter = b.program_counter
  <2>. QED  BY <1>1 DEF PcbBueno, INICIADO, INTERRUMPIDO
<1>3. INTERRUMPIDO # FINALIZADO  BY DEF INTERRUMPIDO, FINALIZADO
<1>. QED  BY <1>2, <1>3 DEF Lista, Quieta, Siguen

\* fetch
LEMMA PcbBuscada ==
    ASSUME NEW p \in Procesos, NEW s \in Seq(Renglon), NEW h \in Nat, NEW b,
           Lista(p, s, h, b), b.program_counter < Len(b.instrucciones),
           NEW c, c = [b EXCEPT !.program_counter = @ + 1]
    PROVE  /\ Buscada(p, s, h, c)
           /\ c.instrucciones[c.program_counter].id = COPY => SinOperando(p, s, h, c)
           /\ \A m : c.instrucciones[c.program_counter].id # COPY =>
                        ConOperando(p, s, h, c, m)
<1>1. /\ b \in PcbBueno(p) /\ Len(b.instrucciones) = Len(s) /\ b.program_counter = h
      /\ Siguen(s, b, h) /\ b.estado # FINALIZADO /\ (Bien(s, h) => SinExit(s, h))
  BY DEF Lista, Quieta
<1>2. /\ c \in PcbBueno(p) /\ c.estado = b.estado
      /\ c.instrucciones = b.instrucciones /\ c.program_counter = h + 1
  <2>. QED  BY <1>1 DEF PcbBueno, INICIADO, INTERRUMPIDO
<1>3. Len(s) \in Nat /\ h + 1 <= Len(s) /\ h + 1 \in h + 1 .. Len(s)  BY <1>1
<1>4. Siguen(s, c, h + 1)
  <2>1. \A i \in h + 1 + 1 .. Len(s) : i \in h + 1 .. Len(s)  BY <1>3
  <2>. QED  BY <1>1, <1>2, <2>1 DEF Siguen
<1>5. Buscada(p, s, h, c)  BY <1>1, <1>2, <1>3, <1>4 DEF Buscada
<1>6. Bien(s, h + 1) => c.instrucciones[h + 1] = DelRenglon(s[h + 1])
  BY <1>1, <1>2, <1>3 DEF Siguen
<1>7. ASSUME c.instrucciones[h + 1].id # COPY, Bien(s, h + 1), s[h + 1].nombre = "COPY"
      PROVE  FALSE
  <2>1. c.instrucciones[h + 1].id = definirCodigo("COPY")
    BY <1>6, <1>7 DEF DelRenglon
  <2>2. definirCodigo("COPY") = COPY  BY DEF definirCodigo
  <2>. QED  BY <1>7, <2>1, <2>2
<1>8. ASSUME NEW m, c.instrucciones[h + 1].id # COPY PROVE ConOperando(p, s, h, c, m)
  BY <1>5, <1>6, <1>7, <1>8 DEF ConOperando
<1>9. c.instrucciones[h + 1].id = COPY => SinOperando(p, s, h, c)
  BY <1>5, <1>6 DEF SinOperando
<1>. QED  BY <1>2, <1>5, <1>8, <1>9

\* fetch_operands
LEMMA PcbConOperando ==
    ASSUME NEW p \in Procesos, NEW s \in Seq(Renglon), NEW h \in Nat, NEW b,
           SinOperando(p, s, h, b),
           NEW m, NEW d, d = b.instrucciones[h + 1].parametros[2], d \in Direccion,
           m[d] \in Nat,
           NEW c, c = [b EXCEPT !.instrucciones[h + 1].parametros[2] = m[d]]
    PROVE  ConOperando(p, s, h, c, m)
<1> DEFINE i == h + 1
           I == b.instrucciones
           ins == I[i]
           v == m[d]
           par == [ins.parametros EXCEPT ![2] = v]
           nueva == [ins EXCEPT !.parametros = par]
           J == [I EXCEPT ![i] = nueva]
<1>1. /\ b \in PcbBueno(p) /\ Len(I) = Len(s) /\ b.program_counter = i /\ i <= Len(s)
      /\ Siguen(s, b, i) /\ b.estado # FINALIZADO /\ (Bien(s, h) => SinExit(s, h))
      /\ ins.id = COPY /\ (Bien(s, i) => ins = DelRenglon(s[i]))
  BY DEF SinOperando, Buscada
<1>2. /\ I \in Seq(Leida) /\ Len(I) \in Nat /\ i \in 1 .. Len(I)
      /\ DOMAIN I = 1 .. Len(I)
  BY <1>1, PcbBuenoEs
<1>3. ins \in Leida  BY <1>2
<1>4. /\ ins.parametros \in Seq(Nat) /\ Len(ins.parametros) = 2
      /\ Len(ins.parametros) = getCantidadParametros(COPY)
  BY <1>1, <1>3, LeidaTipo
<1>5. v \in Nat  OBVIOUS
<1>6. /\ par \in Seq(Nat) /\ Len(par) = 2 /\ par[1] = ins.parametros[1] /\ par[2] = v
  <2> DEFINE q == ins.parametros
  <2>1. q \in Seq(Nat) /\ Len(q) = 2 /\ par = [q EXCEPT ![2] = v]  BY <1>4
  <2>2. par[1] = q[1] => par[1] = ins.parametros[1]  OBVIOUS
  <2>. HIDE DEF q, v, par
  <2>3. par \in Seq(Nat) /\ Len(par) = 2 /\ par[2] = v /\ par[1] = q[1]
    <3>1. 2 \in 1 .. Len(q) /\ 1 \in 1 .. Len(q)  BY <2>1
    <3>2. par \in Seq(Nat) /\ Len(par) = Len(q)
          /\ \A j \in 1 .. Len(q) : par[j] = IF j = 2 THEN v ELSE q[j]
      <4> DEFINE S == Nat
      <4>1. q \in Seq(S) /\ v \in S /\ 2 \in 1 .. Len(q)  BY <1>5, <2>1, <3>1
      <4>. HIDE DEF S
      <4>2. /\ [q EXCEPT ![2] = v] \in Seq(S) /\ Len([q EXCEPT ![2] = v]) = Len(q)
            /\ \A j \in 1 .. Len(q) :
                  [q EXCEPT ![2] = v][j] = IF j = 2 THEN v ELSE q[j]
        BY ONLY <4>1, ExceptSeq
      <4>. QED  BY <2>1, <4>2 DEF S
    <3>. QED  BY <2>1, <3>1, <3>2
  <2>. QED  BY <2>2, <2>3
<1>7. nueva \in Leida /\ nueva.id = COPY /\ nueva.parametros = par
  <2>. HIDE DEF par, ins
  <2>1. ins \in [id : Byte, parametros : Seq(Nat)]  BY <1>3 DEF Leida
  <2>2. nueva \in [id : Byte, parametros : Seq(Nat)]  BY <1>6, <2>1
  <2>3. nueva.id = COPY /\ nueva.parametros = par  BY <1>1, <2>1
  <2>4. Len(par) = getCantidadParametros(COPY)  BY <1>4, <1>6
  <2>. QED  BY <2>2, <2>3, <2>4 DEF Leida
<1>8. c = [b EXCEPT !.instrucciones = J]  OBVIOUS
<1>. HIDE DEF nueva, par, ins
<1>9. J \in Seq(Leida) /\ Len(J) = Len(I) /\ J[i] = nueva
      /\ \A k \in 1 .. Len(I) : k # i => J[k] = I[k]
  BY <1>2, <1>7
<1>. HIDE DEF J
<1>10. /\ c \in PcbBueno(p) /\ c.estado = b.estado /\ c.instrucciones = J
       /\ c.program_counter = b.program_counter
  BY <1>1, <1>8, <1>9 DEF PcbBueno, INICIADO, INTERRUMPIDO
<1>11. Siguen(s, c, i)
  <2>1. SUFFICES ASSUME NEW k \in i + 1 .. Len(s), Bien(s, k)
                 PROVE  c.instrucciones[k] = DelRenglon(s[k])
    BY DEF Siguen
  <2>2. k \in 1 .. Len(I) /\ k # i  BY <1>1, <1>2
  <2>3. I[k] = DelRenglon(s[k])  BY <1>1, <2>1 DEF Siguen
  <2>. QED  BY <1>9, <1>10, <2>2, <2>3
<1>12. Buscada(p, s, h, c)  BY <1>1, <1>9, <1>10, <1>11 DEF Buscada
<1>13. ASSUME Bien(s, i)
       PROVE  s[i].nombre = "COPY" /\ Operando(s[i], c.instrucciones[i], m)
  <2>1. ins = DelRenglon(s[i])  BY <1>1, <1>13
  <2>2. s[i] \in Renglon  BY <1>1, <1>2, ElementOfSeq
  <2>3. s[i].nombre = "COPY"  BY <1>1, <2>1, <2>2, Codigos DEF DelRenglon, Renglon
  <2>4. ins.parametros = s[i].numeros  BY <2>1, <2>3 DEF DelRenglon
  <2>5. c.instrucciones[i] = nueva  BY <1>9, <1>10
  <2>6. d = s[i].numeros[2]  BY <2>4 DEF ins
  <2>. QED  BY <1>6, <1>7, <2>3, <2>4, <2>5, <2>6 DEF Operando, v
<1>. QED  BY <1>12, <1>13 DEF ConOperando

\* execute: the PCB c that an instruction leaves of PCB b.
LEMMA PcbEjecutada ==
    ASSUME NEW p \in Procesos, NEW s \in Seq(Renglon), NEW h \in Nat, NEW b, NEW m,
           ConOperando(p, s, h, b, m),
           NEW c, c \in PcbBueno(p), c.instrucciones = b.instrucciones,
           c.program_counter = b.program_counter,
           c.estado = FINALIZADO <=> b.instrucciones[h + 1].id = EXIT
    PROVE  Quieta(p, s, h + 1, c)
<1> DEFINE i == h + 1
           ins == b.instrucciones[i]
<1>1. /\ b \in PcbBueno(p) /\ Len(b.instrucciones) = Len(s) /\ b.program_counter = i
      /\ i <= Len(s) /\ Siguen(s, b, i) /\ (Bien(s, h) => SinExit(s, h))
  BY DEF ConOperando, Buscada
<1>2. Siguen(s, c, i)  BY <1>1 DEF Siguen
<1>3. ASSUME Bien(s, i)
      PROVE  ins.id = EXIT <=> s[i].nombre = "EXIT"
  <2>1. Len(s) \in Nat /\ i \in 1 .. Len(s)  BY <1>1
  <2>2. s[i] \in Renglon  BY <2>1, ElementOfSeq
  <2>3. CASE s[i].nombre = "COPY"
    <3>1. ins.id = COPY  BY <1>3, <2>3 DEF ConOperando, Operando
    <3>. QED  BY <2>3, <3>1 DEF COPY, EXIT
  <2>4. CASE s[i].nombre # "COPY"
    <3>1. ins.id = definirCodigo(s[i].nombre)
      BY <1>3, <2>4 DEF ConOperando, DelRenglon
    <3>. QED  BY <2>2, <3>1, Codigos DEF Renglon
  <2>. QED  BY <2>3, <2>4
<1>4. ASSUME Bien(s, i)
      PROVE  IF c.estado = FINALIZADO THEN i # 0 /\ s[i].nombre = "EXIT" ELSE SinExit(s, i)
  <2>1. Bien(s, h)  BY <1>4, BienMenos
  <2>2. SinExit(s, h)  BY <1>1, <2>1
  <2>3. CASE c.estado = FINALIZADO  BY <1>3, <1>4, <2>3
  <2>4. CASE c.estado # FINALIZADO
    <3>1. s[i].nombre # "EXIT"  BY <1>3, <1>4, <2>4
    <3>. QED  BY <2>2, <2>4, <3>1, SinExitMas
  <2>. QED  BY <2>3, <2>4
<1>. QED  BY <1>1, <1>2, <1>4 DEF Quieta

-----------------------------------------------------------------------------
(* The start of the programs.                                               *)

LEMMA ArranqueInicio == Init => ArranqueInv
<1>. SUFFICES ASSUME Init PROVE ArranqueInv  OBVIOUS
<1>1. pc = [memoria |-> "no", cpu |-> "no", kernel |-> "no"] /\ conexiones = <<>>
      /\ aceptadas = [cpu |-> 0, kernel |-> 0] /\ atendido = {} /\ dispatch = "no"
      /\ interrupt = "no" /\ esperando = 0 /\ consola = [p \in Procesos |-> "no"]
  BY DEF Init, InitArranque
<1>2. aceptadas["cpu"] = 0 /\ aceptadas["kernel"] = 0  BY <1>1
<1>3. aceptadas \in [{"cpu", "kernel"} -> 0 .. ConexionesMemoria]
  BY <1>1, <1>2 DEF ConexionesMemoria
<1>4. TypeOKArranque
  BY <1>1, <1>3, PidsSon DEF TypeOKArranque
<1>5. LugaresInv
  BY <1>1, <1>2 DEF LugaresInv, Total, ConexionesMemoria
<1>. QED  BY <1>4, <1>5 DEF ArranqueInv

\* The CPU does not start while it has a PCB, and a console only gets accepted.
Tranquilo ==
    /\ \/ pc'.cpu = pc.cpu
       \/ /\ pc.cpu \notin Ocupado \union {"reset"}
          /\ pc'.cpu \notin Ocupado \union {"reset"}
    /\ \A p \in Procesos :
          consola'[p] = consola[p] \/ (consola[p] = "no" /\ consola'[p] = "aceptada")

\* Only the main threads and the consoles move.
LEMMA SoloPc ==
    ASSUME ArranqueInv, UNCHANGED <<aceptadas, esperando>>, atendido' \subseteq {"cpu", "kernel"},
           conexiones' \in Seq({"cpu", "kernel"}),
           {dispatch', interrupt'} \subseteq {"no", "pedido", "aceptado"},
           consola' \in [Procesos -> {"no", "aceptada", "enviado", "fin"}],
           NEW x, x \in {"cpu", "kernel"}, NEW d, Ir(x, d),
           x = "cpu" => d \in {"no", "fin", "memoria", "entradas", "dispatch", "interrupt",
                               "select", "reset"} \union Ocupado,
           x = "kernel" => d \in {"no", "fin", "memoria", "dispatch", "recv_dispatch",
                                  "interrupt", "recv_interrupt", "listo"}
    PROVE  ArranqueInv' /\ pc'[x] = d
<1>1. pc \in [memoria : {"no", "accept", "entrada", "hilos"},
              cpu : {"no", "fin", "memoria", "entradas", "dispatch", "interrupt",
                     "select", "reset"} \union Ocupado,
              kernel : {"no", "fin", "memoria", "dispatch", "recv_dispatch",
                        "interrupt", "recv_interrupt", "listo"}]
  BY DEF ArranqueInv, LugaresInv
<1>2. pc' \in [memoria : {"no", "accept", "entrada", "hilos"},
              cpu : {"no", "fin", "memoria", "entradas", "dispatch", "interrupt",
                     "select", "reset"} \union Ocupado,
              kernel : {"no", "fin", "memoria", "dispatch", "recv_dispatch",
                        "interrupt", "recv_interrupt", "listo"}]
      /\ pc'.memoria = pc.memoria /\ pc'[x] = d
  BY <1>1 DEF Ir
<1>3. LugaresInv'  BY <1>2 DEF ArranqueInv, LugaresInv, Total
<1>4. pc'.memoria \in {"no", "accept", "entrada", "hilos"}
      /\ pc'.kernel \in {"no", "fin", "memoria", "dispatch", "recv_dispatch",
                         "interrupt", "recv_interrupt", "listo"}
  BY <1>2
<1>5. TypeOKArranque'  BY <1>4 DEF ArranqueInv, TypeOKArranque
<1>. QED  BY <1>2, <1>3, <1>5 DEF ArranqueInv

\* Everything but the consoles stays, and the CPU too.
LEMMA SoloConsolas ==
    ASSUME ArranqueInv, UNCHANGED <<pc, aceptadas, atendido, conexiones>>,
           {dispatch', interrupt'} \subseteq {"no", "pedido", "aceptado"},
           esperando' \in 0 .. Cardinality(Procesos),
           consola' \in [Procesos -> {"no", "aceptada", "enviado", "fin"}]
    PROVE  ArranqueInv'
<1>1. LugaresInv'  BY DEF ArranqueInv, LugaresInv, Total
<1>2. TypeOKArranque'  BY DEF ArranqueInv, TypeOKArranque
<1>. QED  BY <1>1, <1>2 DEF ArranqueInv

LEMMA PasoDeMemoria ==
    ASSUME ArranqueInv, PasoMemoria
    PROVE  ArranqueInv' /\ Tranquilo
<1>1. /\ pc \in [memoria : {"no", "accept", "entrada", "hilos"},
              cpu : {"no", "fin", "memoria", "entradas", "dispatch", "interrupt",
                     "select", "reset"} \union Ocupado,
              kernel : {"no", "fin", "memoria", "dispatch", "recv_dispatch",
                        "interrupt", "recv_interrupt", "listo"}]
      /\ Total(aceptadas) <= ConexionesMemoria
      /\ pc.memoria \in {"no", "accept"} => Total(aceptadas) < ConexionesMemoria
      /\ conexiones \in Seq({"cpu", "kernel"})
      /\ aceptadas \in [{"cpu", "kernel"} -> 0 .. ConexionesMemoria]
      /\ atendido \subseteq {"cpu", "kernel"}
  BY DEF ArranqueInv, LugaresInv, TypeOKArranque
<1>2. /\ aceptadas["cpu"] \in Nat /\ aceptadas["kernel"] \in Nat
      /\ aceptadas = [y \in {"cpu", "kernel"} |-> aceptadas[y]]
  BY <1>1
<1>3. CASE AceptarConexion
  <2> DEFINE x == Head(conexiones)
             n == aceptadas["cpu"]
             k == aceptadas["kernel"]
  <2>1. /\ pc.memoria = "accept" /\ conexiones # <<>>
        /\ aceptadas' = [aceptadas EXCEPT ![x] = @ + 1]
        /\ atendido' = atendido \union {x} /\ conexiones' = Tail(conexiones)
        /\ Ir("memoria", CASE x = "cpu" -> "entrada"
                           [] Total(aceptadas') = ConexionesMemoria -> "hilos"
                           [] OTHER -> "accept")
        /\ UNCHANGED <<dispatch, interrupt, consolas>>
    BY <1>3 DEF AceptarConexion
  <2>2. x \in {"cpu", "kernel"} /\ conexiones' \in Seq({"cpu", "kernel"})
    BY <1>1, <2>1
  <2>3. n \in Nat /\ k \in Nat /\ n + k < 2
    BY <1>1, <1>2, <2>1 DEF Total, ConexionesMemoria
  <2>. HIDE DEF x
  <2>4. /\ aceptadas' = [y \in {"cpu", "kernel"} |-> aceptadas'[y]]
        /\ aceptadas'["cpu"] = (IF x = "cpu" THEN n + 1 ELSE n)
        /\ aceptadas'["kernel"] = (IF x = "kernel" THEN k + 1 ELSE k)
    BY <1>1, <1>2, <2>1, <2>2
  <2>5. /\ aceptadas'["cpu"] \in 0 .. 2 /\ aceptadas'["kernel"] \in 0 .. 2
        /\ Total(aceptadas') = n + k + 1
    BY <2>2, <2>3, <2>4 DEF Total
  <2>6. aceptadas' \in [{"cpu", "kernel"} -> 0 .. ConexionesMemoria]
    BY <2>4, <2>5 DEF ConexionesMemoria
  <2> DEFINE d == CASE x = "cpu" -> "entrada"
                    [] Total(aceptadas') = ConexionesMemoria -> "hilos"
                    [] OTHER -> "accept"
  <2>7. /\ d \in {"accept", "entrada", "hilos"}
        /\ d = "accept" => Total(aceptadas') # ConexionesMemoria
    BY <2>2
  <2>8. Ir("memoria", d)  BY <2>1
  <2>. HIDE DEF d
  <2>9. /\ pc' \in [memoria : {"no", "accept", "entrada", "hilos"},
              cpu : {"no", "fin", "memoria", "entradas", "dispatch", "interrupt",
                     "select", "reset"} \union Ocupado,
              kernel : {"no", "fin", "memoria", "dispatch", "recv_dispatch",
                        "interrupt", "recv_interrupt", "listo"}]
        /\ pc'.memoria = d /\ pc'.cpu = pc.cpu /\ pc'.kernel = pc.kernel
    BY <1>1, <2>7, <2>8 DEF Ir
  <2>10. LugaresInv'
    <3>1. Total(aceptadas') <= ConexionesMemoria
          /\ (d = "accept" => Total(aceptadas') < ConexionesMemoria)
      BY <2>3, <2>5, <2>7 DEF ConexionesMemoria
    <3>2. Total(aceptadas)' = Total(aceptadas')  BY DEF Total
    <3>. QED  BY <2>7, <2>9, <3>1, <3>2 DEF LugaresInv
  <2>11. TypeOKArranque'
    <3>1. atendido' \subseteq {"cpu", "kernel"}  BY <1>1, <2>1, <2>2
    <3>. QED
      BY <2>1, <2>2, <2>6, <2>7, <2>9, <3>1 DEF ArranqueInv, TypeOKArranque, consolas
  <2>. QED  BY <2>1, <2>9, <2>10, <2>11 DEF ArranqueInv, Tranquilo, consolas
<1>4. CASE EnviarEntradas
  <2> DEFINE d == IF Total(aceptadas) = ConexionesMemoria THEN "hilos" ELSE "accept"
  <2>1. /\ atendido' = atendido \union {"cpu"} /\ Ir("memoria", d)
        /\ UNCHANGED <<conexiones, aceptadas, dispatch, interrupt, consolas>>
    BY <1>4 DEF EnviarEntradas
  <2>2. d \in {"hilos", "accept"} /\ (d = "accept" => Total(aceptadas) # ConexionesMemoria)
    OBVIOUS
  <2>. HIDE DEF d
  <2>3. /\ pc' \in [memoria : {"no", "accept", "entrada", "hilos"},
              cpu : {"no", "fin", "memoria", "entradas", "dispatch", "interrupt",
                     "select", "reset"} \union Ocupado,
              kernel : {"no", "fin", "memoria", "dispatch", "recv_dispatch",
                        "interrupt", "recv_interrupt", "listo"}]
        /\ pc'.memoria = d /\ pc'.cpu = pc.cpu /\ pc'.kernel = pc.kernel
    BY <1>1, <2>1, <2>2 DEF Ir
  <2>4. LugaresInv'
    <3>1. Total(aceptadas)' = Total(aceptadas) /\ Total(aceptadas) \in Nat
      BY <1>2, <2>1 DEF Total
    <3>2. d = "accept" => Total(aceptadas) < ConexionesMemoria
      BY <1>1, <2>2, <3>1 DEF ConexionesMemoria
    <3>. QED  BY <1>1, <2>2, <2>3, <3>1, <3>2 DEF LugaresInv
  <2>5. TypeOKArranque'
    <3>1. atendido' \subseteq {"cpu", "kernel"}  BY <1>1, <2>1
    <3>. QED  BY <2>1, <2>2, <2>3, <3>1 DEF ArranqueInv, TypeOKArranque, consolas
  <2>. QED  BY <2>1, <2>3, <2>4, <2>5 DEF ArranqueInv, Tranquilo, consolas
<1>. QED  BY <1>3, <1>4 DEF PasoMemoria

\* The programs that have no PCB in the CPU.
LEMMA LibreEs ==
    /\ {"no", "fin", "memoria", "entradas", "dispatch", "interrupt", "select"}
         \intersect (Ocupado \union {"reset"}) = {}
    /\ \A d \in {"no", "fin", "memoria", "entradas", "dispatch", "interrupt", "select"} :
          d \notin Ocupado \union {"reset"}
BY DEF Ocupado

LEMMA TiposDeArranque ==
    ASSUME ArranqueInv
    PROVE  /\ atendido \subseteq {"cpu", "kernel"} /\ conexiones \in Seq({"cpu", "kernel"})
           /\ {dispatch, interrupt} \subseteq {"no", "pedido", "aceptado"}
           /\ esperando \in 0 .. Cardinality(Procesos)
           /\ consola \in [Procesos -> {"no", "aceptada", "enviado", "fin"}]
           /\ DOMAIN pc = {"memoria", "cpu", "kernel"}
BY DEF ArranqueInv, TypeOKArranque, LugaresInv

LEMMA PasoDeCpu ==
    ASSUME ArranqueInv, PasoCpu
    PROVE  ArranqueInv' /\ Tranquilo
<1>1. ASSUME NEW en, en \in {"no", "fin", "memoria", "entradas", "dispatch", "interrupt"},
             NEW d, d \in {"no", "fin", "memoria", "entradas", "dispatch", "interrupt", "select"},
             pc.cpu = en, Ir("cpu", d), UNCHANGED consolas, UNCHANGED <<conexiones, aceptadas>>,
             UNCHANGED <<dispatch, interrupt>>, atendido' \subseteq atendido
      PROVE  ArranqueInv' /\ Tranquilo
  <2>1. /\ atendido' \subseteq {"cpu", "kernel"} /\ conexiones' \in Seq({"cpu", "kernel"})
        /\ {dispatch', interrupt'} \subseteq {"no", "pedido", "aceptado"}
        /\ consola' \in [Procesos -> {"no", "aceptada", "enviado", "fin"}]
        /\ consola' = consola /\ esperando' = esperando
    BY <1>1, TiposDeArranque DEF consolas
  <2>2. ArranqueInv' /\ pc'["cpu"] = d  BY <1>1, <2>1, SoloPc
  <2>. QED  BY <1>1, <2>1, <2>2, LibreEs DEF Tranquilo
<1>2. CASE CpuAceptada
  <2>1. /\ pc.cpu = "memoria" /\ Ir("cpu", "entradas") /\ atendido' = atendido \ {"cpu"}
        /\ UNCHANGED <<conexiones, aceptadas, dispatch, interrupt, consolas>>
    BY <1>2 DEF CpuAceptada, Recibir
  <2>. QED  BY <2>1, <1>1
<1>3. CASE CpuEntradas
  <2>1. /\ pc.cpu = "entradas" /\ Ir("cpu", "dispatch") /\ atendido' = atendido \ {"cpu"}
        /\ UNCHANGED <<conexiones, aceptadas, dispatch, interrupt, consolas>>
    BY <1>3 DEF CpuEntradas, Recibir
  <2>. QED  BY <2>1, <1>1
<1>4. CASE LevantarServerDispatch
  <2>1. pc.cpu = "dispatch" /\ Ir("cpu", "interrupt") /\ UNCHANGED <<arranque, consolas>>
    BY <1>4 DEF LevantarServerDispatch, Levantar
  <2>. QED  BY <2>1, <1>1 DEF arranque
<1>5. CASE LevantarServerInterrupt
  <2>1. pc.cpu = "interrupt" /\ Ir("cpu", "select") /\ UNCHANGED <<arranque, consolas>>
    BY <1>5 DEF LevantarServerInterrupt, Levantar
  <2>. QED  BY <2>1, <1>1 DEF arranque
<1>6. CASE AceptoServerDispatch \/ AceptoServerInterrupt
  <2>1. /\ UNCHANGED <<pc, conexiones, aceptadas, atendido, consolas>>
        /\ dispatch' \in {dispatch, "aceptado"} /\ interrupt' \in {interrupt, "aceptado"}
    BY <1>6 DEF AceptoServerDispatch, AceptoServerInterrupt
  <2>2. consola' = consola /\ esperando' = esperando  BY <2>1 DEF consolas
  <2>3. /\ {dispatch', interrupt'} \subseteq {"no", "pedido", "aceptado"}
        /\ esperando' \in 0 .. Cardinality(Procesos)
        /\ consola' \in [Procesos -> {"no", "aceptada", "enviado", "fin"}]
    BY <2>1, <2>2, TiposDeArranque
  <2>4. ArranqueInv'  BY <2>1, <2>3, SoloConsolas
  <2>. QED  BY <2>1, <2>2, <2>4 DEF Tranquilo
<1>. QED  BY <1>2, <1>3, <1>4, <1>5, <1>6 DEF PasoCpu

LEMMA PasoDeKernel ==
    ASSUME ArranqueInv, PasoKernel
    PROVE  ArranqueInv' /\ Tranquilo
<1>1. ASSUME NEW d, d \in {"no", "fin", "memoria", "dispatch", "recv_dispatch",
                           "interrupt", "recv_interrupt", "listo"},
             Ir("kernel", d), UNCHANGED consolas, UNCHANGED <<conexiones, aceptadas>>,
             dispatch' \in {dispatch, "pedido"}, interrupt' \in {interrupt, "pedido"},
             atendido' \subseteq atendido
      PROVE  ArranqueInv' /\ Tranquilo
  <2>1. /\ atendido' \subseteq {"cpu", "kernel"} /\ conexiones' \in Seq({"cpu", "kernel"})
        /\ {dispatch', interrupt'} \subseteq {"no", "pedido", "aceptado"}
        /\ consola' \in [Procesos -> {"no", "aceptada", "enviado", "fin"}]
        /\ consola' = consola /\ esperando' = esperando
    BY <1>1, TiposDeArranque DEF consolas
  <2>2. ArranqueInv'  BY <1>1, <2>1, SoloPc
  <2>3. pc'.cpu = pc.cpu  BY <1>1, TiposDeArranque DEF Ir
  <2>. QED  BY <2>1, <2>2, <2>3 DEF Tranquilo
<1>2. CASE KernelAceptado
  <2>1. /\ Ir("kernel", "dispatch") /\ atendido' = atendido \ {"kernel"}
        /\ UNCHANGED <<conexiones, aceptadas, dispatch, interrupt, consolas>>
    BY <1>2 DEF KernelAceptado, Recibir
  <2>. QED  BY <2>1, <1>1
<1>3. CASE ConectarDispatch
  <2>1. \E d \in {"recv_dispatch", "fin"} :
           /\ Ir("kernel", d) /\ dispatch' \in {dispatch, "pedido"}
           /\ UNCHANGED <<conexiones, aceptadas, atendido, interrupt, consolas>>
    BY <1>3 DEF ConectarDispatch
  <2>. QED  BY <2>1, <1>1
<1>4. CASE RecibirDispatch
  <2>1. Ir("kernel", "interrupt") /\ UNCHANGED <<arranque, consolas>>
    BY <1>4 DEF RecibirDispatch
  <2>. QED  BY <2>1, <1>1 DEF arranque
<1>5. CASE ConectarInterrupt
  <2>1. /\ Ir("kernel", "recv_interrupt") /\ interrupt' = "pedido"
        /\ UNCHANGED <<conexiones, aceptadas, atendido, dispatch, consolas>>
    BY <1>5 DEF ConectarInterrupt
  <2>. QED  BY <2>1, <1>1
<1>6. CASE RecibirInterrupt
  <2>1. Ir("kernel", "listo") /\ UNCHANGED <<arranque, consolas>>
    BY <1>6 DEF RecibirInterrupt
  <2>. QED  BY <2>1, <1>1 DEF arranque
<1>7. ASSUME NEW p \in Procesos, AceptarConsola(p) PROVE ArranqueInv' /\ Tranquilo
  <2>1. /\ esperando > 0 /\ consola[p] = "no" /\ esperando' = esperando - 1
        /\ consola' = [consola EXCEPT ![p] = "aceptada"] /\ UNCHANGED <<pc, arranque>>
    BY <1>7 DEF AceptarConsola
  <2>2. /\ consola' \in [Procesos -> {"no", "aceptada", "enviado", "fin"}]
        /\ \A q \in Procesos : q # p => consola'[q] = consola[q]
        /\ consola'[p] = "aceptada"
    BY <2>1, TiposDeArranque
  <2>3. esperando' \in 0 .. Cardinality(Procesos)  BY <2>1, TiposDeArranque, PidsSon
  <2>4. {dispatch', interrupt'} \subseteq {"no", "pedido", "aceptado"}
    BY <2>1, TiposDeArranque DEF arranque
  <2>5. ArranqueInv'  BY <2>1, <2>2, <2>3, <2>4, SoloConsolas DEF arranque
  <2>. QED  BY <2>1, <2>2, <2>5 DEF Tranquilo
<1>. QED  BY <1>2, <1>3, <1>4, <1>5, <1>6, <1>7 DEF PasoKernel

LEMMA PasoDeLanzar ==
    ASSUME ArranqueInv, Lanzar
    PROVE  ArranqueInv' /\ Tranquilo
<1>1. CASE MemoriaEscucha
  <2>1. pc.memoria = "no" /\ Ir("memoria", "accept") /\ UNCHANGED <<arranque, consolas>>
    BY <1>1 DEF MemoriaEscucha
  <2>2. /\ pc' \in [memoria : {"no", "accept", "entrada", "hilos"},
              cpu : {"no", "fin", "memoria", "entradas", "dispatch", "interrupt",
                     "select", "reset"} \union Ocupado,
              kernel : {"no", "fin", "memoria", "dispatch", "recv_dispatch",
                        "interrupt", "recv_interrupt", "listo"}]
        /\ pc'.memoria = "accept" /\ pc'.cpu = pc.cpu /\ pc'.kernel = pc.kernel
    BY <2>1 DEF Ir, ArranqueInv, LugaresInv
  <2>3. LugaresInv'
    BY <2>1, <2>2 DEF ArranqueInv, LugaresInv, Total, arranque
  <2>4. TypeOKArranque'
    BY <2>1, <2>2 DEF ArranqueInv, TypeOKArranque, arranque, consolas
  <2>. QED  BY <2>1, <2>2, <2>3, <2>4 DEF ArranqueInv, Tranquilo, consolas
<1>2. ASSUME NEW x, x \in {"cpu", "kernel"}, Conectar(x) PROVE ArranqueInv' /\ Tranquilo
  <2>1. PICK d \in {"fin", "memoria"} :
           /\ pc[x] \in {"no", "fin"} /\ Ir(x, d)
           /\ conexiones' \in {conexiones, Append(conexiones, x)}
           /\ UNCHANGED <<aceptadas, atendido, dispatch, interrupt, consolas>>
    BY <1>2 DEF Conectar
  <2>2. /\ atendido' \subseteq {"cpu", "kernel"} /\ conexiones' \in Seq({"cpu", "kernel"})
        /\ {dispatch', interrupt'} \subseteq {"no", "pedido", "aceptado"}
        /\ consola' \in [Procesos -> {"no", "aceptada", "enviado", "fin"}]
        /\ consola' = consola /\ esperando' = esperando
    BY <1>2, <2>1, TiposDeArranque DEF consolas
  <2>3. ArranqueInv' /\ pc'[x] = d  BY <1>2, <2>1, <2>2, SoloPc
  <2>4. CASE x = "cpu"  BY <2>1, <2>2, <2>3, <2>4, LibreEs DEF Tranquilo
  <2>5. CASE x = "kernel"
    <3>1. pc'.cpu = pc.cpu  BY <2>1, <2>5, TiposDeArranque DEF Ir
    <3>. QED  BY <2>2, <2>3, <3>1 DEF Tranquilo
  <2>. QED  BY <1>2, <2>4, <2>5
<1>3. CASE LanzarConsola
  <2>1. /\ esperando < Cardinality({p \in Procesos : consola[p] = "no"})
        /\ esperando' = esperando + 1 /\ UNCHANGED <<pc, arranque, consola>>
    BY <1>3 DEF LanzarConsola
  <2> DEFINE S == {p \in Procesos : consola[p] = "no"}
  <2>2. IsFiniteSet(Procesos) /\ S \subseteq Procesos  BY PidsAssumption
  <2>3. Cardinality(S) <= Cardinality(Procesos) /\ Cardinality(S) \in Nat
    <3>. HIDE DEF S
    <3>. QED  BY <2>2, FS_Subset, FS_CardinalityType
  <2>4. esperando' \in 0 .. Cardinality(Procesos)
    BY <2>1, <2>3, PidsSon, TiposDeArranque
  <2>5. /\ {dispatch', interrupt'} \subseteq {"no", "pedido", "aceptado"}
        /\ consola' \in [Procesos -> {"no", "aceptada", "enviado", "fin"}]
    BY <2>1, TiposDeArranque DEF arranque
  <2>6. ArranqueInv'  BY <2>1, <2>4, <2>5, SoloConsolas DEF arranque
  <2>. QED  BY <2>1, <2>6 DEF Tranquilo
<1>. QED  BY <1>1, <1>2, <1>3 DEF Lanzar, LanzarCpu, LanzarKernel

-----------------------------------------------------------------------------
(* The invariant, step by step.                                             *)

LEMMA CInicio == Init => CInv
<1>. SUFFICES ASSUME Init PROVE CInv  OBVIOUS
<1>1. /\ pc.cpu = "no" /\ tlb = {} /\ idAnteriorPCB = -1
      /\ consola = [p \in Procesos |-> "no"]
      /\ guion = [p \in Procesos |-> <<>>] /\ mensaje = [p \in Procesos |-> <<>>]
      /\ pcbs = [p \in Procesos |-> NULO] /\ lugar = [p \in Procesos |-> "no"]
      /\ haciaCpu = <<>> /\ desdeCpu = <<>> /\ pedidos = 0 /\ interrupciones = 0
      /\ pcb = NULO /\ devolver_pcb = FALSE /\ interrupcion = FALSE
      /\ ram = [d \in Memoria |-> 0] /\ hechas = [p \in Procesos |-> 0]
      /\ leido = [p \in Procesos |-> 0]
  BY DEF Init, InitArranque, InitMmu
<1>2. pc.cpu \notin Ocupado \union {"reset"}  BY <1>1, LibreEs
<1>3. ArranqueInv  BY ArranqueInicio
<1>4. DatosInv
  <2>1. mensaje = [p \in Procesos |-> mensaje[p]]  BY <1>1
  <2>2. pcbs = [p \in Procesos |-> pcbs[p]]  BY <1>1
  <2>3. leido = [p \in Procesos |-> leido[p]]  BY <1>1
  <2>4. pedidos \in 0 .. interrupciones /\ interrupciones \in 0 .. INTERRUPCIONES
    BY <1>1, InterrupcionesAssumption
  <2>5. hechas \in [Procesos -> Nat] /\ ram \in [Memoria -> Nat]  BY <1>1
  <2>6. lugar \in [Procesos -> {"no", "ready", "cpu", "finalizado", "perdido"}]  BY <1>1
  <2>. QED  BY <1>1, <2>1, <2>2, <2>3, <2>4, <2>5, <2>6 DEF DatosInv
<1>5. GuionInv
  <2>1. guion \in [Procesos -> Seq(Renglon)]
    <3>1. <<>> \in Seq(Renglon)  BY EmptySeq
    <3>. QED  BY <1>1, <3>1
  <2>. QED  BY <1>1, <2>1 DEF GuionInv, GuionDe
<1>6. KernelInv
  <2>1. ~ Fuera  BY <1>1 DEF Fuera
  <2>. QED  BY <1>1, <1>2, <2>1 DEF KernelInv, EnKernel
<1>7. CpuInv  BY <1>1, <1>2 DEF CpuInv
<1>8. DuenoInv  BY <1>1, <1>2 DEF DuenoInv
<1>. QED  BY <1>3, <1>4, <1>5, <1>6, <1>7, <1>8 DEF CInv

\* The process that the main thread executes.
EnEjecucion(p) == pc.cpu \in Ocupado /\ pcb.pid = p

LEMMA EjecutaUno ==
    ASSUME KernelInv, CpuInv, pc.cpu \in Ocupado
    PROVE  /\ pcb.pid \in Procesos /\ pcb \in PcbBueno(pcb.pid) /\ lugar[pcb.pid] = "cpu"
           /\ Alla(pcb.pid) /\ EnCpu(pcb.pid) /\ Fuera
<1>1. PICK p \in Procesos : pcb \in PcbBueno(p)  BY DEF CpuInv
<1>2. pcb.pid = p  BY <1>1, PcbBuenoEs
<1>3. lugar[p] = "cpu" /\ EnCpu(p)  BY <1>2 DEF CpuInv
<1>4. Yendo(p) \/ Alla(p) \/ Volviendo(p)  BY <1>3 DEF KernelInv, EnKernel
<1>5. ~ Yendo(p) /\ ~ Volviendo(p)  BY DEF Yendo, Volviendo
<1>6. Fuera  BY <1>3 DEF Fuera
<1>. QED  BY <1>1, <1>2, <1>3, <1>4, <1>5, <1>6

\* A step that is not about the places of the processes.
LEMMA KernelIgual ==
    ASSUME KernelInv, CpuInv, UNCHANGED <<pcbs, lugar, haciaCpu, desdeCpu>>,
           pc'.cpu \in Ocupado <=> pc.cpu \in Ocupado,
           pc.cpu \in Ocupado => pcb'.pid = pcb.pid,
           \A p \in Procesos : ~ EnEjecucion(p) =>
              /\ hechas'[p] = hechas[p]
              /\ lugar[p] # "no" => guion'[p] = guion[p]
    PROVE  KernelInv'
<1>1. ASSUME NEW p \in Procesos PROVE EnKernel(p)'
  <2>1. CASE EnEjecucion(p)
    <3>1. lugar[p] = "cpu" /\ Alla(p)  BY <2>1, EjecutaUno DEF EnEjecucion
    <3>2. Alla(p)'  BY <2>1, <3>1 DEF Alla, EnEjecucion
    <3>. QED  BY <3>1, <3>2 DEF KernelInv, EnKernel
  <2>2. CASE ~ EnEjecucion(p) /\ lugar[p] = "no"
    BY <2>2 DEF KernelInv, EnKernel
  <2>3. CASE ~ EnEjecucion(p) /\ lugar[p] # "no"
    <3>1. Lineas(p)' = Lineas(p) /\ hechas'[p] = hechas[p]  BY <2>3 DEF Lineas
    <3>2. Yendo(p) => Yendo(p)'  BY <3>1 DEF Yendo
    <3>3. Volviendo(p) => Volviendo(p)'  BY <3>1 DEF Volviendo
    <3>4. ~ Alla(p)  BY <2>3 DEF Alla, EnEjecucion
    <3>. QED  BY <2>3, <3>1, <3>2, <3>3, <3>4 DEF KernelInv, EnKernel
  <2>. QED  BY <2>1, <2>2, <2>3
<1>2. Fuera' <=> Fuera  BY DEF Fuera
<1>. QED  BY <1>1, <1>2 DEF KernelInv

LEMMA DuenoIgual ==
    ASSUME DuenoInv, UNCHANGED <<tlb, idAnteriorPCB>>,
           pc'.cpu \in Ocupado \union {"reset"} <=> pc.cpu \in Ocupado \union {"reset"},
           pc.cpu \in Ocupado \union {"reset"} => pcb'.pid = pcb.pid
    PROVE  DuenoInv'
BY DEF DuenoInv, DeProceso

\* A step that is not about the scripts.
LEMMA GuionIgual ==
    ASSUME GuionInv, UNCHANGED <<guion, mensaje>>,
           \A p \in Procesos :
              /\ consola'[p] = consola[p] \/ (consola[p] = "no" /\ consola'[p] = "aceptada")
                    \/ (consola[p] = "enviado" /\ consola'[p] = "fin" /\ mensaje[p] = <<>>)
              /\ lugar'[p] = "no" <=> lugar[p] = "no"
    PROVE  GuionInv'
<1>1. guion' \in [Procesos -> Seq(Renglon)]  BY DEF GuionInv
<1>2. ASSUME NEW p \in Procesos PROVE GuionDe(p)'
  BY DEF GuionInv, GuionDe
<1>. QED  BY <1>1, <1>2 DEF GuionInv

\* A step that is not of the main thread of the CPU.
LEMMA CpuIgual ==
    ASSUME KernelInv, CpuInv, UNCHANGED <<pcb, ram, devolver_pcb, hechas>>,
           \/ pc'.cpu = pc.cpu
           \/ /\ pc.cpu \notin Ocupado \union {"reset"}
              /\ pc'.cpu \notin Ocupado \union {"reset"},
           \A p \in Procesos : lugar[p] = "cpu" => guion'[p] = guion[p],
           \A p \in Procesos : EnEjecucion(p) => lugar'[p] = lugar[p]
    PROVE  CpuInv'
<1>1. CASE pc'.cpu # pc.cpu  BY <1>1 DEF CpuInv
<1>2. CASE pc'.cpu = pc.cpu /\ pc.cpu \notin Ocupado  BY <1>2 DEF CpuInv
<1>3. CASE pc'.cpu = pc.cpu /\ pc.cpu \in Ocupado
  <2>0. PICK p \in Procesos : p = pcb.pid  BY <1>3, EjecutaUno
  <2>1. lugar[p] = "cpu" /\ EnCpu(p)  BY <1>3, <2>0, EjecutaUno
  <2>2. EnEjecucion(p)  BY <1>3, <2>0 DEF EnEjecucion
  <2>3. Lineas(p)' = Lineas(p) /\ lugar'[p] = "cpu"  BY <2>1, <2>2 DEF Lineas
  <2>4. Mem(p)' = Mem(p)  BY DEF Mem
  <2>5. EnCpu(p)'  BY <1>3, <2>1, <2>3, <2>4 DEF EnCpu
  <2>6. \E q \in Procesos : pcb' \in PcbBueno(q)  BY <1>3 DEF CpuInv
  <2>7. pcb'.pid = p  BY <2>0
  <2>. QED  BY <1>3, <2>3, <2>5, <2>6, <2>7 DEF CpuInv
<1>. QED  BY <1>1, <1>2, <1>3

LEMMA CArrancar ==
    ASSUME CInv, \/ Arrancar(PasoMemoria) \/ Arrancar(PasoCpu) \/ Arrancar(PasoKernel)
                 \/ Arrancar(Lanzar)
    PROVE  CInv'
<1>1. ArranqueInv' /\ Tranquilo
  BY PasoDeMemoria, PasoDeCpu, PasoDeKernel, PasoDeLanzar DEF Arrancar, CInv
<1>2. UNCHANGED <<varsMmu, kernel, sockets, interrupciones, historia, cpu>>
  BY DEF Arrancar
<1>3. /\ UNCHANGED <<tlb, idAnteriorPCB, pcbs, lugar, mensaje, haciaCpu, desdeCpu, pedidos>>
      /\ UNCHANGED <<interrupciones, guion, hechas, leido, pcb, devolver_pcb>>
      /\ UNCHANGED <<interrupcion, ram>>
  BY <1>2 DEF varsMmu, kernel, sockets, historia, cpu
<1>4. DatosInv'  BY <1>3 DEF CInv, DatosInv
<1>5. GuionInv'  BY <1>1, <1>3, GuionIgual DEF CInv, Tranquilo
<1>6. KernelInv'  BY <1>1, <1>3, KernelIgual DEF CInv, Tranquilo
<1>7. CpuInv'  BY <1>1, <1>3, CpuIgual DEF CInv, Tranquilo
<1>8. DuenoInv'  BY <1>1, <1>3, DuenoIgual DEF CInv, Tranquilo
<1>. QED  BY <1>1, <1>4, <1>5, <1>6, <1>7, <1>8 DEF CInv

LEMMA ArranqueIgual ==
    ASSUME ArranqueInv, UNCHANGED <<pc, arranque, consolas>>
    PROVE  ArranqueInv'
BY DEF ArranqueInv, TypeOKArranque, LugaresInv, Total, arranque, consolas

LEMMA CConsolaEnvia ==
    ASSUME CInv, NEW p \in Procesos, ConsolaEnvia(p)
    PROVE  CInv'
<1>1. PICK lineas \in GuionesDe(p) :
         /\ guion' = [guion EXCEPT ![p] = lineas]
         /\ mensaje' = [mensaje EXCEPT ![p] =
                serializar_mensaje(obtener_intrucciones(lineas), TAMANO)]
  BY DEF ConsolaEnvia
<1>2. /\ consola[p] = "aceptada" /\ consola' = [consola EXCEPT ![p] = "enviado"]
      /\ UNCHANGED <<pc, esperando, pcbs, lugar, haciaCpu, desdeCpu, pedidos, interrupciones>>
      /\ UNCHANGED <<hechas, leido, pcb, devolver_pcb, interrupcion, ram, tlb, idAnteriorPCB>>
      /\ UNCHANGED <<conexiones, aceptadas, atendido, dispatch, interrupt>>
  BY DEF ConsolaEnvia, arranque, varsMmu, kernel, cpu
<1>3. /\ ArranqueInv /\ GuionInv /\ DatosInv /\ KernelInv /\ CpuInv /\ DuenoInv
      /\ lineas \in Seq(Renglon) /\ GuionDe(p)
      /\ guion \in [Procesos -> Seq(Renglon)] /\ mensaje = [q \in Procesos |-> mensaje[q]]
  BY GuionesAssumption DEF CInv, GuionInv, DatosInv
<1>4. lugar[p] = "no"  BY <1>2, <1>3 DEF GuionDe
<1>5. /\ guion' \in [Procesos -> Seq(Renglon)] /\ guion'[p] = lineas
      /\ \A q \in Procesos \ {p} : guion'[q] = guion[q]
  BY <1>1, <1>3
<1>6. /\ mensaje' = [q \in Procesos |-> mensaje'[q]]
      /\ mensaje'[p] = serializar_mensaje(obtener_intrucciones(lineas), TAMANO)
      /\ \A q \in Procesos \ {p} : mensaje'[q] = mensaje[q]
  BY <1>1, <1>3
<1>7. /\ consola' \in [Procesos -> {"no", "aceptada", "enviado", "fin"}]
      /\ consola'[p] = "enviado" /\ \A q \in Procesos \ {p} : consola'[q] = consola[q]
  BY <1>2, <1>3, TiposDeArranque
<1>8. ArranqueInv'
  <2>1. {dispatch', interrupt'} \subseteq {"no", "pedido", "aceptado"}
        /\ esperando' \in 0 .. Cardinality(Procesos)
    BY <1>2, <1>3, TiposDeArranque
  <2>. QED  BY <1>2, <1>3, <1>7, <2>1, SoloConsolas
<1>9. DatosInv'  BY <1>2, <1>3, <1>6 DEF DatosInv
<1>10. GuionInv'
  <2>1. ASSUME NEW q \in Procesos PROVE GuionDe(q)'
    <3>1. CASE q = p  BY <1>2, <1>4, <1>5, <1>6, <1>7, <3>1 DEF GuionDe
    <3>2. CASE q # p  BY <1>2, <1>3, <1>5, <1>6, <1>7, <3>2 DEF GuionInv, GuionDe
    <3>. QED  BY <3>1, <3>2
  <2>. QED  BY <1>5, <2>1 DEF GuionInv
<1>11. \A q \in Procesos : lugar[q] # "no" => guion'[q] = guion[q]  BY <1>4, <1>5
<1>12. KernelInv'  BY <1>2, <1>3, <1>11, KernelIgual
<1>13. CpuInv'  BY <1>2, <1>3, <1>11, CpuIgual
<1>14. DuenoInv'  BY <1>2, <1>3, DuenoIgual
<1>. QED  BY <1>8, <1>9, <1>10, <1>12, <1>13, <1>14 DEF CInv

\* The PCB that the Kernel makes is one of a process that has executed nothing.
LEMMA CGestionarComunicacion ==
    ASSUME CInv, NEW p \in Procesos, GestionarComunicacion(p)
    PROVE  CInv'
<1>1. PICK resto \in BASURA :
         pcbs' = [pcbs EXCEPT ![p] =
                    pcb_create(deserializar_mensaje(mensaje[p], resto).tamano,
                               deserializar_mensaje(mensaje[p], resto).instrucciones,
                               p, 0, 0)]
  BY DEF GestionarComunicacion
<1>2. /\ mensaje[p] # <<>> /\ mensaje' = [mensaje EXCEPT ![p] = <<>>]
      /\ lugar' = [lugar EXCEPT ![p] = "ready"]
      /\ UNCHANGED <<pc, arranque, consolas, haciaCpu, desdeCpu, pedidos, interrupciones>>
      /\ UNCHANGED <<guion, hechas, leido, pcb, devolver_pcb, interrupcion, ram, tlb>>
      /\ UNCHANGED <<idAnteriorPCB, consola>>
  BY DEF GestionarComunicacion, varsMmu, historia, cpu, consolas
<1>3. /\ ArranqueInv /\ GuionInv /\ DatosInv /\ KernelInv /\ CpuInv /\ DuenoInv
      /\ GuionDe(p) /\ EnKernel(p) /\ guion[p] \in Seq(Renglon)
      /\ mensaje = [q \in Procesos |-> mensaje[q]] /\ pcbs = [q \in Procesos |-> pcbs[q]]
      /\ lugar \in [Procesos -> {"no", "ready", "cpu", "finalizado", "perdido"}]
  BY DEF CInv, GuionInv, DatosInv, KernelInv
<1> DEFINE I == obtener_intrucciones(guion[p])
           m == deserializar_mensaje(mensaje[p], resto)
           b == pcb_create(m.tamano, m.instrucciones, p, 0, 0)
<1>4. /\ lugar[p] = "no" /\ consola[p] = "enviado" /\ hechas[p] = 0
      /\ mensaje[p] = serializar_mensaje(I, TAMANO)
  BY <1>2, <1>3 DEF GuionDe, EnKernel
<1>5. /\ I \in Instrucciones(Numero) /\ Lineas(p) \in Seq(Renglon)
      /\ Len(I) = Len(Lineas(p)) /\ Len(Lineas(p)) \in Nat
      /\ \A k \in 1 .. Len(Lineas(p)) : I[k] = DelRenglon(Lineas(p)[k])
  BY <1>3, Traducidas DEF Lineas
<1>6. resto \in Byte  BY BasuraAssumption
<1>. HIDE DEF I
<1>7. m.tamano = TAMANO /\ LeidaHasta(m.instrucciones, I)
  BY <1>4, <1>5, <1>6, TamanoEs, MensajeIdaYVuelta
<1>8. b = pcb_create(TAMANO, m.instrucciones, p, 0, 0)  BY <1>7
<1>. HIDE DEF b, m
<1>9. Lista(p, Lineas(p), 0, b)  BY <1>5, <1>7, <1>8, PcbNuevo
<1>10. b \in PcbBueno(p)  BY <1>9 DEF Lista, Quieta
<1>11. /\ pcbs' = [q \in Procesos |-> pcbs'[q]] /\ pcbs'[p] = b
       /\ \A q \in Procesos \ {p} : pcbs'[q] = pcbs[q]
  BY <1>1, <1>3 DEF b, m
<1>12. /\ lugar' \in [Procesos -> {"no", "ready", "cpu", "finalizado", "perdido"}]
       /\ lugar'[p] = "ready" /\ \A q \in Procesos \ {p} : lugar'[q] = lugar[q]
  BY <1>2, <1>3
<1>13. /\ mensaje' = [q \in Procesos |-> mensaje'[q]] /\ mensaje'[p] = <<>>
       /\ \A q \in Procesos \ {p} : mensaje'[q] = mensaje[q]
  BY <1>2, <1>3
<1>14. ArranqueInv'  BY <1>2, <1>3, ArranqueIgual
<1>15. DatosInv'  BY <1>2, <1>3, <1>11, <1>12, <1>13 DEF DatosInv
<1>16. GuionInv'
  <2>1. ASSUME NEW q \in Procesos PROVE GuionDe(q)'
    <3>1. CASE q = p  BY <1>2, <1>4, <1>13, <3>1 DEF GuionDe
    <3>2. CASE q # p  BY <1>2, <1>3, <1>12, <1>13, <3>2 DEF GuionInv, GuionDe
    <3>. QED  BY <3>1, <3>2
  <2>. QED  BY <1>2, <1>3, <2>1 DEF GuionInv
<1>17. Fuera' <=> Fuera  BY <1>4, <1>12 DEF Fuera
<1>18. ASSUME NEW q \in Procesos PROVE EnKernel(q)'
  <2>0. Lineas(q)' = Lineas(q) /\ hechas'[q] = hechas[q]  BY <1>2 DEF Lineas
  <2>1. CASE q = p
    BY <1>4, <1>9, <1>10, <1>11, <1>12, <2>0, <2>1 DEF EnKernel
  <2>2. CASE q # p
    <3>1. pcbs'[q] = pcbs[q] /\ lugar'[q] = lugar[q]  BY <1>11, <1>12, <2>2
    <3>2. Yendo(q) => Yendo(q)'  BY <1>2, <2>0, <3>1 DEF Yendo
    <3>3. Volviendo(q) => Volviendo(q)'  BY <1>2, <2>0, <3>1 DEF Volviendo
    <3>4. Alla(q) => Alla(q)'  BY <1>2 DEF Alla
    <3>. QED  BY <1>3, <2>0, <3>1, <3>2, <3>3, <3>4 DEF KernelInv, EnKernel
  <2>. QED  BY <2>1, <2>2
<1>19. KernelInv'
  <2>1. \A q, r \in Procesos : lugar'[q] = "cpu" /\ lugar'[r] = "cpu" => q = r
    BY <1>3, <1>12 DEF KernelInv
  <2>. QED  BY <1>2, <1>3, <1>17, <1>18, <2>1 DEF KernelInv
<1>20. CpuInv'
  <2>1. \A q \in Procesos : EnEjecucion(q) => lugar'[q] = lugar[q]
    BY <1>3, <1>4, <1>12, EjecutaUno DEF EnEjecucion
  <2>. QED  BY <1>2, <1>3, <2>1, CpuIgual
<1>21. DuenoInv'  BY <1>2, <1>3, DuenoIgual
<1>. QED  BY <1>14, <1>15, <1>16, <1>19, <1>20, <1>21 DEF CInv

LEMMA CAvisarConsola ==
    ASSUME CInv, NEW p \in Procesos, AvisarConsola(p)
    PROVE  CInv'
<1>1. /\ lugar[p] = "finalizado" /\ consola[p] = "enviado"
      /\ consola' = [consola EXCEPT ![p] = "fin"]
      /\ UNCHANGED <<pc, esperando, conexiones, aceptadas, atendido, dispatch, interrupt>>
      /\ UNCHANGED <<guion, mensaje, pcbs, lugar, haciaCpu, desdeCpu, pedidos, interrupciones>>
      /\ UNCHANGED <<hechas, leido, pcb, devolver_pcb, interrupcion, ram, tlb, idAnteriorPCB>>
  BY DEF AvisarConsola, arranque, varsMmu, kernel, sockets, historia, cpu
<1>2. /\ ArranqueInv /\ GuionInv /\ DatosInv /\ KernelInv /\ CpuInv /\ DuenoInv
      /\ GuionDe(p)
  BY DEF CInv, GuionInv
<1>3. mensaje[p] = <<>>  BY <1>1, <1>2 DEF GuionDe
<1>4. /\ consola' \in [Procesos -> {"no", "aceptada", "enviado", "fin"}]
      /\ consola'[p] = "fin" /\ \A q \in Procesos \ {p} : consola'[q] = consola[q]
  BY <1>1, <1>2, TiposDeArranque
<1>5. ArranqueInv'
  <2>1. {dispatch', interrupt'} \subseteq {"no", "pedido", "aceptado"}
        /\ esperando' \in 0 .. Cardinality(Procesos)
    BY <1>1, <1>2, TiposDeArranque
  <2>. QED  BY <1>1, <1>2, <1>4, <2>1, SoloConsolas
<1>6. DatosInv'  BY <1>1, <1>2 DEF DatosInv
<1>7. GuionInv'  BY <1>1, <1>2, <1>3, <1>4, GuionIgual
<1>8. KernelInv'  BY <1>1, <1>2, KernelIgual
<1>9. CpuInv'  BY <1>1, <1>2, CpuIgual
<1>10. DuenoInv'  BY <1>1, <1>2, DuenoIgual
<1>. QED  BY <1>5, <1>6, <1>7, <1>8, <1>9, <1>10 DEF CInv

\* The dispatched PCB is on its way alone.
LEMMA CDespachar ==
    ASSUME CInv, NEW p \in Procesos, Despachar(p)
    PROVE  CInv'
<1>1. /\ lugar[p] = "ready" /\ ~ Fuera /\ lugar' = [lugar EXCEPT ![p] = "cpu"]
      /\ haciaCpu' = haciaCpu \o pcb_serializar(pcbs[p], 0)
      /\ UNCHANGED <<pc, arranque, consolas, consola, pcbs, mensaje, desdeCpu, pedidos>>
      /\ UNCHANGED <<interrupciones, guion, hechas, leido, pcb, devolver_pcb>>
      /\ UNCHANGED <<interrupcion, ram, tlb, idAnteriorPCB>>
  BY DEF Despachar, varsMmu, historia, cpu, consolas
<1>2. /\ ArranqueInv /\ GuionInv /\ DatosInv /\ KernelInv /\ CpuInv /\ DuenoInv
      /\ EnKernel(p) /\ haciaCpu = <<>> /\ desdeCpu = <<>> /\ pc.cpu \notin Ocupado
      /\ lugar \in [Procesos -> {"no", "ready", "cpu", "finalizado", "perdido"}]
  BY <1>1 DEF CInv, DatosInv, KernelInv
<1>3. /\ lugar' \in [Procesos -> {"no", "ready", "cpu", "finalizado", "perdido"}]
      /\ lugar'[p] = "cpu" /\ \A q \in Procesos \ {p} : lugar'[q] = lugar[q]
  BY <1>1, <1>2
<1>4. Lista(p, Lineas(p), hechas[p], pcbs[p]) /\ pcbs[p] \in PcbBueno(p)
  BY <1>1, <1>2 DEF EnKernel
<1>5. haciaCpu' = pcb_serializar(pcbs[p], 0)
  <2> DEFINE s == pcb_serializar(pcbs[p], 0)
  <2>1. pcbs[p] \in PcbSano  BY <1>4, PcbBuenoEs
  <2>2. s \in Seq(Nat)  BY <2>1, PcbIdaYVuelta
  <2>. HIDE DEF s
  <2>3. <<>> \o s = s  BY <2>2, ConcatEmptySeq
  <2>. QED  BY <1>1, <1>2, <2>3 DEF s
<1>6. Fuera' /\ \A q \in Procesos : lugar[q] # "cpu"  BY <1>1, <1>3 DEF Fuera
<1>7. ASSUME NEW q \in Procesos PROVE EnKernel(q)'
  <2>0. Lineas(q)' = Lineas(q) /\ hechas'[q] = hechas[q]  BY <1>1 DEF Lineas
  <2>1. CASE q = p
    <3>1. Yendo(p)'  BY <1>1, <1>2, <1>4, <1>5, <2>0, <2>1 DEF Yendo
    <3>. QED  BY <1>1, <1>3, <1>4, <2>1, <3>1 DEF EnKernel
  <2>2. CASE q # p
    <3>1. lugar'[q] = lugar[q] /\ lugar'[q] # "cpu"  BY <1>3, <1>6, <2>2
    <3>. QED  BY <1>1, <1>2, <2>0, <3>1 DEF KernelInv, EnKernel
  <2>. QED  BY <2>1, <2>2
<1>8. KernelInv'  BY <1>3, <1>6, <1>7 DEF KernelInv
<1>9. ArranqueInv'  BY <1>1, <1>2, ArranqueIgual
<1>10. DatosInv'  BY <1>1, <1>2, <1>3 DEF DatosInv
<1>11. GuionInv'
  <2>1. \A q \in Procesos : lugar'[q] = "no" <=> lugar[q] = "no"  BY <1>1, <1>3
  <2>. QED  BY <1>1, <1>2, <2>1, GuionIgual
<1>12. CpuInv'
  <2>1. \A q \in Procesos : ~ EnEjecucion(q)  BY <1>2 DEF EnEjecucion
  <2>. QED  BY <1>1, <1>2, <2>1, CpuIgual
<1>13. DuenoInv'  BY <1>1, <1>2, DuenoIgual
<1>. QED  BY <1>8, <1>9, <1>10, <1>11, <1>12, <1>13 DEF CInv

LEMMA CInterrumpir ==
    ASSUME CInv, Interrumpir \/ AtencionInterrupt
    PROVE  CInv'
<1>1. /\ UNCHANGED <<pc, arranque, consolas, consola, mensaje, haciaCpu, desdeCpu, pcbs>>
      /\ UNCHANGED <<lugar, guion, hechas, leido, pcb, devolver_pcb, ram, tlb, idAnteriorPCB>>
      /\ interrupcion' \in {interrupcion, TRUE}
  BY DEF Interrumpir, AtencionInterrupt, varsMmu, kernel, historia, cpu, consolas
<1>2. /\ ArranqueInv /\ GuionInv /\ DatosInv /\ KernelInv /\ CpuInv /\ DuenoInv
  BY DEF CInv
<1>3. /\ pedidos \in 0 .. interrupciones /\ interrupciones \in 0 .. INTERRUPCIONES
      /\ INTERRUPCIONES \in Nat
  BY <1>2, InterrupcionesAssumption DEF DatosInv
<1>4. pedidos' \in 0 .. interrupciones' /\ interrupciones' \in 0 .. INTERRUPCIONES
  <2>1. CASE Interrumpir  BY <1>3, <2>1 DEF Interrumpir
  <2>2. CASE AtencionInterrupt  BY <1>3, <2>2 DEF AtencionInterrupt
  <2>. QED  BY <2>1, <2>2
<1>5. ArranqueInv'  BY <1>1, <1>2, ArranqueIgual
<1>6. DatosInv'  BY <1>1, <1>2, <1>4 DEF DatosInv
<1>7. GuionInv'  BY <1>1, <1>2, GuionIgual
<1>8. KernelInv'  BY <1>1, <1>2, KernelIgual
<1>9. CpuInv'  BY <1>1, <1>2, CpuIgual
<1>10. DuenoInv'  BY <1>1, <1>2, DuenoIgual
<1>. QED  BY <1>5, <1>6, <1>7, <1>8, <1>9, <1>10 DEF CInv

\* What comes back is the PCB of the process that is out, as the CPU left it.
LEMMA Vuelve ==
    ASSUME KernelInv, desdeCpu # <<>>
    PROVE  \E p \in Procesos : \E b :
              /\ recibirPCB(desdeCpu) = {b} /\ Resto(desdeCpu) = <<>>
              /\ lugar[p] = "cpu" /\ haciaCpu = <<>> /\ pc.cpu \notin Ocupado
              /\ Quieta(p, Lineas(p), hechas[p], b)
<1>1. Fuera  BY DEF KernelInv
<1>2. PICK p \in Procesos : lugar[p] = "cpu"  BY <1>1 DEF Fuera
<1>3. Volviendo(p)  BY <1>2 DEF KernelInv, EnKernel, Yendo, Alla
<1>4. PICK b \in recibirPCB(desdeCpu) :
         desdeCpu = pcb_serializar(b, 1) /\ Quieta(p, Lineas(p), hechas[p], b)
  BY <1>3 DEF Volviendo
<1>5. b \in PcbSano  BY <1>4, PcbBuenoEs DEF Quieta
<1>6. 1 \in Nat  OBVIOUS
<1>7. recibirPCB(desdeCpu) = {b} /\ Resto(desdeCpu) = <<>>
  BY <1>4, <1>5, <1>6, PcbIdaYVuelta
<1>. QED  BY <1>2, <1>3, <1>4, <1>7 DEF Volviendo

LEMMA CRecibirDelCpu ==
    ASSUME CInv, RecibirDelCpu
    PROVE  CInv'
<1>0. ArranqueInv /\ GuionInv /\ DatosInv /\ KernelInv /\ CpuInv /\ DuenoInv  BY DEF CInv
<1>1. PICK p \in Procesos : \E b :
              /\ recibirPCB(desdeCpu) = {b} /\ Resto(desdeCpu) = <<>>
              /\ lugar[p] = "cpu" /\ haciaCpu = <<>> /\ pc.cpu \notin Ocupado
              /\ Quieta(p, Lineas(p), hechas[p], b)
  BY <1>0, Vuelve DEF RecibirDelCpu
<1>2. PICK b :
              /\ recibirPCB(desdeCpu) = {b} /\ Resto(desdeCpu) = <<>>
              /\ lugar[p] = "cpu" /\ haciaCpu = <<>> /\ pc.cpu \notin Ocupado
              /\ Quieta(p, Lineas(p), hechas[p], b)
  BY <1>1
<1>3. b \in PcbBueno(p) /\ b.pid = p  BY <1>2, PcbBuenoEs DEF Quieta
<1> DEFINE l == CASE b.estado = FINALIZADO -> "finalizado"
                  [] b.estado \in {BLOQUEADO, INTERRUMPIDO} -> "ready"
                  [] OTHER -> "perdido"
<1>4. /\ pcbs' = [pcbs EXCEPT ![p] = b] /\ lugar' = [lugar EXCEPT ![p] = l]
      /\ desdeCpu' = <<>>
      /\ UNCHANGED <<pc, arranque, consolas, consola, mensaje, haciaCpu, pedidos>>
      /\ UNCHANGED <<interrupciones, guion, hechas, leido, pcb, devolver_pcb>>
      /\ UNCHANGED <<interrupcion, ram, tlb, idAnteriorPCB>>
  BY <1>2, <1>3 DEF RecibirDelCpu, varsMmu, historia, cpu, consolas
<1>5. /\ l \in {"finalizado", "ready", "perdido"}
      /\ l = "finalizado" => b.estado = FINALIZADO
      /\ l = "ready" => b.estado # FINALIZADO
  BY DEF FINALIZADO, BLOQUEADO, INTERRUMPIDO
<1>. HIDE DEF l
<1>6. /\ pcbs = [q \in Procesos |-> pcbs[q]]
      /\ lugar \in [Procesos -> {"no", "ready", "cpu", "finalizado", "perdido"}]
  BY <1>0 DEF DatosInv
<1>7. /\ pcbs' = [q \in Procesos |-> pcbs'[q]] /\ pcbs'[p] = b
      /\ \A q \in Procesos \ {p} : pcbs'[q] = pcbs[q]
  BY <1>4, <1>6
<1>8. /\ lugar' \in [Procesos -> {"no", "ready", "cpu", "finalizado", "perdido"}]
      /\ lugar'[p] = l /\ \A q \in Procesos \ {p} : lugar'[q] = lugar[q]
  BY <1>4, <1>5, <1>6
<1>9. \A q \in Procesos : lugar'[q] # "cpu"
  <2>1. \A q \in Procesos \ {p} : lugar[q] # "cpu"  BY <1>0, <1>2 DEF KernelInv
  <2>. QED  BY <1>5, <1>8, <2>1
<1>10. ASSUME NEW q \in Procesos PROVE EnKernel(q)'
  <2>0. Lineas(q)' = Lineas(q) /\ hechas'[q] = hechas[q]  BY <1>4 DEF Lineas
  <2>1. CASE q = p
    <3>1. pcbs'[q] = b /\ lugar'[q] = l /\ b \in PcbBueno(q)  BY <1>3, <1>7, <1>8, <2>1
    <3>2. Quieta(q, Lineas(q), hechas[q], b)  BY <1>2, <2>1
    <3>3. l = "ready" => Lista(q, Lineas(q), hechas[q], b)
      BY <1>5, <3>2 DEF Lista
    <3>4. l = "finalizado" => /\ hechas[q] <= Len(Lineas(q))
                              /\ Bien(Lineas(q), hechas[q]) =>
                                    /\ hechas[q] # 0
                                    /\ Lineas(q)[hechas[q]].nombre = "EXIT"
      BY <1>5, <3>2 DEF Quieta
    <3>. QED  BY <1>5, <2>0, <3>1, <3>3, <3>4 DEF EnKernel
  <2>2. CASE q # p
    <3>1. lugar'[q] = lugar[q] /\ lugar'[q] # "cpu" /\ pcbs'[q] = pcbs[q]
      BY <1>7, <1>8, <1>9, <2>2
    <3>. QED  BY <1>0, <2>0, <3>1 DEF KernelInv, EnKernel
  <2>. QED  BY <2>1, <2>2
<1>11. KernelInv'  BY <1>2, <1>4, <1>9, <1>10 DEF KernelInv
<1>12. ArranqueInv'  BY <1>0, <1>4, ArranqueIgual
<1>13. DatosInv'  BY <1>0, <1>4, <1>7, <1>8 DEF DatosInv
<1>14. GuionInv'
  <2>1. \A q \in Procesos : lugar'[q] = "no" <=> lugar[q] = "no"  BY <1>2, <1>5, <1>8
  <2>. QED  BY <1>0, <1>4, <2>1, GuionIgual
<1>15. CpuInv'
  <2>1. \A q \in Procesos : ~ EnEjecucion(q)  BY <1>2 DEF EnEjecucion
  <2>. QED  BY <1>0, <1>4, <2>1, CpuIgual
<1>16. DuenoInv'  BY <1>0, <1>4, DuenoIgual
<1>. QED  BY <1>11, <1>12, <1>13, <1>14, <1>15, <1>16 DEF CInv

\* reciboPCBdesdeKernel
LEMMA CRecibo ==
    ASSUME CInv, ReciboPCBdesdeKernel
    PROVE  CInv'
<1>0. ArranqueInv /\ GuionInv /\ DatosInv /\ KernelInv /\ CpuInv /\ DuenoInv  BY DEF CInv
<1>1. /\ pc.cpu = "select" /\ haciaCpu # <<>> /\ Ir("cpu", "fetch")
      /\ haciaCpu' = Resto(haciaCpu)
      /\ \E b \in recibirPCB(haciaCpu) : pcb' = b /\ PrepararTlb(b.pid)
      /\ UNCHANGED <<arranque, consolas, consola, pcbs, lugar, mensaje, desdeCpu, pedidos>>
      /\ UNCHANGED <<interrupciones, guion, hechas, leido, devolver_pcb, interrupcion, ram>>
  BY DEF ReciboPCBdesdeKernel, kernel, historia, consolas
<1>2. Fuera  BY <1>0, <1>1 DEF KernelInv
<1>3. PICK p \in Procesos : lugar[p] = "cpu"  BY <1>2 DEF Fuera
<1>4. Yendo(p)  BY <1>0, <1>1, <1>3 DEF KernelInv, EnKernel, Volviendo, Alla
<1>5. /\ haciaCpu = pcb_serializar(pcbs[p], 0) /\ desdeCpu = <<>>
      /\ Lista(p, Lineas(p), hechas[p], pcbs[p]) /\ pc.cpu \notin Ocupado
  BY <1>4 DEF Yendo
<1>6. pcbs[p] \in PcbBueno(p) /\ pcbs[p].pid = p  BY <1>5, PcbBuenoEs DEF Lista, Quieta
<1>7. recibirPCB(haciaCpu) = {pcbs[p]} /\ Resto(haciaCpu) = <<>>
  <2>1. pcbs[p] \in PcbSano  BY <1>6, PcbBuenoEs
  <2>2. 0 \in Nat  OBVIOUS
  <2>. QED  BY <1>5, <2>1, <2>2, PcbIdaYVuelta
<1>8. pcb' = pcbs[p] /\ PrepararTlb(p) /\ haciaCpu' = <<>>  BY <1>1, <1>6, <1>7
<1>9. "fetch" \in Ocupado /\ "select" \notin Ocupado \union {"reset"}  BY DEF Ocupado
<1>10. ArranqueInv' /\ pc'["cpu"] = "fetch"
  <2>1. /\ atendido' \subseteq {"cpu", "kernel"} /\ conexiones' \in Seq({"cpu", "kernel"})
        /\ {dispatch', interrupt'} \subseteq {"no", "pedido", "aceptado"}
        /\ consola' \in [Procesos -> {"no", "aceptada", "enviado", "fin"}]
        /\ UNCHANGED <<aceptadas, esperando>>
    BY <1>0, <1>1, TiposDeArranque DEF consolas, arranque
  <2>. QED  BY <1>0, <1>1, <1>9, <2>1, SoloPc
<1>11. DatosInv'  BY <1>0, <1>1 DEF DatosInv
<1>12. GuionInv'  BY <1>0, <1>1, GuionIgual
<1>13. KernelInv'
  <2>1. ASSUME NEW q \in Procesos PROVE EnKernel(q)'
    <3>0. Lineas(q)' = Lineas(q) /\ hechas'[q] = hechas[q]  BY <1>1 DEF Lineas
    <3>1. CASE q = p
      <4>1. Alla(q)'  BY <1>1, <1>5, <1>6, <1>8, <1>9, <1>10, <3>1 DEF Alla
      <4>. QED  BY <1>1, <1>3, <1>6, <3>1, <4>1 DEF EnKernel
    <3>2. CASE q # p
      <4>1. lugar[q] # "cpu"  BY <1>0, <1>3, <3>2 DEF KernelInv
      <4>. QED  BY <1>0, <1>1, <3>0, <4>1 DEF KernelInv, EnKernel
    <3>. QED  BY <3>1, <3>2
  <2>2. Fuera'  BY <1>1, <1>3 DEF Fuera
  <2>3. \A q, r \in Procesos : lugar'[q] = "cpu" /\ lugar'[r] = "cpu" => q = r
    BY <1>0, <1>1 DEF KernelInv
  <2>. QED  BY <2>1, <2>2, <2>3 DEF KernelInv
<1>14. CpuInv'
  <2>1. Lista(p, Lineas(p)', hechas'[p], pcb')  BY <1>1, <1>5, <1>8 DEF Lineas
  <2>2. EnCpu(p)'  BY <1>10, <2>1 DEF EnCpu
  <2>3. pcb'.pid = p /\ pcb' \in PcbBueno(p) /\ lugar'[p] = "cpu"  BY <1>1, <1>3, <1>6, <1>8
  <2>. QED  BY <1>9, <1>10, <2>2, <2>3 DEF CpuInv
<1>15. DuenoInv'
  <2>1. /\ idAnteriorPCB \in Procesos \union {-1} /\ idAnteriorPCB' = idAnteriorPCB
        /\ IF idAnteriorPCB = -1 THEN tlb = {} ELSE DeProceso(tlb, idAnteriorPCB)
    BY <1>0, <1>1, <1>8, <1>9 DEF DuenoInv, PrepararTlb
  <2>2. CASE idAnteriorPCB # -1 /\ p # idAnteriorPCB
    <3>1. tlb' = {}  BY <1>8, <2>2 DEF PrepararTlb
    <3>. QED  BY <1>6, <1>8, <1>9, <1>10, <2>1, <3>1 DEF DuenoInv, DeProceso
  <2>3. CASE ~ (idAnteriorPCB # -1 /\ p # idAnteriorPCB)
    <3>1. tlb' = tlb  BY <1>8, <2>3 DEF PrepararTlb
    <3>2. DeProceso(tlb, p)  BY <2>1, <2>3 DEF DeProceso
    <3>. QED  BY <1>6, <1>8, <1>9, <1>10, <2>1, <3>1, <3>2 DEF DuenoInv, DeProceso
  <2>. QED  BY <2>2, <2>3
<1>. QED  BY <1>10, <1>11, <1>12, <1>13, <1>14, <1>15 DEF CInv

\* A step between two stages of the cycle.
LEMMA EnElCiclo ==
    ASSUME CInv, pc.cpu \in Ocupado, NEW p, p = pcb.pid, NEW d, d \in Ocupado, Ir("cpu", d),
           UNCHANGED <<arranque, consolas, kernel, sockets, guion, idAnteriorPCB>>,
           \A q \in Procesos \ {p} : hechas'[q] = hechas[q],
           pcb' \in PcbBueno(p), DatosInv', DeProceso(tlb', p),
           pc'.cpu = d => EnCpu(p)'
    PROVE  CInv'
<1>0. ArranqueInv /\ GuionInv /\ KernelInv /\ CpuInv /\ DuenoInv  BY DEF CInv
<1>1. UNCHANGED <<consola, pcbs, lugar, mensaje, haciaCpu, desdeCpu>>
  BY DEF kernel, sockets, consolas
<1>2. p \in Procesos /\ lugar[p] = "cpu"  BY <1>0, EjecutaUno
<1>3. pcb'.pid = p  BY <1>2, PcbBuenoEs
<1>4. ArranqueInv' /\ pc'["cpu"] = d
  <2>1. /\ atendido' \subseteq {"cpu", "kernel"} /\ conexiones' \in Seq({"cpu", "kernel"})
        /\ {dispatch', interrupt'} \subseteq {"no", "pedido", "aceptado"}
        /\ consola' \in [Procesos -> {"no", "aceptada", "enviado", "fin"}]
        /\ UNCHANGED <<aceptadas, esperando>>
    BY <1>0, <1>1, TiposDeArranque DEF consolas, arranque
  <2>. QED  BY <1>0, <2>1, SoloPc
<1>5. GuionInv'  BY <1>0, <1>1, GuionIgual
<1>6. KernelInv'
  <2>1. \A q \in Procesos : ~ EnEjecucion(q) => hechas'[q] = hechas[q]
    BY DEF EnEjecucion
  <2>. QED  BY <1>0, <1>1, <1>3, <1>4, <2>1, KernelIgual
<1>7. CpuInv'  BY <1>1, <1>2, <1>3, <1>4 DEF CpuInv
<1>8. DuenoInv'  BY <1>0, <1>3, <1>4 DEF DuenoInv
<1>. QED  BY <1>4, <1>5, <1>6, <1>7, <1>8 DEF CInv

\* The process in the CPU, its script and its memory.
LEMMA EnCiclo ==
    ASSUME CInv, pc.cpu \in Ocupado, NEW p, p = pcb.pid
    PROVE  /\ p \in Procesos /\ pcb \in PcbBueno(p) /\ EnCpu(p) /\ DeProceso(tlb, p)
           /\ Lineas(p) \in Seq(Renglon) /\ hechas[p] \in Nat /\ DatosInv
           /\ Mem(p) \in [Direccion -> Nat]
           /\ \A e \in Direccion : Fisica(e) = Dir(p, e) /\ Fisica(e) \in Memoria
<1>0. GuionInv /\ DatosInv /\ KernelInv /\ CpuInv /\ DuenoInv  BY DEF CInv
<1>1. p \in Procesos /\ pcb \in PcbBueno(p) /\ EnCpu(p)  BY <1>0, EjecutaUno
<1>2. DeProceso(tlb, p)  BY <1>0 DEF DuenoInv
<1>3. Lineas(p) \in Seq(Renglon)
  <2>1. guion[p] \in Seq(Renglon)  BY <1>0, <1>1 DEF GuionInv
  <2>. QED  BY <2>1, Traducidas DEF Lineas
<1>4. hechas[p] \in Nat  BY <1>0, <1>1 DEF DatosInv
<1>5. ASSUME NEW e \in Direccion
      PROVE  Fisica(e) = Dir(p, e) /\ Fisica(e) \in Memoria /\ ram[Dir(p, e)] \in Nat
  <2>1. Fisica(e) = Dir(p, e)  BY <1>2, MarcoDelProceso DEF Fisica, Dir
  <2>2. Dir(p, e) \in Memoria  BY <1>1, DirEnMemoria
  <2>3. ram \in [Memoria -> Nat]  BY <1>0 DEF DatosInv
  <2>. QED  BY <2>1, <2>2, <2>3
<1>6. Mem(p) \in [Direccion -> Nat]  BY <1>5 DEF Mem
<1>. QED  BY <1>0, <1>1, <1>2, <1>3, <1>4, <1>5, <1>6

\* The TLB goes on having pages of the process.
LEMMA TlbDelProceso ==
    ASSUME TlbInv, NEW p, DeProceso(tlb, p),
           tlb' = tlb \/ \E n \in Pagina : Get_marco(p, n)
    PROVE  DeProceso(tlb', p)
<1>1. CASE tlb' = tlb  BY <1>1
<1>2. ASSUME NEW n \in Pagina, Acierta(n) PROVE DeProceso(tlb', p)
  <2>1. PICK e \in tlb : /\ e.numero_pagina = n
                         /\ tlb' = (tlb \ {e}) \union
                                     {[e EXCEPT !.ultima_referencia = reloj]}
    BY <1>2 DEF Acierta, Coincide, Referenciada
  <2> DEFINE r == [e EXCEPT !.ultima_referencia = reloj]
  <2>2. r.marco = e.marco /\ r.numero_pagina = e.numero_pagina
    BY DEF TlbInv, EntradaTlb
  <2>3. tlb' = (tlb \ {e}) \union {r}  BY <2>1
  <2>. HIDE DEF r
  <2>. QED  BY <2>2, <2>3 DEF DeProceso
<1>3. ASSUME NEW n \in Pagina, Falla(p, n) PROVE DeProceso(tlb', p)
  <2> DEFINE r == NuevaEntrada(n, get_marco_memoria(p, n), reloj)
  <2>1. \E S : S \subseteq tlb /\ tlb' = S \union {r}  BY <1>3 DEF Falla, Cargada
  <2>2. r.marco = get_marco_memoria(p, n) /\ r.numero_pagina = n  BY DEF NuevaEntrada
  <2>. HIDE DEF r
  <2>. QED  BY <2>1, <2>2 DEF DeProceso
<1>. QED  BY <1>1, <1>2, <1>3 DEF Get_marco

\* fetch
LEMMA CFetch ==
    ASSUME CInv, TlbInv, Fetch
    PROVE  CInv'
<1>1. pc.cpu \in Ocupado /\ pc.cpu = "fetch"  BY DEF Fetch, Ocupado
<1>2. PICK p : p = pcb.pid  OBVIOUS
<1>3. /\ p \in Procesos /\ pcb \in PcbBueno(p) /\ EnCpu(p) /\ DeProceso(tlb, p)
      /\ Lineas(p) \in Seq(Renglon) /\ hechas[p] \in Nat /\ DatosInv
  BY <1>1, <1>2, EnCiclo
<1>4. /\ UNCHANGED <<arranque, consolas, kernel, sockets, guion, idAnteriorPCB, hechas>>
      /\ UNCHANGED <<tlb, interrupciones, leido, devolver_pcb, interrupcion, ram, pedidos>>
      /\ UNCHANGED <<mensaje, pcbs, lugar>>
  BY DEF Fetch, enCiclo, varsMmu, sockets, kernel
<1>5. DatosInv'  BY <1>3, <1>4 DEF DatosInv
<1>6. Lineas(p)' = Lineas(p) /\ hechas'[p] = hechas[p] /\ Mem(p)' = Mem(p)
  BY <1>4 DEF Lineas, Mem
<1>7. Lista(p, Lineas(p), hechas[p], pcb)  BY <1>1, <1>3 DEF EnCpu
<1>8. CASE pcb.program_counter < Len(pcb.instrucciones)
  <2>1. pcb' = [pcb EXCEPT !.program_counter = @ + 1]  BY <1>8 DEF Fetch
  <2> DEFINE d == IF pcb.instrucciones[pcb'.program_counter].id = COPY
                  THEN "operandos" ELSE "execute"
  <2>2. Ir("cpu", d)  BY <1>8 DEF Fetch
  <2>3. pcb'.instrucciones = pcb.instrucciones  BY <2>1, <1>3 DEF PcbBueno
  <2>4. /\ Buscada(p, Lineas(p), hechas[p], pcb')
        /\ pcb'.instrucciones[pcb'.program_counter].id = COPY
              => SinOperando(p, Lineas(p), hechas[p], pcb')
        /\ \A m : pcb'.instrucciones[pcb'.program_counter].id # COPY
              => ConOperando(p, Lineas(p), hechas[p], pcb', m)
    BY <1>3, <1>7, <1>8, <2>1, PcbBuscada
  <2>5. /\ d \in {"operandos", "execute"}
        /\ d = "operandos" => SinOperando(p, Lineas(p), hechas[p], pcb')
        /\ d = "execute" => ConOperando(p, Lineas(p), hechas[p], pcb', Mem(p))
    BY <2>3, <2>4
  <2>. HIDE DEF d
  <2>6. d \in Ocupado  BY <2>5 DEF Ocupado
  <2>7. pc'.cpu = d => EnCpu(p)'  BY <1>6, <2>5 DEF EnCpu
  <2>8. pcb' \in PcbBueno(p)  BY <2>4 DEF Buscada
  <2>. QED  BY <1>1, <1>2, <1>3, <1>4, <1>5, <2>2, <2>6, <2>7, <2>8, EnElCiclo
<1>9. CASE ~ pcb.program_counter < Len(pcb.instrucciones)
  <2>1. Ir("cpu", "caida") /\ pcb' = pcb  BY <1>9 DEF Fetch
  <2>2. "caida" \in Ocupado  BY DEF Ocupado
  <2>3. pc'.cpu = "caida" => EnCpu(p)'  BY DEF EnCpu
  <2>. QED  BY <1>1, <1>2, <1>3, <1>4, <1>5, <2>1, <2>2, <2>3, EnElCiclo
<1>. QED  BY <1>8, <1>9

\* fetch_operands
LEMMA CFetchOperands ==
    ASSUME CInv, TlbInv, FetchOperands
    PROVE  CInv'
<1>1. pc.cpu \in Ocupado /\ pc.cpu = "operandos"  BY DEF FetchOperands, Ocupado
<1>2. PICK p : p = pcb.pid  OBVIOUS
<1>3. /\ p \in Procesos /\ pcb \in PcbBueno(p) /\ EnCpu(p) /\ DeProceso(tlb, p)
      /\ Lineas(p) \in Seq(Renglon) /\ hechas[p] \in Nat /\ DatosInv
      /\ Mem(p) \in [Direccion -> Nat]
      /\ \A e \in Direccion : Fisica(e) = Dir(p, e) /\ Fisica(e) \in Memoria
  BY <1>1, <1>2, EnCiclo
<1>4. /\ UNCHANGED <<arranque, consolas, kernel, sockets, guion, idAnteriorPCB, hechas>>
      /\ UNCHANGED <<interrupciones, leido, devolver_pcb, interrupcion, ram, pedidos>>
      /\ UNCHANGED <<mensaje, pcbs, lugar>>
  BY DEF FetchOperands, enCiclo, sockets, kernel, Traducir, Get_marco
<1>5. DatosInv'  BY <1>3, <1>4 DEF DatosInv
<1>6. Lineas(p)' = Lineas(p) /\ hechas'[p] = hechas[p] /\ Mem(p)' = Mem(p)
  BY <1>4 DEF Lineas, Mem
<1>7. SinOperando(p, Lineas(p), hechas[p], pcb)  BY <1>1, <1>3 DEF EnCpu
<1>8. PICK d : d = Parametro(2)  OBVIOUS
<1>9. pcb.program_counter = hechas[p] + 1  BY <1>7 DEF SinOperando, Buscada
<1>10. d = pcb.instrucciones[hechas[p] + 1].parametros[2] /\ d \in Direccion
  BY <1>8, <1>9 DEF FetchOperands, Traducir, Parametro, Instruccion
<1>11. Mem(p)[d] = ram[Fisica(d)] /\ Mem(p)[d] \in Nat  BY <1>3, <1>10 DEF Mem
<1>12. pcb' = [pcb EXCEPT !.instrucciones[hechas[p] + 1].parametros[2] = Mem(p)[d]]
  BY <1>8, <1>9, <1>11 DEF FetchOperands
<1>13. ConOperando(p, Lineas(p), hechas[p], pcb', Mem(p))
  BY <1>3, <1>7, <1>10, <1>11, <1>12, PcbConOperando
<1>14. pcb' \in PcbBueno(p)  BY <1>13 DEF ConOperando, Buscada
<1>15. pc'.cpu = "execute" => EnCpu(p)'  BY <1>6, <1>13 DEF EnCpu
<1>16. DeProceso(tlb', p)
  <2>1. \E n \in Pagina : Get_marco(p, n)
    BY <1>2, PaginaDeDireccion DEF FetchOperands, Traducir
  <2>. QED  BY <1>3, <2>1, TlbDelProceso
<1>17. "execute" \in Ocupado /\ Ir("cpu", "execute")  BY DEF Ocupado, FetchOperands
<1>. QED
  BY <1>1, <1>2, <1>3, <1>4, <1>5, <1>14, <1>15, <1>16, <1>17, EnElCiclo

LEMMA CAccesoFuera ==
    ASSUME CInv, AccesoFuera
    PROVE  CInv'
<1>1. pc.cpu \in Ocupado  BY DEF AccesoFuera, Ocupado
<1>2. PICK p : p = pcb.pid  OBVIOUS
<1>3. /\ p \in Procesos /\ pcb \in PcbBueno(p) /\ EnCpu(p) /\ DeProceso(tlb, p) /\ DatosInv
  BY <1>1, <1>2, EnCiclo
<1>4. /\ UNCHANGED <<arranque, consolas, kernel, sockets, guion, idAnteriorPCB, hechas>>
      /\ UNCHANGED <<tlb, interrupciones, leido, devolver_pcb, interrupcion, ram, pedidos>>
      /\ UNCHANGED <<mensaje, pcbs, lugar, pcb>>
  BY DEF AccesoFuera, enCiclo, varsMmu, sockets, kernel, cpu
<1>5. DatosInv'  BY <1>3, <1>4 DEF DatosInv
<1>6. Ir("cpu", "caida") /\ "caida" \in Ocupado  BY DEF Ocupado, AccesoFuera
<1>7. pc'.cpu = "caida" => EnCpu(p)'  BY DEF EnCpu
<1>. QED  BY <1>1, <1>2, <1>3, <1>4, <1>5, <1>6, <1>7, EnElCiclo

\* execute, whatever the instruction does besides.
LEMMA CExecute ==
    ASSUME CInv, NEW ids, NEW devolver \in BOOLEAN, Execute(ids, devolver),
           NEW p, p = pcb.pid, UNCHANGED idAnteriorPCB, DeProceso(tlb', p),
           pcb' \in PcbBueno(p), pcb'.instrucciones = pcb.instrucciones,
           pcb'.program_counter = pcb.program_counter,
           pcb'.estado = FINALIZADO <=> Instruccion.id = EXIT,
           pcb'.estado = FINALIZADO => devolver,
           ram' \in [Memoria -> Nat], leido' = [q \in Procesos |-> leido'[q]]
    PROVE  CInv'
<1>1. pc.cpu \in Ocupado /\ pc.cpu = "execute"  BY DEF Execute, Ocupado
<1>3. /\ p \in Procesos /\ EnCpu(p) /\ hechas[p] \in Nat /\ DatosInv
      /\ Lineas(p) \in Seq(Renglon)
  BY <1>1, EnCiclo
<1>4. /\ UNCHANGED <<arranque, consolas, kernel, sockets, guion>>
      /\ UNCHANGED <<interrupciones, interrupcion, pedidos, mensaje, pcbs, lugar>>
      /\ hechas' = [hechas EXCEPT ![p] = @ + 1] /\ devolver_pcb' = devolver
      /\ Ir("cpu", "check")
  BY DEF Execute, enCiclo, sockets, kernel
<1>5. /\ hechas' \in [Procesos -> Nat] /\ hechas'[p] = hechas[p] + 1
      /\ \A q \in Procesos \ {p} : hechas'[q] = hechas[q]
  BY <1>3, <1>4 DEF DatosInv
<1>6. DatosInv'  BY <1>3, <1>4, <1>5 DEF DatosInv
<1>7. ConOperando(p, Lineas(p), hechas[p], pcb, Mem(p))  BY <1>1, <1>3 DEF EnCpu
<1>8. pcb.program_counter = hechas[p] + 1  BY <1>7 DEF ConOperando, Buscada
<1>9. pcb'.estado = FINALIZADO <=> pcb.instrucciones[hechas[p] + 1].id = EXIT
  BY <1>8 DEF Instruccion
<1>10. Quieta(p, Lineas(p), hechas[p] + 1, pcb')  BY <1>3, <1>7, <1>9, PcbEjecutada
<1>11. Lineas(p)' = Lineas(p)  BY <1>4 DEF Lineas
<1>12. pc'.cpu = "check" => EnCpu(p)'  BY <1>4, <1>5, <1>10, <1>11 DEF EnCpu
<1>13. "check" \in Ocupado  BY DEF Ocupado
<1>. QED  BY <1>1, <1>4, <1>5, <1>6, <1>12, <1>13, EnElCiclo

\* The instruction to execute: its PCB, and its place in the script.
LEMMA EnExecute ==
    ASSUME CInv, pc.cpu = "execute", NEW p, p = pcb.pid
    PROVE  /\ p \in Procesos /\ pcb \in PcbBueno(p) /\ DeProceso(tlb, p) /\ DatosInv
           /\ ConOperando(p, Lineas(p), hechas[p], pcb, Mem(p))
           /\ Instruccion = pcb.instrucciones[hechas[p] + 1] /\ Instruccion \in Leida
           /\ pcb.estado # FINALIZADO
<1>1. pc.cpu \in Ocupado  BY DEF Ocupado
<1>2. /\ p \in Procesos /\ pcb \in PcbBueno(p) /\ EnCpu(p) /\ DeProceso(tlb, p)
      /\ DatosInv /\ Lineas(p) \in Seq(Renglon) /\ hechas[p] \in Nat
  BY <1>1, EnCiclo
<1>3. ConOperando(p, Lineas(p), hechas[p], pcb, Mem(p))  BY <1>2 DEF EnCpu
<1>4. /\ pcb.program_counter = hechas[p] + 1 /\ hechas[p] + 1 <= Len(Lineas(p))
      /\ Len(pcb.instrucciones) = Len(Lineas(p)) /\ pcb.estado # FINALIZADO
  BY <1>3 DEF ConOperando, Buscada
<1>5. Instruccion = pcb.instrucciones[hechas[p] + 1]  BY <1>4 DEF Instruccion
<1>6. hechas[p] + 1 \in 1 .. Len(pcb.instrucciones)  BY <1>2, <1>4
<1>7. Instruccion \in Leida  BY <1>2, <1>5, <1>6, PcbBuenoEs
<1>. QED  BY <1>2, <1>3, <1>4, <1>5, <1>7

\* The instructions that leave PCB, memory and TLB alone, or not the estado.
LEMMA CExecuteSimple ==
    ASSUME CInv, ExecuteNoOp \/ ExecuteOtra
    PROVE  CInv'
<1>1. pc.cpu = "execute"  BY DEF ExecuteNoOp, ExecuteOtra, Execute
<1>2. PICK p : p = pcb.pid  OBVIOUS
<1>3. /\ p \in Procesos /\ pcb \in PcbBueno(p) /\ DeProceso(tlb, p) /\ DatosInv
      /\ pcb.estado # FINALIZADO
  BY <1>1, <1>2, EnExecute
<1>4. UNCHANGED <<idAnteriorPCB, tlb, pcb, ram, leido>>
  BY DEF ExecuteNoOp, ExecuteOtra, varsMmu
<1>5. Instruccion.id # EXIT
  BY DEF ExecuteNoOp, ExecuteOtra, Execute, NO_OP, EXIT
<1>6. \E ids : \E devolver \in BOOLEAN : Execute(ids, devolver)
  BY DEF ExecuteNoOp, ExecuteOtra
<1>7. PICK ids : \E devolver \in BOOLEAN : Execute(ids, devolver)  BY <1>6
<1>8. PICK devolver \in BOOLEAN : Execute(ids, devolver)  BY <1>7
<1>9. /\ DeProceso(tlb', p) /\ pcb' \in PcbBueno(p)
      /\ pcb'.instrucciones = pcb.instrucciones
      /\ pcb'.program_counter = pcb.program_counter
      /\ (pcb'.estado = FINALIZADO <=> Instruccion.id = EXIT)
      /\ (pcb'.estado = FINALIZADO => devolver)
      /\ ram' \in [Memoria -> Nat] /\ leido' = [q \in Procesos |-> leido'[q]]
  BY <1>3, <1>4, <1>5 DEF DatosInv
<1>. QED  BY <1>2, <1>4, <1>8, <1>9, CExecute

LEMMA CExecuteEstado ==
    ASSUME CInv, ExecuteIO \/ ExecuteExit
    PROVE  CInv'
<1>1. pc.cpu = "execute"  BY DEF ExecuteIO, ExecuteExit, Execute
<1>2. PICK p : p = pcb.pid  OBVIOUS
<1>3. /\ p \in Procesos /\ pcb \in PcbBueno(p) /\ DeProceso(tlb, p) /\ DatosInv
      /\ Instruccion \in Leida
  BY <1>1, <1>2, EnExecute
<1>4. UNCHANGED <<idAnteriorPCB, tlb, ram, leido>>
  BY DEF ExecuteIO, ExecuteExit, varsMmu
<1>5. ASSUME NEW e \in INICIADO .. INTERRUMPIDO, NEW t \in Nat, NEW ids,
             Execute(ids, TRUE), pcb' = [pcb EXCEPT !.estado = e, !.tiempo_block = t],
             e = FINALIZADO <=> Instruccion.id = EXIT
      PROVE  CInv'
  <2>1. /\ pcb' \in PcbBueno(p) /\ pcb'.estado = e
        /\ pcb'.instrucciones = pcb.instrucciones
        /\ pcb'.program_counter = pcb.program_counter
    BY <1>3, <1>5 DEF PcbBueno
  <2>2. /\ DeProceso(tlb', p) /\ (pcb'.estado = FINALIZADO <=> Instruccion.id = EXIT)
        /\ ram' \in [Memoria -> Nat] /\ leido' = [q \in Procesos |-> leido'[q]]
    BY <1>3, <1>4, <1>5, <2>1 DEF DatosInv
  <2>3. TRUE \in BOOLEAN  OBVIOUS
  <2>. QED  BY <1>2, <1>4, <1>5, <2>1, <2>2, <2>3, CExecute
<1>6. CASE ExecuteIO
  <2>1. /\ Execute({I_O}, TRUE) /\ Instruccion.id = I_O
        /\ pcb' = [pcb EXCEPT !.estado = BLOQUEADO, !.tiempo_block = Parametro(1)]
    BY <1>6 DEF ExecuteIO, Execute
  <2>2. Parametro(1) \in Nat  BY <1>3, <2>1, LeidaTipo DEF Parametro
  <2>3. BLOQUEADO \in INICIADO .. INTERRUMPIDO /\ BLOQUEADO # FINALIZADO /\ I_O # EXIT
    BY DEF BLOQUEADO, INICIADO, INTERRUMPIDO, FINALIZADO, I_O, EXIT
  <2>. QED  BY <1>5, <2>1, <2>2, <2>3
<1>7. CASE ExecuteExit
  <2>1. /\ Execute({EXIT}, TRUE) /\ Instruccion.id = EXIT
        /\ pcb' = [pcb EXCEPT !.estado = FINALIZADO]
    BY <1>7 DEF ExecuteExit, Execute
  <2>2. PICK t \in Nat : t = pcb.tiempo_block  BY <1>3 DEF PcbBueno
  <2>3. pcb' = [pcb EXCEPT !.estado = FINALIZADO, !.tiempo_block = t]
    BY <1>3, <2>1, <2>2 DEF PcbBueno
  <2>4. FINALIZADO \in INICIADO .. INTERRUMPIDO
    BY DEF INICIADO, INTERRUMPIDO, FINALIZADO
  <2>. QED  BY <1>5, <2>1, <2>2, <2>3, <2>4
<1>. QED  BY <1>6, <1>7

\* WRITE, COPY and READ, on a word of the process.
LEMMA CExecuteMemoria ==
    ASSUME CInv, TlbInv, Escribir \/ Leer
    PROVE  CInv'
<1>1. pc.cpu = "execute" /\ pc.cpu \in Ocupado  BY DEF Escribir, Leer, Execute, Ocupado
<1>2. PICK p : p = pcb.pid  OBVIOUS
<1>3. /\ p \in Procesos /\ pcb \in PcbBueno(p) /\ DeProceso(tlb, p) /\ DatosInv
      /\ Instruccion \in Leida /\ pcb.estado # FINALIZADO
  BY <1>1, <1>2, EnExecute
<1>4. \A e \in Direccion : Fisica(e) \in Memoria  BY <1>1, <1>2, EnCiclo
<1>5. /\ UNCHANGED <<idAnteriorPCB, pcb>>
      /\ Parametro(1) \in Direccion /\ Get_marco(p, NumeroPagina(Parametro(1)))
  BY <1>2 DEF Escribir, Leer, Traducir, Get_marco
<1>6. DeProceso(tlb', p)
  <2>1. \E n \in Pagina : Get_marco(p, n)  BY <1>5, PaginaDeDireccion
  <2>. QED  BY <1>3, <2>1, TlbDelProceso
<1>7. Instruccion.id \in {WRITE, COPY, READ} /\ Instruccion.id # EXIT
  <2>1. Instruccion.id \in {WRITE, COPY, READ}  BY DEF Escribir, Leer, Execute
  <2>. QED  BY <2>1 DEF WRITE, COPY, READ, EXIT
<1>8. ram' \in [Memoria -> Nat]
  <2>0. ram \in [Memoria -> Nat]  BY <1>3 DEF DatosInv
  <2>1. CASE Escribir
    <3>1. Instruccion.id \in {WRITE, COPY}  BY <2>1 DEF Escribir, Execute
    <3>2. Parametro(2) \in Nat  BY <1>3, <3>1, LeidaTipo DEF Parametro
    <3>3. ram' = [ram EXCEPT ![Fisica(Parametro(1))] = Parametro(2)]
      BY <2>1 DEF Escribir
    <3>. QED  BY <2>0, <3>2, <3>3
  <2>2. CASE Leer  BY <2>0, <2>2 DEF Leer
  <2>. QED  BY <2>1, <2>2
<1>9. leido' = [q \in Procesos |-> leido'[q]]
  <2>0. leido = [q \in Procesos |-> leido[q]]  BY <1>3 DEF DatosInv
  <2>1. CASE Escribir  BY <2>0, <2>1 DEF Escribir
  <2>2. CASE Leer
    <3>1. leido' = [leido EXCEPT ![p] = ram[Fisica(Parametro(1))]]
      BY <1>2, <2>2 DEF Leer
    <3>. QED  BY <2>0, <3>1
  <2>. QED  BY <2>1, <2>2
<1>10. PICK ids : Execute(ids, FALSE)  BY DEF Escribir, Leer
<1>11. /\ pcb' \in PcbBueno(p) /\ pcb'.instrucciones = pcb.instrucciones
       /\ pcb'.program_counter = pcb.program_counter
       /\ (pcb'.estado = FINALIZADO <=> Instruccion.id = EXIT)
       /\ (pcb'.estado = FINALIZADO => FALSE) /\ FALSE \in BOOLEAN
  BY <1>3, <1>5, <1>7
<1>. QED  BY <1>2, <1>5, <1>6, <1>8, <1>9, <1>10, <1>11, CExecute

\* check interrupt
LEMMA CCheckInterrupt ==
    ASSUME CInv, CheckInterrupt
    PROVE  CInv'
<1>1. pc.cpu \in Ocupado /\ pc.cpu = "check"  BY DEF CheckInterrupt, Ocupado
<1>2. PICK p : p = pcb.pid  OBVIOUS
<1>3. /\ p \in Procesos /\ pcb \in PcbBueno(p) /\ EnCpu(p) /\ DeProceso(tlb, p) /\ DatosInv
  BY <1>1, <1>2, EnCiclo
<1>4. /\ UNCHANGED <<arranque, consolas, kernel, sockets, guion, idAnteriorPCB, hechas>>
      /\ UNCHANGED <<tlb, interrupciones, leido, interrupcion, ram, pedidos>>
      /\ UNCHANGED <<mensaje, pcbs, lugar>>
  BY DEF CheckInterrupt, enCiclo, varsMmu, sockets, kernel
<1>5. devolver_pcb' = (devolver_pcb \/ interrupcion) /\ devolver_pcb' \in BOOLEAN
  BY DEF CheckInterrupt
<1>6. DatosInv'  BY <1>3, <1>4, <1>5 DEF DatosInv
<1>7. Lineas(p)' = Lineas(p) /\ hechas'[p] = hechas[p]  BY <1>4 DEF Lineas
<1>8. /\ Quieta(p, Lineas(p), hechas[p], pcb)
      /\ pcb.estado = FINALIZADO => devolver_pcb
  BY <1>1, <1>3 DEF EnCpu
<1>9. /\ Quieta(p, Lineas(p), hechas[p], pcb') /\ pcb' \in PcbBueno(p)
      /\ ~ devolver_pcb' => Lista(p, Lineas(p), hechas[p], pcb')
  <2>1. CASE ~ devolver_pcb /\ interrupcion
    <3>1. pcb' = [pcb EXCEPT !.estado = INTERRUMPIDO]  BY <2>1 DEF CheckInterrupt
    <3>2. Lista(p, Lineas(p), hechas[p], pcb)  BY <1>8, <2>1 DEF Lista
    <3>3. Lista(p, Lineas(p), hechas[p], pcb')  BY <1>3, <3>1, <3>2, PcbInterrumpido
    <3>. QED  BY <3>3 DEF Lista, Quieta
  <2>2. CASE ~ (~ devolver_pcb /\ interrupcion)
    <3>1. pcb' = pcb  BY <2>2 DEF CheckInterrupt
    <3>2. ~ devolver_pcb' => ~ devolver_pcb  BY <1>5
    <3>. QED  BY <1>3, <1>8, <3>1, <3>2 DEF Lista
  <2>. QED  BY <2>1, <2>2
<1> DEFINE d == IF devolver_pcb' THEN "send" ELSE "fetch"
<1>10. Ir("cpu", d)  BY DEF CheckInterrupt
<1>11. d \in {"send", "fetch"} /\ (d = "fetch" => ~ devolver_pcb')  OBVIOUS
<1>. HIDE DEF d
<1>12. d \in Ocupado  BY <1>11 DEF Ocupado
<1>13. pc'.cpu = d => EnCpu(p)'  BY <1>7, <1>9, <1>11 DEF EnCpu
<1>. QED  BY <1>1, <1>2, <1>3, <1>4, <1>6, <1>9, <1>10, <1>12, <1>13, EnElCiclo

\* procesarPCB: the PCB is on its way back alone.
LEMMA CDevolver ==
    ASSUME CInv, Devolver
    PROVE  CInv'
<1>0. ArranqueInv /\ GuionInv /\ DatosInv /\ KernelInv /\ CpuInv /\ DuenoInv  BY DEF CInv
<1>1. pc.cpu \in Ocupado /\ pc.cpu = "send"  BY DEF Devolver, Ocupado
<1>2. PICK p : p = pcb.pid  OBVIOUS
<1>3. /\ p \in Procesos /\ pcb \in PcbBueno(p) /\ lugar[p] = "cpu" /\ Alla(p) /\ EnCpu(p)
      /\ Fuera /\ DeProceso(tlb, p)
  BY <1>0, <1>1, <1>2, EjecutaUno DEF DuenoInv
<1>4. /\ desdeCpu' = desdeCpu \o pcb_serializar(pcb, 1) /\ Ir("cpu", "reset")
      /\ UNCHANGED <<arranque, consolas, consola, pcbs, lugar, mensaje, haciaCpu, pedidos>>
      /\ UNCHANGED <<interrupciones, guion, hechas, leido, pcb, devolver_pcb>>
      /\ UNCHANGED <<interrupcion, ram, tlb, idAnteriorPCB>>
  BY DEF Devolver, varsMmu, kernel, historia, cpu, consolas
<1>5. Quieta(p, Lineas(p), hechas[p], pcb)  BY <1>1, <1>3 DEF EnCpu
<1>6. haciaCpu = <<>> /\ desdeCpu = <<>>  BY <1>3 DEF Alla
<1>7. pcb \in PcbSano /\ pcb.pid = p  BY <1>3, PcbBuenoEs
<1>8. desdeCpu' = pcb_serializar(pcb, 1) /\ recibirPCB(desdeCpu') = {pcb}
  <2> DEFINE s == pcb_serializar(pcb, 1)
  <2>1. 1 \in Nat  OBVIOUS
  <2>2. s \in Seq(Nat) /\ recibirPCB(s) = {pcb}  BY <1>7, <2>1, PcbIdaYVuelta
  <2>3. desdeCpu' = <<>> \o s  BY <1>4, <1>6
  <2>. HIDE DEF s
  <2>4. <<>> \o s = s  BY <2>2, ConcatEmptySeq
  <2>. QED  BY <2>2, <2>3, <2>4 DEF s
<1>9. "reset" \notin Ocupado  BY DEF Ocupado
<1>10. ArranqueInv' /\ pc'["cpu"] = "reset"
  <2>1. /\ atendido' \subseteq {"cpu", "kernel"} /\ conexiones' \in Seq({"cpu", "kernel"})
        /\ {dispatch', interrupt'} \subseteq {"no", "pedido", "aceptado"}
        /\ consola' \in [Procesos -> {"no", "aceptada", "enviado", "fin"}]
        /\ UNCHANGED <<aceptadas, esperando>>
    BY <1>0, <1>4, TiposDeArranque DEF consolas, arranque
  <2>. QED  BY <1>0, <1>4, <2>1, SoloPc
<1>11. DatosInv'  BY <1>0, <1>4 DEF DatosInv
<1>12. GuionInv'  BY <1>0, <1>4, GuionIgual
<1>13. KernelInv'
  <2>1. ASSUME NEW q \in Procesos PROVE EnKernel(q)'
    <3>0. Lineas(q)' = Lineas(q) /\ hechas'[q] = hechas[q]  BY <1>4 DEF Lineas
    <3>1. CASE q = p
      <4>1. Quieta(q, Lineas(q)', hechas'[q], pcb)  BY <1>5, <3>0, <3>1
      <4>2. Volviendo(q)'  BY <1>4, <1>6, <1>8, <1>9, <1>10, <4>1 DEF Volviendo
      <4>3. EnKernel(q)  BY <1>0 DEF KernelInv
      <4>. QED  BY <1>3, <1>4, <3>1, <4>2, <4>3 DEF EnKernel
    <3>2. CASE q # p
      <4>1. lugar[q] # "cpu"  BY <1>0, <1>3, <3>2 DEF KernelInv
      <4>. QED  BY <1>0, <1>4, <3>0, <4>1 DEF KernelInv, EnKernel
    <3>. QED  BY <3>1, <3>2
  <2>2. Fuera'  BY <1>3, <1>4 DEF Fuera
  <2>3. \A q, r \in Procesos : lugar'[q] = "cpu" /\ lugar'[r] = "cpu" => q = r
    BY <1>0, <1>4 DEF KernelInv
  <2>. QED  BY <2>1, <2>2, <2>3 DEF KernelInv
<1>14. CpuInv'  BY <1>3, <1>4, <1>9, <1>10 DEF CpuInv
<1>15. DuenoInv'
  <2>1. DeProceso(tlb, p)' /\ pcb'.pid = p  BY <1>3, <1>4, <1>7 DEF DeProceso
  <2>. QED  BY <1>0, <1>4, <1>10, <2>1 DEF DuenoInv
<1>. QED  BY <1>10, <1>11, <1>12, <1>13, <1>14, <1>15 DEF CInv

LEMMA CReiniciar ==
    ASSUME CInv, Reiniciar
    PROVE  CInv'
<1>0. ArranqueInv /\ GuionInv /\ DatosInv /\ KernelInv /\ CpuInv /\ DuenoInv  BY DEF CInv
<1>1. /\ pc.cpu = "reset" /\ Ir("cpu", "select") /\ pcb' = NULO /\ idAnteriorPCB' = pcb.pid
      /\ interrupcion' = FALSE /\ devolver_pcb' = FALSE
      /\ UNCHANGED <<arranque, consolas, consola, pcbs, lugar, mensaje, haciaCpu, desdeCpu>>
      /\ UNCHANGED <<pedidos, interrupciones, guion, hechas, leido, ram, tlb>>
  BY DEF Reiniciar, enCiclo, kernel, sockets, consolas
<1>2. PICK p \in Procesos : pcb \in PcbBueno(p)  BY <1>0, <1>1 DEF CpuInv
<1>3. pcb.pid = p /\ p # -1  BY <1>2, PcbBuenoEs, PidsSon
<1>4. "reset" \notin Ocupado /\ "select" \notin Ocupado \union {"reset"}  BY DEF Ocupado
<1>5. ArranqueInv' /\ pc'["cpu"] = "select"
  <2>1. /\ atendido' \subseteq {"cpu", "kernel"} /\ conexiones' \in Seq({"cpu", "kernel"})
        /\ {dispatch', interrupt'} \subseteq {"no", "pedido", "aceptado"}
        /\ consola' \in [Procesos -> {"no", "aceptada", "enviado", "fin"}]
        /\ UNCHANGED <<aceptadas, esperando>>
    BY <1>0, <1>1, TiposDeArranque DEF consolas, arranque
  <2>. QED  BY <1>0, <1>1, <2>1, SoloPc
<1>6. DatosInv'  BY <1>0, <1>1 DEF DatosInv
<1>7. GuionInv'  BY <1>0, <1>1, GuionIgual
<1>8. pc.cpu \notin Ocupado /\ pc'.cpu \notin Ocupado  BY <1>1, <1>4, <1>5
<1>9. KernelInv'
  <2>1. \A q \in Procesos : ~ EnEjecucion(q) => /\ hechas'[q] = hechas[q]
                                                /\ lugar[q] # "no" => guion'[q] = guion[q]
    BY <1>1
  <2>. QED  BY <1>0, <1>1, <1>8, <2>1, KernelIgual
<1>10. CpuInv'  BY <1>1, <1>4, <1>5 DEF CpuInv
<1>11. DuenoInv'
  <2>1. DeProceso(tlb, p)  BY <1>0, <1>1, <1>3 DEF DuenoInv
  <2>2. tlb' = tlb /\ idAnteriorPCB' = p  BY <1>1, <1>3
  <2>3. pc'.cpu \notin Ocupado \union {"reset"}  BY <1>4, <1>5
  <2>. QED  BY <1>3, <2>1, <2>2, <2>3 DEF DuenoInv
<1>. QED  BY <1>5, <1>6, <1>7, <1>9, <1>10, <1>11 DEF CInv

LEMMA CPaso == CInv /\ TlbInv /\ [Next]_vars => CInv'
<1>. SUFFICES ASSUME CInv, TlbInv, [Next]_vars PROVE CInv'  OBVIOUS
<1>1. CASE UNCHANGED vars
  <2>1. /\ UNCHANGED <<pc, arranque, consolas, consola, pcbs, lugar, mensaje, haciaCpu>>
        /\ UNCHANGED <<desdeCpu, pedidos, interrupciones, guion, hechas, leido, pcb, tlb>>
        /\ UNCHANGED <<devolver_pcb, interrupcion, ram, idAnteriorPCB>>
    BY <1>1 DEF vars, consolas, varsMmu, kernel, sockets, historia, cpu
  <2>0. ArranqueInv /\ GuionInv /\ DatosInv /\ KernelInv /\ CpuInv /\ DuenoInv  BY DEF CInv
  <2>2. ArranqueInv'  BY <2>0, <2>1, ArranqueIgual
  <2>3. DatosInv'  BY <2>0, <2>1 DEF DatosInv
  <2>4. GuionInv'  BY <2>0, <2>1, GuionIgual
  <2>5. KernelInv'  BY <2>0, <2>1, KernelIgual
  <2>6. CpuInv'  BY <2>0, <2>1, CpuIgual
  <2>7. DuenoInv'  BY <2>0, <2>1, DuenoIgual
  <2>. QED  BY <2>2, <2>3, <2>4, <2>5, <2>6, <2>7 DEF CInv
<1>2. CASE \/ Arrancar(PasoMemoria) \/ Arrancar(PasoCpu) \/ Arrancar(PasoKernel)
           \/ Arrancar(Lanzar)
  BY <1>2, CArrancar
<1>3. CASE Atender
  BY <1>3, CConsolaEnvia, CGestionarComunicacion, CAvisarConsola DEF Atender
<1>4. CASE \E p \in Procesos : Despachar(p)  BY <1>4, CDespachar
<1>5. CASE Interrumpir \/ AtencionInterrupt  BY <1>5, CInterrumpir
<1>6. CASE RecibirDelCpu  BY <1>6, CRecibirDelCpu
<1>7. CASE Hilo
  BY <1>7, CRecibo, CFetch, CFetchOperands, CAccesoFuera, CExecuteSimple,
     CExecuteEstado, CExecuteMemoria, CCheckInterrupt, CDevolver, CReiniciar DEF Hilo
<1>. QED  BY <1>1, <1>2, <1>3, <1>4, <1>5, <1>6, <1>7 DEF Next

\* The frames of the TLB are frames of Memoria.
LEMMA TipoDeLaTlb ==
    ASSUME CInv, TlbInv
    PROVE  TypeOKMmu
<1>1. DuenoInv /\ CpuInv  BY DEF CInv
<1>2. ASSUME NEW e \in tlb PROVE e.marco \in Nat
  <2>1. PICK p \in Procesos : DeProceso(tlb, p)
    <3>1. CASE pc.cpu \in Ocupado \union {"reset"}
      <4>1. PICK p \in Procesos : pcb \in PcbBueno(p)  BY <1>1, <3>1 DEF CpuInv
      <4>2. pcb.pid = p  BY <4>1, PcbBuenoEs
      <4>. QED  BY <1>1, <3>1, <4>2 DEF DuenoInv
    <3>2. CASE pc.cpu \notin Ocupado \union {"reset"}
      BY <1>1, <1>2, <3>2 DEF DuenoInv
    <3>. QED  BY <3>1, <3>2
  <2>2. e.marco = get_marco_memoria(p, e.numero_pagina)  BY <2>1 DEF DeProceso
  <2>3. e.numero_pagina \in Pagina  BY DEF TlbInv, EntradaTlb
  <2>4. p \in Nat /\ e.numero_pagina \in Nat  BY <2>3, PidsSon, PaginasAssumption DEF Pagina
  <2>. QED  BY <2>2, <2>4, MarcoDe
<1>3. tlb \subseteq Entrada_TLB
  <2>1. SUFFICES ASSUME NEW e \in tlb PROVE e \in Entrada_TLB  OBVIOUS
  <2>2. EntradaTlb(e) /\ e.marco \in Nat  BY <1>2 DEF TlbInv
  <2>3. Pagina \subseteq Nat  BY PaginasAssumption DEF Pagina
  <2>4. e \in [numero_pagina : Pagina, marco : {e.marco}, tiempo_carga : Nat,
               ultima_referencia : Nat]
    BY <2>2 DEF EntradaTlb
  <2>. QED  BY <2>2, <2>3, <2>4 DEF Entrada_TLB
<1>. QED  BY <1>3 DEF TlbInv, TypeOKMmu

\* A PCB goes through the sockets and comes out as the same PCB, of the process
\* it was dispatched for (pcb_serializar, recibirPCB), whatever the scripts, the
\* interruptions and the order in which the Kernel dispatches; and the variables
\* of CPU, MMU and start have their types.
THEOREM TiposDeLaCpu == Spec => []TypeOK
<1>1. CInv /\ TlbInv => TypeOK
  <2>. SUFFICES ASSUME CInv, TlbInv PROVE TypeOK  OBVIOUS
  <2>1. ArranqueInv /\ DatosInv /\ KernelInv /\ CpuInv /\ DuenoInv  BY DEF CInv
  <2>2. TypeOKArranque  BY <2>1 DEF ArranqueInv
  <2>3. TypeOKMmu  BY TipoDeLaTlb
  <2>4. pc.cpu \in {"no", "fin", "memoria", "entradas", "dispatch", "interrupt",
                    "select", "fetch", "operandos", "execute", "check", "send",
                    "reset", "caida"}
    BY <2>1 DEF ArranqueInv, LugaresInv, Ocupado
  <2>5. ASSUME NEW p \in Procesos PROVE pcbs[p] = NULO \/ pcbs[p] \in PcbDe(p)
    <3>1. EnKernel(p)  BY <2>1 DEF KernelInv
    <3>2. pcbs[p] = NULO \/ pcbs[p] \in PcbBueno(p)  BY <3>1 DEF EnKernel
    <3>. QED  BY <3>2, PcbBuenoEs
  <2>6. pcb = NULO \/ \E p \in Procesos :
                         pcb \in PcbDe(p) /\ (lugar[p] = "cpu" \/ pc.cpu = "reset")
    <3>1. CASE pc.cpu \in Ocupado \union {"reset"}
      <4>1. PICK p \in Procesos : pcb \in PcbBueno(p)  BY <2>1, <3>1 DEF CpuInv
      <4>2. pcb \in PcbDe(p) /\ pcb.pid = p  BY <4>1, PcbBuenoEs
      <4>3. pc.cpu \in Ocupado => lugar[p] = "cpu"  BY <2>1, <4>2 DEF CpuInv
      <4>. QED  BY <3>1, <4>2, <4>3
    <3>2. CASE pc.cpu \notin Ocupado \union {"reset"}  BY <2>1, <3>2 DEF CpuInv
    <3>. QED  BY <3>1, <3>2
  <2>. QED  BY <2>1, <2>2, <2>3, <2>4, <2>5, <2>6 DEF TypeOK, DatosInv, DuenoInv
<1>. QED  BY <1>1, CInicio, CPaso, TlbInicio, TlbPaso, PTL DEF Spec

-----------------------------------------------------------------------------
(* What a user sees of all that.                                            *)

Memorias == [q \in Procesos |-> Mem(q)]
Avisadas == [q \in Procesos |-> consola[q] = "fin"]

LEMMA PasosSon == \A p \in Procesos : P!Pasos(p) = Lineas(p)
<1>1. ASSUME NEW s PROVE P!FlattenSeq(s) = FlattenSeq(s)
  BY DEF P!FlattenSeq, FlattenSeq
<1>. QED  BY <1>1 DEF P!Pasos, Lineas, Renglones

\* The variables of Programa are these.
LEMMA VariablesSon ==
    /\ P!vars = <<guion, hechas, Memorias, leido, Avisadas>>
    /\ (UNCHANGED <<guion, hechas, Memorias, leido, Avisadas>> => UNCHANGED P!vars)
BY DEF P!vars, Memorias, Avisadas, Mem, Dir

LEMMA ProgramaInicio == Init => P!Init
<1>. SUFFICES ASSUME Init PROVE P!Init  OBVIOUS
<1>1. /\ guion = [p \in Procesos |-> <<>>] /\ hechas = [p \in Procesos |-> 0]
      /\ leido = [p \in Procesos |-> 0] /\ ram = [d \in Memoria |-> 0]
      /\ consola = [p \in Procesos |-> "no"]
  BY DEF Init, InitArranque
<1>2. Memorias = [p \in Procesos |-> [d \in Direccion |-> 0]]
  <2>1. ASSUME NEW p \in Procesos PROVE Mem(p) = [d \in Direccion |-> 0]
    <3>1. \A d \in Direccion : ram[Dir(p, d)] = 0  BY <1>1, DirEnMemoria
    <3>. QED  BY <3>1 DEF Mem
  <2>. QED  BY <2>1 DEF Memorias
<1>3. Avisadas = [p \in Procesos |-> FALSE]  BY <1>1 DEF Avisadas
<1>. QED  BY <1>1, <1>2, <1>3 DEF P!Init, Memorias, Avisadas, Mem, Dir

\* A step that a user does not see.
LEMMA NoSeVe ==
    ASSUME UNCHANGED <<guion, hechas, leido, ram>>,
           \A p \in Procesos : consola'[p] = "fin" <=> consola[p] = "fin"
    PROVE  UNCHANGED P!vars
<1>1. Memorias' = Memorias  BY DEF Memorias, Mem
<1>2. Avisadas' = Avisadas  BY DEF Avisadas
<1>. QED  BY <1>1, <1>2, VariablesSon

\* Instruction ins is to do what line l says, with the memory m of its process and
\* the last word u it read.
HaceLaLinea(l, ins, m, u) ==
    /\ ins.id \in {NO_OP, I_O, WRITE, COPY, READ, EXIT}
    /\ ins.id \in {NO_OP, I_O, EXIT} => P!Efecto(l, m, u) = <<m, u>>
    /\ ins.id \in {WRITE, COPY} =>
         P!Efecto(l, m, u) = <<[m EXCEPT ![ins.parametros[1]] = ins.parametros[2]], u>>
    /\ ins.id = READ => P!Efecto(l, m, u) = <<m, m[ins.parametros[1]]>>

LEMMA LineaEjecutada ==
    ASSUME NEW p \in Procesos, NEW s \in Seq(Renglon), NEW h \in Nat, NEW b, NEW m,
           ConOperando(p, s, h, b, m), Bien(s, h + 1),
           NEW ins, ins = b.instrucciones[h + 1], NEW u
    PROVE  HaceLaLinea(s[h + 1], ins, m, u)
<1> DEFINE l == s[h + 1]
<1>1. l \in Renglon /\ BienHecha(l)
  <2>1. h + 1 <= Len(s)  BY DEF ConOperando, Buscada
  <2>2. h + 1 \in 1 .. Len(s)  BY <2>1
  <2>. QED  BY <2>2, ElementOfSeq, BienMenos
<1>2. l.nombre \in {"NO_OP", "I/O", "WRITE", "COPY", "READ", "EXIT"} /\ l.nombre \in STRING
  BY <1>1, BienHechaEs DEF Renglon
<1>3. IF l.nombre = "COPY" THEN Operando(l, ins, m) ELSE ins = DelRenglon(l)
  BY DEF ConOperando
<1>. HIDE DEF l
<1>4. CASE l.nombre = "COPY"
  <2>1. /\ ins.id = COPY /\ ins.parametros[1] = l.numeros[1]
        /\ ins.parametros[2] = m[l.numeros[2]]
    BY <1>3, <1>4 DEF Operando
  <2>2. P!Efecto(l, m, u) = <<[m EXCEPT ![l.numeros[1]] = m[l.numeros[2]]], u>>
    BY <1>4 DEF P!Efecto
  <2>. QED
    BY <2>1, <2>2 DEF l, HaceLaLinea, NO_OP, I_O, WRITE, COPY, READ, EXIT
<1>5. CASE l.nombre # "COPY"
  <2>1. ins.id = definirCodigo(l.nombre)  BY <1>3, <1>5 DEF DelRenglon
  <2>2. CASE l.nombre = "WRITE"
    <3>1. ins.id = WRITE /\ ins.parametros = l.numeros
      BY <1>3, <2>1, <2>2 DEF DelRenglon, definirCodigo
    <3>2. P!Efecto(l, m, u) = <<[m EXCEPT ![l.numeros[1]] = l.numeros[2]], u>>
      BY <2>2 DEF P!Efecto
    <3>. QED
      BY <3>1, <3>2 DEF l, HaceLaLinea, NO_OP, I_O, WRITE, COPY, READ, EXIT
  <2>3. CASE l.nombre = "READ"
    <3>1. ins.id = READ /\ ins.parametros = l.numeros
      BY <1>3, <2>1, <2>3 DEF DelRenglon, definirCodigo
    <3>2. P!Efecto(l, m, u) = <<m, m[l.numeros[1]]>>  BY <2>3 DEF P!Efecto
    <3>. QED
      BY <3>1, <3>2 DEF l, HaceLaLinea, NO_OP, I_O, WRITE, COPY, READ, EXIT
  <2>4. CASE l.nombre \in {"NO_OP", "I/O", "EXIT"}
    <3>1. ins.id \in {NO_OP, I_O, EXIT}  BY <2>1, <2>4 DEF definirCodigo
    <3>2. P!Efecto(l, m, u) = <<m, u>>  BY <2>4 DEF P!Efecto
    <3>. QED
      BY <3>1, <3>2 DEF l, HaceLaLinea, NO_OP, I_O, WRITE, COPY, READ, EXIT
  <2>. QED  BY <1>2, <1>5, <2>2, <2>3, <2>4
<1>. QED  BY <1>4, <1>5

\* A write of a process changes that word of its memory, and of no other.
LEMMA Escrita ==
    ASSUME NEW p \in Procesos, NEW d \in Direccion, NEW v, DatosInv,
           ram' = [ram EXCEPT ![Dir(p, d)] = v]
    PROVE  /\ Mem(p)' = [Mem(p) EXCEPT ![d] = v]
           /\ \A q \in Procesos \ {p} : Mem(q)' = Mem(q)
<1>1. ram \in [Memoria -> Nat]  BY DEF DatosInv
<1>2. ASSUME NEW q \in Procesos, NEW e \in Direccion
      PROVE  ram'[Dir(q, e)] = IF q = p /\ e = d THEN v ELSE ram[Dir(q, e)]
  <2>1. Dir(q, e) \in Memoria  BY DirEnMemoria
  <2>2. Dir(p, d) = Dir(q, e) => p = q /\ d = e  BY DirUnica
  <2>. QED  BY <1>1, <2>1, <2>2
<1>3. Mem(p)' = [e \in Direccion |-> ram'[Dir(p, e)]]  BY DEF Mem
<1>4. ASSUME NEW q \in Procesos \ {p} PROVE Mem(q)' = Mem(q)
  <2>1. \A e \in Direccion : ram'[Dir(q, e)] = ram[Dir(q, e)]  BY <1>2
  <2>. QED  BY <2>1 DEF Mem
<1>5. Mem(p)' = [Mem(p) EXCEPT ![d] = v]
  <2>1. \A e \in Direccion : ram'[Dir(p, e)] = IF e = d THEN v ELSE ram[Dir(p, e)]
    BY <1>2
  <2>. QED  BY <1>3, <2>1 DEF Mem
<1>. QED  BY <1>4, <1>5

\* An instruction of p executed, as Programa has it.
LEMMA Ejecutada ==
    ASSUME CInv, pc.cpu = "execute", NEW p, p = pcb.pid,
           hechas' = [hechas EXCEPT ![p] = @ + 1], UNCHANGED <<guion, consola>>,
           leido' = [q \in Procesos |-> leido'[q]],
           \A q \in Procesos \ {p} : Mem(q)' = Mem(q) /\ leido'[q] = leido[q],
           Bien(Lineas(p), hechas[p] + 1) =>
              P!Efecto(Lineas(p)[hechas[p] + 1], Mem(p), leido[p]) = <<Mem(p)', leido'[p]>>
    PROVE  P!Next
<1>0. pc.cpu \in Ocupado  BY DEF Ocupado
<1>1. /\ p \in Procesos /\ Lineas(p) \in Seq(Renglon) /\ hechas[p] \in Nat /\ DatosInv
      /\ ConOperando(p, Lineas(p), hechas[p], pcb, Mem(p))
  BY <1>0, EnCiclo, EnExecute
<1>2. /\ hechas \in [Procesos -> Nat] /\ leido = [q \in Procesos |-> leido[q]]
  BY <1>1 DEF DatosInv
<1>3. PICK s : s = Lineas(p)  OBVIOUS
<1>4. PICK h \in Nat : h = hechas[p]  BY <1>1
<1>5. /\ s = P!Pasos(p) /\ P!Hasta(p) = 1 .. h + 1
  BY <1>1, <1>3, <1>4, PasosSon DEF P!Hasta
<1>6. h + 1 <= Len(s) /\ (Bien(s, h) => SinExit(s, h))
  BY <1>1, <1>3, <1>4 DEF ConOperando, Buscada
<1>7. /\ Len(s) \in Nat /\ DOMAIN s = 1 .. Len(s) /\ h + 1 \in DOMAIN s
      /\ \A j \in 1 .. h + 1 : /\ j \in DOMAIN s /\ s[j] \in Renglon
                               /\ P!BienEscrita(s[j]) <=> BienHecha(s[j])
  <2>1. s \in Seq(Renglon)  BY <1>1, <1>3
  <2>2. Len(s) \in Nat /\ DOMAIN s = 1 .. Len(s) /\ \A j \in 1 .. Len(s) : s[j] \in Renglon
    BY <2>1
  <2>3. ASSUME NEW j \in 1 .. h + 1 PROVE j \in 1 .. Len(s)  BY <1>6, <2>2
  <2>. QED  BY <1>6, <2>2, <2>3, BienHechaEs
<1>8. Avisadas' = Avisadas  BY DEF Avisadas
<1>9. CASE Bien(s, h + 1)
  <2> DEFINE e == P!Efecto(s[h + 1], Mem(p), leido[p])
  <2>1. e[1] = Mem(p)' /\ e[2] = leido'[p]  BY <1>3, <1>4, <1>9
  <2>2. Memorias' = [Memorias EXCEPT ![p] = e[1]]
    <3>1. Memorias' = [q \in Procesos |-> Mem(q)']  BY DEF Memorias
    <3>2. \A q \in Procesos : Mem(q)' = IF q = p THEN e[1] ELSE Mem(q)  BY <2>1
    <3>. HIDE DEF e
    <3>. QED  BY <1>1, <3>1, <3>2 DEF Memorias
  <2>3. leido' = [leido EXCEPT ![p] = e[2]]
    <3>2. \A q \in Procesos : leido'[q] = IF q = p THEN e[2] ELSE leido[q]  BY <2>1
    <3>. HIDE DEF e
    <3>. QED  BY <1>1, <1>2, <3>2
  <2>4. \A j \in 1 .. h + 1 : P!BienEscrita(s[j])  BY <1>7, <1>9 DEF Bien
  <2>5. \A j \in (1 .. h + 1) \ {h + 1} : s[j].nombre # "EXIT"
    <3>1. SinExit(s, h)  BY <1>6, <1>9, BienMenos
    <3>2. \A j \in (1 .. h + 1) \ {h + 1} : j \in 1 .. h  OBVIOUS
    <3>. QED  BY <3>1, <3>2 DEF SinExit
  <2>6. e = P!Efecto(P!Pasos(p)[hechas[p] + 1], Memorias[p], leido[p])
    BY <1>1, <1>4, <1>5 DEF Memorias
  <2>. HIDE DEF e
  <2>7. P!Ejecutar(p)
    BY <1>4, <1>5, <1>7, <1>8, <2>2, <2>3, <2>4, <2>5, <2>6
       DEF P!Ejecutar, Memorias, Avisadas, Mem, Dir
  <2>. QED  BY <1>1, <2>7 DEF P!Next
<1>10. CASE ~ Bien(s, h + 1)
  <2>1. \E j \in P!Hasta(p) \intersect DOMAIN P!Pasos(p) : ~ P!BienEscrita(P!Pasos(p)[j])
    BY <1>5, <1>7, <1>10 DEF Bien
  <2>2. \A q \in Procesos \ {p} : /\ hechas'[q] = hechas[q] /\ Memorias'[q] = Memorias[q]
                                  /\ leido'[q] = leido[q] /\ Avisadas'[q] = Avisadas[q]
    BY <1>2, <1>8 DEF Memorias
  <2>3. P!Cualquiera(p)
    BY <2>1, <2>2 DEF P!Cualquiera, Memorias, Avisadas, Mem, Dir
  <2>. QED  BY <1>1, <2>3 DEF P!Next
<1>. QED  BY <1>9, <1>10

LEMMA EjecutarSeVe ==
    ASSUME CInv, \/ ExecuteNoOp \/ ExecuteIO \/ Escribir \/ Leer \/ ExecuteExit
                 \/ ExecuteOtra
    PROVE  P!Next
<1>1. /\ pc.cpu = "execute" /\ UNCHANGED <<guion, consola>>
      /\ hechas' = [hechas EXCEPT ![pcb.pid] = @ + 1]
  BY DEF ExecuteNoOp, ExecuteIO, Escribir, Leer, ExecuteExit, ExecuteOtra, Execute,
         enCiclo, consolas
<1>2. PICK p : p = pcb.pid  OBVIOUS
<1>0. pc.cpu \in Ocupado  BY <1>1 DEF Ocupado
<1>3. /\ p \in Procesos /\ Lineas(p) \in Seq(Renglon) /\ hechas[p] \in Nat /\ DatosInv
      /\ ConOperando(p, Lineas(p), hechas[p], pcb, Mem(p))
      /\ Instruccion = pcb.instrucciones[hechas[p] + 1]
      /\ \A e \in Direccion : Fisica(e) = Dir(p, e)
  BY <1>0, <1>1, <1>2, EnCiclo, EnExecute
<1>4. leido = [q \in Procesos |-> leido[q]]  BY <1>3 DEF DatosInv
<1> DEFINE l == Lineas(p)[hechas[p] + 1]
           E == P!Efecto(l, Mem(p), leido[p])
<1>5. ASSUME Bien(Lineas(p), hechas[p] + 1)
      PROVE  /\ Instruccion.id \in {NO_OP, I_O, WRITE, COPY, READ, EXIT}
             /\ Instruccion.id \in {NO_OP, I_O, EXIT} => E = <<Mem(p), leido[p]>>
             /\ Instruccion.id \in {WRITE, COPY} =>
                  E = <<[Mem(p) EXCEPT ![Parametro(1)] = Parametro(2)], leido[p]>>
             /\ Instruccion.id = READ => E = <<Mem(p), Mem(p)[Parametro(1)]>>
  <2>1. PICK s \in Seq(Renglon) : s = Lineas(p)  BY <1>3
  <2>2. PICK h \in Nat : h = hechas[p]  BY <1>3
  <2>3. PICK b, m, u : b = pcb /\ m = Mem(p) /\ u = leido[p]  OBVIOUS
  <2>4. PICK ins : ins = Instruccion  OBVIOUS
  <2>5. /\ ConOperando(p, s, h, b, m) /\ Bien(s, h + 1)
        /\ ins = b.instrucciones[h + 1] /\ p \in Procesos
        /\ s \in Seq(Renglon) /\ h \in Nat
    BY <1>3, <1>5, <2>1, <2>2, <2>3, <2>4
  <2>6. HaceLaLinea(s[h + 1], ins, m, u)  BY ONLY <2>5, LineaEjecutada
  <2>7. E = P!Efecto(s[h + 1], m, u)  BY <2>1, <2>2, <2>3
  <2>. HIDE DEF E
  <2>. QED  BY <2>3, <2>4, <2>6, <2>7 DEF HaceLaLinea, Parametro
<1>. HIDE DEF E
<1>6. CASE ExecuteNoOp \/ ExecuteIO \/ ExecuteExit \/ ExecuteOtra
  <2>1. UNCHANGED <<ram, leido>>  BY <1>6 DEF ExecuteNoOp, ExecuteIO, ExecuteExit, ExecuteOtra
  <2>2. \A q \in Procesos : Mem(q)' = Mem(q)  BY <2>1 DEF Mem
  <2>3. Instruccion.id \in {NO_OP, I_O, EXIT} \/ Instruccion.id \notin {NO_OP, I_O, WRITE, COPY, READ, EXIT}
    BY <1>6 DEF ExecuteNoOp, ExecuteIO, ExecuteExit, ExecuteOtra, Execute
  <2>4. Bien(Lineas(p), hechas[p] + 1) => E = <<Mem(p)', leido'[p]>>
    BY <1>3, <1>5, <2>1, <2>2, <2>3
  <2>5. leido' = [q \in Procesos |-> leido'[q]]  BY <1>4, <2>1
  <2>. QED  BY <1>1, <1>2, <2>1, <2>2, <2>4, <2>5, Ejecutada DEF E
<1>7. CASE Escribir
  <2>0. PICK d \in Direccion : d = Parametro(1)  BY <1>7 DEF Escribir, Traducir
  <2>1. leido' = leido /\ ram' = [ram EXCEPT ![Dir(p, d)] = Parametro(2)]
    BY <1>3, <1>7, <2>0 DEF Escribir
  <2>2. PICK v : v = Parametro(2)  OBVIOUS
  <2>3. /\ Mem(p)' = [Mem(p) EXCEPT ![d] = v]
        /\ \A q \in Procesos \ {p} : Mem(q)' = Mem(q)
    BY <1>3, <2>1, <2>2, Escrita
  <2>4. Instruccion.id \in {WRITE, COPY}  BY <1>7 DEF Escribir, Execute
  <2>5. Bien(Lineas(p), hechas[p] + 1) => E = <<Mem(p)', leido'[p]>>
    BY <1>5, <2>0, <2>1, <2>2, <2>3, <2>4
  <2>6. leido' = [q \in Procesos |-> leido'[q]]  BY <1>4, <2>1
  <2>. QED  BY <1>1, <1>2, <2>1, <2>3, <2>5, <2>6, Ejecutada DEF E
<1>8. CASE Leer
  <2>0. PICK d \in Direccion : d = Parametro(1)  BY <1>8 DEF Leer, Traducir
  <2>1. leido' = [leido EXCEPT ![p] = ram[Dir(p, d)]] /\ ram' = ram
    BY <1>2, <1>3, <1>8, <2>0 DEF Leer
  <2>2. Mem(p)[d] = ram[Dir(p, d)] /\ \A q \in Procesos : Mem(q)' = Mem(q)
    BY <2>1 DEF Mem
  <2>3. /\ leido' = [q \in Procesos |-> leido'[q]] /\ leido'[p] = Mem(p)[d]
        /\ \A q \in Procesos \ {p} : leido'[q] = leido[q]
    BY <1>3, <1>4, <2>1, <2>2
  <2>4. Instruccion.id = READ  BY <1>8 DEF Leer, Execute
  <2>5. Bien(Lineas(p), hechas[p] + 1) => E = <<Mem(p)', leido'[p]>>
    BY <1>3, <1>5, <2>0, <2>2, <2>3, <2>4
  <2>. QED  BY <1>1, <1>2, <2>2, <2>3, <2>5, Ejecutada DEF E
<1>. QED  BY <1>6, <1>7, <1>8

LEMMA CargarSeVe ==
    ASSUME CInv, NEW p \in Procesos, ConsolaEnvia(p)
    PROVE  P!Next
<1>1. /\ consola[p] = "aceptada" /\ consola' = [consola EXCEPT ![p] = "enviado"]
      /\ UNCHANGED <<hechas, leido, ram>>
      /\ \E lineas \in GuionesDe(p) : guion' = [guion EXCEPT ![p] = lineas]
  BY DEF ConsolaEnvia, cpu
<1>2. GuionDe(p) /\ guion \in [Procesos -> Seq(Renglon)] /\ ArranqueInv
  BY DEF CInv, GuionInv
<1>3. guion[p] = <<>> /\ \A q \in Procesos \ {p} : guion'[q] = guion[q]
  BY <1>1, <1>2 DEF GuionDe
<1>4. \A q \in Procesos : consola'[q] = "fin" <=> consola[q] = "fin"
  BY <1>1, <1>2, TiposDeArranque
<1>5. Memorias' = Memorias /\ Avisadas' = Avisadas
  BY <1>1, <1>4 DEF Memorias, Mem, Avisadas
<1>6. P!Cargar(p)
  BY <1>1, <1>3, <1>5 DEF P!Cargar, Memorias, Avisadas, Mem, Dir
<1>. QED  BY <1>6 DEF P!Next

LEMMA AvisarSeVe ==
    ASSUME CInv, NEW p \in Procesos, AvisarConsola(p)
    PROVE  P!Next
<1>1. /\ lugar[p] = "finalizado" /\ consola' = [consola EXCEPT ![p] = "fin"]
      /\ UNCHANGED <<guion, hechas, leido, ram>>
  BY DEF AvisarConsola, historia, cpu
<1>2. /\ EnKernel(p) /\ ArranqueInv /\ guion[p] \in Seq(Renglon) /\ hechas[p] \in Nat
  BY DEF CInv, KernelInv, GuionInv, DatosInv
<1>3. PICK s : s = Lineas(p)  OBVIOUS
<1>4. PICK h \in Nat : h = hechas[p]  BY <1>2
<1>5. s \in Seq(Renglon)  BY <1>2, <1>3, Traducidas DEF Lineas
<1>6. h <= Len(s) /\ (Bien(s, h) => h # 0 /\ s[h].nombre = "EXIT")
  BY <1>1, <1>2, <1>3, <1>4 DEF EnKernel
<1>7. s = P!Pasos(p) /\ P!Hasta(p) = 1 .. h + 1
  BY <1>3, <1>4, PasosSon DEF P!Hasta
<1>8. /\ Memorias' = Memorias /\ Avisadas' = [Avisadas EXCEPT ![p] = TRUE]
  <2>1. \A q \in Procesos : consola'[q] = IF q = p THEN "fin" ELSE consola[q]
    BY <1>1, <1>2, TiposDeArranque
  <2>2. Avisadas' = [q \in Procesos |-> consola'[q] = "fin"]  BY DEF Avisadas
  <2>3. [q \in Procesos |-> consola'[q] = "fin"]
          = [q \in Procesos |-> IF q = p THEN TRUE ELSE consola[q] = "fin"]
    BY <2>1
  <2>4. [Avisadas EXCEPT ![p] = TRUE]
          = [q \in Procesos |-> IF q = p THEN TRUE ELSE consola[q] = "fin"]
    BY DEF Avisadas
  <2>5. Memorias' = Memorias  BY <1>1 DEF Memorias, Mem
  <2>. QED  BY <2>2, <2>3, <2>4, <2>5
<1>9. CASE Bien(s, h)
  <2>1. h \in DOMAIN s /\ s[h].nombre = "EXIT"  BY <1>5, <1>6, <1>9
  <2>2. P!Avisar(p)
    BY <1>1, <1>4, <1>7, <1>8, <2>1 DEF P!Avisar, Memorias, Avisadas, Mem, Dir
  <2>. QED  BY <2>2 DEF P!Next
<1>10. CASE ~ Bien(s, h)
  <2>1. PICK j \in 1 .. h : ~ BienHecha(s[j])  BY <1>10 DEF Bien
  <2>2. j \in 1 .. h + 1 /\ j \in DOMAIN s /\ s[j] \in Renglon  BY <1>5, <1>6
  <2>3. \E i \in P!Hasta(p) \intersect DOMAIN P!Pasos(p) : ~ P!BienEscrita(P!Pasos(p)[i])
    BY <1>7, <2>1, <2>2, BienHechaEs
  <2>4. \A q \in Procesos \ {p} : /\ hechas'[q] = hechas[q] /\ Memorias'[q] = Memorias[q]
                                  /\ leido'[q] = leido[q] /\ Avisadas'[q] = Avisadas[q]
    BY <1>1, <1>8 DEF Avisadas
  <2>5. P!Cualquiera(p)
    BY <1>1, <2>3, <2>4 DEF P!Cualquiera, Memorias, Avisadas, Mem, Dir
  <2>. QED  BY <2>5 DEF P!Next
<1>. QED  BY <1>9, <1>10

\* Every step of Cpu is one of Programa, or none that a user sees.
LEMMA ProgramaPaso == CInv /\ [Next]_vars => [P!Next]_P!vars
<1>. SUFFICES ASSUME CInv, [Next]_vars PROVE [P!Next]_P!vars  OBVIOUS
<1>0. ArranqueInv  BY DEF CInv
<1>1. CASE UNCHANGED vars
  <2>1. UNCHANGED <<guion, hechas, leido, ram, consola>>
    BY <1>1 DEF vars, historia, cpu, consolas
  <2>. QED  BY <2>1, NoSeVe
<1>2. CASE \/ Arrancar(PasoMemoria) \/ Arrancar(PasoCpu) \/ Arrancar(PasoKernel)
           \/ Arrancar(Lanzar)
  <2>1. UNCHANGED <<guion, hechas, leido, ram>>  BY <1>2 DEF Arrancar, historia, cpu
  <2>2. Tranquilo
    BY <1>0, <1>2, PasoDeMemoria, PasoDeCpu, PasoDeKernel, PasoDeLanzar DEF Arrancar
  <2>3. \A p \in Procesos : consola'[p] = "fin" <=> consola[p] = "fin"
    BY <2>2 DEF Tranquilo
  <2>. QED  BY <2>1, <2>3, NoSeVe
<1>3. ASSUME NEW p \in Procesos, GestionarComunicacion(p) PROVE UNCHANGED P!vars
  <2>1. UNCHANGED <<guion, hechas, leido, ram, consola>>
    BY <1>3 DEF GestionarComunicacion, historia, cpu, consolas
  <2>. QED  BY <2>1, NoSeVe
<1>4. CASE Atender  BY <1>3, <1>4, CargarSeVe, AvisarSeVe DEF Atender
<1>5. CASE \/ \E p \in Procesos : Despachar(p)
           \/ Interrumpir \/ RecibirDelCpu \/ AtencionInterrupt
  <2>1. UNCHANGED <<guion, hechas, leido, ram, consola>>
    BY <1>5 DEF Despachar, Interrumpir, RecibirDelCpu, AtencionInterrupt, historia, cpu,
                consolas
  <2>. QED  BY <2>1, NoSeVe
<1>6. CASE \/ ReciboPCBdesdeKernel \/ Fetch \/ FetchOperands \/ AccesoFuera
           \/ CheckInterrupt \/ Devolver \/ Reiniciar
  <2>1. UNCHANGED <<guion, hechas, leido, ram, consola>>
    BY <1>6 DEF ReciboPCBdesdeKernel, Fetch, FetchOperands, AccesoFuera, CheckInterrupt,
                Devolver, Reiniciar, enCiclo, historia, cpu, consolas
  <2>. QED  BY <2>1, NoSeVe
<1>7. CASE \/ ExecuteNoOp \/ ExecuteIO \/ Escribir \/ Leer \/ ExecuteExit \/ ExecuteOtra
  BY <1>7, EjecutarSeVe
<1>8. CASE Hilo  BY <1>6, <1>7, <1>8 DEF Hilo
<1>. QED  BY <1>1, <1>2, <1>4, <1>5, <1>8 DEF Next

\* What a console sent is what its process does, in order, on its own memory, and
\* the console is told after EXIT: through the expansion of the lines, two
\* streams of bytes per dispatch, the TLB, the operand that COPY overwrites and
\* the interruptions between instructions (obtener_intrucciones to
\* gestionar_comunicacion, ejecutar_ciclo_instrucciones).
THEOREM CpuImplementaPrograma == Spec => ImplementaPrograma
<1>1. CInv /\ TlbInv /\ [Next]_vars => [P!Next]_P!vars  BY ProgramaPaso
<1>2. Spec => P!Init /\ [][P!Next]_P!vars
  BY <1>1, CInicio, CPaso, TlbInicio, TlbPaso, ProgramaInicio, PTL DEF Spec
<1>. QED  BY <1>2 DEF ImplementaPrograma, P!Spec
=============================================================================
