--------------------------- MODULE Kernel_lugares ---------------------------
(***************************************************************************)
(* Where each process is.  A container is a list, a thread or a direction   *)
(* of the dispatch socket; Tiene(c) are the pids in container c.  No pid is *)
(* in two containers or twice in one (LugaresInv), and a step of the Kernel *)
(* either leaves the containers alone or moves one pid from a container to  *)
(* another (Mueve), puts a new one in (Entra) or loses one (Sale).  From    *)
(* it follow what the consoles are told (AvisoInv), what Memoria is sent    *)
(* (MensajesInv) and how many processes were lost (CuentaPerdidos).         *)
(* KernelFifo_proofs and KernelSrt_proofs add the steps of their own.       *)
(***************************************************************************)
EXTENDS Kernel_proofs

\* The marks of the suspended processes are not places.
ListasPcb == Listas \ {"susp_block_buffer_l", "susp_block_l"}

\* Nor is what suspender_proceso carries to them.
HilosPcb == Hilos \ {"suspender_proceso"}

Contenedores == ListasPcb \cup HilosPcb \cup {"haciaCpu", "desdeCpu"}

Pids(q) == {q[i].pid : i \in DOMAIN q}

SinRepetir(q) == \A i, j \in DOMAIN q : q[i].pid = q[j].pid => i = j

\* planificador_io takes from block_l when its list_remove ends.
PidDe(h) ==
    IF pcb[h] # NULO /\ (pc[h] # "quitar" \/ h # "planificador_io")
    THEN {pcb[h].pid} ELSE {}

\* The pids in container c.
Tiene(c) ==
    CASE c \in ListasPcb -> Pids(lista[c])
      [] c \in HilosPcb -> PidDe(c)
      [] c = "haciaCpu" -> {haciaCpu[i].pcb.pid : i \in DOMAIN haciaCpu}
      [] OTHER -> {desdeCpu[i].pcb.pid : i \in DOMAIN desdeCpu}

Presentes == UNION {Tiene(c) : c \in Contenedores}

\* The processes that are nowhere.
Ausentes == Ingresados \ Presentes

SinRepetidos == \A l \in ListasPcb : SinRepetir(lista[l])

Ajenos ==
    \A c, d \in Contenedores : c # d => Tiene(c) \cap Tiene(d) = {}

\* What planificador_io is removing is still the head of block_l.
CabezaVigente ==
    pc["planificador_io"] = "quitar" =>
       lista["block_l"] # <<>> /\ Head(lista["block_l"]) = pcb["planificador_io"]

LugaresInv ==
    /\ SinRepetidos /\ Ajenos
    /\ Presentes \subseteq Ingresados
    /\ CabezaVigente

-----------------------------------------------------------------------------
(* Kinds of step.                                                           *)

\* No container changes but those of E.
Iguales(E) == \A c \in Contenedores \ E : Tiene(c)' = Tiene(c)

\* p goes from container a to container b.
Mueve(a, b, p) ==
    /\ p \in Tiene(a)
    /\ Tiene(a)' = Tiene(a) \ {p}
    /\ Tiene(b)' = Tiene(b) \cup {p}
    /\ Iguales({a, b})

\* p, which was nowhere, is put in container b.
Entra(b, p) ==
    /\ p \notin Presentes
    /\ Tiene(b)' = Tiene(b) \cup {p}
    /\ Iguales({b})

\* p leaves container a for none.
Sale(a, p) ==
    /\ p \in Tiene(a)
    /\ Tiene(a)' = Tiene(a) \ {p}
    /\ Iguales({a})

\* Some process goes from container a to container b.
Va(a, b) == \E p : Mueve(a, b, p)

\* A process that moves is still in one container only.
LEMMA AjenosMueve ==
    ASSUME Ajenos, NEW a \in Contenedores, NEW b \in Contenedores, a # b, NEW p,
           Mueve(a, b, p)
    PROVE  Ajenos' /\ Presentes' = Presentes
<1>1. /\ p \in Tiene(a) /\ Tiene(a)' = Tiene(a) \ {p}
      /\ Tiene(b)' = Tiene(b) \cup {p}
      /\ \A c \in Contenedores \ {a, b} : Tiene(c)' = Tiene(c)
  BY DEF Mueve, Iguales
<1>2. \A c \in Contenedores \ {a} : p \notin Tiene(c)
  BY <1>1 DEF Ajenos
<1>3. Ajenos'
  <2>1. ASSUME NEW c \in Contenedores, NEW d \in Contenedores, c # d,
               NEW x, x \in Tiene(c)', x \in Tiene(d)'
        PROVE  FALSE
    <3>1. x = p => c = b /\ d = b
      BY <1>1, <1>2, <2>1
    <3>2. x # p => x \in Tiene(c) /\ x \in Tiene(d)
      BY <1>1, <2>1
    <3> QED BY <2>1, <3>1, <3>2 DEF Ajenos
  <2> QED BY <2>1 DEF Ajenos, Contenedores, ListasPcb, HilosPcb
<1>4. Presentes' = Presentes
  <2>1. ASSUME NEW x PROVE x \in Presentes' <=> x \in Presentes
    BY <1>1 DEF Presentes, Contenedores, ListasPcb, HilosPcb
  <2> QED BY <2>1
<1> QED BY <1>3, <1>4

\* A process that is put in a container was in no other.
LEMMA AjenosEntra ==
    ASSUME Ajenos, NEW b \in Contenedores, NEW p, Entra(b, p)
    PROVE  Ajenos' /\ Presentes' = Presentes \cup {p}
<1>1. /\ Tiene(b)' = Tiene(b) \cup {p}
      /\ \A c \in Contenedores \ {b} : Tiene(c)' = Tiene(c)
      /\ \A c \in Contenedores : p \notin Tiene(c)
  BY DEF Entra, Iguales, Presentes
<1>2. Ajenos'
  <2>1. ASSUME NEW c \in Contenedores, NEW d \in Contenedores, c # d,
               NEW x, x \in Tiene(c)', x \in Tiene(d)'
        PROVE  FALSE
    <3>1. x = p => c = b /\ d = b
      BY <1>1, <2>1
    <3>2. x # p => x \in Tiene(c) /\ x \in Tiene(d)
      BY <1>1, <2>1
    <3> QED BY <2>1, <3>1, <3>2 DEF Ajenos
  <2> QED BY <2>1 DEF Ajenos, Contenedores, ListasPcb, HilosPcb
<1>3. ASSUME NEW x PROVE x \in Presentes' <=> x \in Presentes \cup {p}
  BY <1>1 DEF Presentes, Contenedores, ListasPcb, HilosPcb
<1> QED BY <1>2, <1>3

\* A process that leaves its container is in none.
LEMMA AjenosSale ==
    ASSUME Ajenos, NEW a \in Contenedores, NEW p, Sale(a, p)
    PROVE  Ajenos' /\ Presentes' = Presentes \ {p}
<1>1. /\ p \in Tiene(a) /\ Tiene(a)' = Tiene(a) \ {p}
      /\ \A c \in Contenedores \ {a} : Tiene(c)' = Tiene(c)
  BY DEF Sale, Iguales
<1>2. \A c \in Contenedores \ {a} : p \notin Tiene(c)
  BY <1>1 DEF Ajenos
<1>3. Ajenos'
  <2>1. ASSUME NEW c \in Contenedores, NEW d \in Contenedores, c # d,
               NEW x, x \in Tiene(c)', x \in Tiene(d)'
        PROVE  FALSE
    <3>1. x \in Tiene(c) /\ x \in Tiene(d)
      BY <1>1, <2>1
    <3> QED BY <2>1, <3>1 DEF Ajenos
  <2> QED BY <2>1 DEF Ajenos, Contenedores, ListasPcb, HilosPcb
<1>4. ASSUME NEW x PROVE x \in Presentes' <=> x \in Presentes \ {p}
  BY <1>1, <1>2 DEF Presentes, Contenedores, ListasPcb, HilosPcb
<1> QED BY <1>3, <1>4

\* Nobody moves.
LEMMA AjenosIguales ==
    ASSUME Ajenos, Iguales({})
    PROVE  Ajenos' /\ Presentes' = Presentes
<1>1. \A c \in Contenedores : Tiene(c)' = Tiene(c)
  BY DEF Iguales
<1>2. Ajenos'
  BY <1>1 DEF Ajenos, Contenedores, ListasPcb, HilosPcb
<1>3. ASSUME NEW x PROVE x \in Presentes' <=> x \in Presentes
  BY <1>1 DEF Presentes, Contenedores, ListasPcb, HilosPcb
<1> QED BY <1>2, <1>3

-----------------------------------------------------------------------------
(* Sequences of PCBs without repeated pids.                                 *)

\* A list_add of a new pid.
LEMMA PidsAppend ==
    ASSUME NEW S, NEW q \in Seq(S), NEW x \in S
    PROVE  /\ Pids(Append(q, x)) = Pids(q) \cup {x.pid}
           /\ SinRepetir(q) /\ x.pid \notin Pids(q) => SinRepetir(Append(q, x))
<1> DEFINE n == Len(q)
           r == Append(q, x)
<1>1. /\ n \in Nat /\ DOMAIN q = 1 .. n /\ DOMAIN r = 1 .. n + 1
      /\ \A i \in 1 .. n : r[i] = q[i]
      /\ r[n + 1] = x
  BY AppendProperties, LenProperties
<1> HIDE DEF n, r
<1>2. Pids(r) = Pids(q) \cup {x.pid}
  <2>1. ASSUME NEW i \in DOMAIN r PROVE r[i].pid \in Pids(q) \cup {x.pid}
    <3>1. CASE i \in 1 .. n BY <1>1, <3>1 DEF Pids
    <3>2. CASE i = n + 1 BY <1>1, <3>2
    <3> QED BY <1>1, <3>1, <3>2
  <2>2. ASSUME NEW i \in DOMAIN q PROVE q[i].pid \in Pids(r)
    <3>1. i \in DOMAIN r /\ r[i] = q[i] BY <1>1
    <3> QED BY <3>1 DEF Pids
  <2>3. x.pid \in Pids(r)
    <3>1. n + 1 \in DOMAIN r /\ r[n + 1] = x BY <1>1
    <3> QED BY <3>1 DEF Pids
  <2> QED BY <2>1, <2>2, <2>3 DEF Pids
<1>3. ASSUME SinRepetir(q), x.pid \notin Pids(q) PROVE SinRepetir(r)
  <2>1. ASSUME NEW i \in DOMAIN r, NEW j \in DOMAIN r, r[i].pid = r[j].pid
        PROVE  i = j
    <3>1. \A k \in 1 .. n : q[k].pid # x.pid
      BY <1>1, <1>3 DEF Pids
    <3>2. (i \in 1 .. n \/ i = n + 1) /\ (j \in 1 .. n \/ j = n + 1)
      BY <1>1
    <3>3. CASE i \in 1 .. n /\ j \in 1 .. n
      BY <1>1, <1>3, <2>1, <3>3 DEF SinRepetir
    <3> QED BY <1>1, <2>1, <3>1, <3>2, <3>3
  <2> QED BY <2>1 DEF SinRepetir
<1> QED BY <1>2, <1>3 DEF r

\* A list_remove(q, 0).
LEMMA PidsTail ==
    ASSUME NEW S, NEW q \in Seq(S), q # <<>>, SinRepetir(q)
    PROVE  /\ Head(q).pid \in Pids(q)
           /\ Pids(Tail(q)) = Pids(q) \ {Head(q).pid}
           /\ SinRepetir(Tail(q))
<1> DEFINE n == Len(q)
           r == Tail(q)
<1>1. /\ n \in Nat /\ n > 0 /\ DOMAIN q = 1 .. n /\ DOMAIN r = 1 .. n - 1
      /\ \A i \in 1 .. n - 1 : r[i] = q[i + 1]
      /\ Head(q) = q[1]
  BY HeadTailProperties, LenProperties, EmptySeq
<1> HIDE DEF n, r
<1>2. \A i \in 1 .. n, j \in 1 .. n : q[i].pid = q[j].pid => i = j
  BY <1>1 DEF SinRepetir
<1>3. q[1].pid \in Pids(q)
  BY <1>1 DEF Pids
<1>4. ASSUME NEW i \in 1 .. n - 1
      PROVE  /\ i + 1 \in 1 .. n /\ i + 1 # 1 /\ r[i] = q[i + 1]
             /\ r[i].pid \in Pids(q) \ {q[1].pid}
  <2>1. i + 1 \in 1 .. n /\ i + 1 # 1 /\ 1 \in 1 .. n BY <1>1
  <2>2. r[i] = q[i + 1] BY <1>1
  <2> QED BY <1>1, <1>2, <2>1, <2>2 DEF Pids
<1>5. ASSUME NEW i \in 1 .. n, i # 1 PROVE q[i].pid \in Pids(r)
  <2>1. i - 1 \in 1 .. n - 1 /\ (i - 1) + 1 = i BY <1>1, <1>5
  <2>2. r[i - 1] = q[i] BY <1>1, <2>1
  <2> QED BY <1>1, <2>1, <2>2 DEF Pids
<1>6. Pids(r) = Pids(q) \ {q[1].pid}
  <2>1. ASSUME NEW p \in Pids(r) PROVE p \in Pids(q) \ {q[1].pid}
    BY <1>1, <1>4 DEF Pids
  <2>2. ASSUME NEW p \in Pids(q), p # q[1].pid PROVE p \in Pids(r)
    <3>1. PICK i \in DOMAIN q : p = q[i].pid BY DEF Pids
    <3> QED BY <1>1, <1>5, <2>2, <3>1
  <2> QED BY <2>1, <2>2
<1>7. SinRepetir(r)
  <2>1. ASSUME NEW i \in 1 .. n - 1, NEW j \in 1 .. n - 1, r[i].pid = r[j].pid
        PROVE  i = j
    <3>1. i + 1 = j + 1 BY <1>2, <1>4, <2>1
    <3> QED BY <3>1
  <2> QED BY <1>1, <2>1 DEF SinRepetir
<1> QED BY <1>1, <1>3, <1>6, <1>7 DEF r

-----------------------------------------------------------------------------
(* What each kind of step does to the containers.                           *)

\* The three sorts of container.
LEMMA TieneCasos ==
    /\ \A l \in ListasPcb : Tiene(l) = Pids(lista[l])
                            /\ Tiene(l)' = Pids(lista'[l])
    /\ \A h \in HilosPcb : Tiene(h) = PidDe(h) /\ Tiene(h)' = PidDe(h)'
    /\ Tiene("haciaCpu") = {haciaCpu[i].pcb.pid : i \in DOMAIN haciaCpu}
    /\ Tiene("haciaCpu")' = {haciaCpu'[i].pcb.pid : i \in DOMAIN haciaCpu'}
    /\ Tiene("desdeCpu") = {desdeCpu[i].pcb.pid : i \in DOMAIN desdeCpu}
    /\ Tiene("desdeCpu")' = {desdeCpu'[i].pcb.pid : i \in DOMAIN desdeCpu'}
<1>1. /\ ListasPcb \cap HilosPcb = {}
      /\ "haciaCpu" \notin ListasPcb \cup HilosPcb
      /\ "desdeCpu" \notin ListasPcb \cup HilosPcb
  BY DEF ListasPcb, HilosPcb, Listas, Hilos
<1>2. ASSUME NEW l \in ListasPcb
      PROVE  Tiene(l) = Pids(lista[l]) /\ Tiene(l)' = Pids(lista'[l])
  BY <1>1 DEF Tiene, ListasPcb
<1>3. ASSUME NEW h \in HilosPcb
      PROVE  Tiene(h) = PidDe(h) /\ Tiene(h)' = PidDe(h)'
  BY <1>1 DEF Tiene, HilosPcb, ListasPcb
<1> QED BY <1>1, <1>2, <1>3 DEF Tiene, HilosPcb, ListasPcb

\* A container whose own variable does not change.
LEMMA TieneIgual ==
    /\ \A l \in ListasPcb : lista'[l] = lista[l] => Tiene(l)' = Tiene(l)
    /\ \A h \in HilosPcb :
          pc'[h] = pc[h] /\ pcb'[h] = pcb[h] => Tiene(h)' = Tiene(h)
    /\ haciaCpu' = haciaCpu => Tiene("haciaCpu")' = Tiene("haciaCpu")
    /\ desdeCpu' = desdeCpu => Tiene("desdeCpu")' = Tiene("desdeCpu")
<1>1. \A h \in HilosPcb :
         pc'[h] = pc[h] /\ pcb'[h] = pcb[h] => PidDe(h)' = PidDe(h)
  BY DEF PidDe
<1>2. \A l \in ListasPcb : lista'[l] = lista[l] =>
                              Pids(lista'[l]) = Pids(lista[l])
  OBVIOUS
<1> QED BY <1>1, <1>2, TieneCasos

\* Lists of processes are lists of PCBs.
LEMMA ListaDePcb ==
    ASSUME TipoKernel, NEW l \in ListasPcb
    PROVE  l \in Listas /\ lista[l] \in Seq(PCB)
BY DEF ListasPcb, TipoKernel, TipoListas

\* The processes are where they were, or one of them has moved.
Conserva == SinRepetidos' /\ Ajenos' /\ Presentes' = Presentes

\* Threads that go on with what they carry move nobody.
LEMMA LugarQuieto ==
    ASSUME LugaresInv, UNCHANGED varsSocket,
           \A l \in ListasPcb : lista'[l] = lista[l],
           \A h \in HilosPcb : pcb'[h] = pcb[h],
           pc'["planificador_io"] = "quitar" <=> pc["planificador_io"] = "quitar"
    PROVE  Conserva /\ Iguales({})
<1>1. \A h \in HilosPcb : PidDe(h)' = PidDe(h)
  BY DEF PidDe
<1>2. Iguales({})
  BY <1>1, TieneCasos, TieneIgual
  DEF Iguales, Contenedores, varsSocket
<1>3. SinRepetidos'
  BY DEF LugaresInv, SinRepetidos
<1> QED BY <1>2, <1>3, AjenosIguales DEF LugaresInv, Conserva

\* The head of a list passes to a thread.
LEMMA LugarTomar ==
    ASSUME TipoKernel, LugaresInv, NEW l \in ListasPcb, NEW h \in HilosPcb,
           NEW e, h # "planificador_io", Tomar(h, l, e), lista[l] # <<>>,
           pcb[h] = NULO, UNCHANGED varsSocket
    PROVE  Conserva /\ Mueve(l, h, Head(lista[l]).pid) /\ Va(l, h)
<1> DEFINE q == lista[l]
           x == Head(q)
<1>1. q \in Seq(PCB) /\ q # <<>> /\ SinRepetir(q)
  BY ListaDePcb DEF LugaresInv, SinRepetidos
<1>2. x \in PCB /\ x # NULO
  BY <1>1, CabezaTipo, NuloAssumption
<1>3. /\ lista'[l] = Tail(q) /\ pcb'[h] = x
      /\ \A k \in ListasPcb \ {l} : lista'[k] = lista[k]
      /\ \A g \in HilosPcb \ {h} : pc'[g] = pc[g] /\ pcb'[g] = pcb[g]
  BY DEF Tomar, Ir, TipoKernel, TipoListas, TipoHilos, ListasPcb, HilosPcb
<1>4. x.pid \in Pids(q) /\ Pids(Tail(q)) = Pids(q) \ {x.pid}
      /\ SinRepetir(Tail(q))
  BY ONLY <1>1, PidsTail
<1>5. PidDe(h) = {} /\ PidDe(h)' = {x.pid}
  BY <1>2, <1>3 DEF PidDe
<1>6. /\ Tiene(l) = Pids(q) /\ Tiene(l)' = Pids(Tail(q))
      /\ Tiene(h) = {} /\ Tiene(h)' = {x.pid}
  BY <1>3, <1>5, TieneCasos
<1>7. Iguales({l, h})
  BY <1>3, TieneIgual DEF Iguales, Contenedores, varsSocket
<1>8. Mueve(l, h, x.pid)
  BY <1>4, <1>6, <1>7 DEF Mueve
<1>9. SinRepetidos'
  BY <1>3, <1>4 DEF LugaresInv, SinRepetidos
<1>10. l # h /\ l \in Contenedores /\ h \in Contenedores
  BY DEF ListasPcb, HilosPcb, Listas, Hilos, Contenedores
<1> HIDE DEF x
<1> QED BY <1>8, <1>9, <1>10, AjenosMueve DEF LugaresInv, Conserva, Va, x

\* What a thread carries goes to a list.
LEMMA LugarDejar ==
    ASSUME TipoKernel, LugaresInv, NEW l \in ListasPcb, NEW h \in HilosPcb,
           NEW e, h # "planificador_io" \/ pc[h] # "quitar",
           Dejar(h, l, e), pcb[h] \in PCB, UNCHANGED varsSocket
    PROVE  Conserva /\ Mueve(h, l, pcb[h].pid) /\ Va(h, l)
<1> DEFINE q == lista[l]
           x == pcb[h]
<1>0. l # h /\ l \in Contenedores /\ h \in Contenedores
  BY DEF ListasPcb, HilosPcb, Listas, Hilos, Contenedores
<1>1. q \in Seq(PCB) /\ SinRepetir(q) /\ x \in PCB /\ x # NULO
  BY ListaDePcb, NuloAssumption DEF LugaresInv, SinRepetidos
<1>3. /\ lista'[l] = Append(q, x) /\ pcb'[h] = NULO
      /\ \A k \in ListasPcb \ {l} : lista'[k] = lista[k]
      /\ \A g \in HilosPcb \ {h} : pc'[g] = pc[g] /\ pcb'[g] = pcb[g]
  BY DEF Dejar, Ir, TipoKernel, TipoListas, TipoHilos, ListasPcb, HilosPcb
<1>4. PidDe(h) = {x.pid} /\ PidDe(h)' = {}
  BY <1>1, <1>3 DEF PidDe
<1>5. Tiene(l) = Pids(q) /\ Tiene(h) = {x.pid}
  BY <1>4, TieneCasos
<1>6. x.pid \notin Pids(q)
  BY <1>0, <1>5 DEF LugaresInv, Ajenos
<1>7. Pids(Append(q, x)) = Pids(q) \cup {x.pid} /\ SinRepetir(Append(q, x))
  BY ONLY <1>1, <1>6, PidsAppend
<1>8. Tiene(l)' = Pids(Append(q, x)) /\ Tiene(h)' = {}
  BY <1>3, <1>4, TieneCasos
<1>9. Iguales({h, l})
  BY <1>3, TieneIgual DEF Iguales, Contenedores, varsSocket
<1>10. Mueve(h, l, x.pid)
  BY <1>5, <1>7, <1>8, <1>9 DEF Mueve
<1>11. SinRepetidos'
  BY <1>3, <1>7 DEF LugaresInv, SinRepetidos
<1> HIDE DEF x
<1> QED BY <1>0, <1>10, <1>11, AjenosMueve DEF LugaresInv, Conserva, Va, x

-----------------------------------------------------------------------------
(* block_l and the thread that takes from it.                               *)

\* What the race on block_l is made of does not change.
BloqueoIgual ==
    /\ lista'["block_l"] = lista["block_l"]
    /\ sem'["s_io_pendiente"] = sem["s_io_pendiente"]
    /\ pc'["planificador_io"] = pc["planificador_io"]
    /\ pcb'["planificador_io"] = pcb["planificador_io"]
    /\ En("recibir_proceso_de_cpu", {"post_io_pendiente"})' =
          En("recibir_proceso_de_cpu", {"post_io_pendiente"})

\* No other thread touches it.
LEMMA BloqueoAjeno ==
    ASSUME TipoKernel, NextKernel, ~PlanificadorIo
    PROVE  BloqueoIgual
<1>0. /\ lista = [l \in Listas |-> lista[l]]
      /\ pc = [h \in Hilos |-> pc[h]] /\ pcb = [h \in Hilos |-> pcb[h]]
      /\ sem = [x \in Semaforos |-> sem[x]]
  BY DEF TipoKernel, TipoListas, TipoHilos
<1> USE DEF BloqueoIgual, En, Hilos, Listas, Semaforos, Ir, Post, Wait
<1>1. CASE \E p \in Proceso : GestionarComunicacion(p)
  BY <1>0, <1>1 DEF GestionarComunicacion, AceptarConsola, AgregarANew,
     RegistrarComunicacion, AvisarNew, AvisarConsola
<1>2. CASE PasarAReady
  BY <1>0, <1>2 DEF PasarAReady, PasarEsperar, PasarInicializar,
     PasarEntregar, PasarAvisar, Esperar, Avisar, Entregar, Tomar, Dejar
<1>3. CASE FinalizarProcesos
  BY <1>0, <1>3 DEF FinalizarProcesos, FinalizarEnMemoria, BuscarComunicacion,
     QuitarComunicacion, DespertarComunicacion, LiberarGrado, Avisar, Tomar,
     Dejar
<1>4. CASE SuspenderProceso
  BY <1>0, <1>4 DEF SuspenderProceso, SuspenderTomar, SuspenderMarcar,
     SuspenderEstado, SuspenderEnviar, SuspenderLiberar, Avisar, Tomar
<1>5. CASE AvisarProcesoSuspReady
  BY <1>0, <1>5 DEF AvisarProcesoSuspReady, ReanudarEsperar, ReanudarTomar,
     ReanudarEntregar, ReanudarAvisar, Esperar, Avisar, Entregar, Tomar, Dejar
<1>6. CASE Io
  BY <1>0, <1>6 DEF Io, IoTomar, IoDespertar, IoCancelar, IoDesbloquear,
     IoAvisarReady, IoDesmarcar, IoSuspReady, IoAvisarSuspReady, Avisar,
     Entregar, Tomar, Dejar
<1>7. CASE \E x \in PCB : Suspencion(x)
  BY <1>0, <1>7 DEF Suspencion, ContadorDespertar, ContadorAgregar,
     ContadorAvisar
<1> QED BY <1>1, <1>2, <1>3, <1>4, <1>5, <1>6, <1>7 DEF NextKernel

\* The head of block_l stays while its removal is under way.
LEMMA CabezaIgual ==
    ASSUME LugaresInv, BloqueoIgual
    PROVE  CabezaVigente'
BY DEF LugaresInv, CabezaVigente, BloqueoIgual

\* LugaresInv after a step that loses nobody.
LEMMA LugaresConserva ==
    ASSUME LugaresInv, Conserva, CabezaVigente', Ingresados' = Ingresados
    PROVE  LugaresInv' /\ Ausentes' = Ausentes
BY DEF LugaresInv, Conserva, Ausentes

\* Only the console threads let processes in.
LEMMA IngresadosIgual ==
    ASSUME UNCHANGED consola
    PROVE  Ingresados' = Ingresados
BY DEF Ingresados, Proceso

-----------------------------------------------------------------------------
(* The steps of the threads that both schedulers share.                     *)

\* A console thread creates the PCB of its process in new_l; nobody else had it.
LEMMA LugaresGestionar ==
    ASSUME TipoKernel, LugaresInv, NEW p \in Proceso, GestionarComunicacion(p),
           UNCHANGED varsSocket
    PROVE  /\ LugaresInv' /\ Ausentes' = Ausentes
           /\ \/ Iguales({}) /\ Ingresados' = Ingresados
              \/ /\ Entra("new_l", p)
                 /\ p \notin Ingresados /\ Ingresados' = Ingresados \cup {p}
<1> USE DEF varsPlp
<1>1. UNCHANGED <<pc, pcb>>
  BY DEF GestionarComunicacion, AceptarConsola, AgregarANew,
     RegistrarComunicacion, AvisarNew, AvisarConsola
<1>2. CASE AgregarANew(p)
  <2> DEFINE q == lista["new_l"]
             x == [pid |-> p, pc |-> 0]
  <2>0. "new_l" \in ListasPcb /\ "new_l" \in Contenedores
    BY DEF ListasPcb, Contenedores, Listas
  <2>1. q \in Seq(PCB) /\ SinRepetir(q) /\ x \in PCB
    <3>1. Len(Programa[p]) \in Nat
      BY ProgramaAssumption
    <3>2. x \in PCB
      BY <3>1 DEF PCB
    <3> QED BY <2>0, <3>2, ListaDePcb DEF LugaresInv, SinRepetidos
  <2>2. /\ lista'["new_l"] = Append(q, x)
        /\ \A k \in Listas \ {"new_l"} : lista'[k] = lista[k]
    BY <1>2 DEF AgregarANew, TipoKernel, TipoListas, Listas
  <2>3. p \notin Ingresados /\ Ingresados' = Ingresados \cup {p}
    BY <1>2 DEF AgregarANew, Ingresados, TipoKernel, TipoPlp, Proceso
  <2>4. p \notin Presentes /\ x.pid = p
    BY <2>3 DEF LugaresInv
  <2>5. p \notin Pids(q)
    BY <2>0, <2>4, TieneCasos DEF Presentes
  <2>6. Pids(Append(q, x)) = Pids(q) \cup {p} /\ SinRepetir(Append(q, x))
    BY ONLY <2>1, <2>4, <2>5, PidsAppend
  <2>7. Iguales({"new_l"})
    BY <1>1, <2>2, TieneIgual DEF Iguales, Contenedores, varsSocket, ListasPcb
  <2>8. Entra("new_l", p)
    BY <2>0, <2>2, <2>4, <2>6, <2>7, TieneCasos DEF Entra
  <2>9. Ajenos' /\ Presentes' = Presentes \cup {p}
    BY <2>0, <2>8, AjenosEntra DEF LugaresInv
  <2>10. SinRepetidos'
    BY <2>2, <2>6 DEF LugaresInv, SinRepetidos, ListasPcb
  <2>11. CabezaVigente'
    BY <1>1, <2>2 DEF CabezaVigente, LugaresInv, Listas
  <2> HIDE DEF q, x
  <2> QED BY <2>3, <2>4, <2>8, <2>9, <2>10, <2>11 DEF LugaresInv, Ausentes
<1>3. CASE ~AgregarANew(p)
  <2>1. UNCHANGED lista
    BY <1>3 DEF GestionarComunicacion, AceptarConsola, RegistrarComunicacion,
       AvisarNew, AvisarConsola
  <2>2. Ingresados' = Ingresados
    <3>1. /\ consola' = [consola EXCEPT ![p] = consola'[p]]
          /\ consola[p] \in {"sin_conectar", "conectada"} <=>
                consola'[p] \in {"sin_conectar", "conectada"}
      BY <1>3 DEF GestionarComunicacion, AceptarConsola, RegistrarComunicacion,
         AvisarNew, AvisarConsola, TipoKernel, TipoPlp
    <3> QED BY <3>1 DEF Ingresados, TipoKernel, TipoPlp, Proceso
  <2>3. Conserva /\ Iguales({})
    BY <1>1, <2>1, LugarQuieto
  <2>4. CabezaVigente'
    BY <1>1, <2>1 DEF CabezaVigente, LugaresInv
  <2> QED BY <2>2, <2>3, <2>4, LugaresConserva
<1> QED BY <1>2, <1>3

\* pasar_a_ready takes a process from new_l to newM_l.
LEMMA LugaresPasar ==
    ASSUME TipoKernel, CuentasKernel, LugaresInv, PasarAReady,
           UNCHANGED varsSocket
    PROVE  /\ Conserva
           /\ \/ Iguales({}) \/ Va("new_l", "pasar_a_ready")
              \/ Va("pasar_a_ready", "newM_l")
<1>0. /\ pc = [h \in Hilos |-> pc[h]]
      /\ "pasar_a_ready" \in HilosPcb /\ "pasar_a_ready" \in Hilos
      /\ {"new_l", "newM_l"} \subseteq ListasPcb
  BY DEF TipoKernel, TipoHilos, HilosPcb, Hilos, ListasPcb, Listas
<1>1. CASE PasarEsperar \/ PasarAvisar
  BY <1>0, <1>1, LugarQuieto DEF PasarEsperar, PasarAvisar, Esperar, Avisar, Ir,
     Hilos
<1>2. CASE PasarInicializar
  <2>1. pc["pasar_a_ready"] = "s_grado" /\ Tomar("pasar_a_ready", "new_l", "newM_l")
    BY <1>2 DEF PasarInicializar
  <2>2. lista["new_l"] # <<>>
    BY <1>0, <2>1, NuncaVacia, NoVaciaLista DEF ListasPcb
  <2>3. pcb["pasar_a_ready"] = NULO
    BY <1>0, <2>1, PcbDeHilo, CargaDe
  <2> QED BY <1>0, <2>1, <2>2, <2>3, LugarTomar
<1>3. CASE PasarEntregar
  <2>1. pc["pasar_a_ready"] = "newM_l" /\ Dejar("pasar_a_ready", "newM_l", "post")
    BY <1>3 DEF PasarEntregar, Entregar
  <2>2. pcb["pasar_a_ready"] \in PCB
    BY <1>0, <2>1, PcbDeHilo, CargaDe
  <2> QED BY <1>0, <2>1, <2>2, LugarDejar
<1> QED BY <1>1, <1>2, <1>3 DEF PasarAReady

\* finalizar_procesos takes a process from finalizado_l to exit_l.
LEMMA LugaresFinalizar ==
    ASSUME TipoKernel, CuentasKernel, LugaresInv, FinalizarProcesos,
           UNCHANGED varsSocket
    PROVE  /\ Conserva
           /\ \/ Iguales({}) \/ Va("finalizado_l", "finalizar_procesos")
              \/ Va("finalizar_procesos", "exit_l")
<1>0. /\ pc = [h \in Hilos |-> pc[h]]
      /\ "finalizar_procesos" \in HilosPcb /\ "finalizar_procesos" \in Hilos
      /\ {"finalizado_l", "exit_l"} \subseteq ListasPcb
  BY DEF TipoKernel, TipoHilos, HilosPcb, Hilos, ListasPcb, Listas
<1>1. CASE BuscarComunicacion \/ QuitarComunicacion \/ LiberarGrado
  BY <1>0, <1>1, LugarQuieto DEF BuscarComunicacion, QuitarComunicacion,
     LiberarGrado, Avisar, Ir, Hilos
<1>2. CASE FinalizarEnMemoria
  <2>1. /\ pc["finalizar_procesos"] = "inicio" /\ sem["s_proceso_finalizado"] > 0
        /\ Tomar("finalizar_procesos", "finalizado_l", "buscar")
    BY <1>2 DEF FinalizarEnMemoria, Wait
  <2>2. lista["finalizado_l"] # <<>>
    BY <1>0, <2>1, NuncaVacia, NoVaciaLista DEF ListasPcb
  <2>3. pcb["finalizar_procesos"] = NULO
    BY <1>0, <2>1, PcbDeHilo, CargaDe
  <2> QED BY <1>0, <2>1, <2>2, <2>3, LugarTomar
<1>3. CASE DespertarComunicacion
  <2>1. /\ pc["finalizar_procesos"] = "despertar"
        /\ Dejar("finalizar_procesos", "exit_l", "post")
    BY <1>3 DEF DespertarComunicacion
  <2>2. pcb["finalizar_procesos"] \in PCB
    BY <1>0, <2>1, PcbDeHilo, CargaDe
  <2> QED BY <1>0, <2>1, <2>2, LugarDejar
<1> QED BY <1>1, <1>2, <1>3 DEF FinalizarProcesos

\* suspender_proceso only marks.
LEMMA LugaresSuspender ==
    ASSUME TipoKernel, LugaresInv, SuspenderProceso, UNCHANGED varsSocket
    PROVE  Conserva /\ Iguales({})
<1>0. /\ lista = [l \in Listas |-> lista[l]]
      /\ pc = [h \in Hilos |-> pc[h]] /\ pcb = [h \in Hilos |-> pcb[h]]
  BY DEF TipoKernel, TipoListas, TipoHilos
<1>1. /\ \A l \in ListasPcb : lista'[l] = lista[l]
      /\ \A h \in HilosPcb : pcb'[h] = pcb[h]
      /\ pc'["planificador_io"] = pc["planificador_io"]
  BY <1>0 DEF SuspenderProceso, SuspenderTomar, SuspenderMarcar,
     SuspenderEstado, SuspenderEnviar, SuspenderLiberar, Avisar, Tomar, Ir,
     ListasPcb, HilosPcb, Listas, Hilos
<1> QED BY <1>1, LugarQuieto

\* avisar_proceso_susp_ready takes a process from susp_ready_l to susp_readyM_l.
LEMMA LugaresReanudar ==
    ASSUME TipoKernel, CuentasKernel, LugaresInv, AvisarProcesoSuspReady,
           UNCHANGED varsSocket
    PROVE  /\ Conserva
           /\ \/ Iguales({}) \/ Va("susp_ready_l", "avisar_proceso_susp_ready")
              \/ Va("avisar_proceso_susp_ready", "susp_readyM_l")
<1> DEFINE h == "avisar_proceso_susp_ready"
<1>0. /\ pc = [g \in Hilos |-> pc[g]]
      /\ h \in HilosPcb /\ h \in Hilos
      /\ {"susp_ready_l", "susp_readyM_l"} \subseteq ListasPcb
  BY DEF TipoKernel, TipoHilos, HilosPcb, Hilos, ListasPcb, Listas
<1>1. CASE ReanudarEsperar \/ ReanudarAvisar
  BY <1>0, <1>1, LugarQuieto DEF ReanudarEsperar, ReanudarAvisar, Esperar,
     Avisar, Ir, Hilos
<1>2. CASE ReanudarTomar
  <2>1. pc[h] = "s_grado" /\ Tomar(h, "susp_ready_l", "susp_readyM_l")
    BY <1>2 DEF ReanudarTomar
  <2>2. lista["susp_ready_l"] # <<>>
    BY <1>0, <2>1, NuncaVacia, NoVaciaLista DEF ListasPcb
  <2>3. pcb[h] = NULO
    BY <1>0, <2>1, PcbDeHilo, CargaDe
  <2> QED BY <1>0, <2>1, <2>2, <2>3, LugarTomar
<1>3. CASE ReanudarEntregar
  <2>1. pc[h] = "susp_readyM_l" /\ Dejar(h, "susp_readyM_l", "post")
    BY <1>3 DEF ReanudarEntregar, Entregar
  <2>2. pcb[h] \in PCB
    BY <1>0, <2>1, PcbDeHilo, CargaDe
  <2> QED BY <1>0, <2>1, <2>2, LugarDejar
<1> QED BY <1>1, <1>2, <1>3 DEF AvisarProcesoSuspReady

\* io takes a process from block_pend_l to unblock_l or susp_ready_l; its mark
\* is not a place.
LEMMA LugaresIo ==
    ASSUME TipoKernel, CuentasKernel, LugaresInv, Io, UNCHANGED varsSocket
    PROVE  /\ Conserva
           /\ \/ Iguales({}) /\ UNCHANGED pcb
              \/ pc'["io"] = "durmiendo" /\ Va("block_pend_l", "io")
              \/ pc["io"] = "unblock_l" /\ Va("io", "unblock_l")
              \/ pc["io"] = "susp_ready_l" /\ Va("io", "susp_ready_l")
<1>0. /\ lista = [l \in Listas |-> lista[l]] /\ pc = [h \in Hilos |-> pc[h]]
      /\ "io" \in HilosPcb /\ "io" \in Hilos
      /\ {"block_pend_l", "unblock_l", "susp_ready_l"} \subseteq ListasPcb
  BY DEF TipoKernel, TipoHilos, TipoListas, HilosPcb, Hilos, ListasPcb, Listas
<1>1. CASE \/ IoDespertar \/ IoCancelar \/ IoAvisarReady \/ IoDesmarcar
           \/ IoAvisarSuspReady
  <2>1. /\ \A l \in ListasPcb : lista'[l] = lista[l]
        /\ UNCHANGED pcb
        /\ pc'["planificador_io"] = pc["planificador_io"]
    BY <1>0, <1>1 DEF IoDespertar, IoCancelar, IoAvisarReady, IoDesmarcar,
       IoAvisarSuspReady, Avisar, Ir, ListasPcb, Listas, Hilos
  <2> QED BY <2>1, LugarQuieto
<1>2. CASE IoTomar
  <2>1. /\ pc["io"] = "inicio" /\ sem["s_io"] > 0
        /\ Tomar("io", "block_pend_l", "durmiendo")
    BY <1>2 DEF IoTomar, Wait
  <2>2. lista["block_pend_l"] # <<>>
    BY <1>0, <2>1, NuncaVacia, NoVaciaLista DEF ListasPcb
  <2>3. pcb["io"] = NULO
    BY <1>0, <2>1, PcbDeHilo, CargaDe
  <2>4. pc'["io"] = "durmiendo"
    BY <1>0, <2>1 DEF Tomar, Ir
  <2> QED BY <1>0, <2>1, <2>2, <2>3, <2>4, LugarTomar
<1>3. CASE IoDesbloquear
  <2>1. pc["io"] = "unblock_l" /\ Dejar("io", "unblock_l", "post_ready")
    BY <1>3 DEF IoDesbloquear, Entregar
  <2>2. pcb["io"] \in PCB
    BY <1>0, <2>1, PcbDeHilo, CargaDe
  <2> QED BY <1>0, <2>1, <2>2, LugarDejar
<1>4. CASE IoSuspReady
  <2>1. pc["io"] = "susp_ready_l" /\ Dejar("io", "susp_ready_l", "post_susp_ready")
    BY <1>4 DEF IoSuspReady, Entregar
  <2>2. pcb["io"] \in PCB
    BY <1>0, <2>1, PcbDeHilo, CargaDe
  <2> QED BY <1>0, <2>1, <2>2, LugarDejar
<1> QED BY <1>1, <1>2, <1>3, <1>4 DEF Io

\* The timers only touch susp_block_buffer_l.
LEMMA LugaresSuspencion ==
    ASSUME TipoKernel, LugaresInv, NEW x \in PCB, Suspencion(x),
           UNCHANGED varsSocket
    PROVE  Conserva /\ Iguales({})
<1>0. lista = [l \in Listas |-> lista[l]]
  BY DEF TipoKernel, TipoListas
<1>1. UNCHANGED <<pc, pcb>> /\ \A l \in ListasPcb : lista'[l] = lista[l]
  BY <1>0 DEF Suspencion, ContadorDespertar, ContadorAgregar, ContadorAvisar,
     ListasPcb, Listas
<1> QED BY <1>1, LugarQuieto

\* planificador_io takes a process from block_l, where it is until its
\* list_remove ends, to block_pend_l.
LEMMA LugaresPlanificadorIo ==
    ASSUME TipoKernel, CuentasKernel, LugaresInv, PlanificadorIo,
           UNCHANGED varsSocket
    PROVE  /\ Conserva /\ CabezaVigente'
           /\ \/ Iguales({}) \/ Va("block_l", "planificador_io")
              \/ Va("planificador_io", "block_pend_l")
<1> DEFINE h == "planificador_io"
           q == lista["block_l"]
<1>0. /\ lista = [l \in Listas |-> lista[l]] /\ pc = [g \in Hilos |-> pc[g]]
      /\ pcb = [g \in Hilos |-> pcb[g]]
      /\ h \in HilosPcb /\ h \in Hilos
      /\ {"block_l", "block_pend_l"} \subseteq ListasPcb
      /\ {"block_l", h} \subseteq Contenedores /\ "block_l" # h
  BY DEF TipoKernel, TipoHilos, TipoListas, HilosPcb, Hilos, ListasPcb, Listas,
     Contenedores
<1>1. CASE PlanificadorIoTomar /\ q # <<>>
  <2>1. /\ pc[h] = "inicio" /\ pc'[h] = "quitar" /\ pcb'[h] = Head(q)
        /\ \A g \in HilosPcb \ {h} : pc'[g] = pc[g] /\ pcb'[g] = pcb[g]
        /\ UNCHANGED lista
    BY <1>0, <1>1 DEF PlanificadorIoTomar, Ir, HilosPcb
  <2>2. pcb[h] = NULO
    BY <1>0, <2>1, PcbDeHilo, CargaDe
  <2>3. PidDe(h) = {} /\ PidDe(h)' = {}
    BY <2>1, <2>2 DEF PidDe
  <2>4. Iguales({})
    BY <2>1, <2>3, TieneCasos, TieneIgual DEF Iguales, Contenedores, varsSocket
  <2>5. SinRepetidos'
    BY <2>1 DEF LugaresInv, SinRepetidos
  <2>6. CabezaVigente'
    BY <1>1, <2>1 DEF CabezaVigente
  <2> QED BY <2>4, <2>5, <2>6, AjenosIguales DEF LugaresInv, Conserva
<1>2. CASE PlanificadorIoTomar /\ q = <<>>
  <2>1. UNCHANGED <<lista, pc, pcb>>
    BY <1>2 DEF PlanificadorIoTomar
  <2> QED BY <2>1, LugarQuieto DEF CabezaVigente, LugaresInv
<1>3. CASE PlanificadorIoDisparar
  <2> DEFINE x == pcb[h]
  <2>1. /\ pc[h] = "quitar" /\ pc'[h] = "block_pend_l" /\ UNCHANGED pcb
        /\ lista'["block_l"] = Tail(q)
        /\ \A k \in ListasPcb \ {"block_l"} : lista'[k] = lista[k]
        /\ \A g \in HilosPcb \ {h} : pc'[g] = pc[g]
    BY <1>0, <1>3 DEF PlanificadorIoDisparar, Ir, HilosPcb, ListasPcb
  <2>2. x \in PCB /\ x # NULO
    BY <1>0, <2>1, PcbDeHilo, CargaDe, NuloAssumption
  <2>3. q \in Seq(PCB) /\ q # <<>> /\ SinRepetir(q) /\ Head(q) = x
    BY <1>0, <2>1, ListaDePcb DEF LugaresInv, SinRepetidos, CabezaVigente
  <2>4. x.pid \in Pids(q) /\ Pids(Tail(q)) = Pids(q) \ {x.pid}
        /\ SinRepetir(Tail(q))
    BY ONLY <2>3, PidsTail
  <2>5. PidDe(h) = {} /\ PidDe(h)' = {x.pid}
    BY <2>1, <2>2 DEF PidDe
  <2>6. /\ Tiene("block_l") = Pids(q) /\ Tiene("block_l")' = Pids(Tail(q))
        /\ Tiene(h) = {} /\ Tiene(h)' = {x.pid}
    BY <1>0, <2>1, <2>5, TieneCasos
  <2>7. Iguales({"block_l", h})
    BY <2>1, TieneIgual DEF Iguales, Contenedores, varsSocket
  <2>8. Mueve("block_l", h, x.pid)
    BY <2>4, <2>6, <2>7 DEF Mueve
  <2>9. SinRepetidos'
    BY <2>1, <2>4 DEF LugaresInv, SinRepetidos
  <2>10. CabezaVigente'
    BY <2>1 DEF CabezaVigente
  <2> HIDE DEF x
  <2> QED BY <1>0, <2>8, <2>9, <2>10, AjenosMueve DEF LugaresInv, Conserva, Va
<1>4. CASE PlanificadorIoEntregar
  <2>1. pc[h] = "block_pend_l" /\ Dejar(h, "block_pend_l", "post")
    BY <1>4 DEF PlanificadorIoEntregar, Entregar
  <2>2. pcb[h] \in PCB
    BY <1>0, <2>1, PcbDeHilo, CargaDe
  <2>3. CabezaVigente'
    BY <1>0, <2>1 DEF CabezaVigente, Dejar, Ir
  <2> QED BY <1>0, <2>1, <2>2, <2>3, LugarDejar
<1>5. CASE PlanificadorIoAvisar
  <2>1. pc[h] = "post" /\ pc'[h] = "inicio" /\ UNCHANGED <<lista, pcb>>
    BY <1>0, <1>5 DEF PlanificadorIoAvisar, Avisar, Ir
  <2> QED BY <2>1, LugarQuieto DEF CabezaVigente
<1> QED BY <1>1, <1>2, <1>3, <1>4, <1>5 DEF PlanificadorIo

\* The threads that both schedulers share lose nobody.
LEMMA LugaresNextKernel ==
    ASSUME TipoKernel, CuentasKernel, LugaresInv, NextKernel,
           UNCHANGED varsSocket
    PROVE  LugaresInv' /\ Ausentes' = Ausentes
<1>1. CASE \E p \in Proceso : GestionarComunicacion(p)
  BY <1>1, LugaresGestionar
<1>2. CASE PlanificadorIo
  <2>1. UNCHANGED consola
    BY <1>2 DEF PlanificadorIo, PlanificadorIoTomar, PlanificadorIoDisparar,
       PlanificadorIoEntregar, PlanificadorIoAvisar, Entregar, Avisar, varsPlp
  <2> QED BY <1>2, <2>1, LugaresPlanificadorIo, LugaresConserva,
             IngresadosIgual
<1>3. CASE /\ ~PlanificadorIo
           /\ \/ PasarAReady \/ FinalizarProcesos \/ SuspenderProceso
              \/ AvisarProcesoSuspReady \/ Io \/ \E x \in PCB : Suspencion(x)
  <2>1. CabezaVigente'
    BY <1>3, BloqueoAjeno, CabezaIgual
  <2>2. Conserva
    BY <1>3, LugaresPasar, LugaresFinalizar, LugaresSuspender, LugaresReanudar,
       LugaresIo, LugaresSuspencion
  <2>3. UNCHANGED consola
    <3> USE DEF Esperar, Avisar, Entregar, varsPlp
    <3>1. CASE PasarAReady \/ FinalizarProcesos
      BY <3>1 DEF PasarAReady, PasarEsperar, PasarInicializar, PasarEntregar,
         PasarAvisar, FinalizarProcesos, FinalizarEnMemoria,
         BuscarComunicacion, QuitarComunicacion, DespertarComunicacion,
         LiberarGrado
    <3>2. CASE SuspenderProceso \/ AvisarProcesoSuspReady
      BY <3>2 DEF SuspenderProceso, SuspenderTomar, SuspenderMarcar,
         SuspenderEstado, SuspenderEnviar, SuspenderLiberar,
         AvisarProcesoSuspReady, ReanudarEsperar, ReanudarTomar,
         ReanudarEntregar, ReanudarAvisar
    <3>3. CASE Io \/ \E x \in PCB : Suspencion(x)
      BY <3>3 DEF Io, IoTomar, IoDespertar, IoCancelar, IoDesbloquear,
         IoAvisarReady, IoDesmarcar, IoSuspReady, IoAvisarSuspReady,
         Suspencion, ContadorDespertar, ContadorAgregar, ContadorAvisar
    <3> QED BY <1>3, <3>1, <3>2, <3>3
  <2> QED BY <2>1, <2>2, <2>3, LugaresConserva, IngresadosIgual
<1> QED BY <1>1, <1>2, <1>3 DEF NextKernel

-----------------------------------------------------------------------------
(* The steps the two short-term schedulers have in common.                  *)

\* agregar_a_ready takes a process from one of its three lists.
LEMMA LugaresAgregarComun ==
    ASSUME TipoKernel, CuentasKernel, LugaresInv,
           \/ AgregarEsperar \/ AgregarElegir("susp_readyM_l", "unblock_l")
           \/ AgregarElegir("unblock_l", "newM_l") \/ AgregarElegirNew
    PROVE  /\ LugaresInv' /\ Ausentes' = Ausentes /\ BloqueoIgual
           /\ \/ Iguales({})
              \/ \E l \in {"susp_readyM_l", "unblock_l", "newM_l"} :
                    Va(l, "agregar_a_ready")
<1> DEFINE h == "agregar_a_ready"
<1>0. /\ lista = [l \in Listas |-> lista[l]] /\ pc = [g \in Hilos |-> pc[g]]
      /\ pcb = [g \in Hilos |-> pcb[g]] /\ sem = [x \in Semaforos |-> sem[x]]
      /\ h \in HilosPcb /\ h \in Hilos
      /\ {"susp_readyM_l", "unblock_l", "newM_l"} \subseteq ListasPcb
  BY DEF TipoKernel, TipoHilos, TipoListas, HilosPcb, Hilos, ListasPcb, Listas
<1>1. BloqueoIgual
  BY <1>0 DEF AgregarEsperar, AgregarElegir, AgregarElegirNew, Esperar, Tomar,
     Wait, Ir, BloqueoIgual, En, Hilos, Listas, Semaforos
<1>2. UNCHANGED consola
  BY DEF AgregarEsperar, AgregarElegir, AgregarElegirNew, Esperar, varsPlp
<1>3. ASSUME NEW l \in {"susp_readyM_l", "unblock_l", "newM_l"}, pc[h] = l,
             lista[l] # <<>>, Tomar(h, l, "ready_l"), UNCHANGED varsSocket
      PROVE  Conserva /\ Va(l, h)
  <2>1. pcb[h] = NULO
    <3>1. pc[h] \notin Carga[h] BY <1>3, CargaDe
    <3> QED BY <1>0, <3>1, PcbDeHilo
  <2> QED BY <1>0, <1>3, <2>1, LugarTomar
<1>4. ASSUME AgregarEsperar PROVE Conserva /\ Iguales({})
  BY <1>0, <1>4, LugarQuieto DEF AgregarEsperar, Esperar, Ir, Hilos
<1>5. ASSUME NEW l \in {"susp_readyM_l", "unblock_l"}, NEW otra,
             AgregarElegir(l, otra)
      PROVE  Conserva /\ (Iguales({}) \/ Va(l, h))
  <2>1. CASE lista[l] # <<>> /\ Tomar(h, l, "ready_l")
    BY <1>3, <1>5, <2>1 DEF AgregarElegir
  <2>2. CASE Ir(h, otra) /\ UNCHANGED <<lista, pcb>>
    BY <1>0, <1>5, <2>2, LugarQuieto DEF AgregarElegir, Ir, Hilos
  <2> QED BY <1>5, <2>1, <2>2 DEF AgregarElegir
<1>6. ASSUME AgregarElegirNew PROVE Conserva /\ Va("newM_l", h)
  <2>1. pc[h] = "newM_l" /\ Tomar(h, "newM_l", "ready_l") /\ UNCHANGED varsSocket
    BY <1>6 DEF AgregarElegirNew
  <2>2. lista["newM_l"] # <<>>
    BY <1>0, <2>1, NuncaVacia, NoVaciaLista DEF ListasPcb
  <2> QED BY <1>3, <2>1, <2>2
<1>7. /\ Conserva
      /\ \/ Iguales({})
         \/ \E l \in {"susp_readyM_l", "unblock_l", "newM_l"} : Va(l, h)
  BY <1>4, <1>5, <1>6
<1>8. CabezaVigente'
  BY <1>1, CabezaIgual
<1> QED BY <1>1, <1>2, <1>7, <1>8, LugaresConserva, IngresadosIgual

\* The receiver delivers a finished PCB, or frees the CPU.
LEMMA LugaresRecibirComun ==
    ASSUME TipoKernel, LugaresInv, RecibirFinalizado \/ RecibirLiberarCpu
    PROVE  /\ LugaresInv' /\ Ausentes' = Ausentes /\ BloqueoIgual
           /\ Iguales({}) \/ Va("recibir_proceso_de_cpu", "finalizado_l")
<1> DEFINE h == "recibir_proceso_de_cpu"
<1>0. /\ lista = [l \in Listas |-> lista[l]] /\ pc = [g \in Hilos |-> pc[g]]
      /\ pcb = [g \in Hilos |-> pcb[g]] /\ sem = [x \in Semaforos |-> sem[x]]
      /\ h \in HilosPcb /\ h \in Hilos /\ "finalizado_l" \in ListasPcb
  BY DEF TipoKernel, TipoHilos, TipoListas, HilosPcb, Hilos, ListasPcb, Listas
<1>1. BloqueoIgual /\ UNCHANGED consola
  BY <1>0 DEF RecibirFinalizado, RecibirLiberarCpu, Entregar, Avisar, Dejar,
     Post, Ir, BloqueoIgual, En, Hilos, Listas, Semaforos, varsPlp
<1>2. CASE RecibirFinalizado
  <2>1. /\ pc[h] = "finalizado_l" /\ Dejar(h, "finalizado_l", "post_finalizado")
        /\ UNCHANGED varsSocket
    BY <1>2 DEF RecibirFinalizado, Entregar
  <2>2. pcb[h] \in PCB
    BY <1>0, <2>1, PcbDeHilo, CargaDe
  <2> QED BY <1>0, <1>1, <2>1, <2>2, LugarDejar, CabezaIgual, LugaresConserva,
             IngresadosIgual
<1>3. CASE RecibirLiberarCpu
  <2>1. Conserva /\ Iguales({})
    BY <1>0, <1>3, LugarQuieto DEF RecibirLiberarCpu, Avisar, Ir, Hilos
  <2> QED BY <1>1, <2>1, CabezaIgual, LugaresConserva, IngresadosIgual
<1> QED BY <1>2, <1>3

\* The processes that are nowhere are finitely many.
LEMMA AusentesFinito ==
    IsFiniteSet(Ausentes) /\ Cardinality(Ausentes) \in Nat
<1>1. Ausentes \subseteq Proceso
  BY DEF Ausentes, Ingresados
<1> QED BY <1>1, ProcesoFinito, FS_Subset, FS_CardinalityType

\* The receiver delivers a blocked PCB to block_l, or planificador_io, which is
\* removing the only one there, makes it disappear.
LEMMA LugaresRecibirBloqueado ==
    ASSUME TipoKernel, LugaresInv, RecibirBloqueado
    PROVE  /\ LugaresInv'
           /\ \/ Va("recibir_proceso_de_cpu", "block_l") /\ Ausentes' = Ausentes
              \/ \E p : Sale("recibir_proceso_de_cpu", p)
           /\ \/ Largo("block_l")' = Largo("block_l") + 1 /\ Ausentes' = Ausentes
              \/ /\ Largo("block_l")' = Largo("block_l")
                 /\ Cardinality(Ausentes)' = Cardinality(Ausentes) + 1
                 /\ Ausentes \subseteq Ausentes'
<1> DEFINE h == "recibir_proceso_de_cpu"
           q == lista["block_l"]
           x == pcb[h]
<1>0. /\ h \in HilosPcb /\ h \in Hilos /\ h \in Contenedores
      /\ "block_l" \in ListasPcb /\ "block_l" \in Listas
  BY DEF HilosPcb, Hilos, ListasPcb, Listas, Contenedores
<1>1. /\ pc[h] = "block_l" /\ pc' = [pc EXCEPT ![h] = "post_io_pendiente"]
      /\ pcb' = [pcb EXCEPT ![h] = NULO]
      /\ UNCHANGED varsSocket /\ UNCHANGED consola
      /\ \/ lista' = [lista EXCEPT !["block_l"] = Append(@, x)]
         \/ lista' = [lista EXCEPT !["block_l"] = q]
  BY DEF RecibirBloqueado, Ir, Agregados, varsPlp
<1>2. x \in PCB /\ x # NULO
  BY <1>0, <1>1, PcbDeHilo, CargaDe, NuloAssumption
<1>3. q \in Seq(PCB)
  BY <1>0, ListaDePcb
<1>4. /\ pc'["planificador_io"] = pc["planificador_io"]
      /\ pcb'["planificador_io"] = pcb["planificador_io"]
  BY <1>1 DEF TipoKernel, TipoHilos, Hilos
<1>5. CASE lista' = [lista EXCEPT !["block_l"] = Append(@, x)]
  <2>1. Conserva /\ Va(h, "block_l")
    <3>1. Dejar(h, "block_l", "post_io_pendiente")
      BY <1>1, <1>5 DEF Dejar, Ir
    <3> QED BY <1>0, <1>1, <1>2, <3>1, LugarDejar
  <2>2. lista'["block_l"] = Append(q, x)
    BY <1>0, <1>5 DEF TipoKernel, TipoListas
  <2>3. /\ Len(Append(q, x)) = Len(q) + 1
        /\ Append(q, x) # <<>> /\ (q # <<>> => Head(Append(q, x)) = Head(q))
    <3>1. /\ Len(q) \in Nat /\ Append(q, x) \in Seq(PCB)
          /\ Len(Append(q, x)) = Len(q) + 1 /\ Append(q, x) # <<>>
          /\ \A i \in 1 .. Len(q) : Append(q, x)[i] = q[i]
      BY <1>2, <1>3, AppendProperties, LenProperties, EmptySeq
    <3>2. q # <<>> => 1 \in 1 .. Len(q) /\ Head(q) = q[1]
      BY <1>3, CabezaTipo
    <3>3. Head(Append(q, x)) = Append(q, x)[1]
      BY <3>1, CabezaTipo
    <3> QED BY <3>1, <3>2, <3>3
  <2>4. CabezaVigente'
    BY <1>4, <2>2, <2>3 DEF CabezaVigente, LugaresInv
  <2>5. Largo("block_l")' = Largo("block_l") + 1
    BY <2>2, <2>3 DEF Largo
  <2> QED BY <1>1, <2>1, <2>4, <2>5, LugaresConserva, IngresadosIgual
<1>6. CASE lista' = [lista EXCEPT !["block_l"] = q]
  <2>1. \A l \in ListasPcb : lista'[l] = lista[l]
    BY <1>0, <1>6 DEF TipoKernel, TipoListas, ListasPcb
  <2>2. \A g \in HilosPcb \ {h} : pc'[g] = pc[g] /\ pcb'[g] = pcb[g]
    BY <1>1 DEF TipoKernel, TipoHilos, HilosPcb
  <2>3. PidDe(h) = {x.pid} /\ PidDe(h)' = {}
    BY <1>0, <1>1, <1>2 DEF PidDe, TipoKernel, TipoHilos
  <2>4. Sale(h, x.pid)
    BY <1>0, <1>1, <2>1, <2>2, <2>3, TieneCasos, TieneIgual
    DEF Sale, Iguales, Contenedores, varsSocket
  <2>5. Ajenos' /\ Presentes' = Presentes \ {x.pid} /\ x.pid \in Presentes
    BY <1>0, <2>4, AjenosSale DEF LugaresInv, Presentes, Sale
  <2>6. SinRepetidos' /\ CabezaVigente'
    BY <1>0, <1>4, <2>1 DEF LugaresInv, SinRepetidos, CabezaVigente
  <2>7. Ingresados' = Ingresados
    BY <1>1, IngresadosIgual
  <2>8. LugaresInv'
    BY <2>5, <2>6, <2>7 DEF LugaresInv
  <2>9. Ausentes' = Ausentes \cup {x.pid} /\ x.pid \notin Ausentes
    BY <2>5, <2>7 DEF LugaresInv, Ausentes
  <2>10. Cardinality(Ausentes)' = Cardinality(Ausentes) + 1
    <3>1. Cardinality(Ausentes \cup {x.pid}) = Cardinality(Ausentes) + 1
      BY <2>9, AusentesFinito, FS_AddElement
    <3> QED BY <2>9, <3>1
  <2>11. Largo("block_l")' = Largo("block_l")
    BY <1>0, <2>1 DEF Largo
  <2>12. Ausentes \subseteq Ausentes'
    BY <2>9
  <2> QED BY <2>4, <2>8, <2>10, <2>11, <2>12
<1> QED BY <1>1, <1>5, <1>6

-----------------------------------------------------------------------------
(* How many processes were lost.                                            *)

\* Every process lost leaves one s_io_pendiente too many behind; n processes are
\* where Tiene does not look (in interrumpidos_l, with SRT).
CuentaPerdidos(n) ==
    caida = "no" =>
       Largo("block_l") + Cardinality(Ausentes) =
          n + Valor("s_io_pendiente") + En("planificador_io", {"quitar"})
             + En("recibir_proceso_de_cpu", {"post_io_pendiente"})

\* The numbers that it speaks of.
LEMMA PerdidosNaturales ==
    ASSUME TipoKernel
    PROVE  /\ Largo("block_l") \in Nat /\ Cardinality(Ausentes) \in Nat
           /\ Valor("s_io_pendiente") \in Nat
           /\ \A h, E : En(h, E) \in Nat
BY NaturalesTipo, AusentesFinito DEF Naturales, Listas, Semaforos

\* A step that leaves the race on block_l alone.
LEMMA PerdidosIgual ==
    ASSUME NEW n \in Nat, CuentaPerdidos(n), caida = "no", BloqueoIgual,
           Ausentes' = Ausentes
    PROVE  CuentaPerdidos(n)'
<1>1. /\ Largo("block_l")' = Largo("block_l")
      /\ Valor("s_io_pendiente")' = Valor("s_io_pendiente")
      /\ En("planificador_io", {"quitar"})' = En("planificador_io", {"quitar"})
      /\ En("recibir_proceso_de_cpu", {"post_io_pendiente"})' =
            En("recibir_proceso_de_cpu", {"post_io_pendiente"})
  BY DEF BloqueoIgual, Largo, Valor, En
<1>2. Cardinality(Ausentes)' = Cardinality(Ausentes)
  OBVIOUS
<1> QED BY ONLY CuentaPerdidos(n), caida = "no", <1>1, <1>2 DEF CuentaPerdidos

\* planificador_io waits for s_io_pendiente and takes, or finds nothing and dies.
LEMMA PerdidosPlanificadorIo ==
    ASSUME TipoKernel, CuentasKernel, NEW n \in Nat, CuentaPerdidos(n),
           caida = "no",
           PlanificadorIo, UNCHANGED varsSocket, Ausentes' = Ausentes
    PROVE  CuentaPerdidos(n)'
<1> DEFINE a == Largo("block_l")
           v == Valor("s_io_pendiente")
           t == En("planificador_io", {"quitar"})
           r == En("recibir_proceso_de_cpu", {"post_io_pendiente"})
<1>1. a \in Nat /\ v \in Nat /\ t \in Nat /\ r \in Nat
      /\ Cardinality(Ausentes) \in Nat
  BY PerdidosNaturales
<1>2. Cardinality(Ausentes)' = Cardinality(Ausentes)
  OBVIOUS
<1>3. CASE PlanificadorIoTomar /\ lista["block_l"] # <<>>
  <2>1. Pasa("planificador_io", "inicio", "quitar") /\ Resta("s_io_pendiente")
        /\ UNCHANGED lista
    BY <1>3, IrPasa, WaitResta DEF PlanificadorIoTomar, Hilos, Semaforos
  <2>2. a' = a /\ v' = v - 1 /\ t = 0 /\ t' = 1 /\ r' = r
    BY <2>1 DEF Pasa, Resta, Largo, Hilos, Semaforos
  <2> HIDE DEF a, v, t, r
  <2> QED BY ONLY CuentaPerdidos(n), caida = "no", <1>1, <1>2, <2>2
          DEF CuentaPerdidos, a, v, t, r
<1>4. CASE PlanificadorIoTomar /\ lista["block_l"] = <<>>
  BY <1>4 DEF PlanificadorIoTomar, CuentaPerdidos
<1>5. CASE PlanificadorIoDisparar
  <2>1. /\ pc["planificador_io"] = "quitar"
        /\ Pasa("planificador_io", "quitar", "block_pend_l")
        /\ UNCHANGED sem
    BY <1>5, IrPasa DEF PlanificadorIoDisparar, Hilos
  <2>2. Decrece("block_l")
    BY <1>5, <2>1, NuncaVacia, TailDecrece DEF PlanificadorIoDisparar, Listas
  <2>3. a' = a - 1 /\ v' = v /\ t = 1 /\ t' = 0 /\ r' = r
    BY <2>1, <2>2 DEF Pasa, Decrece, Valor, Hilos, Listas
  <2> HIDE DEF a, v, t, r
  <2> QED BY ONLY CuentaPerdidos(n), caida = "no", <1>1, <1>2, <2>3
          DEF CuentaPerdidos, a, v, t, r
<1>6. CASE PlanificadorIoEntregar \/ PlanificadorIoAvisar
  <2>1. CASE PlanificadorIoEntregar
    <3>1. /\ Pasa("planificador_io", "block_pend_l", "post")
          /\ Crece("block_pend_l") /\ SemaforosIguales
      BY <2>1, CargaDe, EntregarCuenta DEF PlanificadorIoEntregar, Hilos, Listas
    <3>2. a' = a /\ v' = v /\ t = 0 /\ t' = 0 /\ r' = r
      BY <3>1 DEF Pasa, Crece, SemaforosIguales, Hilos, Listas, Semaforos
    <3> HIDE DEF a, v, t, r
    <3> QED BY ONLY CuentaPerdidos(n), caida = "no", <1>1, <1>2, <3>2
            DEF CuentaPerdidos, a, v, t, r
  <2>2. CASE PlanificadorIoAvisar
    <3>1. /\ Pasa("planificador_io", "post", "inicio")
          /\ Suma("s_io") /\ ListasIguales
      BY <2>2, AvisarCuenta DEF PlanificadorIoAvisar, Hilos, Semaforos
    <3>2. a' = a /\ v' = v /\ t = 0 /\ t' = 0 /\ r' = r
      BY <3>1 DEF Pasa, Suma, ListasIguales, Hilos, Listas, Semaforos
    <3> HIDE DEF a, v, t, r
    <3> QED BY ONLY CuentaPerdidos(n), caida = "no", <1>1, <1>2, <3>2
            DEF CuentaPerdidos, a, v, t, r
  <2> QED BY <1>6, <2>1, <2>2
<1> QED BY <1>3, <1>4, <1>5, <1>6 DEF PlanificadorIo

\* The threads that both schedulers share.
LEMMA PerdidosNextKernel ==
    ASSUME TipoKernel, CuentasKernel, LugaresInv, NEW n \in Nat,
           CuentaPerdidos(n), caida = "no", NextKernel, UNCHANGED varsSocket
    PROVE  CuentaPerdidos(n)'
<1>1. Ausentes' = Ausentes
  BY LugaresNextKernel
<1>2. CASE PlanificadorIo
  BY <1>1, <1>2, PerdidosPlanificadorIo
<1>3. CASE ~PlanificadorIo
  BY <1>1, <1>3, BloqueoAjeno, PerdidosIgual
<1> QED BY <1>2, <1>3

\* A blocked PCB is delivered, or lost, before it is announced.
LEMMA PerdidosRecibirBloqueado ==
    ASSUME TipoKernel, LugaresInv, NEW n \in Nat, CuentaPerdidos(n),
           caida = "no", RecibirBloqueado
    PROVE  CuentaPerdidos(n)'
<1> DEFINE a == Largo("block_l")
           k == Cardinality(Ausentes)
           v == Valor("s_io_pendiente")
           t == En("planificador_io", {"quitar"})
           r == En("recibir_proceso_de_cpu", {"post_io_pendiente"})
<1>1. a \in Nat /\ v \in Nat /\ t \in Nat /\ r \in Nat /\ k \in Nat
  BY PerdidosNaturales
<1>2. (a' = a + 1 /\ k' = k) \/ (a' = a /\ k' = k + 1)
  BY LugaresRecibirBloqueado
<1>3. v' = v /\ t' = t /\ r = 0 /\ r' = 1
  BY RecibirBloqueadoCuenta DEF Pasa, SemaforosIguales, Hilos, Semaforos
<1> HIDE DEF a, k, v, t, r
<1> QED BY ONLY CuentaPerdidos(n), caida = "no", <1>1, <1>2, <1>3
        DEF CuentaPerdidos, a, k, v, t, r

\* The post of s_io_pendiente announces it.
LEMMA PerdidosAvisar ==
    ASSUME TipoKernel, NEW n \in Nat, CuentaPerdidos(n), caida = "no", NEW e,
           e # "post_io_pendiente",
           Avisar("recibir_proceso_de_cpu", "post_io_pendiente",
                  "s_io_pendiente", e),
           UNCHANGED varsSocket, Ausentes' = Ausentes
    PROVE  CuentaPerdidos(n)'
<1> DEFINE a == Largo("block_l")
           v == Valor("s_io_pendiente")
           t == En("planificador_io", {"quitar"})
           r == En("recibir_proceso_de_cpu", {"post_io_pendiente"})
<1>1. a \in Nat /\ v \in Nat /\ t \in Nat /\ r \in Nat
      /\ Cardinality(Ausentes) \in Nat
  BY PerdidosNaturales
<1>2. Cardinality(Ausentes)' = Cardinality(Ausentes)
  OBVIOUS
<1>3. /\ Pasa("recibir_proceso_de_cpu", "post_io_pendiente", e)
      /\ Suma("s_io_pendiente") /\ ListasIguales
  BY AvisarCuenta DEF Hilos, Semaforos
<1>4. a' = a /\ v' = v + 1 /\ t' = t /\ r = 1 /\ r' = 0
  BY <1>3 DEF Pasa, Suma, ListasIguales, Hilos, Listas, Semaforos
<1> HIDE DEF a, v, t, r
<1> QED BY ONLY CuentaPerdidos(n), caida = "no", <1>1, <1>2, <1>4
        DEF CuentaPerdidos, a, v, t, r

-----------------------------------------------------------------------------
(* What the consoles are told.                                              *)

\* A console was told, or is about to be, only if its process is in exit_l.
AvisoInv ==
    \A p \in Proceso :
       (consola[p] = "finalizada" \/ s[p] > 0) =>
          /\ p \in Tiene("exit_l")
          /\ consola[p] = "finalizada" => s[p] = 0
          /\ s[p] <= 1

\* Nobody tells anything.
LEMMA AvisoIgual ==
    ASSUME AvisoInv, UNCHANGED <<consola, s>>,
           lista'["exit_l"] = lista["exit_l"]
    PROVE  AvisoInv'
<1>1. Tiene("exit_l")' = Tiene("exit_l")
  BY TieneIgual DEF ListasPcb, Listas
<1> QED BY <1>1 DEF AvisoInv, Proceso

\* The threads that both schedulers share: only finalizar_procesos posts s, of
\* a process that was not in exit_l, and puts it there.
LEMMA AvisoNextKernel ==
    ASSUME TipoKernel, CuentasKernel, LugaresInv, AvisoInv, NextKernel,
           UNCHANGED varsSocket
    PROVE  AvisoInv'
<1>0. /\ lista = [l \in Listas |-> lista[l]]
      /\ s \in [Proceso -> Nat]
  BY DEF TipoKernel, TipoListas, TipoPlp
<1> USE DEF varsPlp
<1>1. ASSUME NEW p \in Proceso, GestionarComunicacion(p)
      PROVE  AvisoInv'
  <2>1. Tiene("exit_l")' = Tiene("exit_l")
    BY <1>0, <1>1, TieneIgual DEF GestionarComunicacion, AceptarConsola,
       AgregarANew, RegistrarComunicacion, AvisarNew, AvisarConsola,
       ListasPcb, Listas
  <2>2. CASE AvisarConsola(p)
    <3>1. /\ s[p] > 0 /\ s' = [s EXCEPT ![p] = s[p] - 1]
          /\ consola' = [consola EXCEPT ![p] = "finalizada"]
      BY <2>2 DEF AvisarConsola
    <3>2. p \in Tiene("exit_l") /\ s[p] <= 1 /\ s[p] \in Nat
      BY <1>0, <3>1 DEF AvisoInv
    <3>3. s[p] - 1 = 0
      BY <3>1, <3>2
    <3> QED BY <1>0, <2>1, <3>1, <3>2, <3>3
            DEF AvisoInv, TipoKernel, TipoPlp, Proceso
  <2>3. CASE ~AvisarConsola(p)
    <3>1. /\ UNCHANGED s
          /\ \E e : e # "finalizada" /\ consola' = [consola EXCEPT ![p] = e]
      BY <1>1, <2>3 DEF GestionarComunicacion, AceptarConsola, AgregarANew,
         RegistrarComunicacion, AvisarNew
    <3>2. \A q \in Proceso : consola'[q] = "finalizada" =>
                                consola[q] = "finalizada"
      BY <3>1 DEF TipoKernel, TipoPlp
    <3> QED BY <2>1, <3>1, <3>2 DEF AvisoInv, Proceso
  <2> QED BY <2>2, <2>3
<1>2. CASE PasarAReady
  BY <1>0, <1>2, AvisoIgual DEF PasarAReady, PasarEsperar, PasarInicializar,
     PasarEntregar, PasarAvisar, Esperar, Avisar, Entregar, Tomar, Dejar, Listas
<1>3. CASE FinalizarProcesos
  <2>1. CASE DespertarComunicacion
    <3> DEFINE h == "finalizar_procesos"
               p == pcb[h].pid
    <3>0. h \in Hilos /\ h \in HilosPcb /\ h \in Contenedores
          /\ "exit_l" \in ListasPcb /\ "exit_l" \in Contenedores
          /\ h # "exit_l"
      BY DEF Hilos, HilosPcb, Contenedores, ListasPcb, Listas
    <3>1. pc[h] = "despertar" /\ Dejar(h, "exit_l", "post") /\ UNCHANGED consola
          /\ s' = [s EXCEPT ![p] = s[p] + 1]
      BY <2>1 DEF DespertarComunicacion
    <3>2. pcb[h] \in PCB /\ p \in Proceso
      BY <3>0, <3>1, PcbDeHilo, CargaDe
    <3>3. Mueve(h, "exit_l", p)
      BY <3>0, <3>1, <3>2, LugarDejar
    <3>4. /\ p \notin Tiene("exit_l")
          /\ Tiene("exit_l")' = Tiene("exit_l") \cup {p}
      BY <3>0, <3>3 DEF Mueve, LugaresInv, Ajenos
    <3>5. consola[p] # "finalizada" /\ ~(s[p] > 0) /\ s[p] \in Nat
      BY <1>0, <3>2, <3>4 DEF AvisoInv
    <3>6. s[p] + 1 = 1
      BY <3>5
    <3> HIDE DEF p
    <3> QED BY <1>0, <3>1, <3>2, <3>4, <3>5, <3>6 DEF AvisoInv, Proceso
  <2>2. CASE FinalizarProcesos /\ ~DespertarComunicacion
    BY <1>0, <2>2, AvisoIgual DEF FinalizarProcesos, FinalizarEnMemoria,
       BuscarComunicacion, QuitarComunicacion, LiberarGrado, Avisar, Tomar,
       Listas
  <2> QED BY <1>3, <2>1, <2>2
<1>4. CASE SuspenderProceso
  BY <1>0, <1>4, AvisoIgual DEF SuspenderProceso, SuspenderTomar,
     SuspenderMarcar, SuspenderEstado, SuspenderEnviar, SuspenderLiberar,
     Avisar, Tomar, Listas
<1>5. CASE AvisarProcesoSuspReady
  BY <1>0, <1>5, AvisoIgual DEF AvisarProcesoSuspReady, ReanudarEsperar,
     ReanudarTomar, ReanudarEntregar, ReanudarAvisar, Esperar, Avisar,
     Entregar, Tomar, Dejar, Listas
<1>6. CASE PlanificadorIo
  BY <1>0, <1>6, AvisoIgual DEF PlanificadorIo, PlanificadorIoTomar,
     PlanificadorIoDisparar, PlanificadorIoEntregar, PlanificadorIoAvisar,
     Avisar, Entregar, Dejar, Listas
<1>7. CASE Io
  BY <1>0, <1>7, AvisoIgual DEF Io, IoTomar, IoDespertar, IoCancelar,
     IoDesbloquear, IoAvisarReady, IoDesmarcar, IoSuspReady,
     IoAvisarSuspReady, Avisar, Entregar, Tomar, Dejar, Listas
<1>8. CASE \E x \in PCB : Suspencion(x)
  BY <1>0, <1>8, AvisoIgual DEF Suspencion, ContadorDespertar, ContadorAgregar,
     ContadorAvisar, Listas
<1> QED BY <1>1, <1>2, <1>3, <1>4, <1>5, <1>6, <1>7, <1>8 DEF NextKernel

\* A process of exit_l has executed its EXIT.
LEMMA AvisoDeInv ==
    ASSUME TipoKernel, AvisoInv
    PROVE  AvisoTrasExit
<1> SUFFICES ASSUME NEW p \in Proceso, consola[p] = "finalizada" \/ s[p] > 0
             PROVE  /\ \E i \in DOMAIN lista["exit_l"] :
                          /\ lista["exit_l"][i].pid = p
                          /\ Programa[p][lista["exit_l"][i].pc] = "EXIT"
                    /\ consola[p] = "finalizada" => s[p] = 0
                    /\ s[p] <= 1
  BY DEF AvisoTrasExit
<1>1. p \in Pids(lista["exit_l"])
  BY TieneCasos DEF AvisoInv, ListasPcb, Listas
<1>2. PICK i \in DOMAIN lista["exit_l"] : lista["exit_l"][i].pid = p
  BY <1>1 DEF Pids
<1>3. lista["exit_l"] \in Seq(PCBFin)
  BY DEF TipoKernel, TipoListas, Cabe, Listas
<1>4. lista["exit_l"][i] \in PCBFin
  BY <1>2, <1>3
<1>5. Programa[p][lista["exit_l"][i].pc] = "EXIT"
  BY <1>2, <1>4 DEF PCBFin, PCBViva
<1> QED BY <1>2, <1>5 DEF AvisoInv

-----------------------------------------------------------------------------
(* What Memoria is sent.                                                    *)

\* Memoria knows a process from the moment it leaves new_l.
MemIniciada ==
    \A p \in Proceso :
       mem[p] = "ninguno" <=> p \notin Ingresados \/ p \in Tiene("new_l")

\* A timer, and what it hands to suspender_proceso, is of a process that
\* Memoria knows.
TimerIniciado ==
    /\ \A x \in PCB : contador[x] # "no" => mem[x.pid] # "ninguno"
    /\ \A i \in DOMAIN lista["susp_block_buffer_l"] :
          mem[lista["susp_block_buffer_l"][i].pid] # "ninguno"
    /\ pcb["suspender_proceso"] # NULO =>
          mem[pcb["suspender_proceso"].pid] # "ninguno"

MensajesInv == MemIniciada /\ TimerIniciado

\* INICIALIZAR_PROCESO is the first message about a process and is sent once.
MensajesPaso ==
    \A p \in Proceso :
       mem'[p] # mem[p] =>
          (mem'[p] = "INICIALIZAR_PROCESO" <=> mem[p] = "ninguno")

\* The message list, the timers and who waits for suspension do not change.
SuspIgual ==
    /\ UNCHANGED contador
    /\ lista'["susp_block_buffer_l"] = lista["susp_block_buffer_l"]
    /\ pcb'["suspender_proceso"] = pcb["suspender_proceso"]

\* A step that sends nothing and starts no timer.
LEMMA MensajesIgual ==
    ASSUME MensajesInv, SuspIgual, UNCHANGED <<mem, consola>>,
           lista'["new_l"] = lista["new_l"]
    PROVE  MensajesInv' /\ MensajesPaso
<1>1. Tiene("new_l")' = Tiene("new_l") /\ Ingresados' = Ingresados
  BY TieneIgual, IngresadosIgual DEF ListasPcb, Listas
<1>2. MemIniciada'
  BY <1>1 DEF MensajesInv, MemIniciada, Proceso
<1>3. TimerIniciado'
  BY DEF MensajesInv, TimerIniciado, SuspIgual, PCB
<1> QED BY <1>2, <1>3 DEF MensajesInv, MensajesPaso

\* The timers of a step that sends nothing.
LEMMA MensajesTimer ==
    ASSUME MensajesInv, UNCHANGED <<mem, consola>>,
           lista'["new_l"] = lista["new_l"], TimerIniciado'
    PROVE  MensajesInv' /\ MensajesPaso
<1>1. Tiene("new_l")' = Tiene("new_l") /\ Ingresados' = Ingresados
  BY TieneIgual, IngresadosIgual DEF ListasPcb, Listas
<1>2. MemIniciada'
  BY <1>1 DEF MensajesInv, MemIniciada, Proceso
<1> QED BY <1>2 DEF MensajesInv, MensajesPaso

\* A message about a process that Memoria knows, which is not the first.
LEMMA MensajesOtro ==
    ASSUME TipoKernel, MensajesInv, SuspIgual, UNCHANGED consola,
           lista'["new_l"] = lista["new_l"],
           NEW p \in Proceso, mem[p] # "ninguno",
           NEW m \in {"SUSPENDER_PROCESO", "FINALIZAR_PROCESO"},
           mem' = [mem EXCEPT ![p] = m]
    PROVE  MensajesInv' /\ MensajesPaso
<1>1. Tiene("new_l")' = Tiene("new_l") /\ Ingresados' = Ingresados
  BY TieneIgual, IngresadosIgual DEF ListasPcb, Listas
<1>2. \A q \in Proceso : /\ q # p => mem'[q] = mem[q]
                         /\ mem'[q] = "ninguno" <=> mem[q] = "ninguno"
  BY DEF TipoKernel, TipoMemoria
<1>3. mem'[p] = m
  BY DEF TipoKernel, TipoMemoria
<1>4. MemIniciada'
  BY <1>1, <1>2 DEF MensajesInv, MemIniciada, Proceso
<1>5. \A q : mem[q] # "ninguno" => mem'[q] # "ninguno"
  BY <1>3, <1>2 DEF TipoKernel, TipoMemoria
<1>6. TimerIniciado'
  BY <1>5 DEF MensajesInv, TimerIniciado, SuspIgual, PCB
<1> QED BY <1>2, <1>3, <1>4, <1>6 DEF MensajesInv, MensajesPaso

\* The console threads: a process that enters is in new_l, and Memoria has
\* been told nothing of it.
LEMMA MensajesGestionar ==
    ASSUME TipoKernel, LugaresInv, MensajesInv,
           NEW p \in Proceso, GestionarComunicacion(p), UNCHANGED varsSocket
    PROVE  MensajesInv' /\ MensajesPaso
<1> USE DEF varsIo, varsMemoria
<1>0. lista = [l \in Listas |-> lista[l]] /\ "new_l" \in ListasPcb
  BY DEF TipoKernel, TipoListas, ListasPcb, Listas
<1>1. /\ SuspIgual /\ UNCHANGED mem
  BY <1>0 DEF GestionarComunicacion, AceptarConsola, AgregarANew,
     RegistrarComunicacion, AvisarNew, AvisarConsola, SuspIgual, Listas
<1>2. TimerIniciado'
  BY <1>1 DEF MensajesInv, TimerIniciado, SuspIgual, PCB
<1>3. CASE AgregarANew(p)
  <2>1. p \notin Ingresados /\ Ingresados' = Ingresados \cup {p}
    BY <1>3 DEF AgregarANew, Ingresados, TipoKernel, TipoPlp, Proceso
  <2>2. Tiene("new_l")' = Tiene("new_l") \cup {p}
    <3> DEFINE q == lista["new_l"]
               x == [pid |-> p, pc |-> 0]
    <3>1. lista'["new_l"] = Append(q, x) /\ q \in Seq(PCB)
      BY <1>0, <1>3, ListaDePcb DEF AgregarANew, Listas
    <3>2. x \in PCB /\ x.pid = p
      BY ProgramaAssumption DEF PCB
    <3>3. Pids(Append(q, x)) = Pids(q) \cup {x.pid}
      BY ONLY <3>1, <3>2, PidsAppend
    <3> HIDE DEF q, x
    <3> QED BY <1>0, <3>1, <3>2, <3>3, TieneCasos DEF q
  <2>3. MemIniciada'
    BY <1>1, <2>1, <2>2 DEF MensajesInv, MemIniciada, Proceso
  <2> QED BY <1>1, <1>2, <2>3 DEF MensajesInv, MensajesPaso
<1>4. CASE ~AgregarANew(p)
  <2>1. UNCHANGED lista
    BY <1>4 DEF GestionarComunicacion, AceptarConsola, RegistrarComunicacion,
       AvisarNew, AvisarConsola
  <2>2. Ingresados' = Ingresados
    <3>1. /\ consola' = [consola EXCEPT ![p] = consola'[p]]
          /\ consola[p] \in {"sin_conectar", "conectada"} <=>
                consola'[p] \in {"sin_conectar", "conectada"}
      BY <1>4 DEF GestionarComunicacion, AceptarConsola, RegistrarComunicacion,
         AvisarNew, AvisarConsola, TipoKernel, TipoPlp
    <3> QED BY <3>1 DEF Ingresados, TipoKernel, TipoPlp, Proceso
  <2>3. Tiene("new_l")' = Tiene("new_l")
    BY <1>0, <2>1, TieneIgual
  <2>4. MemIniciada'
    BY <1>1, <2>2, <2>3 DEF MensajesInv, MemIniciada, Proceso
  <2> QED BY <1>1, <1>2, <2>4 DEF MensajesInv, MensajesPaso
<1> QED BY <1>3, <1>4

\* pasar_a_ready sends INICIALIZAR_PROCESO of the process it takes from new_l.
LEMMA MensajesPasar ==
    ASSUME TipoKernel, CuentasKernel, LugaresInv, MensajesInv, PasarAReady,
           UNCHANGED varsSocket
    PROVE  MensajesInv' /\ MensajesPaso
<1> USE DEF varsPlp, varsIo, varsMemoria
<1>0. /\ lista = [l \in Listas |-> lista[l]] /\ pcb = [h \in Hilos |-> pcb[h]]
  BY DEF TipoKernel, TipoListas, TipoHilos
<1>1. CASE PasarInicializar
  <2> DEFINE h == "pasar_a_ready"
             p == Head(lista["new_l"]).pid
  <2>0. /\ h \in HilosPcb /\ h \in Hilos /\ h \in Contenedores
        /\ "new_l" \in ListasPcb /\ "new_l" \in Listas
        /\ "new_l" \in Contenedores
    BY DEF HilosPcb, Hilos, ListasPcb, Listas, Contenedores
  <2>1. /\ pc[h] = "s_grado" /\ Tomar(h, "new_l", "newM_l")
        /\ mem' = [mem EXCEPT ![p] = "INICIALIZAR_PROCESO"]
        /\ UNCHANGED <<consola, contador>>
    BY <1>1 DEF PasarInicializar
  <2>2. Largo("new_l") > 0 /\ lista["new_l"] # <<>>
    BY <2>0, <2>1, NuncaVacia, NoVaciaLista
  <2>3. pcb[h] = NULO
    BY <2>0, <2>1, PcbDeHilo, CargaDe
  <2>4. Mueve("new_l", h, p)
    BY <2>0, <2>1, <2>2, <2>3, LugarTomar
  <2>5. p \in Proceso /\ p \in Ingresados
    BY <2>0, <2>2, <2>4, CabezaLista DEF Mueve, LugaresInv, Presentes
  <2>6. SuspIgual
    BY <1>0, <2>1 DEF SuspIgual, Tomar, Hilos, Listas
  <2>7. /\ mem'[p] = "INICIALIZAR_PROCESO" /\ mem[p] = "ninguno"
        /\ \A q \in Proceso \ {p} : mem'[q] = mem[q]
    BY <2>1, <2>4, <2>5
    DEF Mueve, MensajesInv, MemIniciada, TipoKernel, TipoMemoria
  <2>8. Ingresados' = Ingresados
    BY <2>1, IngresadosIgual
  <2> HIDE DEF p
  <2>9. MemIniciada'
    BY <2>4, <2>5, <2>7, <2>8 DEF Mueve, MensajesInv, MemIniciada, Proceso
  <2>10. \A q : mem[q] # "ninguno" => mem'[q] # "ninguno"
    BY <2>1, <2>7 DEF TipoKernel, TipoMemoria
  <2>11. TimerIniciado'
    BY <2>6, <2>10 DEF MensajesInv, TimerIniciado, SuspIgual, PCB
  <2> QED BY <2>7, <2>9, <2>11 DEF MensajesInv, MensajesPaso
<1>2. CASE PasarEsperar \/ PasarEntregar \/ PasarAvisar
  BY <1>0, <1>2, MensajesIgual DEF PasarEsperar, PasarEntregar, PasarAvisar,
     Esperar, Avisar, Entregar, Dejar, SuspIgual, Hilos, Listas
<1> QED BY <1>1, <1>2 DEF PasarAReady

\* A process of another container than new_l is one that Memoria knows.
LEMMA MemoriaConoce ==
    ASSUME LugaresInv, MensajesInv, NEW c \in Contenedores \ {"new_l"},
           NEW p \in Tiene(c)
    PROVE  p \in Proceso /\ mem[p] # "ninguno"
<1>1. p \in Ingresados /\ p \in Proceso
  BY DEF LugaresInv, Presentes, Ingresados
<1>2. p \notin Tiene("new_l")
  BY DEF LugaresInv, Ajenos, Contenedores, ListasPcb, Listas
<1> QED BY <1>1, <1>2 DEF MensajesInv, MemIniciada

\* finalizar_procesos sends FINALIZAR_PROCESO of a process of finalizado_l.
LEMMA MensajesFinalizar ==
    ASSUME TipoKernel, CuentasKernel, LugaresInv, MensajesInv,
           FinalizarProcesos
    PROVE  MensajesInv' /\ MensajesPaso
<1> USE DEF varsPlp, varsIo, varsMemoria
<1>0. /\ lista = [l \in Listas |-> lista[l]] /\ pcb = [h \in Hilos |-> pcb[h]]
  BY DEF TipoKernel, TipoListas, TipoHilos
<1>1. CASE FinalizarEnMemoria
  <2> DEFINE l == "finalizado_l"
             p == Head(lista[l]).pid
  <2>0. l \in ListasPcb /\ l \in Listas /\ l \in Contenedores \ {"new_l"}
    BY DEF ListasPcb, Listas, Contenedores
  <2>1. /\ sem["s_proceso_finalizado"] > 0
        /\ Tomar("finalizar_procesos", l, "buscar")
        /\ mem' = [mem EXCEPT ![p] = "FINALIZAR_PROCESO"]
        /\ UNCHANGED <<consola, contador>>
    BY <1>1 DEF FinalizarEnMemoria, Wait
  <2>2. lista[l] \in Seq(PCB) /\ lista[l] # <<>> /\ SinRepetir(lista[l])
    BY <2>0, <2>1, NuncaVacia, NoVaciaLista, ListaDePcb
    DEF LugaresInv, SinRepetidos
  <2>3. p \in Tiene(l)
    <3>1. p \in Pids(lista[l])
      BY ONLY <2>2, PidsTail
    <3> QED BY <2>0, <3>1, TieneCasos
  <2>4. SuspIgual /\ lista'["new_l"] = lista["new_l"]
    BY <1>0, <2>1 DEF SuspIgual, Tomar, Hilos, Listas
  <2> HIDE DEF p
  <2> QED BY <2>0, <2>1, <2>3, <2>4, MemoriaConoce, MensajesOtro
<1>2. CASE FinalizarProcesos /\ ~FinalizarEnMemoria
  BY <1>0, <1>2, MensajesIgual DEF FinalizarProcesos, BuscarComunicacion,
     QuitarComunicacion, DespertarComunicacion, LiberarGrado, Avisar, Dejar,
     SuspIgual, Hilos, Listas
<1> QED BY <1>1, <1>2

\* suspender_proceso sends SUSPENDER_PROCESO of a process that a timer gave it.
LEMMA MensajesSuspender ==
    ASSUME TipoKernel, CuentasKernel, LugaresInv, MensajesInv,
           SuspenderProceso
    PROVE  MensajesInv' /\ MensajesPaso
<1> DEFINE h == "suspender_proceso"
           l == "susp_block_buffer_l"
<1> USE DEF varsPlp, varsIo, varsMemoria
<1>0. /\ lista = [k \in Listas |-> lista[k]] /\ pcb = [g \in Hilos |-> pcb[g]]
      /\ h \in Hilos /\ l \in Listas
  BY DEF TipoKernel, TipoListas, TipoHilos, Hilos, Listas
<1>1. CASE SuspenderTomar
  <2>1. /\ sem["s_proceso_susp"] > 0 /\ Tomar(h, l, "susp_block_l")
        /\ UNCHANGED <<mem, consola, contador>>
    BY <1>1 DEF SuspenderTomar, Wait
  <2>2. lista[l] \in Seq(PCB) /\ lista[l] # <<>>
    BY <1>0, <2>1, NuncaVacia, NoVaciaLista DEF TipoKernel, TipoListas
  <2>3. /\ Head(lista[l]) = lista[l][1] /\ 1 \in DOMAIN lista[l]
        /\ \A i \in DOMAIN Tail(lista[l]) :
              i + 1 \in DOMAIN lista[l] /\ Tail(lista[l])[i] = lista[l][i + 1]
    BY <2>2, HeadTailProperties, LenProperties, EmptySeq
  <2>4. pcb'[h] = Head(lista[l]) /\ lista'[l] = Tail(lista[l])
        /\ lista'["new_l"] = lista["new_l"]
    BY <1>0, <2>1 DEF Tomar, Listas
  <2>5. TimerIniciado'
    BY <2>1, <2>3, <2>4 DEF MensajesInv, TimerIniciado, PCB
  <2> QED BY <2>1, <2>4, <2>5, MensajesTimer
<1>2. CASE SuspenderMarcar \/ SuspenderEstado \/ SuspenderLiberar
  BY <1>0, <1>2, MensajesIgual DEF SuspenderMarcar, SuspenderEstado,
     SuspenderLiberar, Avisar, SuspIgual, Listas
<1>3. CASE SuspenderEnviar
  <2> DEFINE p == pcb[h].pid
  <2>1. /\ pc[h] = "enviar" /\ UNCHANGED <<lista, consola, contador>>
        /\ mem' = [mem EXCEPT ![p] = "SUSPENDER_PROCESO"]
        /\ pcb'[h] = NULO
    BY <1>0, <1>3 DEF SuspenderEnviar
  <2>2. pcb[h] # NULO /\ p \in Proceso
    BY <1>0, <2>1, PcbDeHilo, CargaDe
  <2>3. mem[p] # "ninguno"
    BY <2>2 DEF MensajesInv, TimerIniciado
  <2>4. Tiene("new_l")' = Tiene("new_l") /\ Ingresados' = Ingresados
    BY <2>1, TieneIgual, IngresadosIgual DEF ListasPcb, Listas
  <2>5. /\ mem'[p] = "SUSPENDER_PROCESO"
        /\ \A q \in Proceso \ {p} : mem'[q] = mem[q]
        /\ \A q : mem[q] # "ninguno" => mem'[q] # "ninguno"
    BY <2>1, <2>2 DEF TipoKernel, TipoMemoria
  <2> HIDE DEF p
  <2>6. MemIniciada'
    BY <2>2, <2>3, <2>4, <2>5 DEF MensajesInv, MemIniciada, Proceso
  <2>7. TimerIniciado'
    BY <2>1, <2>5 DEF MensajesInv, TimerIniciado, PCB
  <2>8. MensajesPaso
    BY <2>2, <2>3, <2>5 DEF MensajesPaso
  <2> QED BY <2>6, <2>7, <2>8 DEF MensajesInv
<1> QED BY <1>1, <1>2, <1>3 DEF SuspenderProceso

\* planificador_io starts a timer for a process that was in block_l.
LEMMA MensajesPlanificadorIo ==
    ASSUME TipoKernel, CuentasKernel, LugaresInv, MensajesInv, PlanificadorIo
    PROVE  MensajesInv' /\ MensajesPaso
<1> DEFINE h == "planificador_io"
<1> USE DEF varsPlp, varsIo, varsMemoria
<1>0. /\ lista = [k \in Listas |-> lista[k]] /\ pcb = [g \in Hilos |-> pcb[g]]
      /\ h \in Hilos
  BY DEF TipoKernel, TipoListas, TipoHilos, Hilos
<1>1. CASE PlanificadorIoDisparar
  <2> DEFINE x == pcb[h]
             q == lista["block_l"]
  <2>0. "block_l" \in ListasPcb /\ "block_l" \in Contenedores \ {"new_l"}
    BY DEF ListasPcb, Listas, Contenedores
  <2>1. /\ pc[h] = "quitar" /\ UNCHANGED <<mem, consola, pcb>>
        /\ contador' = [contador EXCEPT ![x] = "durmiendo"]
        /\ lista'["new_l"] = lista["new_l"]
        /\ lista'["susp_block_buffer_l"] = lista["susp_block_buffer_l"]
    BY <1>0, <1>1 DEF PlanificadorIoDisparar, Listas
  <2>2. q \in Seq(PCB) /\ q # <<>> /\ SinRepetir(q) /\ Head(q) = x
    BY <2>0, <2>1, ListaDePcb DEF LugaresInv, SinRepetidos, CabezaVigente
  <2>3. x.pid \in Tiene("block_l")
    <3>1. x.pid \in Pids(q)
      BY ONLY <2>2, PidsTail
    <3> QED BY <2>0, <3>1, TieneCasos
  <2>4. mem[x.pid] # "ninguno"
    BY <2>0, <2>3, MemoriaConoce
  <2>5. TimerIniciado'
    <3>1. \A y \in PCB : contador'[y] # "no" => y = x \/ contador[y] # "no"
      BY <2>1 DEF TipoKernel, TipoIo
    <3> HIDE DEF x
    <3> QED BY <2>1, <2>4, <3>1 DEF MensajesInv, TimerIniciado, PCB
  <2> QED BY <2>1, <2>5, MensajesTimer
<1>2. CASE PlanificadorIo /\ ~PlanificadorIoDisparar
  BY <1>0, <1>2, MensajesIgual DEF PlanificadorIo, PlanificadorIoTomar,
     PlanificadorIoEntregar, PlanificadorIoAvisar, Avisar, Entregar, Dejar,
     SuspIgual, Hilos, Listas
<1> QED BY <1>1, <1>2

\* A timer hands the process it was started for to suspender_proceso.
LEMMA MensajesSuspencion ==
    ASSUME TipoKernel, MensajesInv, NEW x \in PCB, Suspencion(x)
    PROVE  MensajesInv' /\ MensajesPaso
<1> DEFINE l == "susp_block_buffer_l"
<1> USE DEF varsPlp, varsMemoria
<1>0. lista = [k \in Listas |-> lista[k]] /\ l \in Listas /\ "new_l" \in Listas
  BY DEF TipoKernel, TipoListas, Listas
<1>1. /\ contador[x] # "no" /\ UNCHANGED <<mem, consola, pcb>>
      /\ \A y \in PCB : contador'[y] # "no" => contador[y] # "no"
      /\ lista'["new_l"] = lista["new_l"]
      /\ lista'[l] \in {lista[l], Append(lista[l], x)}
  BY <1>0 DEF Suspencion, ContadorDespertar, ContadorAgregar, ContadorAvisar,
     TipoKernel, TipoIo
<1>2. mem[x.pid] # "ninguno"
  BY <1>1 DEF MensajesInv, TimerIniciado
<1>3. \A i \in DOMAIN lista'[l] :
         lista'[l][i] = x \/ \E j \in DOMAIN lista[l] : lista'[l][i] = lista[l][j]
  <2>1. lista[l] \in Seq(PCB)
    BY <1>0 DEF TipoKernel, TipoListas
  <2>2. \A i \in DOMAIN Append(lista[l], x) :
           \/ Append(lista[l], x)[i] = x
           \/ i \in DOMAIN lista[l] /\ Append(lista[l], x)[i] = lista[l][i]
    BY <2>1, AppendProperties, LenProperties
  <2>3. CASE lista'[l] = lista[l] BY <2>3
  <2>4. CASE lista'[l] = Append(lista[l], x) BY <2>2, <2>4
  <2> QED BY <1>1, <2>3, <2>4
<1>4. TimerIniciado'
  <2>1. \A y \in PCB : contador'[y] # "no" => mem'[y.pid] # "ninguno"
    BY <1>1 DEF MensajesInv, TimerIniciado
  <2>2. \A i \in DOMAIN lista'[l] : mem'[lista'[l][i].pid] # "ninguno"
    BY <1>1, <1>2, <1>3 DEF MensajesInv, TimerIniciado
  <2> QED BY <1>1, <2>1, <2>2 DEF MensajesInv, TimerIniciado, PCB
<1> QED BY <1>1, <1>4, MensajesTimer

\* io and avisar_proceso_susp_ready send nothing and start no timer.
LEMMA MensajesIo ==
    ASSUME TipoKernel, MensajesInv, Io \/ AvisarProcesoSuspReady
    PROVE  MensajesInv' /\ MensajesPaso
<1> USE DEF varsPlp, varsIo, varsMemoria
<1>0. /\ lista = [k \in Listas |-> lista[k]] /\ pcb = [g \in Hilos |-> pcb[g]]
  BY DEF TipoKernel, TipoListas, TipoHilos
<1>1. CASE IoCancelar
  <2>1. /\ UNCHANGED <<mem, consola, pcb, lista>>
        /\ contador' \in Cancelados(pcb["io"])
    BY <1>1 DEF IoCancelar
  <2>2. \A y \in PCB : contador'[y] # "no" => contador[y] # "no"
    <3>1. pcb["io"] \in PCB
      BY <1>1, PcbDeHilo, CargaDe DEF IoCancelar, Hilos
    <3>2. \/ contador' = contador
          \/ \E y \in PCB : /\ contador[y] # "no"
                            /\ contador' = [contador EXCEPT ![y] = "cancelado"]
      BY <2>1, <3>1 DEF Cancelados
    <3> QED BY <3>2 DEF TipoKernel, TipoIo
  <2>3. TimerIniciado'
    BY <2>1, <2>2 DEF MensajesInv, TimerIniciado, PCB
  <2> QED BY <2>1, <2>3, MensajesTimer
<1>2. CASE Io /\ ~IoCancelar
  BY <1>0, <1>2, MensajesIgual DEF Io, IoTomar, IoDespertar, IoDesbloquear,
     IoAvisarReady, IoDesmarcar, IoSuspReady, IoAvisarSuspReady, Avisar,
     Entregar, Tomar, Dejar, SuspIgual, Hilos, Listas
<1>3. CASE AvisarProcesoSuspReady
  BY <1>0, <1>3, MensajesIgual DEF AvisarProcesoSuspReady, ReanudarEsperar,
     ReanudarTomar, ReanudarEntregar, ReanudarAvisar, Esperar, Avisar,
     Entregar, Tomar, Dejar, SuspIgual, Hilos, Listas
<1> QED BY <1>1, <1>2, <1>3

\* The threads that both schedulers share.
LEMMA MensajesNextKernel ==
    ASSUME TipoKernel, CuentasKernel, LugaresInv, MensajesInv, NextKernel,
           UNCHANGED varsSocket
    PROVE  MensajesInv' /\ MensajesPaso
<1>1. CASE \E p \in Proceso : GestionarComunicacion(p)
  BY <1>1, MensajesGestionar
<1>2. CASE PasarAReady \/ FinalizarProcesos \/ SuspenderProceso
  BY <1>2, MensajesPasar, MensajesFinalizar, MensajesSuspender
<1>3. CASE AvisarProcesoSuspReady \/ PlanificadorIo \/ Io
  BY <1>3, MensajesPlanificadorIo, MensajesIo
<1>4. CASE \E x \in PCB : Suspencion(x)
  BY <1>4, MensajesSuspencion
<1> QED BY <1>1, <1>2, <1>3, <1>4 DEF NextKernel

-----------------------------------------------------------------------------
(* The steps of the short-term scheduler tell nobody anything.              *)

\* What AvisoInv and MensajesInv speak of does not change.
DetallesIguales ==
    /\ UNCHANGED <<consola, s>> /\ UNCHANGED <<mem, contador>>
    /\ lista'["new_l"] = lista["new_l"] /\ lista'["exit_l"] = lista["exit_l"]
    /\ lista'["susp_block_buffer_l"] = lista["susp_block_buffer_l"]
    /\ pcb'["suspender_proceso"] = pcb["suspender_proceso"]

\* So both keep.
LEMMA DetallesInv ==
    ASSUME AvisoInv, MensajesInv, DetallesIguales
    PROVE  AvisoInv' /\ MensajesInv' /\ MensajesPaso
<1>1. AvisoInv'
  BY AvisoIgual DEF DetallesIguales
<1>2. MensajesInv' /\ MensajesPaso
  BY MensajesIgual DEF DetallesIguales, SuspIgual
<1> QED BY <1>1, <1>2

\* The steps that both short-term schedulers have in common.
LEMMA DetallesComun ==
    ASSUME TipoKernel,
           \/ AgregarEsperar \/ AgregarElegir("susp_readyM_l", "unblock_l")
           \/ AgregarElegir("unblock_l", "newM_l") \/ AgregarElegirNew
           \/ RecibirFinalizado \/ RecibirBloqueado \/ RecibirLiberarCpu
    PROVE  DetallesIguales
<1>0. /\ lista = [k \in Listas |-> lista[k]] /\ pcb = [g \in Hilos |-> pcb[g]]
  BY DEF TipoKernel, TipoListas, TipoHilos
<1> USE DEF varsPlp, varsIo, varsMemoria, DetallesIguales, Hilos, Listas
<1>1. ASSUME NEW l \in {"susp_readyM_l", "unblock_l"}, NEW otra,
             AgregarElegir(l, otra)
      PROVE  DetallesIguales
  BY <1>0, <1>1 DEF AgregarElegir, Tomar
<1>2. ASSUME AgregarEsperar \/ AgregarElegirNew PROVE DetallesIguales
  BY <1>0, <1>2 DEF AgregarEsperar, AgregarElegirNew, Esperar, Tomar
<1>3. ASSUME RecibirFinalizado \/ RecibirBloqueado \/ RecibirLiberarCpu
      PROVE  DetallesIguales
  BY <1>0, <1>3 DEF RecibirFinalizado, RecibirBloqueado, RecibirLiberarCpu,
     Entregar, Avisar, Dejar
<1> QED BY <1>1, <1>2, <1>3

-----------------------------------------------------------------------------
(* Containers and places.                                                   *)

\* A place of p is in a container that has p, and that container tells the
\* place, for it has p once.
LEMMA LugarUnico ==
    ASSUME LugaresInv, Despachados <= 1, Devueltos <= 1, TipoCpu,
           NEW p, NEW u \in Lugares(p)
    PROVE  /\ u[1] \in Contenedores /\ p \in Tiene(u[1])
           /\ \A v \in Lugares(p) : u[1] = v[1] => u = v
<1>0. /\ ListasPcb \cap HilosPcb = {}
      /\ "haciaCpu" \notin ListasPcb \cup HilosPcb
      /\ "desdeCpu" \notin ListasPcb \cup HilosPcb
  BY DEF ListasPcb, HilosPcb, Listas, Hilos
<1>1. ASSUME NEW v \in Lugares(p)
      PROVE  \/ \E l \in ListasPcb : \E i \in DOMAIN lista[l] :
                   lista[l][i].pid = p /\ v = <<l, i>>
             \/ \E h \in HilosPcb : p \in PidDe(h) /\ v = <<h, 0>>
             \/ \E i \in DOMAIN haciaCpu : haciaCpu[i].pcb.pid = p
                                           /\ v = <<"haciaCpu", i>>
             \/ \E i \in DOMAIN desdeCpu : desdeCpu[i].pcb.pid = p
                                           /\ v = <<"desdeCpu", i>>
  BY DEF Lugares, ListasPcb, HilosPcb, PidDe
<1>2. /\ \A i \in DOMAIN haciaCpu : i = 1
      /\ \A i \in DOMAIN desdeCpu : i = 1
  <2>1. Len(haciaCpu) \in Nat /\ DOMAIN haciaCpu = 1 .. Len(haciaCpu)
        /\ Len(desdeCpu) \in Nat /\ DOMAIN desdeCpu = 1 .. Len(desdeCpu)
    BY LenProperties DEF TipoCpu
  <2> QED BY <2>1 DEF Despachados, Devueltos
<1>3. u[1] \in Contenedores /\ p \in Tiene(u[1])
  <2>1. ASSUME NEW l \in ListasPcb, NEW i \in DOMAIN lista[l],
               lista[l][i].pid = p, u = <<l, i>>
        PROVE  u[1] \in Contenedores /\ p \in Tiene(u[1])
    <3>1. p \in Pids(lista[l]) BY <2>1 DEF Pids
    <3> QED BY <2>1, <3>1, TieneCasos DEF Contenedores
  <2>2. ASSUME NEW h \in HilosPcb, p \in PidDe(h), u = <<h, 0>>
        PROVE  u[1] \in Contenedores /\ p \in Tiene(u[1])
    BY <2>2, TieneCasos DEF Contenedores
  <2>3. ASSUME NEW i \in DOMAIN haciaCpu, haciaCpu[i].pcb.pid = p,
               u = <<"haciaCpu", i>>
        PROVE  u[1] \in Contenedores /\ p \in Tiene(u[1])
    BY <2>3, TieneCasos DEF Contenedores
  <2>4. ASSUME NEW i \in DOMAIN desdeCpu, desdeCpu[i].pcb.pid = p,
               u = <<"desdeCpu", i>>
        PROVE  u[1] \in Contenedores /\ p \in Tiene(u[1])
    BY <2>4, TieneCasos DEF Contenedores
  <2> QED BY <1>1, <2>1, <2>2, <2>3, <2>4
<1>4. ASSUME NEW v \in Lugares(p), u[1] = v[1] PROVE u = v
  <2>1. ASSUME NEW l \in ListasPcb, NEW i \in DOMAIN lista[l],
               lista[l][i].pid = p, u = <<l, i>>
        PROVE  u = v
    <3>1. v[1] = l BY <1>4, <2>1
    <3>2. PICK j \in DOMAIN lista[l] : lista[l][j].pid = p /\ v = <<l, j>>
      BY <1>0, <1>1, <3>1
    <3>3. i = j
      BY <2>1, <3>2 DEF LugaresInv, SinRepetidos, SinRepetir
    <3> QED BY <2>1, <3>2, <3>3
  <2>2. ASSUME NEW h \in HilosPcb, u = <<h, 0>> PROVE u = v
    <3>1. v[1] = h BY <1>4, <2>2
    <3> QED BY <1>0, <1>1, <2>2, <3>1
  <2>3. ASSUME NEW i \in DOMAIN haciaCpu, u = <<"haciaCpu", i>> PROVE u = v
    <3>1. v[1] = "haciaCpu" BY <1>4, <2>3
    <3>2. \E j \in DOMAIN haciaCpu : v = <<"haciaCpu", j>>
      BY <1>0, <1>1, <3>1
    <3> QED BY <1>2, <2>3, <3>2
  <2>4. ASSUME NEW i \in DOMAIN desdeCpu, u = <<"desdeCpu", i>> PROVE u = v
    <3>1. v[1] = "desdeCpu" BY <1>4, <2>4
    <3>2. \E j \in DOMAIN desdeCpu : v = <<"desdeCpu", j>>
      BY <1>0, <1>1, <3>1
    <3> QED BY <1>2, <2>4, <3>2
  <2> QED BY <1>1, <2>1, <2>2, <2>3, <2>4
<1> QED BY <1>3, <1>4

\* A process has a place if it is in a container.
LEMMA LugarDeContenedor ==
    ASSUME NEW p
    PROVE  p \in Presentes => Lugares(p) # {}
<1> SUFFICES ASSUME NEW c \in Contenedores, p \in Tiene(c)
             PROVE  \E u : u \in Lugares(p)
  BY DEF Presentes
<1>1. CASE c \in ListasPcb
  <2>1. PICK i \in DOMAIN lista[c] : lista[c][i].pid = p
    BY <1>1, TieneCasos DEF Pids
  <2>2. <<c, i>> \in Lugares(p)
    BY <1>1, <2>1 DEF Lugares, ListasPcb
  <2> QED BY <2>2
<1>2. CASE c \in HilosPcb
  <2>1. p \in PidDe(c)
    BY <1>2, TieneCasos
  <2>2. <<c, 0>> \in Lugares(p)
    BY <1>2, <2>1 DEF Lugares, HilosPcb, PidDe
  <2> QED BY <2>2
<1>3. CASE c = "haciaCpu"
  <2>1. PICK i \in DOMAIN haciaCpu : haciaCpu[i].pcb.pid = p
    BY <1>3, TieneCasos
  <2>2. <<"haciaCpu", i>> \in Lugares(p)
    BY <2>1 DEF Lugares
  <2> QED BY <2>2
<1>4. CASE c = "desdeCpu"
  <2>1. PICK i \in DOMAIN desdeCpu : desdeCpu[i].pcb.pid = p
    BY <1>4, TieneCasos
  <2>2. <<"desdeCpu", i>> \in Lugares(p)
    BY <2>1 DEF Lugares
  <2> QED BY <2>2
<1> QED BY <1>1, <1>2, <1>3, <1>4 DEF Contenedores

\* A set whose elements are all the same has at most one.
LEMMA A_LoSumoUno ==
    ASSUME NEW T, \A u, v \in T : u = v
    PROVE  Cardinality(T) <= 1
<1>1. CASE T = {}
  BY <1>1, FS_EmptySet
<1>2. CASE T # {}
  <2>1. PICK u \in T : T = {u}
    BY <1>2
  <2>2. Cardinality({u}) = 1
    BY FS_Singleton
  <2> QED BY <2>1, <2>2
<1> QED BY <1>1, <1>2

\* Two places of a process would be in one container, which has it once.
LEMMA UnLugar ==
    ASSUME LugaresInv, Despachados <= 1, Devueltos <= 1, TipoCpu, NEW p
    PROVE  \A u, v \in Lugares(p) : u = v
<1> SUFFICES ASSUME NEW u \in Lugares(p), NEW v \in Lugares(p) PROVE u = v
  OBVIOUS
<1>1. /\ u[1] \in Contenedores /\ p \in Tiene(u[1])
      /\ v[1] \in Contenedores /\ p \in Tiene(v[1])
  BY LugarUnico
<1>2. u[1] = v[1]
  BY <1>1 DEF LugaresInv, Ajenos
<1> QED BY <1>2, LugarUnico

\* The processes that have no place are those that are in no container.
LEMMA PerdidosAusentes ==
    ASSUME LugaresInv, Despachados <= 1, Devueltos <= 1, TipoCpu
    PROVE  Perdidos = Ausentes
<1>1. ASSUME NEW p PROVE Lugares(p) # {} => p \in Presentes
  BY LugarUnico DEF Presentes
<1> QED BY <1>1, LugarDeContenedor DEF Perdidos, Ausentes, Ingresados

-----------------------------------------------------------------------------
(* The beginning, and nothing.                                              *)

\* Before any console connects nobody is anywhere.
LEMMA InicioLugares ==
    ASSUME InitKernel
    PROVE  LugaresInv /\ CuentaPerdidos(0) /\ AvisoInv /\ MensajesInv
<1>1. TipoKernel /\ Valor("s_io_pendiente") = 0 /\ Largo("block_l") = 0
      /\ En("planificador_io", {"quitar"}) = 0
      /\ En("recibir_proceso_de_cpu", {"post_io_pendiente"}) = 0
  <2>1. TipoKernel BY InicioKernel
  <2>2. Valor("s_io_pendiente") = 0 /\ Largo("block_l") = 0
    BY DEF InitKernel, Valor, Largo, Semaforos, Listas
  <2>3. /\ En("planificador_io", {"quitar"}) = 0
        /\ En("recibir_proceso_de_cpu", {"post_io_pendiente"}) = 0
    BY DEF InitKernel, En, Hilos
  <2> QED BY <2>1, <2>2, <2>3
<1> USE DEF InitKernel
<1>2. \A c \in Contenedores : Tiene(c) = {}
  <2>1. \A l \in ListasPcb : Pids(lista[l]) = {}
    BY DEF ListasPcb, Pids
  <2>2. \A h \in HilosPcb : PidDe(h) = {}
    BY DEF HilosPcb, PidDe
  <2>3. Tiene("haciaCpu") = {} /\ Tiene("desdeCpu") = {}
    <3>1. DOMAIN haciaCpu = {} /\ DOMAIN desdeCpu = {}
      OBVIOUS
    <3> QED BY <3>1, TieneCasos
  <2> QED BY <2>1, <2>2, <2>3, TieneCasos DEF Contenedores
<1>3. Presentes = {} /\ Ajenos
  BY <1>2 DEF Presentes, Ajenos
<1>4. Ingresados = {}
  BY DEF Ingresados
<1>5. SinRepetidos /\ CabezaVigente
  BY DEF SinRepetidos, SinRepetir, ListasPcb, CabezaVigente, Hilos
<1>6. Cardinality(Ausentes) = 0
  <2>1. Ausentes = {} BY <1>3, <1>4 DEF Ausentes
  <2> QED BY <2>1, FS_EmptySet
<1>7. CuentaPerdidos(0)
  BY ONLY <1>1, <1>6 DEF CuentaPerdidos
<1>8. AvisoInv
  BY DEF AvisoInv
<1>9. MensajesInv
  BY <1>4 DEF MensajesInv, MemIniciada, TimerIniciado, Hilos, Listas
<1> QED BY <1>3, <1>4, <1>5, <1>7, <1>8, <1>9 DEF LugaresInv

\* A step of nobody.
LEMMA LugaresNadie ==
    ASSUME LugaresInv, AvisoInv, MensajesInv, UNCHANGED varsKernel,
           UNCHANGED varsSocket
    PROVE  /\ LugaresInv' /\ Ausentes' = Ausentes
           /\ AvisoInv' /\ MensajesInv' /\ MensajesPaso /\ BloqueoIgual
<1> USE DEF varsKernel, varsPlp, varsIo, varsMemoria
<1>1. Conserva
  BY LugarQuieto
<1>2. BloqueoIgual /\ DetallesIguales
  BY DEF BloqueoIgual, En, DetallesIguales
<1> QED BY <1>1, <1>2, DetallesInv, CabezaIgual, LugaresConserva,
           IngresadosIgual

-----------------------------------------------------------------------------
(* The dispatch socket.                                                     *)

SocketPids(q) == {q[i].pcb.pid : i \in DOMAIN q}

\* The socket is two containers.
LEMMA TieneSocket ==
    /\ Tiene("haciaCpu") = SocketPids(haciaCpu)
    /\ Tiene("haciaCpu")' = SocketPids(haciaCpu')
    /\ Tiene("desdeCpu") = SocketPids(desdeCpu)
    /\ Tiene("desdeCpu")' = SocketPids(desdeCpu')
BY TieneCasos DEF SocketPids

\* A message more.
LEMMA SocketAppend ==
    ASSUME NEW S, NEW q \in Seq(S), NEW m \in S
    PROVE  SocketPids(Append(q, m)) = SocketPids(q) \cup {m.pcb.pid}
<1> DEFINE n == Len(q)
           r == Append(q, m)
<1>1. /\ n \in Nat /\ DOMAIN q = 1 .. n /\ DOMAIN r = 1 .. n + 1
      /\ \A i \in 1 .. n : r[i] = q[i]
      /\ r[n + 1] = m
  BY AppendProperties, LenProperties
<1> HIDE DEF n, r
<1>2. ASSUME NEW i \in DOMAIN r
      PROVE  r[i].pcb.pid \in SocketPids(q) \cup {m.pcb.pid}
  <2>1. CASE i \in 1 .. n BY <1>1, <2>1 DEF SocketPids
  <2>2. CASE i = n + 1 BY <1>1, <2>2
  <2> QED BY <1>1, <2>1, <2>2
<1>3. ASSUME NEW i \in DOMAIN q PROVE q[i].pcb.pid \in SocketPids(r)
  <2>1. i \in DOMAIN r /\ r[i] = q[i] BY <1>1
  <2> QED BY <2>1 DEF SocketPids
<1>4. m.pcb.pid \in SocketPids(r)
  <2>1. n + 1 \in DOMAIN r /\ r[n + 1] = m BY <1>1
  <2> QED BY <2>1 DEF SocketPids
<1>5. SocketPids(r) = SocketPids(q) \cup {m.pcb.pid}
  BY <1>2, <1>3, <1>4 DEF SocketPids
<1> QED BY <1>5 DEF r

\* The only message is read.
LEMMA SocketTail ==
    ASSUME NEW S, NEW q \in Seq(S), q # <<>>, Len(q) <= 1
    PROVE  /\ Head(q) = q[1] /\ Head(q) \in S
           /\ SocketPids(q) = {Head(q).pcb.pid}
           /\ SocketPids(Tail(q)) = {}
           /\ DOMAIN q = {1}
<1>1. /\ Len(q) = 1 /\ DOMAIN q = {1} /\ Head(q) = q[1] /\ Head(q) \in S
      /\ Len(Tail(q)) = 0 /\ DOMAIN Tail(q) = {}
  BY CabezaTipo, HeadTailProperties, LenProperties
<1> QED BY <1>1 DEF SocketPids

\* The CPU returns a process.
LEMMA LugarCpu ==
    ASSUME TipoKernel, LugaresInv, haciaCpu # <<>>, Despachados <= 1,
           NEW m \in [pcb : PCB, estado : Estado],
           m.pcb.pid = Head(haciaCpu).pcb.pid,
           haciaCpu' = Tail(haciaCpu), desdeCpu' = Append(desdeCpu, m),
           UNCHANGED <<lista, pc, pcb>>
    PROVE  Conserva /\ Va("haciaCpu", "desdeCpu")
<1> DEFINE x == Head(haciaCpu)
           H == [pcb : PCBViva, estado : Estado \ {"FINALIZADO"}]
           D == [pcb : PCB, estado : Estado]
<1>1. haciaCpu \in Seq(H) /\ desdeCpu \in Seq(D) /\ Len(haciaCpu) <= 1
      /\ m \in D
  BY DEF TipoKernel, TipoCpu, Despachados
<1> HIDE DEF H, D
<1>2. /\ SocketPids(haciaCpu) = {x.pcb.pid} /\ SocketPids(Tail(haciaCpu)) = {}
      /\ SocketPids(Append(desdeCpu, m)) = SocketPids(desdeCpu) \cup {x.pcb.pid}
  <2>1. SocketPids(haciaCpu) = {x.pcb.pid} /\ SocketPids(Tail(haciaCpu)) = {}
    BY <1>1, SocketTail
  <2>2. SocketPids(Append(desdeCpu, m)) = SocketPids(desdeCpu) \cup {m.pcb.pid}
    BY ONLY <1>1, SocketAppend
  <2> QED BY <2>1, <2>2
<1>3. /\ Tiene("haciaCpu") = {x.pcb.pid} /\ Tiene("haciaCpu")' = {}
      /\ Tiene("desdeCpu")' = Tiene("desdeCpu") \cup {x.pcb.pid}
  BY <1>2, TieneSocket
<1>4. Iguales({"haciaCpu", "desdeCpu"})
  BY TieneIgual DEF Iguales, Contenedores
<1> HIDE DEF x
<1>5. Mueve("haciaCpu", "desdeCpu", x.pcb.pid)
  BY <1>3, <1>4 DEF Mueve
<1>6. SinRepetidos'
  BY DEF LugaresInv, SinRepetidos
<1> QED BY <1>5, <1>6, AjenosMueve DEF LugaresInv, Conserva, Contenedores, Va

\* The receiver gets it.
LEMMA LugarRecibir ==
    ASSUME TipoKernel, LugaresInv, desdeCpu # <<>>, Devueltos <= 1,
           pc["recibir_proceso_de_cpu"] = "inicio", NEW e,
           pcb' = [pcb EXCEPT !["recibir_proceso_de_cpu"] = Head(desdeCpu).pcb],
           Ir("recibir_proceso_de_cpu", e),
           desdeCpu' = Tail(desdeCpu), UNCHANGED <<lista, haciaCpu>>
    PROVE  Conserva /\ Va("desdeCpu", "recibir_proceso_de_cpu")
<1> DEFINE h == "recibir_proceso_de_cpu"
           x == Head(desdeCpu)
           D == [pcb : PCB, estado : Estado]
<1>0. h \in Hilos /\ h \in HilosPcb
  BY DEF Hilos, HilosPcb
<1>1. desdeCpu \in Seq(D) /\ Len(desdeCpu) <= 1
  BY DEF TipoKernel, TipoCpu, Devueltos
<1> HIDE DEF D
<1>2. /\ x \in D
      /\ SocketPids(desdeCpu) = {x.pcb.pid} /\ SocketPids(Tail(desdeCpu)) = {}
  BY <1>1, SocketTail
<1>3. x.pcb # NULO
  BY <1>2, NuloAssumption DEF D
<1>4. /\ pcb[h] = NULO /\ pcb'[h] = x.pcb
      /\ \A g \in HilosPcb \ {h} : pc'[g] = pc[g] /\ pcb'[g] = pcb[g]
  <2>1. pc[h] \notin Carga[h] BY CargaDe
  <2>2. pcb[h] = NULO BY <1>0, <2>1, PcbDeHilo
  <2> QED BY <1>0, <2>2 DEF Ir, TipoKernel, TipoHilos, HilosPcb
<1> HIDE DEF x
<1>5. PidDe(h) = {} /\ PidDe(h)' = {x.pcb.pid}
  BY <1>3, <1>4 DEF PidDe
<1>6. /\ Tiene("desdeCpu") = {x.pcb.pid} /\ Tiene("desdeCpu")' = {}
      /\ Tiene(h) = {} /\ Tiene(h)' = {x.pcb.pid}
  BY <1>0, <1>2, <1>5, TieneCasos, TieneSocket DEF x
<1>7. Iguales({"desdeCpu", h})
  BY <1>4, TieneIgual DEF Iguales, Contenedores
<1>8. Mueve("desdeCpu", h, x.pcb.pid)
  BY <1>6, <1>7 DEF Mueve
<1>9. SinRepetidos'
  BY DEF LugaresInv, SinRepetidos
<1>10. "desdeCpu" # h /\ "desdeCpu" \in Contenedores /\ h \in Contenedores
  BY <1>0 DEF Contenedores
<1> QED BY <1>8, <1>9, <1>10, AjenosMueve DEF LugaresInv, Conserva, Va

\* A process is dispatched.
LEMMA SocketDespachar ==
    ASSUME TipoKernel, NEW x \in PCBViva,
           haciaCpu' = Append(haciaCpu, [pcb |-> x, estado |-> estado[x]])
    PROVE  Tiene("haciaCpu")' = Tiene("haciaCpu") \cup {x.pid}
<1> DEFINE m == [pcb |-> x, estado |-> estado[x]]
<1>1. x \in PCB /\ estado[x] \in Estado \ {"FINALIZADO"}
  BY DEF TipoKernel, TipoIo, PCBViva, PCBFin
<1>2. m \in Enviado /\ haciaCpu \in Seq(Enviado) /\ m.pcb = x
  BY <1>1 DEF TipoKernel, TipoCpu, Enviado
<1> HIDE DEF m
<1>3. SocketPids(Append(haciaCpu, m)) = SocketPids(haciaCpu) \cup {m.pcb.pid}
  BY ONLY <1>2, SocketAppend
<1>4. haciaCpu' = Append(haciaCpu, m)
  BY DEF m
<1> QED BY <1>2, <1>3, <1>4, TieneSocket
=============================================================================
