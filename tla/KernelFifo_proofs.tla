-------------------------- MODULE KernelFifo_proofs --------------------------
(***************************************************************************)
(* The safety of the Kernel with FIFO, for every number of consoles, every  *)
(* program and every degree of multiprogramming.  The inductive invariant   *)
(* is IInv: the types, what every counter is worth (Cuentas) and that a PCB *)
(* that was looked up is still there (BusquedaVigente).  Kernel_proofs has  *)
(* the steps of the threads that SRT shares; here are those of fifo.c.      *)
(* And KernelFifo implements Planificador: the container a process is in    *)
(* (Kernel_lugares) tells its state (Clase), so a step that moves a process *)
(* from one container to another is a step of Planificador, or no step at   *)
(* all when both containers have the same state.                            *)
(***************************************************************************)
EXTENDS PlanificadorFifo, Kernel_lugares

Cuentas == TokensCoinciden /\ UnSoloProceso /\ BalanceGrado

IInv == TypeOK /\ Cuentas /\ BusquedaVigente

\* The accounts are those of the shared threads and those of fifo.c.
LEMMA CuentasPartes ==
    /\ Cuentas <=> CuentasKernel /\ TokensCpu /\ UnSoloProceso
    /\ Cuentas' <=> CuentasKernel' /\ TokensCpu' /\ UnSoloProceso'
BY DEF Cuentas, CuentasKernel, TokensCoinciden

\* enviar_a_ejecutar finds a PCB in ready_l.
LEMMA ReadyNuncaVacia ==
    ASSUME TypeOK, Cuentas, pc["enviar_a_ejecutar"] = "s_proceso_ejecutando"
    PROVE  Largo("ready_l") > 0
<1>1. Naturales
  BY NaturalesTipo DEF TypeOK
<1>2. En("enviar_a_ejecutar", {"s_proceso_ejecutando"}) = 1
  BY DEF En
<1> QED BY ONLY Cuentas, <1>1, <1>2
  DEF Cuentas, TokensCoinciden, TokensCpu, Naturales, Listas, Semaforos

\* The labels of fifo.c, and that mostrar_lista_ready_sjf is not in it.
EtapasFifo ==
    /\ pc["agregar_a_ready"] \in
         {"inicio", "susp_readyM_l", "unblock_l", "newM_l", "ready_l", "post"}
    /\ pc["enviar_a_ejecutar"] \in {"inicio", "s_proceso_ejecutando"}
    /\ pc["recibir_proceso_de_cpu"] \in
         {"inicio", "finalizado_l", "post_finalizado", "block_l",
          "post_io_pendiente", "post", "muerto"}
    /\ caida # "ready_l_corta"

\* The threads of FIFO keep to their labels.
LEMMA EtapasFifoPaso ==
    ASSUME TypeOK,
           \/ AgregarAReady \/ EnviarAEjecutar \/ CpuEjecutar
           \/ RecibirProcesoDeCpu
    PROVE  EtapasFifo'
<1>0. EtapasFifo /\ pc = [h \in Hilos |-> pc[h]]
  BY DEF TypeOK, TipoKernel, TipoHilos, EtapasFifo
<1> USE DEF EtapasFifo, Hilos, Ir
<1>1. CASE AgregarAReady
  BY <1>0, <1>1 DEF AgregarAReady, AgregarEsperar, AgregarElegir,
     AgregarElegirNew, AgregarEntregar, AgregarAvisar, Esperar, Avisar,
     Entregar, Tomar, Dejar
<1>2. CASE EnviarAEjecutar
  BY <1>0, <1>2 DEF EnviarAEjecutar, EnviarEsperar, EnviarDespachar, Esperar
<1>3. CASE CpuEjecutar
  BY <1>0, <1>3 DEF CpuEjecutar, varsKernel
<1>4. CASE RecibirProcesoDeCpu
  BY <1>0, <1>4 DEF RecibirProcesoDeCpu, RecibirPcb, RecibirFinalizado,
     RecibirAvisarFinalizado, RecibirBloqueado, RecibirAvisarBloqueado,
     RecibirLiberarCpu, Avisar, Entregar, Dejar
<1> QED BY <1>1, <1>2, <1>3, <1>4

-----------------------------------------------------------------------------
(* The accounts.                                                            *)

\* agregar_a_ready keeps the accounts.
LEMMA CuentasAgregarAReady ==
    ASSUME TypeOK, Cuentas, AgregarAReady
    PROVE  Cuentas'
<1>1. /\ Naturales /\ TipoKernel /\ CuentasKernel /\ TokensCpu
      /\ UnSoloProceso
  BY NaturalesTipo, CuentasPartes DEF TypeOK
<1>2. CASE \/ AgregarEsperar
           \/ AgregarElegir("susp_readyM_l", "unblock_l")
           \/ AgregarElegir("unblock_l", "newM_l")
           \/ AgregarElegirNew
  <2>1. /\ CuentasKernel' /\ PropioIgual
        /\ \E d, e \in {"inicio", "susp_readyM_l", "unblock_l", "newM_l",
                        "ready_l"} : Pasa("agregar_a_ready", d, e)
    BY <1>1, <1>2, CuentasAgregarComun
  <2>2. TokensCpu' /\ UnSoloProceso'
    BY ONLY <1>1, <2>1
    DEF PropioIgual, Pasa, TokensCpu, UnSoloProceso, SocketIgual, Hilos
  <2> QED BY <2>1, <2>2, CuentasPartes
<1>3. CASE AgregarEntregar
  <2>1. /\ Pasa("agregar_a_ready", "ready_l", "post")
        /\ Crece("ready_l") /\ SemaforosIguales /\ RestoIgual
    BY <1>1, <1>3, CargaDe, EntregarCuenta DEF AgregarEntregar, Hilos, Listas
  <2>2. Ajena
    BY ONLY <2>1
    DEF Ajena, Crece, SemaforosIguales, RestoIgual, AnunciosIguales
  <2>3. CuentasKernel'
    BY <1>1, <2>1, <2>2, CuentasAgregarAjena
  <2>4. TokensCpu' /\ UnSoloProceso'
    BY ONLY <1>1, <2>1
    DEF Pasa, Crece, SemaforosIguales, RestoIgual, SocketIgual, TokensCpu,
        UnSoloProceso, Naturales, Listas, Semaforos, Hilos
  <2> QED BY <2>3, <2>4, CuentasPartes
<1>4. CASE AgregarAvisar
  <2>1. /\ Pasa("agregar_a_ready", "post", "inicio")
        /\ Suma("s_cpu") /\ ListasIguales /\ RestoIgual
    BY <1>1, <1>4, AvisarCuenta DEF AgregarAvisar, Hilos, Semaforos
  <2>2. Ajena
    BY ONLY <2>1
    DEF Ajena, Suma, ListasIguales, RestoIgual, AnunciosIguales
  <2>3. CuentasKernel'
    BY <1>1, <2>1, <2>2, CuentasAgregarAjena
  <2>4. TokensCpu' /\ UnSoloProceso'
    BY ONLY <1>1, <2>1
    DEF Pasa, Suma, ListasIguales, RestoIgual, SocketIgual, TokensCpu,
        UnSoloProceso, Naturales, Listas, Semaforos, Hilos
  <2> QED BY <2>3, <2>4, CuentasPartes
<1> QED BY <1>2, <1>3, <1>4 DEF AgregarAReady

\* enviar_a_ejecutar keeps the accounts.
LEMMA CuentasEnviarAEjecutar ==
    ASSUME TypeOK, Cuentas, EnviarAEjecutar
    PROVE  Cuentas'
<1>1. Naturales /\ TipoKernel
  BY NaturalesTipo DEF TypeOK
<1>2. EnviarEsperar =>
        /\ Pasa("enviar_a_ejecutar", "inicio", "s_proceso_ejecutando")
        /\ Resta("s_cpu") /\ ListasIguales /\ RestoIgual
  BY <1>1, EsperarCuenta DEF EnviarEsperar, Hilos, Semaforos
<1>3. ASSUME EnviarDespachar
     PROVE  /\ Pasa("enviar_a_ejecutar", "s_proceso_ejecutando", "inicio")
            /\ Resta("s_proceso_ejecutando") /\ Decrece("ready_l")
            /\ Iniciados' = Iniciados /\ AnunciosIguales
            /\ Despachados' = Despachados + 1 /\ Devueltos' = Devueltos
  <2> USE <1>1, <1>3 DEF EnviarDespachar
  <2>1. Pasa("enviar_a_ejecutar", "s_proceso_ejecutando", "inicio")
    BY IrPasa DEF Hilos
  <2>2. Resta("s_proceso_ejecutando")
    BY WaitResta DEF Semaforos
  <2>3. Decrece("ready_l")
    BY ReadyNuncaVacia, TailDecrece DEF Listas
  <2>4. /\ Despachados' = Despachados + 1
        /\ Devueltos' = Devueltos
    BY AppendProperties DEF TipoKernel, TipoCpu, Despachados, Devueltos
  <2>5. Iniciados' = Iniciados /\ AnunciosIguales
    BY SinCambios DEF varsPlp, varsIo, varsMemoria, AnunciosIguales
  <2> QED BY <2>1, <2>2, <2>3, <2>4, <2>5
<1> USE DEF Cuentas, TokensCoinciden, TokensNew, TokensReady, TokensCpu,
        TokensIo, TokensSusp, TokensFinalizado, UnSoloProceso, BalanceGrado,
        Naturales, Listas, Semaforos, Hilos, Pasa, NadiePasa, Suma, Resta,
        SemaforosIguales, Crece, Decrece, ListasIguales, SocketIgual,
        AnunciosIguales, RestoIgual
<1>4. CASE EnviarEsperar
  BY ONLY Cuentas, <1>1, <1>2, <1>4
<1>5. CASE EnviarDespachar
  BY ONLY Cuentas, <1>1, <1>3, <1>5
<1> QED BY <1>4, <1>5 DEF EnviarAEjecutar

\* The CPU keeps the accounts: it answers one PCB with one PCB.
LEMMA CuentasCpuEjecutar ==
    ASSUME TypeOK, Cuentas, CpuEjecutar
    PROVE  Cuentas'
<1>1. Naturales
  BY NaturalesTipo DEF TypeOK
<1>2. /\ Despachados' = Despachados - 1
      /\ Devueltos' = Devueltos + 1
  BY HeadTailProperties, AppendProperties
     DEF CpuEjecutar, TypeOK, TipoKernel, TipoCpu, Despachados, Devueltos
<1>3. /\ NadiePasa /\ SemaforosIguales
      /\ ListasIguales /\ Iniciados' = Iniciados /\ AnunciosIguales
  BY SinCambios DEF CpuEjecutar, varsKernel, varsPlp, varsIo, varsMemoria,
     AnunciosIguales
<1> USE DEF Cuentas, TokensCoinciden, TokensNew, TokensReady, TokensCpu,
        TokensIo, TokensSusp, TokensFinalizado, UnSoloProceso, BalanceGrado,
        Naturales, Listas, Semaforos, Hilos, Pasa, NadiePasa, Suma, Resta,
        SemaforosIguales, Crece, Decrece, ListasIguales, SocketIgual,
        AnunciosIguales, RestoIgual
<1> QED BY ONLY Cuentas, <1>1, <1>2, <1>3

\* recibir_proceso_de_cpu keeps the accounts.
LEMMA CuentasRecibirProcesoDeCpu ==
    ASSUME TypeOK, Cuentas, RecibirProcesoDeCpu
    PROVE  Cuentas'
<1>1. /\ Naturales /\ TipoKernel /\ CuentasKernel /\ TokensCpu
      /\ UnSoloProceso
  BY NaturalesTipo, CuentasPartes DEF TypeOK
<1>2. CASE RecibirPcb
  <2> USE <1>1, <1>2 DEF RecibirPcb
  <2>1. \E e \in {"finalizado_l", "block_l", "muerto"} :
           Pasa("recibir_proceso_de_cpu", "inicio", e)
    BY IrPasa DEF Hilos
  <2>2. Despachados' = Despachados /\ Devueltos' = Devueltos - 1
    BY RecibirTipo DEF TipoKernel, Despachados, Devueltos
  <2>3. /\ SemaforosIguales /\ ListasIguales
        /\ Iniciados' = Iniciados /\ AnunciosIguales
    BY SinCambios DEF varsPlp, varsMemoria, AnunciosIguales
  <2>4. Ajena
    BY ONLY <2>3 DEF Ajena, SemaforosIguales, ListasIguales
  <2>5. CuentasKernel'
    BY <2>1, <2>4, CuentasRecibirAjena
  <2>6. TokensCpu' /\ UnSoloProceso'
    BY ONLY <1>1, <2>1, <2>2, <2>3
    DEF Pasa, SemaforosIguales, ListasIguales, TokensCpu, UnSoloProceso,
        Naturales, Listas, Semaforos, Hilos
  <2> QED BY <2>5, <2>6, CuentasPartes
<1>3. CASE \/ RecibirFinalizado \/ RecibirAvisarFinalizado
           \/ RecibirBloqueado \/ RecibirAvisarBloqueado
  <2>1. /\ CuentasKernel' /\ PropioIgual
        /\ \E d, f \in {"finalizado_l", "post_finalizado", "block_l",
                        "post_io_pendiente", "post", "if_interrupcion"} :
              Pasa("recibir_proceso_de_cpu", d, f)
    BY <1>1, <1>3, CuentasRecibirComun
    DEF RecibirFinalizado, RecibirBloqueado, RecibirAvisarFinalizado,
        RecibirAvisarBloqueado
  <2>2. En("recibir_proceso_de_cpu", {"if_interrupcion"}) = 0
        /\ En("recibir_proceso_de_cpu", {"if_interrupcion"})' = 0
    BY <1>3, EtapasFifoPaso
    DEF RecibirProcesoDeCpu, EtapasFifo, TypeOK, En
  <2>3. TokensCpu' /\ UnSoloProceso'
    BY ONLY <1>1, <2>1, <2>2
    DEF PropioIgual, Pasa, TokensCpu, UnSoloProceso, SocketIgual, Hilos
  <2> QED BY <2>1, <2>3, CuentasPartes
<1>4. CASE RecibirLiberarCpu
  <2>1. /\ Pasa("recibir_proceso_de_cpu", "post", "inicio")
        /\ Suma("s_proceso_ejecutando") /\ ListasIguales /\ RestoIgual
    BY <1>1, <1>4, RecibirLiberarCpuCuenta
  <2>2. Ajena
    BY ONLY <2>1
    DEF Ajena, Suma, ListasIguales, RestoIgual, AnunciosIguales
  <2>3. CuentasKernel'
    BY <1>1, <2>1, <2>2, CuentasRecibirAjena
  <2>4. TokensCpu' /\ UnSoloProceso'
    BY ONLY <1>1, <2>1
    DEF Pasa, Suma, ListasIguales, RestoIgual, SocketIgual, TokensCpu,
        UnSoloProceso, Naturales, Listas, Semaforos, Hilos
  <2> QED BY <2>3, <2>4, CuentasPartes
<1> QED BY <1>2, <1>3, <1>4 DEF RecibirProcesoDeCpu

-----------------------------------------------------------------------------
(* Types.                                                                   *)

\* agregar_a_ready keeps the types.
LEMMA TipoAgregarAReady ==
    ASSUME TypeOK, Cuentas, AgregarAReady
    PROVE  TipoKernel'
<1>1. TipoKernel /\ CuentasKernel
  BY CuentasPartes DEF TypeOK
<1>2. CASE AgregarEntregar
  <2>1. pcb["agregar_a_ready"] \in Cabe("ready_l")
    BY <1>1, <1>2, CargaDe, PcbDeHilo DEF AgregarEntregar, Entregar, Cabe, Hilos
  <2> QED BY ONLY <1>1, <1>2, <2>1, TipoEntregar, EtapasDe, CargaDe
    DEF AgregarEntregar, Hilos, Listas
<1>3. CASE AgregarAvisar
  BY ONLY <1>1, <1>3, TipoAvisar, EtapasDe, CargaDe
  DEF AgregarAvisar, Hilos, Semaforos
<1> QED BY <1>1, <1>2, <1>3, TipoAgregarComun DEF AgregarAReady

\* enviar_a_ejecutar keeps the types.
LEMMA TipoEnviarAEjecutar ==
    ASSUME TypeOK, Cuentas, EnviarAEjecutar
    PROVE  TipoKernel'
<1>1. TipoKernel
  BY DEF TypeOK
<1>2. CASE EnviarEsperar
  BY ONLY <1>1, <1>2, TipoEsperar, EtapasDe, CargaDe
  DEF EnviarEsperar, Hilos, Semaforos
<1>3. CASE EnviarDespachar
  <2> USE <1>1, <1>3 DEF EnviarDespachar
  <2>1. TipoHilos'
    BY TipoSeguir, EtapasDe, CargaDe DEF TipoKernel, Lleva, Hilos
  <2>2. /\ Head(lista["ready_l"]) \in PCBViva
        /\ Tail(lista["ready_l"]) \in Seq(Cabe("ready_l"))
    BY ReadyNuncaVacia, CabezaLista DEF Cabe, Listas
  <2>3. TipoListas'
    BY ONLY TipoKernel, <1>3, <2>2, TipoCambiar
    DEF TipoKernel, EnviarDespachar, Listas
  <2>5. TipoCpu'
    BY <2>2, DespacharTipo, TipoCpuPaso DEF TipoKernel, TipoCpu, Devuelto
  <2> QED BY ONLY <1>1, <1>3, <2>1, <2>3, <2>5, TipoIgual, SemTipo
    DEF EnviarDespachar, TipoKernel, Semaforos
<1> QED BY <1>2, <1>3 DEF EnviarAEjecutar

\* The CPU keeps the types: it writes FINALIZADO exactly on the PCBs that
\* executed EXIT, and no PCB that has more to run is past an EXIT.
LEMMA TipoCpuEjecutar ==
    ASSUME TypeOK, CpuEjecutar
    PROVE  TipoKernel'
<1> DEFINE m == Head(haciaCpu)
           x == m.pcb
           operacion == Programa[x.pid][x.pc + 1]
           y == [x EXCEPT !.pc = @ + 1]
           e == CASE operacion = "I_O" -> "BLOQUEADO"
                  [] operacion = "EXIT" -> "FINALIZADO"
                  [] OTHER -> m.estado
           d == [pcb |-> y, estado |-> e]
<1>1. m \in Enviado /\ Tail(haciaCpu) \in Seq(Enviado)
  BY CabezaTipo DEF TypeOK, TipoKernel, TipoCpu, CpuEjecutar, Enviado
<1>2. /\ desdeCpu' = Append(desdeCpu, d)
      /\ haciaCpu' = Tail(haciaCpu) /\ UNCHANGED varsKernel
  BY DEF CpuEjecutar
<1>3. x \in PCBViva /\ m.estado \in Estado \ {"FINALIZADO"}
  BY <1>1 DEF Enviado
<1>4. y \in PCB /\ (y \in PCBFin <=> operacion = "EXIT")
  BY <1>3, SiguienteTipo
<1>5. e \in Estado /\ (e = "FINALIZADO" <=> operacion = "EXIT")
  BY <1>3 DEF Estado
<1>6. d \in Devuelto /\ d.pcb = y /\ d.estado = e
  BY <1>4, <1>5 DEF Devuelto
<1>7. TipoCpu'
  <2>1. TipoCpu
    BY DEF TypeOK, TipoKernel
  <2> HIDE DEF d, e, y
  <2> QED BY <1>1, <1>2, <1>4, <1>5, <1>6, <2>1, DevolverTipo, TipoCpuPaso
<1> QED BY <1>2, <1>7, TipoIgual DEF TypeOK, TipoKernel, varsKernel

\* recibir_proceso_de_cpu keeps the types.
LEMMA TipoRecibirProcesoDeCpu ==
    ASSUME TypeOK, RecibirProcesoDeCpu
    PROVE  TipoKernel'
<1>1. TipoKernel
  BY DEF TypeOK
<1>2. CASE RecibirPcb
  <2> DEFINE m == Head(desdeCpu)
             e == CASE m.estado = "FINALIZADO" -> "finalizado_l"
                    [] m.estado = "BLOQUEADO" -> "block_l"
                    [] OTHER -> "muerto"
  <2>1. m.pcb \in PCB /\ (m.estado = "FINALIZADO" <=> m.pcb \in PCBFin)
    BY <1>1, <1>2, RecibirTipo DEF RecibirPcb, TipoKernel
  <2>2. e \in Etapas["recibir_proceso_de_cpu"]
    BY EtapasDe
  <2>3. m.pcb \in Lleva("recibir_proceso_de_cpu", e)
    BY <2>1, CargaDe DEF Lleva, PCBFin
  <2> QED BY <1>1, <1>2, <2>2, <2>3, TipoRecibirPcb DEF RecibirPcb
<1>3. CASE RecibirAvisarFinalizado
  BY ONLY <1>1, <1>3, TipoAvisar, EtapasDe, CargaDe
  DEF RecibirAvisarFinalizado, Hilos, Semaforos
<1>4. CASE RecibirAvisarBloqueado
  <2>1. /\ "post" \in Etapas["recibir_proceso_de_cpu"]
        /\ "post" \notin Carga["recibir_proceso_de_cpu"]
        /\ "post_io_pendiente" \notin Carga["recibir_proceso_de_cpu"]
    BY EtapasDe, CargaDe
  <2> QED BY ONLY <1>1, <1>4, <2>1, TipoAvisar
    DEF RecibirAvisarBloqueado, Hilos, Semaforos
<1> QED BY <1>1, <1>2, <1>3, <1>4, TipoRecibirComun DEF RecibirProcesoDeCpu

-----------------------------------------------------------------------------
(* What was looked up is still there.                                       *)

\* The threads of FIFO and the CPU have nothing to do with it.
LEMMA BusquedaFifo ==
    ASSUME TypeOK, BusquedaVigente,
           \/ AgregarAReady \/ EnviarAEjecutar \/ CpuEjecutar
           \/ RecibirProcesoDeCpu
    PROVE  BusquedaVigente'
<1> USE DEF varsPlp
<1>0. /\ lista = [l \in Listas |-> lista[l]]
      /\ pc = [h \in Hilos |-> pc[h]] /\ pcb = [h \in Hilos |-> pcb[h]]
  BY DEF TypeOK, TipoKernel, TipoListas, TipoHilos
<1>1. CASE AgregarAReady
  <2>1. ASSUME NEW l \in {"susp_readyM_l", "unblock_l"},
               NEW otra \in {"unblock_l", "newM_l"}, AgregarElegir(l, otra)
        PROVE  BusquedaVigente'
    BY <1>0, <2>1, BusquedaIgual DEF AgregarElegir, Tomar, Ir, Hilos, Listas
  <2>2. CASE \/ AgregarEsperar \/ AgregarElegirNew \/ AgregarEntregar
             \/ AgregarAvisar
    BY <1>0, <2>2, BusquedaIgual DEF AgregarEsperar, AgregarElegirNew,
       AgregarEntregar, AgregarAvisar, Esperar, Avisar, Entregar, Tomar, Dejar,
       Ir, Hilos, Listas
  <2> QED BY <1>1, <2>1, <2>2 DEF AgregarAReady
<1>2. CASE EnviarAEjecutar
  BY <1>0, <1>2, BusquedaIgual DEF EnviarAEjecutar, EnviarEsperar,
     EnviarDespachar, Esperar, Ir, Hilos, Listas
<1>3. CASE CpuEjecutar
  BY <1>3, BusquedaIgual DEF CpuEjecutar, varsKernel
<1>4. CASE RecibirProcesoDeCpu
  BY <1>0, <1>4, BusquedaIgual DEF RecibirProcesoDeCpu, RecibirPcb,
     RecibirFinalizado, RecibirAvisarFinalizado, RecibirBloqueado,
     RecibirAvisarBloqueado, RecibirLiberarCpu, Avisar, Entregar, Dejar, Ir,
     Hilos, Listas
<1> QED BY <1>1, <1>2, <1>3, <1>4

-----------------------------------------------------------------------------
(* The theorems.                                                            *)

\* Before any console connects every account is settled.
LEMMA InicioInvariante == Init => IInv
<1> SUFFICES ASSUME Init PROVE IInv
  OBVIOUS
<1>1. /\ TipoKernel /\ CuentasKernel /\ BusquedaVigente
      /\ Largo("ready_l") = 0 /\ Valor("s_cpu") = 0
      /\ Valor("s_proceso_ejecutando") = 1
      /\ Despachados = 0 /\ Devueltos = 0
      /\ \A h \in Hilos : \A E : "inicio" \notin E => En(h, E) = 0
  BY InicioKernel DEF Init
<1>2. TypeOK
  BY <1>1 DEF Init, InitKernel, TypeOK, Hilos
<1>3. TokensCpu /\ UnSoloProceso
  BY ONLY <1>1 DEF TokensCpu, UnSoloProceso, Hilos
<1> QED BY <1>1, <1>2, <1>3, CuentasPartes DEF IInv

\* Every step of every thread keeps IInv.
LEMMA PasoInvariante == IInv /\ [Next]_vars => IInv'
<1> SUFFICES ASSUME IInv, [Next]_vars PROVE IInv'
  OBVIOUS
<1>1. /\ TypeOK /\ Cuentas /\ BusquedaVigente /\ TipoKernel /\ CuentasKernel
      /\ TokensCpu /\ UnSoloProceso /\ EtapasFifo
  BY CuentasPartes DEF IInv, TypeOK, EtapasFifo
<1>2. CASE UNCHANGED varsSocket /\ NextKernel
  <2>1. /\ TipoKernel' /\ CuentasKernel' /\ BusquedaVigente'
        /\ PcpIgual /\ PcpQuieto
    BY <1>1, <1>2, NextKernelInvariante
  <2>2. TypeOK'
    BY <1>1, <2>1 DEF TypeOK, EtapasFifo, PcpQuieto, HilosPcp
  <2>3. TokensCpu' /\ UnSoloProceso'
    BY ONLY <1>1, <2>1
    DEF TokensCpu, UnSoloProceso, PcpIgual, HilosPcp, SocketIgual
  <2> QED BY <2>1, <2>2, <2>3, CuentasPartes DEF IInv
<1>3. CASE AgregarAReady
  BY <1>1, <1>3, BusquedaFifo, TipoAgregarAReady, EtapasFifoPaso,
     CuentasAgregarAReady DEF IInv, TypeOK, EtapasFifo
<1>4. CASE EnviarAEjecutar
  BY <1>1, <1>4, BusquedaFifo, TipoEnviarAEjecutar, EtapasFifoPaso,
     CuentasEnviarAEjecutar DEF IInv, TypeOK, EtapasFifo
<1>5. CASE CpuEjecutar
  BY <1>1, <1>5, BusquedaFifo, TipoCpuEjecutar, EtapasFifoPaso,
     CuentasCpuEjecutar DEF IInv, TypeOK, EtapasFifo
<1>6. CASE RecibirProcesoDeCpu
  BY <1>1, <1>6, BusquedaFifo, TipoRecibirProcesoDeCpu, EtapasFifoPaso,
     CuentasRecibirProcesoDeCpu DEF IInv, TypeOK, EtapasFifo
<1>7. CASE UNCHANGED vars
  <2>1. /\ TipoKernel' /\ CuentasKernel' /\ BusquedaVigente' /\ PcpIgual
    BY <1>1, <1>7, KernelIgual DEF vars
  <2>2. TypeOK'
    BY <1>1, <1>7, <2>1 DEF TypeOK, EtapasFifo, vars, varsKernel
  <2>3. TokensCpu' /\ UnSoloProceso'
    BY ONLY <1>1, <2>1
    DEF TokensCpu, UnSoloProceso, PcpIgual, HilosPcp, SocketIgual
  <2> QED BY <2>1, <2>2, <2>3, CuentasPartes DEF IInv
<1> QED BY <1>2, <1>3, <1>4, <1>5, <1>6, <1>7 DEF Next, Vivo, Reposo

\* The inductive invariant holds in every reachable state.
THEOREM Invariante == Spec => []IInv
BY InicioInvariante, PasoInvariante, PTL DEF Spec

\* The threads keep to their types; a PCB that has executed EXIT is nowhere but
\* in finalizado_l, in exit_l or on its way there, and those hold no other.
THEOREM Tipos == Spec => []TypeOK
<1>1. IInv => TypeOK
  BY DEF IInv
<1> QED BY <1>1, Invariante, PTL

\* No list_remove(l, 0) of the scheduler, but the one of planificador_io, ever
\* finds its list empty: every sem_post announces a PCB that is there.
THEOREM AnunciosCiertos == Spec => []TokensCoinciden
<1>1. IInv => TokensCoinciden
  BY DEF IInv, Cuentas
<1> QED BY <1>1, Invariante, PTL

\* The CPU never has two processes, whatever the interleaving.
THEOREM ExclusionCpu == Spec => []UnSoloProceso
<1>1. IInv => UnSoloProceso
  BY DEF IInv, Cuentas
<1> QED BY <1>1, Invariante, PTL

\* The degree of multiprogramming is exactly what the loads, the suspensions
\* and the ends account for.
THEOREM GradoCuadra == Spec => []BalanceGrado
<1>1. IInv => BalanceGrado
  BY DEF IInv, Cuentas
<1> QED BY <1>1, Invariante, PTL

\* remover_de_lista and buscar_comunicacion never remove what is not there.
THEOREM BusquedaSegura == Spec => []BusquedaVigente
<1>1. IInv => BusquedaVigente
  BY DEF IInv
<1> QED BY <1>1, Invariante, PTL
-----------------------------------------------------------------------------
(* Why the receiver stops.                                                  *)

\* A PCB on its way back is FINALIZADO, BLOQUEADO, or past an instruction that
\* the CPU does not know.
DevueltosConocidos ==
    \A i \in DOMAIN desdeCpu :
       LET x == desdeCpu[i].pcb
       IN  \/ desdeCpu[i].estado \in {"FINALIZADO", "BLOQUEADO"}
           \/ Programa[x.pid][x.pc] = "INVALIDA"

\* The CPU only leaves the estado alone at an invalid instruction.
LEMMA DevueltosCpu ==
    ASSUME TypeOK, DevueltosConocidos, CpuEjecutar
    PROVE  DevueltosConocidos'
<1> DEFINE m == Head(haciaCpu)
           x == m.pcb
           operacion == Programa[x.pid][x.pc + 1]
           y == [x EXCEPT !.pc = @ + 1]
           e == CASE operacion = "I_O" -> "BLOQUEADO"
                  [] operacion = "EXIT" -> "FINALIZADO"
                  [] OTHER -> m.estado
           d == [pcb |-> y, estado |-> e]
<1>1. m \in Enviado
  BY CabezaTipo DEF TypeOK, TipoKernel, TipoCpu, CpuEjecutar, Enviado
<1>2. x \in PCBViva
  BY <1>1 DEF Enviado
<1>3. /\ y.pid = x.pid /\ y.pc = x.pc + 1 /\ x.pid \in Proceso
      /\ x.pc + 1 \in 1 .. Len(Programa[x.pid])
  BY <1>2, SiguienteTipo
<1>4. operacion \in Operacion \ {"NO_OP"}
  <2>1. Programa[x.pid] \in Seq(Operacion \ {"NO_OP"})
    BY <1>3, RafagasAssumption
  <2> QED BY ONLY <1>3, <2>1, LenProperties
<1>5. \/ d.estado \in {"FINALIZADO", "BLOQUEADO"}
      \/ Programa[d.pcb.pid][d.pcb.pc] = "INVALIDA"
  BY <1>3, <1>4 DEF Operacion
<1>6. desdeCpu' = Append(desdeCpu, d) /\ desdeCpu \in Seq(Devuelto)
  BY DEF CpuEjecutar, TypeOK, TipoKernel, TipoCpu, Devuelto
<1> HIDE DEF d
<1>7. /\ DOMAIN desdeCpu' = 1 .. Len(desdeCpu) + 1 /\ Len(desdeCpu) \in Nat
      /\ DOMAIN desdeCpu = 1 .. Len(desdeCpu)
      /\ \A i \in 1 .. Len(desdeCpu) : desdeCpu'[i] = desdeCpu[i]
      /\ desdeCpu'[Len(desdeCpu) + 1] = d
  BY <1>6, AppendProperties, LenProperties
<1> SUFFICES ASSUME NEW i \in DOMAIN desdeCpu'
             PROVE  \/ desdeCpu'[i].estado \in {"FINALIZADO", "BLOQUEADO"}
                    \/ Programa[desdeCpu'[i].pcb.pid][desdeCpu'[i].pcb.pc]
                          = "INVALIDA"
  BY DEF DevueltosConocidos
<1>8. CASE i \in 1 .. Len(desdeCpu)
  BY <1>7, <1>8 DEF DevueltosConocidos
<1>9. CASE i = Len(desdeCpu) + 1
  BY <1>5, <1>7, <1>9
<1> QED BY <1>7, <1>8, <1>9

\* The receiver reads what the CPU wrote.
LEMMA MuertoRecibirPcb ==
    ASSUME TypeOK, DevueltosConocidos, MuertoPorInvalida, RecibirPcb
    PROVE  DevueltosConocidos' /\ MuertoPorInvalida'
<1> DEFINE m == Head(desdeCpu)
           h == "recibir_proceso_de_cpu"
<1>1. /\ \A i \in DOMAIN desdeCpu' : desdeCpu'[i] = desdeCpu[i + 1]
      /\ m = desdeCpu[1] /\ Len(desdeCpu) \in Nat /\ Len(desdeCpu) > 0
      /\ DOMAIN desdeCpu = 1 .. Len(desdeCpu)
      /\ DOMAIN desdeCpu' = 1 .. Len(desdeCpu) - 1
  <2>1. /\ Tail(desdeCpu) \in Seq(Devuelto) /\ desdeCpu \in Seq(Devuelto)
        /\ desdeCpu' = Tail(desdeCpu)
    BY RecibirTipo DEF RecibirPcb, TypeOK, TipoKernel, TipoCpu, Devuelto
  <2> QED BY <2>1, RecibirTipo DEF RecibirPcb, TypeOK, TipoKernel
<1>2. DevueltosConocidos'
  <2> SUFFICES ASSUME NEW i \in DOMAIN desdeCpu'
               PROVE  \/ desdeCpu'[i].estado \in {"FINALIZADO", "BLOQUEADO"}
                      \/ Programa[desdeCpu'[i].pcb.pid][desdeCpu'[i].pcb.pc]
                            = "INVALIDA"
    BY DEF DevueltosConocidos
  <2>1. i + 1 \in DOMAIN desdeCpu /\ desdeCpu'[i] = desdeCpu[i + 1]
    BY <1>1
  <2> QED BY <2>1 DEF DevueltosConocidos
<1>3. \/ m.estado \in {"FINALIZADO", "BLOQUEADO"}
      \/ Programa[m.pcb.pid][m.pcb.pc] = "INVALIDA"
  BY <1>1 DEF DevueltosConocidos
<1>4. pcb'[h] = m.pcb /\ (pc'[h] = "muerto" =>
                             m.estado \notin {"FINALIZADO", "BLOQUEADO"})
  BY DEF RecibirPcb, Ir, TypeOK, TipoKernel, TipoHilos, Hilos
<1>5. MuertoPorInvalida'
  BY <1>3, <1>4 DEF MuertoPorInvalida
<1> QED BY <1>2, <1>5

\* Every other step leaves the receiver, if it stopped, and the socket alone.
LEMMA MuertoPaso ==
    TypeOK /\ DevueltosConocidos /\ MuertoPorInvalida /\ [Next]_vars =>
       DevueltosConocidos' /\ MuertoPorInvalida'
<1> SUFFICES ASSUME TypeOK, DevueltosConocidos, MuertoPorInvalida, [Next]_vars
             PROVE  DevueltosConocidos' /\ MuertoPorInvalida'
  OBVIOUS
<1> DEFINE h == "recibir_proceso_de_cpu"
           Igual == /\ desdeCpu' = desdeCpu
                    /\ \/ pc'[h] = pc[h] /\ pcb'[h] = pcb[h]
                       \/ pc'[h] # "muerto"
<1>0. pc = [g \in Hilos |-> pc[g]] /\ pcb = [g \in Hilos |-> pcb[g]]
      /\ TipoKernel
  BY DEF TypeOK, TipoKernel, TipoHilos
<1>1. Igual => DevueltosConocidos' /\ MuertoPorInvalida'
  BY DEF DevueltosConocidos, MuertoPorInvalida
<1>2. CASE NextKernel /\ UNCHANGED varsSocket
  <2>1. PcpQuieto
    BY <1>0, <1>2, NextKernelQuieto
  <2> QED BY <1>1, <1>2, <2>1 DEF PcpQuieto, HilosPcp, varsSocket
<1>3. CASE AgregarAReady
  <2>1. Igual
    BY <1>0, <1>3
    DEF AgregarAReady, AgregarEsperar, AgregarElegir, AgregarElegirNew,
        AgregarEntregar, AgregarAvisar, Esperar, Avisar, Entregar, Tomar,
        Dejar, Ir, Hilos, varsSocket
  <2> QED BY <1>1, <2>1
<1>4. CASE EnviarAEjecutar
  <2>1. Igual
    BY <1>0, <1>4
    DEF EnviarAEjecutar, EnviarEsperar, EnviarDespachar, Esperar, Ir, Hilos,
        varsSocket
  <2> QED BY <1>1, <2>1
<1>5. CASE CpuEjecutar
  BY <1>5, DevueltosCpu DEF CpuEjecutar, varsKernel, MuertoPorInvalida
<1>6. CASE RecibirProcesoDeCpu
  <2>1. CASE \/ RecibirFinalizado \/ RecibirAvisarFinalizado
             \/ RecibirBloqueado \/ RecibirAvisarBloqueado
             \/ RecibirLiberarCpu
    <3>1. Igual
      BY <1>0, <2>1
      DEF RecibirFinalizado, RecibirAvisarFinalizado, RecibirBloqueado,
          RecibirAvisarBloqueado, RecibirLiberarCpu, Avisar, Entregar, Dejar,
          Ir, Hilos, varsSocket
    <3> QED BY <1>1, <3>1
  <2> QED BY <1>6, <2>1, MuertoRecibirPcb DEF RecibirProcesoDeCpu
<1>7. CASE UNCHANGED vars
  BY <1>1, <1>7 DEF vars, varsKernel, varsSocket
<1> QED BY <1>2, <1>3, <1>4, <1>5, <1>6, <1>7 DEF Next, Vivo, Reposo

\* The receiver never stops on a legal program.
THEOREM ReceptorVivo == Spec => []MuertoPorInvalida
<1>1. Init => DevueltosConocidos /\ MuertoPorInvalida
  BY DEF Init, InitKernel, DevueltosConocidos, MuertoPorInvalida, Hilos
<1> QED BY <1>1, MuertoPaso, Tipos, PTL DEF Spec

-----------------------------------------------------------------------------
(* Where each process is, and what follows from it.                         *)

LInv == LugaresInv /\ CuentaPerdidos(0) /\ AvisoInv /\ MensajesInv

\* One process at most is in each direction of the socket.
LEMMA SocketCorto ==
    ASSUME TypeOK, Cuentas
    PROVE  Despachados <= 1 /\ Devueltos <= 1
<1>1. Naturales
  BY NaturalesTipo DEF TypeOK
<1> QED BY ONLY Cuentas, <1>1
  DEF Cuentas, UnSoloProceso, Naturales, Listas, Semaforos

\* agregar_a_ready moves at most the process it carries, to ready_l.
LEMMA LugaresAgregarAReady ==
    ASSUME TypeOK, Cuentas, LugaresInv, AgregarAReady
    PROVE  /\ LugaresInv' /\ Ausentes' = Ausentes
           /\ BloqueoIgual /\ DetallesIguales
<1> DEFINE h == "agregar_a_ready"
<1>0. /\ TipoKernel /\ CuentasKernel
      /\ lista = [l \in Listas |-> lista[l]] /\ pc = [g \in Hilos |-> pc[g]]
      /\ pcb = [g \in Hilos |-> pcb[g]] /\ sem = [x \in Semaforos |-> sem[x]]
      /\ h \in HilosPcb /\ h \in Hilos /\ "ready_l" \in ListasPcb
  BY CuentasPartes DEF TypeOK, TipoKernel, TipoHilos, TipoListas, HilosPcb,
     Hilos, ListasPcb, Listas
<1>1. CASE \/ AgregarEsperar \/ AgregarElegir("susp_readyM_l", "unblock_l")
           \/ AgregarElegir("unblock_l", "newM_l") \/ AgregarElegirNew
  BY <1>0, <1>1, LugaresAgregarComun, DetallesComun
<1>2. CASE AgregarEntregar
  <2>1. /\ pc[h] = "ready_l" /\ Dejar(h, "ready_l", "post")
        /\ UNCHANGED varsSocket /\ UNCHANGED consola
    BY <1>2 DEF AgregarEntregar, Entregar, varsPlp
  <2>2. pcb[h] \in PCB
    BY <1>0, <2>1, PcbDeHilo, CargaDe
  <2>3. Conserva
    BY <1>0, <2>1, <2>2, LugarDejar
  <2>4. BloqueoIgual /\ DetallesIguales
    BY <1>0, <1>2 DEF AgregarEntregar, Entregar, Dejar, Ir, BloqueoIgual,
       DetallesIguales, En, Hilos, Listas, varsPlp, varsIo, varsMemoria
  <2> QED BY <2>1, <2>3, <2>4, CabezaIgual, LugaresConserva, IngresadosIgual
<1>3. CASE AgregarAvisar
  <2>1. BloqueoIgual /\ DetallesIguales /\ UNCHANGED consola
    BY <1>0, <1>3 DEF AgregarAvisar, Avisar, Post, Ir, BloqueoIgual,
       DetallesIguales, En, Hilos, Semaforos, varsPlp, varsIo, varsMemoria
  <2>2. Conserva
    BY <1>0, <1>3, LugarQuieto DEF AgregarAvisar, Avisar, Ir, Hilos
  <2> QED BY <2>1, <2>2, CabezaIgual, LugaresConserva, IngresadosIgual
<1> QED BY <1>1, <1>2, <1>3 DEF AgregarAReady

\* enviar_a_ejecutar moves the first process of ready_l to the socket.
LEMMA LugaresDespachar ==
    ASSUME TypeOK, Cuentas, LugaresInv, EnviarDespachar
    PROVE  Conserva /\ Mueve("ready_l", "haciaCpu", Head(lista["ready_l"]).pid)
<1> DEFINE q == lista["ready_l"]
           x == Head(q)
<1>1. /\ TipoKernel /\ "ready_l" \in ListasPcb /\ "ready_l" \in Listas
      /\ "ready_l" # "haciaCpu"
      /\ "ready_l" \in Contenedores /\ "haciaCpu" \in Contenedores
  BY DEF TypeOK, ListasPcb, Listas, Contenedores
<1>2. Largo("ready_l") > 0
  BY ReadyNuncaVacia DEF EnviarDespachar
<1>3. x \in PCBViva
  BY <1>1, <1>2, CabezaLista DEF Cabe
<1>4. q \in Seq(PCB) /\ q # <<>> /\ SinRepetir(q)
  BY <1>1, <1>2, ListaDePcb, NoVaciaLista DEF LugaresInv, SinRepetidos
<1>5. /\ x.pid \in Pids(q) /\ Pids(Tail(q)) = Pids(q) \ {x.pid}
      /\ SinRepetir(Tail(q))
  BY ONLY <1>4, PidsTail
<1>6. /\ lista'["ready_l"] = Tail(q)
      /\ \A l \in ListasPcb \ {"ready_l"} : lista'[l] = lista[l]
      /\ desdeCpu' = desdeCpu
      /\ haciaCpu' = Append(haciaCpu, [pcb |-> x, estado |-> estado[x]])
  BY <1>1 DEF EnviarDespachar, TipoKernel, TipoListas, ListasPcb
<1>7. \A h \in HilosPcb : Tiene(h)' = Tiene(h)
  <2>1. ASSUME NEW h \in HilosPcb PROVE PidDe(h)' = PidDe(h)
    BY <1>1 DEF EnviarDespachar, Ir, PidDe, TipoKernel, TipoHilos, HilosPcb
  <2> QED BY <2>1, TieneCasos
<1>8. Tiene("haciaCpu")' = Tiene("haciaCpu") \cup {x.pid}
  BY <1>1, <1>3, <1>6, SocketDespachar
<1> HIDE DEF x
<1>9. /\ x.pid \in Tiene("ready_l")
      /\ Tiene("ready_l")' = Tiene("ready_l") \ {x.pid}
  BY <1>1, <1>5, <1>6, TieneCasos
<1>10. Iguales({"ready_l", "haciaCpu"})
  BY <1>6, <1>7, TieneIgual DEF Iguales, Contenedores
<1>11. Mueve("ready_l", "haciaCpu", x.pid)
  BY <1>8, <1>9, <1>10 DEF Mueve
<1>12. SinRepetidos'
  BY <1>5, <1>6 DEF LugaresInv, SinRepetidos
<1> QED BY <1>1, <1>11, <1>12, AjenosMueve DEF LugaresInv, Conserva, x

\* So the dispatch loses nobody.
LEMMA LugaresEnviarAEjecutar ==
    ASSUME TypeOK, Cuentas, LugaresInv, EnviarAEjecutar
    PROVE  /\ LugaresInv' /\ Ausentes' = Ausentes
           /\ BloqueoIgual /\ DetallesIguales
<1>0. /\ lista = [l \in Listas |-> lista[l]] /\ pc = [g \in Hilos |-> pc[g]]
      /\ pcb = [g \in Hilos |-> pcb[g]] /\ sem = [x \in Semaforos |-> sem[x]]
  BY DEF TypeOK, TipoKernel, TipoHilos, TipoListas
<1>1. BloqueoIgual /\ DetallesIguales /\ UNCHANGED consola
  BY <1>0 DEF EnviarAEjecutar, EnviarEsperar, EnviarDespachar, Esperar, Wait,
     Ir, BloqueoIgual, DetallesIguales, En, Hilos, Listas, Semaforos, varsPlp,
     varsIo, varsMemoria
<1>2. ASSUME EnviarEsperar PROVE Conserva
  BY <1>0, <1>2, LugarQuieto DEF EnviarEsperar, Esperar, Ir, Hilos
<1>3. Conserva
  BY <1>2, LugaresDespachar DEF EnviarAEjecutar
<1> QED BY <1>1, <1>3, CabezaIgual, LugaresConserva, IngresadosIgual

\* The CPU loses nobody.
LEMMA LugaresCpuEjecutar ==
    ASSUME TypeOK, Cuentas, LugaresInv, CpuEjecutar
    PROVE  /\ LugaresInv' /\ Ausentes' = Ausentes
           /\ BloqueoIgual /\ DetallesIguales
           /\ Va("haciaCpu", "desdeCpu")
<1> DEFINE m == Head(haciaCpu)
           x == m.pcb
           operacion == Programa[x.pid][x.pc + 1]
           y == [x EXCEPT !.pc = @ + 1]
           e == CASE operacion = "I_O" -> "BLOQUEADO"
                  [] operacion = "EXIT" -> "FINALIZADO"
                  [] OTHER -> m.estado
           d == [pcb |-> y, estado |-> e]
<1>1. m \in Enviado
  BY CabezaTipo DEF TypeOK, TipoKernel, TipoCpu, CpuEjecutar, Enviado
<1>2. x \in PCBViva /\ m.estado \in Estado
  BY <1>1 DEF Enviado
<1>3. y \in PCB /\ y.pid = x.pid
  BY <1>2, SiguienteTipo
<1>4. e \in Estado
  BY <1>2 DEF Estado
<1>5. d \in [pcb : PCB, estado : Estado] /\ d.pcb.pid = Head(haciaCpu).pcb.pid
  BY <1>3, <1>4
<1>6. /\ haciaCpu # <<>> /\ haciaCpu' = Tail(haciaCpu)
      /\ desdeCpu' = Append(desdeCpu, d)
      /\ UNCHANGED <<lista, pc, pcb>> /\ UNCHANGED <<consola, s, sem>>
      /\ UNCHANGED <<mem, contador>>
  BY DEF CpuEjecutar, varsKernel, varsPlp, varsIo, varsMemoria
<1> HIDE DEF d
<1>7. Conserva /\ Va("haciaCpu", "desdeCpu")
  BY <1>5, <1>6, SocketCorto, LugarCpu DEF TypeOK
<1>8. BloqueoIgual /\ DetallesIguales
  BY <1>6 DEF BloqueoIgual, DetallesIguales, En
<1> QED BY <1>6, <1>7, <1>8, CabezaIgual, LugaresConserva, IngresadosIgual

\* recibir_proceso_de_cpu loses a process only to the race on block_l.
LEMMA LugaresRecibirProcesoDeCpu ==
    ASSUME TypeOK, Cuentas, LugaresInv, CuentaPerdidos(0), caida = "no",
           RecibirProcesoDeCpu
    PROVE  LugaresInv' /\ CuentaPerdidos(0)' /\ DetallesIguales
<1> DEFINE h == "recibir_proceso_de_cpu"
<1>0. /\ TipoKernel
      /\ lista = [l \in Listas |-> lista[l]] /\ pc = [g \in Hilos |-> pc[g]]
      /\ pcb = [g \in Hilos |-> pcb[g]] /\ sem = [x \in Semaforos |-> sem[x]]
  BY DEF TypeOK, TipoKernel, TipoHilos, TipoListas
<1>1. CASE RecibirPcb
  <2>1. Conserva
    BY <1>0, <1>1, SocketCorto, LugarRecibir DEF RecibirPcb
  <2>2. BloqueoIgual /\ DetallesIguales /\ UNCHANGED consola
    BY <1>0, <1>1 DEF RecibirPcb, Ir, BloqueoIgual, DetallesIguales, En, Hilos,
       varsPlp, varsMemoria
  <2> QED BY <1>0, <2>1, <2>2, CabezaIgual, LugaresConserva, IngresadosIgual,
             PerdidosIgual
<1>2. CASE RecibirFinalizado \/ RecibirLiberarCpu
  BY <1>0, <1>2, LugaresRecibirComun, DetallesComun, PerdidosIgual
<1>3. CASE RecibirAvisarFinalizado
  <2>1. BloqueoIgual /\ DetallesIguales /\ UNCHANGED consola
    BY <1>0, <1>3 DEF RecibirAvisarFinalizado, Avisar, Post, Ir, BloqueoIgual,
       DetallesIguales, En, Hilos, Semaforos, varsPlp, varsIo, varsMemoria
  <2>2. Conserva
    BY <1>0, <1>3, LugarQuieto DEF RecibirAvisarFinalizado, Avisar, Ir, Hilos
  <2> QED BY <2>1, <2>2, CabezaIgual, LugaresConserva, IngresadosIgual,
             PerdidosIgual
<1>4. CASE RecibirAvisarBloqueado
  <2>1. /\ DetallesIguales /\ UNCHANGED consola
        /\ UNCHANGED <<lista, pcb>> /\ UNCHANGED varsSocket
        /\ pc'["planificador_io"] = pc["planificador_io"]
    BY <1>0, <1>4 DEF RecibirAvisarBloqueado, Avisar, Ir, DetallesIguales,
       Hilos, varsPlp, varsIo, varsMemoria
  <2>2. Conserva
    BY <2>1, LugarQuieto
  <2>3. CabezaVigente'
    BY <2>1 DEF LugaresInv, CabezaVigente
  <2>4. LugaresInv' /\ Ausentes' = Ausentes
    BY <2>1, <2>2, <2>3, LugaresConserva, IngresadosIgual
  <2>5. CuentaPerdidos(0)'
    BY <1>0, <1>4, <2>4, PerdidosAvisar DEF RecibirAvisarBloqueado
  <2> QED BY <2>1, <2>4, <2>5
<1>5. CASE RecibirBloqueado
  BY <1>0, <1>5, LugaresRecibirBloqueado, PerdidosRecibirBloqueado,
     DetallesComun
<1> QED BY <1>1, <1>2, <1>3, <1>4, <1>5 DEF RecibirProcesoDeCpu

\* Every step of every thread keeps LInv and sends Memoria its messages in order.
LEMMA LugaresPaso ==
    IInv /\ LInv /\ [Next]_vars => LInv' /\ MensajesPaso
<1> SUFFICES ASSUME IInv, LInv, [Next]_vars
             PROVE  LInv' /\ MensajesPaso
  OBVIOUS
<1>1. /\ TypeOK /\ Cuentas /\ TipoKernel /\ CuentasKernel
      /\ LugaresInv /\ CuentaPerdidos(0) /\ AvisoInv /\ MensajesInv
  BY CuentasPartes DEF IInv, LInv, TypeOK
<1>2. CASE caida = "no" /\ UNCHANGED varsSocket /\ NextKernel
  BY <1>1, <1>2, LugaresNextKernel, PerdidosNextKernel, AvisoNextKernel,
     MensajesNextKernel DEF LInv
<1>3. CASE caida = "no" /\ AgregarAReady
  BY <1>1, <1>3, LugaresAgregarAReady, PerdidosIgual, DetallesInv DEF LInv
<1>4. CASE caida = "no" /\ EnviarAEjecutar
  BY <1>1, <1>4, LugaresEnviarAEjecutar, PerdidosIgual, DetallesInv DEF LInv
<1>5. CASE caida = "no" /\ CpuEjecutar
  BY <1>1, <1>5, LugaresCpuEjecutar, PerdidosIgual, DetallesInv DEF LInv
<1>6. CASE caida = "no" /\ RecibirProcesoDeCpu
  BY <1>1, <1>6, LugaresRecibirProcesoDeCpu, DetallesInv DEF LInv
<1>7. CASE UNCHANGED vars
  <2>1. UNCHANGED varsKernel /\ UNCHANGED varsSocket /\ caida' = caida
    BY <1>7 DEF vars, varsKernel
  <2>2. /\ LugaresInv' /\ Ausentes' = Ausentes /\ BloqueoIgual
        /\ AvisoInv' /\ MensajesInv' /\ MensajesPaso
    BY <1>1, <2>1, LugaresNadie
  <2>3. CuentaPerdidos(0)'
    <3>1. CASE caida = "no" BY <1>1, <2>2, <3>1, PerdidosIgual
    <3>2. CASE caida # "no" BY <2>1, <3>2 DEF CuentaPerdidos
    <3> QED BY <3>1, <3>2
  <2> QED BY <2>2, <2>3 DEF LInv
<1> QED BY <1>2, <1>3, <1>4, <1>5, <1>6, <1>7 DEF Next, Vivo, Reposo

\* The second inductive invariant holds in every reachable state, on top of IInv.
THEOREM InvarianteLugares == Spec => [](IInv /\ LInv)
<1>1. Init => LInv
  BY InicioLugares DEF Init, LInv
<1> QED BY <1>1, Invariante, LugaresPaso, PTL DEF Spec

\* No process is ever in two lists, in a list and with a thread, or on the socket
\* twice, even when its timer fires after its I/O has ended.
THEOREM UnSoloLugar == Spec => []PcbEnUnSoloLugar
<1>1. ASSUME IInv, LInv PROVE PcbEnUnSoloLugar
  <2>1. /\ LugaresInv /\ Despachados <= 1 /\ Devueltos <= 1 /\ TipoCpu
    BY <1>1, SocketCorto DEF IInv, LInv, TypeOK, TipoKernel
  <2>2. ASSUME NEW p \in Proceso PROVE Cardinality(Lugares(p)) <= 1
    <3>1. \A u, v \in Lugares(p) : u = v
      BY <2>1, UnLugar
    <3> QED BY <3>1, A_LoSumoUno
  <2> QED BY <2>2 DEF PcbEnUnSoloLugar
<1> QED BY <1>1, InvarianteLugares, PTL

\* Nothing but the race on block_l loses a process, and each loss leaves one
\* s_io_pendiente too many.
THEOREM PerdidasContadas == Spec => []PerdidosConAviso
<1>1. ASSUME IInv, LInv PROVE PerdidosConAviso
  <2>1. Perdidos = Ausentes
    BY <1>1, SocketCorto, PerdidosAusentes DEF IInv, LInv, TypeOK, TipoKernel
  <2>2. CuentaPerdidos(0) /\ Valor("s_io_pendiente") \in Nat
        /\ \A h, E : En(h, E) \in Nat
    BY <1>1, PerdidosNaturales DEF IInv, LInv, TypeOK
  <2>3. Largo("block_l") + Cardinality(Ausentes) =
           0 + Valor("s_io_pendiente") + En("planificador_io", {"quitar"})
             + En("recibir_proceso_de_cpu", {"post_io_pendiente"})
        => PerdidosConAviso
    BY ONLY <2>1, <2>2 DEF PerdidosConAviso
  <2> QED BY <2>2, <2>3 DEF CuentaPerdidos, PerdidosConAviso
<1> QED BY <1>1, InvarianteLugares, PTL

\* A console is told of the end of its process after that process ran its EXIT,
\* and once.
THEOREM ConsolaAvisada == Spec => []AvisoTrasExit
<1>1. IInv /\ LInv => AvisoTrasExit
  BY AvisoDeInv DEF IInv, LInv, TypeOK
<1> QED BY <1>1, InvarianteLugares, PTL

\* Memoria is asked to initialise each pid once, and before anything else.
THEOREM OrdenDeMensajes == Spec => MensajesEnOrden
<1>1. IInv /\ LInv /\ [Next]_vars =>
        \A p \in Proceso :
           mem'[p] # mem[p] =>
              (mem'[p] = "INICIALIZAR_PROCESO" <=> mem[p] = "ninguno")
  BY LugaresPaso DEF MensajesPaso
<1> QED BY <1>1, InvarianteLugares, PTL DEF Spec, MensajesEnOrden

-----------------------------------------------------------------------------
(* The refinement of Planificador.                                          *)

\* The state of the processes in container c.
Clase(c) ==
    CASE c = "new_l" -> "NEW"
      [] c = "ready_l" -> "READY"
      [] c \in {"haciaCpu", "desdeCpu", "recibir_proceso_de_cpu"} -> "EXEC"
      [] c \in {"finalizado_l", "exit_l", "finalizar_procesos"} -> "EXIT"
      [] \/ c = "susp_ready_l"
         \/ c = "io" /\ pc["io"] = "susp_ready_l" -> "SUSP_READY"
      [] \/ c \in {"newM_l", "unblock_l", "susp_readyM_l", "pasar_a_ready",
                   "avisar_proceso_susp_ready", "agregar_a_ready"}
         \/ c = "io" /\ pc["io"] = "unblock_l" -> "ADMITIDO"
      [] OTHER -> "BLOCK"

\* Where p is, in the words of the refinement mapping.
LEMMA Donde ==
    ASSUME TypeOK, NEW p
    PROVE  /\ \A L \in SUBSET ListasPcb :
                 EnLista(p, L) <=> \E l \in L : p \in Tiene(l)
           /\ EnCpu(p) <=>
                 \E c \in {"haciaCpu", "desdeCpu", "recibir_proceso_de_cpu"} :
                    p \in Tiene(c)
           /\ EnHilo(p, "finalizar_procesos", {"buscar", "quitar", "despertar"})
                 <=> p \in Tiene("finalizar_procesos")
           /\ EnHilo(p, "pasar_a_ready", {"newM_l"}) <=>
                 p \in Tiene("pasar_a_ready")
           /\ EnHilo(p, "avisar_proceso_susp_ready", {"susp_readyM_l"}) <=>
                 p \in Tiene("avisar_proceso_susp_ready")
           /\ EnHilo(p, "agregar_a_ready", {"ready_l"}) <=>
                 p \in Tiene("agregar_a_ready")
           /\ \A e : EnHilo(p, "io", {e}) <=> p \in Tiene("io") /\ pc["io"] = e
<1>1. ASSUME NEW L \in SUBSET ListasPcb
      PROVE  EnLista(p, L) <=> \E l \in L : p \in Tiene(l)
  <2>1. \A l \in L : p \in Tiene(l) <=>
                        \E i \in DOMAIN lista[l] : lista[l][i].pid = p
    BY TieneCasos DEF Pids
  <2> QED BY <2>1 DEF EnLista
<1>2. ASSUME NEW h \in HilosPcb, h # "planificador_io"
      PROVE  /\ p \in Tiene(h) <=> pcb[h] # NULO /\ pcb[h].pid = p
             /\ pcb[h] # NULO <=> pc[h] \in Carga[h]
  <2>1. h \in Hilos
    BY DEF HilosPcb
  <2>2. Tiene(h) = IF pcb[h] # NULO THEN {pcb[h].pid} ELSE {}
    BY <1>2, TieneCasos DEF PidDe
  <2> QED BY <2>1, <2>2, PcbDeHilo DEF TypeOK
<1>3. {"finalizar_procesos", "pasar_a_ready", "avisar_proceso_susp_ready",
       "agregar_a_ready", "io", "recibir_proceso_de_cpu"}
         \subseteq HilosPcb \ {"planificador_io"}
  BY DEF HilosPcb, Hilos
<1>4. EnHilo(p, "recibir_proceso_de_cpu", {"finalizado_l", "block_l", "muerto"})
         <=> p \in Tiene("recibir_proceso_de_cpu")
  <2>1. /\ pc["recibir_proceso_de_cpu"] \in
             {"inicio", "finalizado_l", "post_finalizado", "block_l",
              "post_io_pendiente", "post", "muerto"}
        /\ Carga["recibir_proceso_de_cpu"] =
             {"finalizado_l", "block_l", "interrumpidos_l", "descartar",
              "muerto"}
    BY CargaDe DEF TypeOK
  <2>2. pc["recibir_proceso_de_cpu"] \in Carga["recibir_proceso_de_cpu"] <=>
           pc["recibir_proceso_de_cpu"] \in {"finalizado_l", "block_l", "muerto"}
    BY ONLY <2>1
  <2> QED BY <1>2, <1>3, <2>2 DEF EnHilo
<1>5. EnCpu(p) <=>
         \E c \in {"haciaCpu", "desdeCpu", "recibir_proceso_de_cpu"} :
            p \in Tiene(c)
  BY <1>4, TieneCasos DEF EnCpu
<1>6. /\ EnHilo(p, "finalizar_procesos", {"buscar", "quitar", "despertar"})
            <=> p \in Tiene("finalizar_procesos")
      /\ EnHilo(p, "pasar_a_ready", {"newM_l"}) <=>
            p \in Tiene("pasar_a_ready")
      /\ EnHilo(p, "avisar_proceso_susp_ready", {"susp_readyM_l"}) <=>
            p \in Tiene("avisar_proceso_susp_ready")
      /\ EnHilo(p, "agregar_a_ready", {"ready_l"}) <=>
            p \in Tiene("agregar_a_ready")
  BY <1>2, <1>3, CargaDe DEF EnHilo
<1>7. \A e : EnHilo(p, "io", {e}) <=> p \in Tiene("io") /\ pc["io"] = e
  BY <1>2, <1>3 DEF EnHilo
<1> QED BY <1>1, <1>5, <1>6, <1>7

\* p is nowhere, in the words of the refinement mapping.
NoEsta(p) ==
    /\ ~EnLista(p, {"new_l"}) /\ ~EnLista(p, {"ready_l"}) /\ ~EnCpu(p)
    /\ ~EnLista(p, {"finalizado_l", "exit_l"})
    /\ ~EnHilo(p, "finalizar_procesos", {"buscar", "quitar", "despertar"})
    /\ ~EnLista(p, {"susp_ready_l"}) /\ ~EnHilo(p, "io", {"susp_ready_l"})
    /\ ~EnLista(p, {"newM_l", "unblock_l", "susp_readyM_l"})
    /\ ~EnHilo(p, "pasar_a_ready", {"newM_l"})
    /\ ~EnHilo(p, "avisar_proceso_susp_ready", {"susp_readyM_l"})
    /\ ~EnHilo(p, "agregar_a_ready", {"ready_l"})
    /\ ~EnHilo(p, "io", {"unblock_l"})

\* The container of a process tells its state; the processes that are nowhere
\* are the ones lost on their way to block_l, and those of the consoles still to
\* be attended are outside.
EtapasDichas ==
    /\ \A c \in Contenedores : \A p \in Tiene(c) : Etapa(p) = Clase(c)
    /\ \A p \in Ausentes : Etapa(p) = "BLOCK"
    /\ \A p \in Proceso \ Ingresados : Etapa(p) = "AFUERA"

\* The refinement mapping says what the containers say.
LEMMA EtapaDe == TypeOK /\ LugaresInv => EtapasDichas
<1> SUFFICES ASSUME TypeOK, LugaresInv PROVE EtapasDichas
  OBVIOUS
<1>0. /\ {"new_l", "ready_l", "finalizado_l", "exit_l", "susp_ready_l", "newM_l",
          "unblock_l", "susp_readyM_l"} \subseteq ListasPcb
      /\ {"haciaCpu", "desdeCpu", "recibir_proceso_de_cpu", "finalizar_procesos",
          "pasar_a_ready", "avisar_proceso_susp_ready", "agregar_a_ready",
          "io"} \subseteq Contenedores
      /\ ListasPcb \subseteq Contenedores
  BY DEF ListasPcb, Listas, Contenedores, HilosPcb, Hilos
<1>1. ASSUME NEW p
      PROVE  /\ EnLista(p, {"new_l"}) <=> p \in Tiene("new_l")
             /\ EnLista(p, {"ready_l"}) <=> p \in Tiene("ready_l")
             /\ EnLista(p, {"finalizado_l", "exit_l"}) <=>
                   p \in Tiene("finalizado_l") \cup Tiene("exit_l")
             /\ EnLista(p, {"susp_ready_l"}) <=> p \in Tiene("susp_ready_l")
             /\ EnLista(p, {"newM_l", "unblock_l", "susp_readyM_l"}) <=>
                   p \in Tiene("newM_l") \cup Tiene("unblock_l")
                            \cup Tiene("susp_readyM_l")
  BY <1>0, Donde
<1>2. ASSUME NEW c \in Contenedores, NEW p \in Tiene(c)
      PROVE  Etapa(p) = Clase(c)
  <2>1. consola[p] \notin {"sin_conectar", "conectada"}
    BY DEF LugaresInv, Presentes, Ingresados
  <2>2. \A d \in Contenedores : p \in Tiene(d) <=> d = c
    BY DEF LugaresInv, Ajenos
  <2>3. /\ EnLista(p, {"new_l"}) <=> c = "new_l"
        /\ EnLista(p, {"ready_l"}) <=> c = "ready_l"
        /\ EnCpu(p) <=> c \in {"haciaCpu", "desdeCpu", "recibir_proceso_de_cpu"}
    BY <1>0, <1>1, <2>2, Donde
  <2>4. \/ EnLista(p, {"finalizado_l", "exit_l"})
        \/ EnHilo(p, "finalizar_procesos", {"buscar", "quitar", "despertar"})
        <=> c \in {"finalizado_l", "exit_l", "finalizar_procesos"}
    BY <1>0, <1>1, <2>2, Donde
  <2>5. EnLista(p, {"susp_ready_l"}) \/ EnHilo(p, "io", {"susp_ready_l"})
        <=> \/ c = "susp_ready_l"
            \/ c = "io" /\ pc["io"] = "susp_ready_l"
    BY <1>0, <1>1, <2>2, Donde
  <2>6. \/ EnLista(p, {"newM_l", "unblock_l", "susp_readyM_l"})
        \/ EnHilo(p, "pasar_a_ready", {"newM_l"})
        \/ EnHilo(p, "avisar_proceso_susp_ready", {"susp_readyM_l"})
        \/ EnHilo(p, "agregar_a_ready", {"ready_l"})
        \/ EnHilo(p, "io", {"unblock_l"})
        <=> \/ c \in {"newM_l", "unblock_l", "susp_readyM_l", "pasar_a_ready",
                      "avisar_proceso_susp_ready", "agregar_a_ready"}
            \/ c = "io" /\ pc["io"] = "unblock_l"
    BY <1>0, <1>1, <2>2, Donde
  <2> QED BY ONLY <2>1, <2>3, <2>4, <2>5, <2>6 DEF Etapa, Clase
<1>3. ASSUME NEW p, \A d \in Contenedores : p \notin Tiene(d)
      PROVE  NoEsta(p)
  BY <1>0, <1>1, <1>3, Donde DEF NoEsta
<1>4. ASSUME NEW p \in Ausentes PROVE Etapa(p) = "BLOCK"
  <2>1. consola[p] \notin {"sin_conectar", "conectada"}
    BY DEF Ausentes, Ingresados
  <2>2. \A d \in Contenedores : p \notin Tiene(d)
    BY DEF Ausentes, Presentes
  <2>3. NoEsta(p)
    BY <2>2, <1>3
  <2> QED BY ONLY <2>1, <2>3 DEF Etapa, NoEsta
<1>5. ASSUME NEW p \in Proceso \ Ingresados PROVE Etapa(p) = "AFUERA"
  <2>1. consola[p] \in {"sin_conectar", "conectada"}
    BY DEF Ingresados
  <2>2. \A d \in Contenedores : p \notin Tiene(d)
    BY DEF LugaresInv, Presentes
  <2>3. NoEsta(p)
    BY <2>2, <1>3
  <2> QED BY ONLY <2>1, <2>3 DEF Etapa, NoEsta
<1> QED BY <1>2, <1>4, <1>5 DEF EtapasDichas

\* The same after a step.
LEMMA EtapaDePrima == TypeOK' /\ LugaresInv' => EtapasDichas'
BY EtapaDe, PTL

\* Who is not in the CPU nor on its way does not execute.
LEMMA SinEjecutar ==
    ASSUME NEW p, ~EnCpu(p)
    PROVE  Etapa(p) # "EXEC"
BY DEF Etapa

-----------------------------------------------------------------------------
(* What a step does to the states.                                          *)

\* What is known before and after a step.
Estable == TypeOK /\ LugaresInv /\ TypeOK' /\ LugaresInv'

\* Nobody changes state.
Quietas == \A q \in Proceso : Etapa(q)' = Etapa(q)

\* p goes from state x to state y, and nobody else changes.
Cambia(p, x, y) ==
    /\ p \in Proceso /\ Etapa(p) = x /\ Etapa(p)' = y
    /\ \A q \in Proceso \ {p} : Etapa(q)' = Etapa(q)

\* The thread io is the only container whose state depends on its label.
LEMMA ClaseIgual ==
    \A c \in Contenedores :
       c # "io" \/ pc'["io"] = pc["io"] => Clase(c)' = Clase(c)
BY DEF Clase

\* Every process of the system is in a container or lost, and is one of Proceso.
LEMMA DondeEsta ==
    ASSUME LugaresInv
    PROVE  /\ Presentes \subseteq Ingresados /\ Ingresados \subseteq Proceso
           /\ \A q : q \in Presentes <=> \E c \in Contenedores : q \in Tiene(c)
           /\ \A q \in Ingresados : q \in Presentes \/ q \in Ausentes
BY DEF LugaresInv, Ingresados, Presentes, Ausentes

\* A process that stays where it is keeps its state.
LEMMA EtapaQuieta ==
    ASSUME Estable, NEW q \in Proceso,
           q \in Ingresados' <=> q \in Ingresados,
           \A c \in Contenedores :
              /\ q \in Tiene(c)' <=> q \in Tiene(c)
              /\ q \in Tiene(c) => Clase(c)' = Clase(c)
    PROVE  Etapa(q)' = Etapa(q)
<1>1. EtapasDichas /\ EtapasDichas'
  BY EtapaDe, EtapaDePrima DEF Estable
<1>2. CASE q \notin Ingresados
  BY <1>1, <1>2 DEF EtapasDichas, Proceso
<1>3. CASE \E c \in Contenedores : q \in Tiene(c)
  <2>1. PICK c \in Contenedores : q \in Tiene(c)
    BY <1>3
  <2>2. Etapa(q) = Clase(c)
    BY <1>1, <2>1 DEF EtapasDichas
  <2>3. Etapa(q)' = Clase(c)'
    BY <1>1, <2>1 DEF EtapasDichas, Contenedores, ListasPcb, HilosPcb
  <2> QED BY <2>1, <2>2, <2>3
<1>4. CASE q \in Ingresados /\ \A c \in Contenedores : q \notin Tiene(c)
  <2>1. q \in Ausentes
    BY <1>4 DEF Ausentes, Presentes
  <2>2. q \in Ausentes'
    BY <1>4 DEF Ausentes, Presentes, Contenedores, ListasPcb, HilosPcb
  <2> QED BY <1>1, <2>1, <2>2 DEF EtapasDichas
<1> QED BY <1>2, <1>3, <1>4

\* When no container changes nobody changes state.
LEMMA EtapasQuietas ==
    ASSUME Estable, Iguales({}), Ingresados' = Ingresados,
           pc'["io"] = pc["io"]
    PROVE  Quietas
<1>1. ASSUME NEW q \in Proceso PROVE Etapa(q)' = Etapa(q)
  BY ClaseIgual, EtapaQuieta DEF Iguales
<1> QED BY <1>1 DEF Quietas

\* What the thread io carries is one process.
LEMMA UnoEnIo ==
    ASSUME NEW p, NEW q
    PROVE  /\ p \in Tiene("io") /\ q \in Tiene("io") => p = q
           /\ p \in Tiene("io")' /\ q \in Tiene("io")' => p = q
<1>1. "io" \in HilosPcb
  BY DEF HilosPcb, Hilos
<1> QED BY <1>1, TieneCasos DEF PidDe

\* When a process goes from a container to another it goes from the state of one
\* to the state of the other.
LEMMA EtapaMueve ==
    ASSUME Estable, Ingresados' = Ingresados,
           NEW a \in Contenedores, NEW b \in Contenedores, a # b, NEW p,
           Mueve(a, b, p), pc'["io"] = pc["io"] \/ "io" \in {a, b}
    PROVE  Cambia(p, Clase(a), Clase(b)')
<1>1. EtapasDichas /\ EtapasDichas'
  BY EtapaDe, EtapaDePrima DEF Estable
<1>2. /\ p \in Tiene(a) /\ Tiene(a)' = Tiene(a) \ {p}
      /\ Tiene(b)' = Tiene(b) \cup {p}
      /\ \A c \in Contenedores \ {a, b} : Tiene(c)' = Tiene(c)
  BY DEF Mueve, Iguales
<1>3. p \in Proceso
  BY <1>2, DondeEsta DEF Estable
<1>4. Etapa(p) = Clase(a)
  BY <1>1, <1>2 DEF EtapasDichas
<1>5. Etapa(p)' = Clase(b)'
  BY <1>1, <1>2 DEF EtapasDichas, Contenedores, ListasPcb, HilosPcb
<1>6. ASSUME NEW q \in Proceso \ {p} PROVE Etapa(q)' = Etapa(q)
  <2>1. ASSUME NEW c \in Contenedores
        PROVE  /\ q \in Tiene(c)' <=> q \in Tiene(c)
               /\ q \in Tiene(c) => Clase(c)' = Clase(c)
    <3>1. q \in Tiene(c)' <=> q \in Tiene(c)
      BY <1>2, <1>6
    <3>2. ASSUME q \in Tiene(c), c = "io", pc'["io"] # pc["io"] PROVE FALSE
      <4>1. p \in Tiene("io") \/ p \in Tiene("io")'
        BY <1>2, <3>2
      <4>2. q \in Tiene("io") /\ q \in Tiene("io")'
        BY <3>1, <3>2
      <4> QED BY <1>6, <4>1, <4>2, UnoEnIo
    <3> QED BY <3>1, <3>2, ClaseIgual
  <2> QED BY <1>6, <2>1, EtapaQuieta
<1> QED BY <1>3, <1>4, <1>5, <1>6 DEF Cambia

\* And when both have the same state nobody changes.
LEMMA EtapaVa ==
    ASSUME Estable, Ingresados' = Ingresados,
           NEW a \in Contenedores, NEW b \in Contenedores, a # b,
           Va(a, b), pc'["io"] = pc["io"] \/ "io" \in {a, b}
    PROVE  /\ \E p : Cambia(p, Clase(a), Clase(b)')
           /\ Clase(a) = Clase(b)' => Quietas
<1>1. PICK p : Mueve(a, b, p)
  BY DEF Va
<1>2. Cambia(p, Clase(a), Clase(b)')
  BY <1>1, EtapaMueve
<1> QED BY <1>2 DEF Cambia, Quietas

-----------------------------------------------------------------------------
(* What the abstract scheduler does.                                        *)

\* A step of Planificador, or none.
Refina == [P!Next]_(P!varsPlanificador)

\* The changes of state that do not touch the queue.
Transiciones ==
    {<<"AFUERA", "NEW">>, <<"NEW", "ADMITIDO">>, <<"EXEC", "BLOCK">>,
     <<"BLOCK", "ADMITIDO">>, <<"BLOCK", "SUSP_READY">>,
     <<"SUSP_READY", "ADMITIDO">>, <<"EXEC", "EXIT">>}

\* The change of one process is a change of the function of states.
LEMMA CambiaPasa ==
    ASSUME NEW p, NEW x, NEW y, Cambia(p, x, y)
    PROVE  P!Pasa(p, x, y)
<1> DEFINE f == [q \in Proceso |-> Etapa(q)]
           g == [q \in Proceso |-> Etapa(q)']
<1>1. p \in Proceso /\ f[p] = x
  BY DEF Cambia
<1>2. g = [f EXCEPT ![p] = y]
  BY DEF Cambia
<1>3. f' = g
  BY DEF Proceso
<1> QED BY <1>1, <1>2, <1>3 DEF P!Pasa

\* Neither the states nor the queue change.
LEMMA RefinaNada ==
    ASSUME Quietas, lista'["ready_l"] = lista["ready_l"]
    PROVE  Refina
<1>1. [q \in Proceso |-> Etapa(q)]' = [q \in Proceso |-> Etapa(q)]
  BY DEF Quietas, Proceso
<1>2. ColaReady' = ColaReady
  BY DEF ColaReady
<1> QED BY <1>1, <1>2 DEF Refina, P!varsPlanificador

\* One process takes one of the transitions.
LEMMA RefinaCambia ==
    ASSUME NEW p, NEW x, NEW y, Cambia(p, x, y), <<x, y>> \in Transiciones,
           lista'["ready_l"] = lista["ready_l"]
    PROVE  Refina
<1>1. P!Pasa(p, x, y) /\ p \in Proceso
  BY CambiaPasa DEF Cambia
<1>2. ColaReady' = ColaReady
  BY DEF ColaReady
<1>3. \/ x = "AFUERA" /\ y = "NEW"
      \/ x = "NEW" /\ y = "ADMITIDO"
      \/ x = "EXEC" /\ y = "BLOCK"
      \/ x = "BLOCK" /\ y = "ADMITIDO"
      \/ x = "BLOCK" /\ y = "SUSP_READY"
      \/ x = "SUSP_READY" /\ y = "ADMITIDO"
      \/ x = "EXEC" /\ y = "EXIT"
  BY DEF Transiciones
<1> QED BY <1>1, <1>2, <1>3
        DEF Refina, P!Next, P!Ingresar, P!Admitir, P!Bloquear, P!Desbloquear,
            P!SuspReady, P!Reanudar, P!Finalizar

\* A step in which nobody moves.
LEMMA RefinaQuieta ==
    ASSUME Estable, Iguales({}), Ingresados' = Ingresados,
           pc'["io"] = pc["io"], lista'["ready_l"] = lista["ready_l"]
    PROVE  Refina
BY EtapasQuietas, RefinaNada

\* A step that moves a process from a to b.
LEMMA RefinaVa ==
    ASSUME Estable, Ingresados' = Ingresados,
           NEW a \in Contenedores, NEW b \in Contenedores, a # b,
           Va(a, b), pc'["io"] = pc["io"] \/ "io" \in {a, b},
           lista'["ready_l"] = lista["ready_l"],
           \/ Clase(a) = Clase(b)'
           \/ <<Clase(a), Clase(b)'>> \in Transiciones
    PROVE  Refina
BY EtapaVa, RefinaNada, RefinaCambia

-----------------------------------------------------------------------------
(* Every step of every thread.                                              *)

\* What the steps have in common: the invariants, before and after.
Invariantes == IInv /\ LInv /\ IInv' /\ LInv'

\* They say what a step is compared with.
LEMMA EstableDe ==
    ASSUME Invariantes
    PROVE  /\ Estable /\ TipoKernel /\ CuentasKernel /\ TypeOK /\ Cuentas
           /\ LugaresInv
           /\ lista = [l \in Listas |-> lista[l]]
           /\ pc = [h \in Hilos |-> pc[h]] /\ pcb = [h \in Hilos |-> pcb[h]]
BY CuentasPartes DEF Invariantes, Estable, IInv, LInv, TypeOK, TipoKernel,
   TipoListas, TipoHilos

\* The containers, by name.
LEMMA LosContenedores ==
    /\ {"new_l", "newM_l", "finalizado_l", "exit_l", "susp_ready_l",
        "susp_readyM_l", "block_l", "block_pend_l", "unblock_l", "ready_l",
        "pasar_a_ready", "finalizar_procesos", "avisar_proceso_susp_ready",
        "agregar_a_ready", "recibir_proceso_de_cpu", "planificador_io", "io",
        "haciaCpu", "desdeCpu"} \subseteq Contenedores
    /\ {"newM_l", "exit_l", "finalizado_l", "susp_ready_l", "unblock_l",
        "susp_readyM_l", "block_l", "block_pend_l", "ready_l"} \subseteq ListasPcb
BY DEF Contenedores, ListasPcb, HilosPcb, Listas, Hilos

\* A console thread lets its process in.
LEMMA RefinaGestionar ==
    ASSUME Invariantes, NEW p \in Proceso, GestionarComunicacion(p),
           UNCHANGED varsSocket, lista'["ready_l"] = lista["ready_l"]
    PROVE  Refina
<1>0. Estable /\ TipoKernel /\ LugaresInv
  BY EstableDe
<1>1. UNCHANGED pc
  BY DEF GestionarComunicacion, AceptarConsola, AgregarANew,
     RegistrarComunicacion, AvisarNew, AvisarConsola
<1>2. CASE Iguales({}) /\ Ingresados' = Ingresados
  BY <1>0, <1>1, <1>2, RefinaQuieta
<1>3. CASE /\ Entra("new_l", p)
           /\ p \notin Ingresados /\ Ingresados' = Ingresados \cup {p}
  <2>1. EtapasDichas /\ EtapasDichas'
    BY <1>0, EtapaDe, EtapaDePrima DEF Estable
  <2>2. Etapa(p) = "AFUERA"
    BY <1>3, <2>1 DEF EtapasDichas
  <2>3. p \in Tiene("new_l")' /\ "new_l" \in Contenedores
    BY <1>3, LosContenedores DEF Entra
  <2>4. Etapa(p)' = "NEW"
    <3>1. Etapa(p)' = Clase("new_l")'
      BY <2>1, <2>3 DEF EtapasDichas, Contenedores, ListasPcb, HilosPcb
    <3> QED BY <3>1 DEF Clase
  <2>5. ASSUME NEW q \in Proceso \ {p} PROVE Etapa(q)' = Etapa(q)
    <3>1. \A c \in Contenedores : q \in Tiene(c)' <=> q \in Tiene(c)
      BY <1>3, <2>5 DEF Entra, Iguales
    <3> QED BY <1>0, <1>1, <1>3, <2>5, <3>1, ClaseIgual, EtapaQuieta
  <2>6. Cambia(p, "AFUERA", "NEW")
    BY <2>2, <2>4, <2>5 DEF Cambia
  <2> QED BY <2>6, RefinaCambia DEF Transiciones
<1> QED BY <1>0, <1>2, <1>3, LugaresGestionar

\* pasar_a_ready admits; finalizar_procesos is busy with processes that ended.
LEMMA RefinaPlp ==
    ASSUME Invariantes, PasarAReady \/ FinalizarProcesos, UNCHANGED varsSocket,
           lista'["ready_l"] = lista["ready_l"]
    PROVE  Refina
<1>0. /\ Estable /\ TipoKernel /\ CuentasKernel /\ LugaresInv
      /\ pc = [h \in Hilos |-> pc[h]]
  BY EstableDe
<1>1. pc'["io"] = pc["io"] /\ UNCHANGED consola
  <2> USE DEF Esperar, Avisar, Entregar, Tomar, Dejar, Ir, Hilos, varsPlp
  <2>1. CASE PasarAReady
    BY <1>0, <2>1 DEF PasarAReady, PasarEsperar, PasarInicializar,
       PasarEntregar, PasarAvisar
  <2>2. CASE FinalizarProcesos
    BY <1>0, <2>2 DEF FinalizarProcesos, FinalizarEnMemoria,
       BuscarComunicacion, QuitarComunicacion, DespertarComunicacion,
       LiberarGrado
  <2> QED BY <2>1, <2>2
<1>2. Ingresados' = Ingresados
  BY <1>1, IngresadosIgual
<1>3. CASE Iguales({})
  BY <1>0, <1>1, <1>2, <1>3, RefinaQuieta
<1>4. CASE Va("new_l", "pasar_a_ready")
  <2>1. Clase("new_l") = "NEW" /\ Clase("pasar_a_ready")' = "ADMITIDO"
    BY DEF Clase
  <2> QED BY <1>0, <1>1, <1>2, <1>4, <2>1, LosContenedores, RefinaVa
          DEF Transiciones
<1>5. CASE Va("pasar_a_ready", "newM_l")
  <2>1. Clase("pasar_a_ready") = Clase("newM_l")'
    BY DEF Clase
  <2> QED BY <1>0, <1>1, <1>2, <1>5, <2>1, LosContenedores, RefinaVa
<1>6. CASE Va("finalizado_l", "finalizar_procesos")
  <2>1. Clase("finalizado_l") = Clase("finalizar_procesos")'
    BY DEF Clase
  <2> QED BY <1>0, <1>1, <1>2, <1>6, <2>1, LosContenedores, RefinaVa
<1>7. CASE Va("finalizar_procesos", "exit_l")
  <2>1. Clase("finalizar_procesos") = Clase("exit_l")'
    BY DEF Clase
  <2> QED BY <1>0, <1>1, <1>2, <1>7, <2>1, LosContenedores, RefinaVa
<1> QED BY <1>0, <1>3, <1>4, <1>5, <1>6, <1>7, LugaresPasar, LugaresFinalizar

\* suspender_proceso and the timers change nobody's state, and
\* avisar_proceso_susp_ready admits once more.
LEMMA RefinaPmp ==
    ASSUME Invariantes, UNCHANGED varsSocket,
           \/ SuspenderProceso \/ AvisarProcesoSuspReady
           \/ \E x \in PCB : Suspencion(x),
           lista'["ready_l"] = lista["ready_l"]
    PROVE  Refina
<1>0. /\ Estable /\ TipoKernel /\ CuentasKernel /\ LugaresInv
      /\ pc = [h \in Hilos |-> pc[h]]
  BY EstableDe
<1>1. pc'["io"] = pc["io"] /\ UNCHANGED consola
  <2> USE DEF Esperar, Avisar, Entregar, Tomar, Dejar, Ir, Hilos, varsPlp
  <2>1. CASE SuspenderProceso
    BY <1>0, <2>1 DEF SuspenderProceso, SuspenderTomar, SuspenderMarcar,
       SuspenderEstado, SuspenderEnviar, SuspenderLiberar
  <2>2. CASE AvisarProcesoSuspReady
    BY <1>0, <2>2 DEF AvisarProcesoSuspReady, ReanudarEsperar, ReanudarTomar,
       ReanudarEntregar, ReanudarAvisar
  <2>3. CASE \E x \in PCB : Suspencion(x)
    BY <2>3 DEF Suspencion, ContadorDespertar, ContadorAgregar, ContadorAvisar
  <2> QED BY <2>1, <2>2, <2>3
<1>2. Ingresados' = Ingresados
  BY <1>1, IngresadosIgual
<1>3. CASE Iguales({})
  BY <1>0, <1>1, <1>2, <1>3, RefinaQuieta
<1>4. CASE Va("susp_ready_l", "avisar_proceso_susp_ready")
  <2>1. /\ Clase("susp_ready_l") = "SUSP_READY"
        /\ Clase("avisar_proceso_susp_ready")' = "ADMITIDO"
    BY DEF Clase
  <2> QED BY <1>0, <1>1, <1>2, <1>4, <2>1, LosContenedores, RefinaVa
          DEF Transiciones
<1>5. CASE Va("avisar_proceso_susp_ready", "susp_readyM_l")
  <2>1. Clase("avisar_proceso_susp_ready") = Clase("susp_readyM_l")'
    BY DEF Clase
  <2> QED BY <1>0, <1>1, <1>2, <1>5, <2>1, LosContenedores, RefinaVa
<1> QED BY <1>0, <1>3, <1>4, <1>5, LugaresSuspender, LugaresSuspencion,
           LugaresReanudar

\* planificador_io is busy with blocked processes.
LEMMA RefinaPlanificadorIo ==
    ASSUME Invariantes, PlanificadorIo, UNCHANGED varsSocket,
           lista'["ready_l"] = lista["ready_l"]
    PROVE  Refina
<1>0. /\ Estable /\ TipoKernel /\ CuentasKernel /\ LugaresInv
      /\ pc = [h \in Hilos |-> pc[h]]
  BY EstableDe
<1>1. pc'["io"] = pc["io"] /\ UNCHANGED consola
  BY <1>0 DEF PlanificadorIo, PlanificadorIoTomar, PlanificadorIoDisparar,
     PlanificadorIoEntregar, PlanificadorIoAvisar, Avisar, Entregar, Dejar, Ir,
     Hilos, varsPlp
<1>2. Ingresados' = Ingresados
  BY <1>1, IngresadosIgual
<1>3. CASE Iguales({})
  BY <1>0, <1>1, <1>2, <1>3, RefinaQuieta
<1>4. CASE Va("block_l", "planificador_io")
  <2>1. Clase("block_l") = Clase("planificador_io")'
    BY DEF Clase
  <2> QED BY <1>0, <1>1, <1>2, <1>4, <2>1, LosContenedores, RefinaVa
<1>5. CASE Va("planificador_io", "block_pend_l")
  <2>1. Clase("planificador_io") = Clase("block_pend_l")'
    BY DEF Clase
  <2> QED BY <1>0, <1>1, <1>2, <1>5, <2>1, LosContenedores, RefinaVa
<1> QED BY <1>0, <1>3, <1>4, <1>5, LugaresPlanificadorIo

\* io decides whether the process it carries goes back to ready or was suspended.
LEMMA RefinaIo ==
    ASSUME Invariantes, Io, UNCHANGED varsSocket,
           lista'["ready_l"] = lista["ready_l"]
    PROVE  Refina
<1>0. /\ Estable /\ TipoKernel /\ CuentasKernel /\ LugaresInv
      /\ pc = [h \in Hilos |-> pc[h]] /\ "io" \in Hilos /\ "io" \in HilosPcb
      /\ "io" \in Contenedores
  BY EstableDe, LosContenedores DEF Hilos, HilosPcb
<1>1. UNCHANGED consola
  BY DEF Io, IoTomar, IoDespertar, IoCancelar, IoDesbloquear, IoAvisarReady,
     IoDesmarcar, IoSuspReady, IoAvisarSuspReady, Avisar, Entregar, varsPlp
<1>2. Ingresados' = Ingresados
  BY <1>1, IngresadosIgual
<1>3. CASE pc'["io"] = "durmiendo" /\ Va("block_pend_l", "io")
  <2>1. Clase("block_pend_l") = Clase("io")'
    BY <1>3 DEF Clase
  <2> QED BY <1>0, <1>2, <1>3, <2>1, LosContenedores, RefinaVa
<1>4. CASE pc["io"] = "unblock_l" /\ Va("io", "unblock_l")
  <2>1. Clase("io") = Clase("unblock_l")'
    BY <1>4 DEF Clase
  <2> QED BY <1>0, <1>2, <1>4, <2>1, LosContenedores, RefinaVa
<1>5. CASE pc["io"] = "susp_ready_l" /\ Va("io", "susp_ready_l")
  <2>1. Clase("io") = Clase("susp_ready_l")'
    BY <1>5 DEF Clase
  <2> QED BY <1>0, <1>2, <1>5, <2>1, LosContenedores, RefinaVa
<1>6. CASE Iguales({}) /\ UNCHANGED pcb
  <2>1. EtapasDichas /\ EtapasDichas'
    BY <1>0, EtapaDe, EtapaDePrima DEF Estable
  <2>2. \A c \in Contenedores : Tiene(c)' = Tiene(c)
    BY <1>6 DEF Iguales
  <2>3. ASSUME NEW q \in Proceso,
               q \in Tiene("io") => Clase("io")' = Clase("io")
        PROVE  Etapa(q)' = Etapa(q)
    <3>1. \A c \in Contenedores :
             /\ q \in Tiene(c)' <=> q \in Tiene(c)
             /\ q \in Tiene(c) => Clase(c)' = Clase(c)
      BY <2>2, <2>3, ClaseIgual
    <3> QED BY <1>0, <1>2, <2>3, <3>1, EtapaQuieta
  <2>4. ASSUME NEW p \in Tiene("io") PROVE Cambia(p, Clase("io"), Clase("io")')
    <3>1. Etapa(p) = Clase("io") /\ Etapa(p)' = Clase("io")'
      BY <1>0, <2>1, <2>2, <2>4
      DEF EtapasDichas, Contenedores, ListasPcb, HilosPcb
    <3>2. p \in Proceso
      BY <1>0, <2>4, DondeEsta
    <3>3. \A q \in Proceso \ {p} : Etapa(q)' = Etapa(q)
      BY <2>3, <2>4, UnoEnIo
    <3> QED BY <3>1, <3>2, <3>3 DEF Cambia
  <2>5. CASE Tiene("io") = {} \/ Clase("io")' = Clase("io")
    <3>1. Quietas
      BY <2>3, <2>5 DEF Quietas
    <3> QED BY <3>1, RefinaNada
  <2>6. CASE <<Clase("io"), Clase("io")'>> \in Transiciones /\ Tiene("io") # {}
    BY <2>4, <2>6, RefinaCambia
  <2>7. \/ Tiene("io") = {} \/ Clase("io")' = Clase("io")
        \/ <<Clase("io"), Clase("io")'>> \in Transiciones
    <3>1. CASE pc["io"] \in {"inicio", "post_ready", "post_susp_ready"}
      <4>1. pc["io"] \notin Carga["io"]
        BY <3>1, CargaDe
      <4>2. pcb["io"] = NULO
        BY <1>0, <4>1, PcbDeHilo
      <4> QED BY <1>0, <4>2, TieneCasos DEF PidDe
    <3>2. CASE IoDespertar
      <4>1. pc["io"] = "durmiendo" /\ pc'["io"] \in {"susp_block_l", "cancelar"}
        BY <1>0, <3>2 DEF IoDespertar, Ir
      <4> QED BY <4>1 DEF Clase
    <3>3. CASE IoCancelar
      <4>1. pc["io"] = "cancelar" /\ pc'["io"] = "unblock_l"
        BY <1>0, <3>3 DEF IoCancelar, Ir
      <4> QED BY <4>1 DEF Clase, Transiciones
    <3>4. CASE IoDesmarcar
      <4>1. pc["io"] = "susp_block_l" /\ pc'["io"] = "susp_ready_l"
        BY <1>0, <3>4 DEF IoDesmarcar, Ir
      <4> QED BY <4>1 DEF Clase, Transiciones
    <3>5. CASE IoDesbloquear \/ IoSuspReady
      <4>1. pc["io"] \in Carga["io"] /\ pcb'["io"] = NULO
        BY <1>0, <3>5, CargaDe DEF IoDesbloquear, IoSuspReady, Entregar, Dejar,
           TipoKernel, TipoHilos
      <4> QED BY <1>0, <1>6, <4>1, PcbDeHilo
    <3> QED BY <3>1, <3>2, <3>3, <3>4, <3>5
            DEF Io, IoTomar, IoAvisarReady, IoAvisarSuspReady, Avisar
  <2> QED BY <2>5, <2>6, <2>7
<1> QED BY <1>0, <1>3, <1>4, <1>5, <1>6, LugaresIo

\* A queue of pids and the list of PCBs it is taken from.
Cola(q) == [i \in DOMAIN q |-> q[i].pid]

\* The pids of a list of PCBs, one for one.
LEMMA ColaDe ==
    ASSUME NEW q \in Seq(PCB)
    PROVE  /\ Cola(q) \in Seq(Proceso) /\ Len(Cola(q)) = Len(q)
           /\ \A i \in 1 .. Len(q) : Cola(q)[i] = q[i].pid
<1>1. /\ Len(q) \in Nat /\ DOMAIN q = 1 .. Len(q)
      /\ \A i \in 1 .. Len(q) : q[i] \in PCB
  BY LenProperties
<1>2. \A x \in PCB : x.pid \in Proceso
  BY DEF PCB
<1>3. Cola(q) \in [1 .. Len(q) -> Proceso]
  BY <1>1, <1>2 DEF Cola
<1>4. Cola(q) \in Seq(Proceso)
  BY <1>1, <1>3, SeqDef
<1>5. DOMAIN Cola(q) = 1 .. Len(Cola(q)) /\ Len(Cola(q)) \in Nat
  BY <1>4, LenProperties
<1>6. Len(Cola(q)) = Len(q)
  BY <1>1, <1>3, <1>5
<1> QED BY <1>1, <1>4, <1>6 DEF Cola

\* A PCB more at the end.
LEMMA ColaAppend ==
    ASSUME NEW q \in Seq(PCB), NEW x \in PCB
    PROVE  Cola(Append(q, x)) = Append(Cola(q), x.pid)
<1> DEFINE r == Append(q, x)
           c == Cola(q)
           n == Len(q)
<1>1. r \in Seq(PCB) /\ Len(r) = n + 1 /\ r[n + 1] = x /\ n \in Nat
      /\ \A i \in 1 .. n : r[i] = q[i]
  BY AppendProperties, LenProperties
<1>2. c \in Seq(Proceso) /\ Len(c) = n /\ \A i \in 1 .. n : c[i] = q[i].pid
  BY ColaDe
<1>3. x.pid \in Proceso
  BY DEF PCB
<1>4. /\ Append(c, x.pid) \in Seq(Proceso) /\ Len(Append(c, x.pid)) = n + 1
      /\ Append(c, x.pid)[n + 1] = x.pid
      /\ \A i \in 1 .. n : Append(c, x.pid)[i] = c[i]
  BY <1>2, <1>3, AppendProperties
<1> HIDE DEF r, c, n
<1>5. /\ Cola(r) \in Seq(Proceso) /\ Len(Cola(r)) = n + 1
      /\ \A i \in 1 .. n + 1 : Cola(r)[i] = r[i].pid
  BY <1>1, ColaDe
<1>6. ASSUME NEW i \in 1 .. n + 1 PROVE Cola(r)[i] = Append(c, x.pid)[i]
  <2>1. CASE i \in 1 .. n BY <1>1, <1>2, <1>4, <1>5, <2>1
  <2>2. CASE i = n + 1 BY <1>1, <1>4, <1>5, <2>2
  <2>3. i \in 1 .. n \/ i = n + 1
    BY <1>1, <1>6
  <2> QED BY ONLY <2>1, <2>2, <2>3
<1> QED BY <1>4, <1>5, <1>6, SeqEqual DEF r, c

\* The first PCB less.
LEMMA ColaTail ==
    ASSUME NEW q \in Seq(PCB), q # <<>>
    PROVE  /\ Cola(Tail(q)) = Tail(Cola(q))
           /\ Cola(q) # <<>> /\ Head(Cola(q)) = Head(q).pid
<1> DEFINE r == Tail(q)
           c == Cola(q)
           n == Len(q)
<1>1. /\ r \in Seq(PCB) /\ Len(r) = n - 1 /\ n \in Nat /\ n > 0
      /\ \A i \in 1 .. n - 1 : r[i] = q[i + 1]
      /\ Head(q) = q[1]
  BY CabezaTipo, HeadTailProperties
<1>2. c \in Seq(Proceso) /\ Len(c) = n /\ \A i \in 1 .. n : c[i] = q[i].pid
  BY ColaDe
<1>3. c # <<>>
  BY <1>1, <1>2
<1>4. /\ Tail(c) \in Seq(Proceso) /\ Len(Tail(c)) = n - 1
      /\ \A i \in 1 .. n - 1 : Tail(c)[i] = c[i + 1]
      /\ Head(c) = c[1]
  BY <1>2, <1>3, HeadTailProperties, CabezaTipo
<1> HIDE DEF r, c, n
<1>5. /\ Cola(r) \in Seq(Proceso) /\ Len(Cola(r)) = n - 1
      /\ \A i \in 1 .. n - 1 : Cola(r)[i] = r[i].pid
  BY <1>1, ColaDe
<1>6. ASSUME NEW i \in 1 .. n - 1 PROVE Cola(r)[i] = Tail(c)[i]
  <2>1. i + 1 \in 1 .. n
    BY <1>1
  <2> QED BY <1>1, <1>2, <1>4, <1>5, <2>1
<1>7. Cola(r) = Tail(c)
  BY <1>4, <1>5, <1>6, SeqEqual
<1>8. Head(c) = Head(q).pid
  <2>1. 1 \in 1 .. n
    BY <1>1
  <2> QED BY <1>1, <1>2, <1>4, <2>1
<1> QED BY <1>3, <1>7, <1>8 DEF r, c

\* agregar_a_ready puts the process it carries at the end of the queue.
LEMMA RefinaAgregarAReady ==
    ASSUME Invariantes, AgregarAReady
    PROVE  Refina
<1> DEFINE h == "agregar_a_ready"
           q == lista["ready_l"]
           x == pcb[h]
<1>0. /\ Estable /\ TipoKernel /\ CuentasKernel /\ LugaresInv
      /\ lista = [l \in Listas |-> lista[l]] /\ pc = [g \in Hilos |-> pc[g]]
      /\ h \in HilosPcb /\ h \in Hilos /\ "ready_l" \in ListasPcb
      /\ "ready_l" \in Listas
  BY EstableDe, LosContenedores DEF HilosPcb, Hilos, ListasPcb
<1>1. pc'["io"] = pc["io"] /\ UNCHANGED consola
  BY <1>0 DEF AgregarAReady, AgregarEsperar, AgregarElegir, AgregarElegirNew,
     AgregarEntregar, AgregarAvisar, Esperar, Avisar, Entregar, Tomar, Dejar,
     Ir, Hilos, varsPlp
<1>2. Ingresados' = Ingresados
  BY <1>1, IngresadosIgual
<1>3. CASE \/ AgregarEsperar \/ AgregarElegir("susp_readyM_l", "unblock_l")
           \/ AgregarElegir("unblock_l", "newM_l") \/ AgregarElegirNew
  <2>1. lista'["ready_l"] = q
    BY <1>0, <1>3 DEF AgregarEsperar, AgregarElegir, AgregarElegirNew, Esperar,
       Tomar
  <2>2. CASE Iguales({})
    BY <1>0, <1>1, <1>2, <2>1, <2>2, RefinaQuieta
  <2>3. CASE \E l \in {"susp_readyM_l", "unblock_l", "newM_l"} : Va(l, h)
    <3>1. PICK l \in {"susp_readyM_l", "unblock_l", "newM_l"} : Va(l, h)
      BY <2>3
    <3>2. Clase(l) = Clase(h)'
      BY DEF Clase
    <3>3. l # h /\ l \in Contenedores /\ h \in Contenedores
      BY LosContenedores
    <3> QED BY <1>0, <1>1, <1>2, <2>1, <3>1, <3>2, <3>3, RefinaVa
  <2> QED BY <1>0, <1>3, <2>2, <2>3, LugaresAgregarComun
<1>4. CASE AgregarEntregar
  <2>1. /\ pc[h] = "ready_l" /\ Dejar(h, "ready_l", "post")
        /\ UNCHANGED varsSocket
    BY <1>4 DEF AgregarEntregar, Entregar
  <2>2. x \in PCB
    BY <1>0, <2>1, PcbDeHilo, CargaDe
  <2>3. PICK p : p = x.pid
    OBVIOUS
  <2>4. Mueve(h, "ready_l", p)
    BY <1>0, <2>1, <2>2, <2>3, LugarDejar
  <2>5. Cambia(p, "ADMITIDO", "READY")
    <3>1. Clase(h) = "ADMITIDO" /\ Clase("ready_l")' = "READY"
      BY DEF Clase
    <3>2. h # "ready_l" /\ h \in Contenedores /\ "ready_l" \in Contenedores
      BY LosContenedores
    <3> QED BY <1>0, <1>1, <1>2, <2>4, <3>1, <3>2, EtapaMueve
  <2>6. lista'["ready_l"] = Append(q, x) /\ q \in Seq(PCB)
    BY <1>0, <2>1, ListaDePcb DEF Dejar
  <2>7. ColaReady' = Append(ColaReady, p)
    <3>1. ColaReady = Cola(q) /\ ColaReady' = Cola(lista'["ready_l"])
      BY DEF ColaReady, Cola
    <3> QED BY <2>2, <2>3, <2>6, <3>1, ColaAppend
  <2>8. P!Encolar(p) /\ p \in Proceso
    <3>1. P!Pasa(p, "ADMITIDO", "READY") /\ p \in Proceso
      BY <2>5, CambiaPasa DEF Cambia
    <3> QED BY <2>7, <3>1 DEF P!Encolar
  <2> QED BY <2>8 DEF Refina, P!Next
<1>5. CASE AgregarAvisar
  <2>1. UNCHANGED <<lista, pcb>> /\ UNCHANGED varsSocket
    BY <1>5 DEF AgregarAvisar, Avisar
  <2>2. pc'["planificador_io"] = pc["planificador_io"]
    BY <1>0, <1>5 DEF AgregarAvisar, Avisar, Ir, Hilos
  <2> QED BY <1>0, <1>1, <1>2, <2>1, <2>2, LugarQuieto, RefinaQuieta
<1> QED BY <1>3, <1>4, <1>5 DEF AgregarAReady

\* The first of the queue begins to execute when nobody does.
LEMMA CambiaDespachar ==
    ASSUME NEW p, Cambia(p, "READY", "EXEC"),
           \A r \in Proceso : Etapa(r) # "EXEC",
           ColaReady # <<>>, Head(ColaReady) = p, ColaReady' = Tail(ColaReady)
    PROVE  P!Despachar(p)
<1>1. \A r \in Proceso : [q \in Proceso |-> Etapa(q)][r] # "EXEC"
  OBVIOUS
<1>2. P!Pasa(p, "READY", "EXEC")
  BY CambiaPasa
<1> QED BY <1>1, <1>2 DEF P!Despachar

\* enviar_a_ejecutar takes the first of the queue, and nobody executes.
LEMMA RefinaEnviarAEjecutar ==
    ASSUME Invariantes, EnviarAEjecutar
    PROVE  Refina
<1> DEFINE h == "enviar_a_ejecutar"
           q == lista["ready_l"]
           x == Head(q)
<1>0. /\ Estable /\ TipoKernel /\ CuentasKernel /\ LugaresInv
      /\ TypeOK /\ Cuentas
      /\ lista = [l \in Listas |-> lista[l]] /\ pc = [g \in Hilos |-> pc[g]]
      /\ "ready_l" \in ListasPcb /\ "ready_l" \in Listas
  BY EstableDe, LosContenedores DEF ListasPcb
<1>1. pc'["io"] = pc["io"] /\ UNCHANGED consola
  BY <1>0 DEF EnviarAEjecutar, EnviarEsperar, EnviarDespachar, Esperar, Ir,
     Hilos, varsPlp
<1>2. Ingresados' = Ingresados
  BY <1>1, IngresadosIgual
<1>3. CASE EnviarEsperar
  <2>1. UNCHANGED <<lista, pcb>> /\ UNCHANGED varsSocket
    BY <1>3 DEF EnviarEsperar, Esperar
  <2>2. pc'["planificador_io"] = pc["planificador_io"]
    BY <1>0, <1>3 DEF EnviarEsperar, Esperar, Ir, Hilos
  <2> QED BY <1>0, <1>1, <1>2, <2>1, <2>2, LugarQuieto, RefinaQuieta
<1>4. CASE EnviarDespachar
  <2>1. q \in Seq(PCB) /\ q # <<>> /\ lista'["ready_l"] = Tail(q)
    <3>1. Largo("ready_l") > 0
      BY <1>0, <1>4, ReadyNuncaVacia DEF EnviarDespachar
    <3>2. lista'["ready_l"] = Tail(q)
      BY <1>0, <1>4 DEF EnviarDespachar
    <3> QED BY <1>0, <3>1, <3>2, ListaDePcb, NoVaciaLista
  <2>2. PICK p : p = x.pid
    OBVIOUS
  <2>3. Cambia(p, "READY", "EXEC")
    <3>1. Clase("ready_l") = "READY" /\ Clase("haciaCpu")' = "EXEC"
      BY DEF Clase
    <3>2. /\ "ready_l" # "haciaCpu" /\ "ready_l" \in Contenedores
          /\ "haciaCpu" \in Contenedores
      BY LosContenedores
    <3>3. Mueve("ready_l", "haciaCpu", p)
      BY <1>0, <1>4, <2>2, LugaresDespachar
    <3> QED BY <1>0, <1>1, <1>2, <3>1, <3>2, <3>3, EtapaMueve
  <2>4. /\ ColaReady' = Tail(ColaReady) /\ ColaReady # <<>>
        /\ Head(ColaReady) = p
    <3>1. ColaReady = Cola(q) /\ ColaReady' = Cola(lista'["ready_l"])
      BY DEF ColaReady, Cola
    <3> QED BY <2>1, <2>2, <3>1, ColaTail
  <2>5. ASSUME NEW r \in Proceso PROVE Etapa(r) # "EXEC"
    <3>1. Naturales /\ Valor("s_proceso_ejecutando") > 0
      BY <1>0, <1>4, NaturalesTipo DEF EnviarDespachar, Wait, Valor
    <3>2. /\ Despachados = 0 /\ Devueltos = 0
          /\ En("recibir_proceso_de_cpu", {"finalizado_l", "post_finalizado",
                "block_l", "post_io_pendiente", "post", "muerto"}) = 0
      BY ONLY <1>0, <3>1 DEF Cuentas, UnSoloProceso, Naturales, Semaforos
    <3>3. DOMAIN haciaCpu = {} /\ DOMAIN desdeCpu = {}
      BY <1>0, <3>2, LenProperties DEF Despachados, Devueltos, TipoKernel,
         TipoCpu
    <3>4. pc["recibir_proceso_de_cpu"] \notin {"finalizado_l", "block_l",
                                               "muerto"}
      BY <3>2 DEF En
    <3>5. ~EnCpu(r)
      BY <3>3, <3>4 DEF EnCpu, EnHilo
    <3> QED BY <3>5, SinEjecutar
  <2>6. P!Despachar(p) /\ p \in Proceso
    BY <2>3, <2>4, <2>5, CambiaDespachar DEF Cambia
  <2> QED BY <2>6 DEF Refina, P!Next
<1> QED BY <1>3, <1>4 DEF EnviarAEjecutar

\* The CPU executes.
LEMMA RefinaCpuEjecutar ==
    ASSUME Invariantes, CpuEjecutar
    PROVE  Refina
<1>0. Estable /\ TypeOK /\ Cuentas /\ LugaresInv
  BY EstableDe
<1>1. pc'["io"] = pc["io"] /\ UNCHANGED consola /\ UNCHANGED lista
  BY DEF CpuEjecutar, varsKernel, varsPlp
<1>2. Ingresados' = Ingresados
  BY <1>1, IngresadosIgual
<1>3. Va("haciaCpu", "desdeCpu")
  BY <1>0, LugaresCpuEjecutar
<1>4. Clase("haciaCpu") = Clase("desdeCpu")'
  BY DEF Clase
<1> QED BY <1>0, <1>1, <1>2, <1>3, <1>4, LosContenedores, RefinaVa

\* recibir_proceso_de_cpu takes the process out of EXEC when it delivers it.
LEMMA RefinaRecibirProcesoDeCpu ==
    ASSUME Invariantes, RecibirProcesoDeCpu
    PROVE  Refina
<1> DEFINE h == "recibir_proceso_de_cpu"
<1>0. /\ Estable /\ TipoKernel /\ CuentasKernel /\ LugaresInv
      /\ TypeOK /\ Cuentas
      /\ lista = [l \in Listas |-> lista[l]] /\ pc = [g \in Hilos |-> pc[g]]
  BY EstableDe
<1>1. pc'["io"] = pc["io"] /\ UNCHANGED consola
  BY <1>0 DEF RecibirProcesoDeCpu, RecibirPcb, RecibirFinalizado,
     RecibirAvisarFinalizado, RecibirBloqueado, RecibirAvisarBloqueado,
     RecibirLiberarCpu, Avisar, Entregar, Dejar, Ir, Hilos, varsPlp
<1>2. lista'["ready_l"] = lista["ready_l"]
  BY <1>0 DEF RecibirProcesoDeCpu, RecibirPcb, RecibirFinalizado,
     RecibirAvisarFinalizado, RecibirBloqueado, RecibirAvisarBloqueado,
     RecibirLiberarCpu, Avisar, Entregar, Dejar, Listas
<1>3. Ingresados' = Ingresados
  BY <1>1, IngresadosIgual
<1>4. CASE Iguales({})
  BY <1>0, <1>1, <1>2, <1>3, <1>4, RefinaQuieta
<1>5. CASE RecibirPcb
  <2>1. Va("desdeCpu", h)
    BY <1>0, <1>5, SocketCorto, LugarRecibir DEF RecibirPcb
  <2>2. Clase("desdeCpu") = Clase(h)'
    BY DEF Clase
  <2> QED BY <1>0, <1>1, <1>2, <1>3, <2>1, <2>2, LosContenedores, RefinaVa
<1>6. CASE Va(h, "finalizado_l")
  <2>1. Clase(h) = "EXEC" /\ Clase("finalizado_l")' = "EXIT"
    BY DEF Clase
  <2> QED BY <1>0, <1>1, <1>2, <1>3, <1>6, <2>1, LosContenedores, RefinaVa
          DEF Transiciones
<1>7. CASE Va(h, "block_l")
  <2>1. Clase(h) = "EXEC" /\ Clase("block_l")' = "BLOCK"
    BY DEF Clase
  <2> QED BY <1>0, <1>1, <1>2, <1>3, <1>7, <2>1, LosContenedores, RefinaVa
          DEF Transiciones
\* planificador_io made it disappear: it is blocked for ever.
<1>8. ASSUME NEW p, Sale(h, p) PROVE Refina
  <2>1. /\ p \in Tiene(h) /\ Tiene(h)' = Tiene(h) \ {p}
        /\ \A c \in Contenedores \ {h} : Tiene(c)' = Tiene(c)
    BY <1>8 DEF Sale, Iguales
  <2>2. EtapasDichas /\ EtapasDichas' /\ h \in Contenedores
    BY <1>0, EtapaDe, EtapaDePrima, LosContenedores DEF Estable
  <2>3. p \in Ingresados /\ p \in Proceso
    BY <1>0, <2>1, <2>2, DondeEsta
  <2>4. Etapa(p) = "EXEC"
    <3>1. Etapa(p) = Clase(h)
      BY <2>1, <2>2 DEF EtapasDichas
    <3> QED BY <3>1 DEF Clase
  <2>5. Etapa(p)' = "BLOCK"
    <3>1. \A c \in Contenedores : p \notin Tiene(c)'
      BY <1>0, <2>1, <2>2 DEF LugaresInv, Ajenos
    <3>2. p \in Ausentes'
      BY <1>3, <2>3, <3>1 DEF Ausentes, Presentes, Contenedores, ListasPcb,
         HilosPcb
    <3> QED BY <2>2, <3>2 DEF EtapasDichas
  <2>6. ASSUME NEW r \in Proceso \ {p} PROVE Etapa(r)' = Etapa(r)
    <3>1. \A c \in Contenedores :
             /\ r \in Tiene(c)' <=> r \in Tiene(c)
             /\ r \in Tiene(c) => Clase(c)' = Clase(c)
      BY <1>1, <2>1, <2>6, ClaseIgual
    <3> QED BY <1>0, <1>3, <2>6, <3>1, EtapaQuieta
  <2>7. Cambia(p, "EXEC", "BLOCK")
    BY <2>3, <2>4, <2>5, <2>6 DEF Cambia
  <2> QED BY <1>2, <2>7, RefinaCambia DEF Transiciones
<1>9. CASE RecibirAvisarFinalizado \/ RecibirAvisarBloqueado
  <2>1. UNCHANGED <<lista, pcb>> /\ UNCHANGED varsSocket
    BY <1>9 DEF RecibirAvisarFinalizado, RecibirAvisarBloqueado, Avisar
  <2>2. pc'["planificador_io"] = pc["planificador_io"]
    BY <1>0, <1>9 DEF RecibirAvisarFinalizado, RecibirAvisarBloqueado, Avisar,
       Ir, Hilos
  <2> QED BY <1>0, <1>4, <2>1, <2>2, LugarQuieto
<1>10. CASE RecibirFinalizado \/ RecibirLiberarCpu
  BY <1>0, <1>4, <1>6, <1>10, LugaresRecibirComun
<1>11. CASE RecibirBloqueado
  BY <1>0, <1>7, <1>8, <1>11, LugaresRecibirBloqueado
<1> QED BY <1>5, <1>9, <1>10, <1>11 DEF RecibirProcesoDeCpu

-----------------------------------------------------------------------------
(* The theorem.                                                             *)

\* Before any console connects every process is outside and the queue empty.
LEMMA RefinaInicio ==
    ASSUME Init
    PROVE  P!Init
<1>1. [p \in Proceso |-> Etapa(p)] = [p \in Proceso |-> "AFUERA"]
  <2>1. TypeOK /\ LugaresInv
    BY InicioInvariante, InicioLugares DEF IInv, Init
  <2>2. \A p \in Proceso : p \notin Ingresados
    BY DEF Init, InitKernel, Ingresados
  <2> QED BY <2>1, <2>2, EtapaDe DEF EtapasDichas
<1>2. ColaReady = <<>>
  <2>1. lista["ready_l"] = <<>>
    BY DEF Init, InitKernel, Listas
  <2> QED BY <2>1 DEF ColaReady
<1> QED BY <1>1, <1>2 DEF P!Init

\* A step of KernelFifo is a step of Planificador, or none.
LEMMA RefinaPaso ==
    Invariantes /\ [Next]_vars => Refina
<1> SUFFICES ASSUME Invariantes, [Next]_vars PROVE Refina
  OBVIOUS
<1>1. ASSUME NextKernel, UNCHANGED varsSocket PROVE Refina
  <2>1. lista'["ready_l"] = lista["ready_l"]
    BY <1>1, EstableDe, NextKernelQuieto DEF PcpQuieto
  <2> QED BY <1>1, <2>1, RefinaGestionar, RefinaPlp, RefinaPmp,
             RefinaPlanificadorIo, RefinaIo DEF NextKernel
<1>2. ASSUME UNCHANGED vars PROVE Refina
  <2>1. UNCHANGED <<lista, pc, pcb, consola>> /\ UNCHANGED varsSocket
    BY <1>2 DEF vars, varsKernel, varsPlp
  <2>2. Iguales({}) /\ Ingresados' = Ingresados
    BY <2>1, EstableDe, LugarQuieto, IngresadosIgual
  <2> QED BY <2>1, <2>2, EstableDe, RefinaQuieta
<1> QED BY <1>1, <1>2, RefinaAgregarAReady, RefinaEnviarAEjecutar,
           RefinaCpuEjecutar, RefinaRecibirProcesoDeCpu
        DEF Next, Vivo, Reposo

\* Under FIFO no interleaving of the threads makes a process skip a state, go
\* back to READY twice, overtake another in ready_l or execute while another does.
THEOREM Implementa == Spec => ImplementaPlanificador
<1>1. Init => P!Init
  BY RefinaInicio
<1>2. Invariantes /\ [Next]_vars => [P!Next]_(P!varsPlanificador)
  BY RefinaPaso DEF Refina
<1> QED BY <1>1, <1>2, InvarianteLugares, PTL
        DEF Invariantes, Spec, ImplementaPlanificador, P!Spec
=============================================================================
