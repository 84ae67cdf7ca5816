------------------------------- MODULE Mensajes -------------------------------
(***************************************************************************)
(* What travels between Consola, Kernel and CPU: the lines of a script      *)
(* (Consola.c), the instructions they become (instrucciones.c), the PCB     *)
(* (pcb.c) and the packets that carry them (protocolo.c).                   *)
(*                                                                          *)
(* A stream is a sequence of bytes and a uint32_t is four of them, the      *)
(* least significant first.  A line of a script is the name of its          *)
(* instruction and the numbers that follow it; the splitting of the text    *)
(* is left out.  A socket holds what was sent and not yet received; recv    *)
(* gets all it asks for.                                                    *)
(***************************************************************************)
EXTENDS Integers, Sequences, SequencesExt

\* INSTRUCCION, and what definirCodigo gives for any other name.
NO_OP == 1
I_O == 2
WRITE == 3
COPY == 4
READ == 5
EXIT == 6
DESCONOCIDA == 255

\* ESTADO
INICIADO == 0
BLOQUEADO == 1
FINALIZADO == 2
SUSPENDIDO == 3
INTERRUMPIDO == 4

definirCodigo(nombre) ==
    CASE nombre = "NO_OP" -> NO_OP
      [] nombre = "I/O" -> I_O
      [] nombre = "WRITE" -> WRITE
      [] nombre = "COPY" -> COPY
      [] nombre = "READ" -> READ
      [] nombre = "EXIT" -> EXIT
      [] OTHER -> DESCONOCIDA

\* getCantidadParametros; -1 and 0 make the same loop.
getCantidadParametros(id) ==
    CASE id \in {I_O, READ} -> 1
      [] id \in {WRITE, COPY} -> 2
      [] OTHER -> 0

(***************************************************************************)
(* Scripts.                                                                 *)
(***************************************************************************)

Byte == 0 .. 255

\* The values of a uint32_t.
Numero == {n \in Nat : n \div 16777216 \in Byte}

\* A line: NO_OP has a number at least, since without one the Consola gives
\* atoi a NULL.
Renglon == {linea \in [nombre : STRING, numeros : Seq(Numero)] :
              linea.nombre = "NO_OP" => linea.numeros # <<>>}

\* One pass of the loop of obtener_intrucciones: NO_OP n stands for n
\* instructions, any other line keeps every number it has.
DeLinea(linea) ==
    LET id == definirCodigo(linea.nombre) IN
    IF id = NO_OP
    THEN [i \in 1 .. linea.numeros[1] |-> [id |-> id, parametros |-> <<>>]]
    ELSE <<[id |-> id, parametros |-> linea.numeros]>>

obtener_intrucciones(lineas) ==
    FlattenSeq([i \in DOMAIN lineas |-> DeLinea(lineas[i])])

(***************************************************************************)
(* Streams.                                                                 *)
(***************************************************************************)

uint32(n) == <<n % 256, (n \div 256) % 256, (n \div 65536) % 256, n \div 16777216>>

\* What memcpy of four bytes reads at byte i of a stream.
Valor(stream, i) ==
    stream[i] + 256 * stream[i + 1] + 65536 * stream[i + 2]
              + 16777216 * stream[i + 3]

DeUint32(numeros) == FlattenSeq([i \in DOMAIN numeros |-> uint32(numeros[i])])

calcular_espacio_instrucciones(instrucciones) ==
    FoldLeft(LAMBDA n, ins : n + 1 + 4 * Len(ins.parametros), 4, instrucciones)

armar_stream_instruccion(instrucciones) ==
    uint32(Len(instrucciones)) \o FlattenSeq(
        [i \in DOMAIN instrucciones |->
            <<instrucciones[i].id>> \o DeUint32(instrucciones[i].parametros)])

\* One pass of the loop of deserializar_instrucciones: the instruction at a byte,
\* and where the next one is.  The id says how many parameters follow, not what
\* was sent.
InstruccionEn(stream, d) ==
    [id |-> stream[d],
     parametros |-> [k \in 1 .. getCantidadParametros(stream[d]) |->
                        Valor(stream, d + 4 * k - 3)]]
Siguiente(stream) ==
    [d \in DOMAIN stream |-> d + 1 + 4 * getCantidadParametros(stream[d])]

\* deserializar_instrucciones, from a byte of the stream on.
deserializar_instrucciones(stream, d) ==
    LET cantidad == Valor(stream, d)
        desde[i \in 1 .. cantidad] ==
            IF i = 1 THEN d + 4 ELSE Siguiente(stream)[desde[i - 1]]
    IN  [i \in 1 .. cantidad |-> InstruccionEn(stream, desde[i])]

(***************************************************************************)
(* Packets.                                                                 *)
(***************************************************************************)

\* armar_buffer, empaquetar_buffer and serializar_paquete.
Paquete(codigo_operacion, tamano, stream) ==
    <<codigo_operacion>> \o uint32(tamano) \o SubSeq(stream, 1, tamano)

\* The three recv that get a packet: its stream, and what stays in the socket.
TamanoRecibido(socket) == Valor(socket, 2)
StreamRecibido(socket) == SubSeq(socket, 6, 5 + TamanoRecibido(socket))
Resto(socket) == SubSeq(socket, 6 + TamanoRecibido(socket), Len(socket))

(***************************************************************************)
(* The message of a console.                                                *)
(***************************************************************************)

serializar_mensaje(instrucciones, tamano_proceso) ==
    Paquete(0, calcular_espacio_instrucciones(instrucciones),
            armar_stream_instruccion(instrucciones)) \o uint32(tamano_proceso)

\* deserializar_instrucciones never looks at the size of the buffer: past its end
\* it reads what lies there, a byte repeated.
PasadoElFinal(stream, resto) ==
    stream \o [i \in 1 .. 9 * Valor(stream, 1) |-> resto]

deserializar_mensaje(socket, resto) ==
    [instrucciones |-> deserializar_instrucciones(
                          PasadoElFinal(StreamRecibido(socket), resto), 1),
     tamano |-> Valor(Resto(socket), 1)]

(***************************************************************************)
(* The PCB.                                                                 *)
(***************************************************************************)

pcb_create(tamano, instrucciones, pid, estimacion_inicial, tabla_paginas) ==
    [pid |-> pid, tamano |-> tamano, program_counter |-> 0,
     estimado_rafaga |-> estimacion_inicial, estado |-> INICIADO,
     tiempo_block |-> 0, tabla_paginas |-> tabla_paginas,
     tiempo_ejecucion |-> 0, instrucciones |-> instrucciones]

pcb_calcular_espacio(pcb) ==
    calcular_espacio_instrucciones(pcb.instrucciones) + 4 * 8

\* Mutant: the size goes before the pid.
StreamCambiado(pcb) ==
    DeUint32(<<pcb.tamano, pcb.pid, pcb.program_counter, pcb.estimado_rafaga,
               pcb.estado, pcb.tiempo_block, pcb.tabla_paginas,
               pcb.tiempo_ejecucion>>)
    \o armar_stream_instruccion(pcb.instrucciones)

pcb_armar_stream(pcb) ==
    DeUint32(<<pcb.pid, pcb.tamano, pcb.program_counter, pcb.estimado_rafaga,
               pcb.estado, pcb.tiempo_block, pcb.tabla_paginas,
               pcb.tiempo_ejecucion>>)
    \o armar_stream_instruccion(pcb.instrucciones)

pcb_serializar(pcb, codigo_operacion) ==
    Paquete(codigo_operacion, pcb_calcular_espacio(pcb), pcb_armar_stream(pcb))

pcb_deserializar(stream) ==
    [pid |-> Valor(stream, 1), tamano |-> Valor(stream, 5),
     program_counter |-> Valor(stream, 9), estimado_rafaga |-> Valor(stream, 13),
     estado |-> Valor(stream, 17), tiempo_block |-> Valor(stream, 21),
     tabla_paginas |-> Valor(stream, 25), tiempo_ejecucion |-> Valor(stream, 29),
     instrucciones |-> deserializar_instrucciones(stream, 33)]

\* recibirPCB, as the set of what it may give: a stream made by pcb_serializar
\* is read to its last byte and no further, since its instructions have the
\* parameters their ids call for.
recibirPCB(socket) == {pcb_deserializar(stream) : stream \in {StreamRecibido(socket)}}
=============================================================================
