------------------------------- MODULE Programa -------------------------------
(***************************************************************************)
(* What a user of the system is promised: each process executes the lines   *)
(* of its script in their order on a memory of its own, whatever the other  *)
(* processes do, and its console is told of its end once it has executed    *)
(* EXIT.  A line with the wrong name or the wrong number of numbers may do  *)
(* anything, to its own process and from then on.                           *)
(***************************************************************************)
EXTENDS Integers, Sequences, SequencesExt

CONSTANTS Pids, Direcciones

VARIABLES
    guion,      \* per process, the lines of its script, or <<>>
    hechas,     \* instructions it has executed
    mem,        \* its words
    leido,      \* the word it read last
    avisada     \* its console knows that it has ended

vars == <<guion, hechas, mem, leido, avisada>>

Init ==
    /\ guion = [p \in Pids |-> <<>>]
    /\ hechas = [p \in Pids |-> 0]
    /\ mem = [p \in Pids |-> [d \in Direcciones |-> 0]]
    /\ leido = [p \in Pids |-> 0]
    /\ avisada = [p \in Pids |-> FALSE]

Numeros(nombre) == CASE nombre \in {"I/O", "READ", "NO_OP"} -> 1
                     [] nombre \in {"WRITE", "COPY"} -> 2
                     [] nombre = "EXIT" -> 0
                     [] OTHER -> -1

BienEscrita(linea) == Len(linea.numeros) = Numeros(linea.nombre)

\* NO_OP n is n instructions.
Pasos(p) == FlattenSeq([i \in DOMAIN guion[p] |->
                IF guion[p][i].nombre = "NO_OP"
                THEN [j \in 1 .. guion[p][i].numeros[1] |-> guion[p][i]]
                ELSE <<guion[p][i]>>])

Cargar(p) ==
    /\ guion[p] = <<>>
    /\ \A q \in Pids \ {p} : guion'[q] = guion[q]
    /\ UNCHANGED <<hechas, mem, leido, avisada>>

\* What one instruction does to a memory m and to the last word read.
Efecto(linea, m, ultimo) ==
    LET n == linea.numeros IN
    CASE linea.nombre = "WRITE" -> <<[m EXCEPT ![n[1]] = n[2]], ultimo>>
      [] linea.nombre = "COPY" -> <<[m EXCEPT ![n[1]] = m[n[2]]], ultimo>>
      [] linea.nombre = "READ" -> <<m, m[n[1]]>>
      [] OTHER -> <<m, ultimo>>

\* The lines up to the one after those executed.
Hasta(p) == 1 .. hechas[p] + 1

\* They are well written, and EXIT is not among those executed.
Ejecutar(p) ==
    /\ hechas' = [hechas EXCEPT ![p] = @ + 1]
    /\ LET s == Pasos(p)
           i == hechas[p] + 1
       IN  /\ i \in DOMAIN s
           /\ \A j \in Hasta(p) : BienEscrita(s[j])
           /\ \A j \in Hasta(p) \ {i} : s[j].nombre # "EXIT"
           /\ LET e == Efecto(s[i], mem[p], leido[p])
              IN  /\ mem' = [mem EXCEPT ![p] = e[1]]
                  /\ leido' = [leido EXCEPT ![p] = e[2]]
    /\ UNCHANGED <<guion, avisada>>

Avisar(p) ==
    /\ avisada' = [avisada EXCEPT ![p] = TRUE]
    /\ LET s == Pasos(p)
       IN  hechas[p] \in DOMAIN s /\ s[hechas[p]].nombre = "EXIT"
    /\ UNCHANGED <<guion, hechas, mem, leido>>

\* From an ill written line on.
Cualquiera(p) ==
    /\ \A q \in Pids \ {p} : /\ hechas'[q] = hechas[q] /\ mem'[q] = mem[q]
                             /\ leido'[q] = leido[q] /\ avisada'[q] = avisada[q]
    /\ UNCHANGED guion
    /\ LET s == Pasos(p)
       IN  \E j \in Hasta(p) \intersect DOMAIN s : ~ BienEscrita(s[j])

Next == \E p \in Pids : Cargar(p) \/ Ejecutar(p) \/ Avisar(p) \/ Cualquiera(p)

Spec == Init /\ [][Next]_vars
=============================================================================
