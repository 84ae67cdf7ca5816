-------------------------------- MODULE Cache --------------------------------
(***************************************************************************)
(* What a cache of pages with FIFO replacement promises: it holds so many   *)
(* pages at most, each once, and evicts the one loaded longest ago, however *)
(* often it has been used since.                                            *)
(***************************************************************************)
EXTENDS Naturals, Sequences, SequencesExt

CONSTANTS Capacidad, Paginas

VARIABLE cola    \* the pages held, the one loaded longest ago first

Init == cola = <<>>

\* The page is held.
Acierto(p) == p \in ToSet(cola) /\ cola' = cola

\* The page is not held: it takes a free place or that of the head.
Fallo(p) ==
    /\ p \notin ToSet(cola)
    /\ cola' = Append(IF Len(cola) < Capacidad THEN cola ELSE Tail(cola), p)

Vaciar == cola' = <<>>

Next == Vaciar \/ \E p \in Paginas : Acierto(p) \/ Fallo(p)

Spec == Init /\ [][Next]_cola
=============================================================================
