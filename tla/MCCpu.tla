-------------------------------- MODULE MCCpu --------------------------------
(***************************************************************************)
(* Small instances of Cpu.                                                  *)
(***************************************************************************)
EXTENDS Cpu

DosProcesos == {0, 1}

Linea(nombre, numeros) == [nombre |-> nombre, numeros |-> numeros]
Fin == Linea("EXIT", <<>>)
Lecturas(paginas) ==
    [i \in DOMAIN paginas |-> Linea("READ", <<TAM_PAGINA * paginas[i]>>)]

\* Every order of using three pages five times, up to their names.
Canonico(s) ==
    /\ s[1] = 0
    /\ \A i \in DOMAIN s : \A n \in 0 .. s[i] - 1 : \E j \in 1 .. i : s[j] = n
Patrones == {s \in [1 .. 5 -> 0 .. 2] : Canonico(s)}

\* Words that move and bursts that end early.
Datos == {
    <<Linea("WRITE", <<4, 300>>), Linea("COPY", <<8, 4>>),
      Linea("READ", <<8>>), Fin>>,
    <<Linea("NO_OP", <<2>>), Linea("WRITE", <<0, 8>>), Linea("I/O", <<1>>),
      Linea("READ", <<0>>), Fin>>}

\* A name nobody knows after an I/O, a number too many, no EXIT.
Errores == {
    <<Linea("I/O", <<1>>), Linea("REED", <<6>>), Linea("READ", <<0>>), Fin>>,
    <<Linea("WRITE", <<0, 5>>), Linea("READ", <<0, 6>>), Fin>>,
    <<Linea("READ", <<0, 5>>), Linea("NO_OP", <<1>>), Fin>>,
    <<Linea("COPY", <<0>>), Fin>>,
    <<Linea("READ", <<0>>)>>}

Guiones(p) ==
    IF p = 0
    THEN {Lecturas(s) \o <<Fin>> : s \in Patrones} \union Datos \union Errores
    ELSE {<<Linea("WRITE", <<0, 7>>), Fin>>}

CeroOExit == {0, EXIT}
=============================================================================
