------------------------------ MODULE MCMemoria ------------------------------
(***************************************************************************)
(* Small instances of Memoria: the order of the initialisations, the        *)
(* replacement algorithms and the instructions of the programs.             *)
(***************************************************************************)
EXTENDS Memoria

Uno == <<0>>
EnOrden == <<0, 1>>
Invertido == <<1, 0>>

SoloClock == {"CLOCK"}
AmbosRelojes == {"CLOCK", "CLOCK-M"}

Ambas == {"READ", "WRITE"}
SoloWrite == {"WRITE"}
=============================================================================
