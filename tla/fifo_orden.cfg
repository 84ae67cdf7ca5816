SPECIFICATION Spec
CONSTANTS
    CANT_CONSOLAS = 3
    GRADO_MULTIPROGRAMACION = 1
    Programa <- ProgramaMixto
    NULO = NULO
INVARIANTS
    UnSoloProceso
    AvisoTrasExit
    MuertoPorInvalida
PROPERTIES
    MensajesEnOrden
    ImplementaPlanificador
