SPECIFICATION Spec
CONSTANTS
    CANT_CONSOLAS = 2
    GRADO_MULTIPROGRAMACION = 2
    Programa <- ProgramaSrt
    NULO = NULO
    ESTIMACION_INICIAL = 2
    ALFA = 5
    MODULO = 8
    Duraciones = {3}
CHECK_DEADLOCK FALSE
INVARIANTS
    TypeOK
    TokensCoinciden
    UnSoloProceso
    SinMutexSinCarrera
    PcbEnUnSoloLugar
    PerdidosConAviso
PROPERTY
    DespachoMinimo
