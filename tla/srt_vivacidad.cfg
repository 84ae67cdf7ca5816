SPECIFICATION SpecJusta
CONSTANTS
    CANT_CONSOLAS = 2
    GRADO_MULTIPROGRAMACION = 2
    Programa <- ProgramaCorto
    NULO = NULO
    ESTIMACION_INICIAL = 2
    ALFA = 5
    MODULO = 8
    Duraciones = {1}
CHECK_DEADLOCK FALSE
PROPERTIES
    RespondidaOTrabada
    UnaConsolaRespondida
