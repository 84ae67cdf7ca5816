SPECIFICATION SpecJusta
CONSTANTS
    CANT_CONSOLAS = 2
    GRADO_MULTIPROGRAMACION = 1
    Programa <- ProgramaIO
    NULO = NULO
INVARIANTS
    TypeOK
    TokensCoinciden
    BalanceGrado
    BusquedaVigente
    PcbEnUnSoloLugar
    PerdidosConAviso
PROPERTIES
    
    UnaConsolaRespondida
