SPECIFICATION Spec
CONSTANTS
    CANT_PROCESOS = 1
    Orden <- Uno
    Paginas = 3
    ENTRADAS_POR_TABLA = 2
    MARCOS_POR_PROCESO = 2
    CANT_MARCOS = 8
    BITS_POR_BYTE = 8
    ALGORITMOS <- AmbosRelojes
    ENTRADAS_TLB = 2
    REEMPLAZO_TLB = "LRU"
    INSTRUCCIONES <- Ambas
    OPERACIONES = 5
    SOLAPADOS = 2
    SUSPENSIONES = 1
CHECK_DEADLOCK FALSE
INVARIANTS
    PagMemFiel
    SinFugas
    LecturaFiel
PROPERTIES
    SegundaOportunidad
    VictimaDeMenorClase
