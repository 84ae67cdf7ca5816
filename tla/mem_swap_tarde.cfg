SPECIFICATION Spec
CONSTANTS
    CANT_PROCESOS = 1
    Orden <- Uno
    Paginas = 2
    ENTRADAS_POR_TABLA = 2
    MARCOS_POR_PROCESO = 1
    CANT_MARCOS = 8
    BITS_POR_BYTE = 8
    ALGORITMOS <- SoloClock
    ENTRADAS_TLB = 1
    REEMPLAZO_TLB = "LRU"
    INSTRUCCIONES <- Ambas
    OPERACIONES = 3
    SOLAPADOS = 3
    SUSPENSIONES = 0
CHECK_DEADLOCK FALSE
INVARIANTS
    SwapAntesDeReusar
