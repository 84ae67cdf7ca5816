SPECIFICATION Spec
CONSTANTS
    CANT_PROCESOS = 2
    Orden <- EnOrden
    Paginas = 2
    ENTRADAS_POR_TABLA = 2
    MARCOS_POR_PROCESO = 2
    CANT_MARCOS = 2
    BITS_POR_BYTE = 2
    ALGORITMOS <- SoloClock
    ENTRADAS_TLB = 2
    REEMPLAZO_TLB = "LRU"
    INSTRUCCIONES <- Ambas
    OPERACIONES = 3
    SOLAPADOS = 3
    SUSPENSIONES = 1
CHECK_DEADLOCK FALSE
INVARIANTS
    TypeOK
    
    
    
