SPECIFICATION SpecJusta
CONSTANTS
    CANT_PROCESOS = 2
    Orden <- Invertido
    Paginas = 1
    ENTRADAS_POR_TABLA = 2
    MARCOS_POR_PROCESO = 1
    CANT_MARCOS = 2
    BITS_POR_BYTE = 2
    ALGORITMOS <- SoloClock
    ENTRADAS_TLB = 1
    REEMPLAZO_TLB = "LRU"
    INSTRUCCIONES <- SoloWrite
    OPERACIONES = 3
    SOLAPADOS = 1
    SUSPENSIONES = 2
CHECK_DEADLOCK FALSE
PROPERTIES
    AccesoRespondido
    PedidosServidos
