SPECIFICATION Spec
CONSTANTS
    ENTRADAS_TLB = 2
    ENTRADAS_POR_TABLA = 2
    PAGINAS = 3
    TAM_PAGINA = 8
    RETARDO = 1
    Procesos <- DosProcesos
    CONEXIONES = 3
    GuionesDe <- Guiones
    BASURA <- CeroOExit
    INTERRUPCIONES = 1
CHECK_DEADLOCK FALSE
INVARIANTS
    TypeOK
PROPERTIES
    ImplementaCache
    LruEntreReferenciadas
    ImplementaPrograma
    ArranqueTermina
    PcbVuelve
