SPECIFICATION Spec
CONSTANTS
    CANT_CONSOLAS = 2
    GRADO_MULTIPROGRAMACION = 1
    Programa <- ProgramaIO
    NULO = NULO
INVARIANTS
    GradoRespetado
