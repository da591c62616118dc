SPECIFICATION Spec
CONSTANTS
    Pedidos = {"p1"}
    Operacoes <- OperacoesImportar
    UtilizadorDe <- UtilizadorImportar
    Turmas = {1}
    Listas = {{1}, {1, 2}}
    MaxNumero = 2
    MaxCronogramas = 1
    MaxTrabalhos = 1
    MaxFalhas = 0
    Nulo = Nulo
PROPERTY RecusaNaoApaga
CHECK_DEADLOCK FALSE
