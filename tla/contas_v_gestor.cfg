SPECIFICATION Spec
CONSTANTS
    Emails = {"a1", "a2"}
    Cargos = {"ADMIN", "FORMADOR"}
    Pedidos = {"p1"}
    Operacoes <- OperacoesGestor
    Limites = {2}
    MaxIds = 3
    MaxFalhas = 0
    Nulo = Nulo
INVARIANT HaGestor
CHECK_DEADLOCK FALSE
