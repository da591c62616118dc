SPECIFICATION Spec
CONSTANTS
    m1 = m1 m2 = m2 p1 = p1 p2 = p2
    Matriculas = {m1, m2}
    Pedidos = {p1}
    Operacoes <- UmPedido
    MaxFalhas = 0
    Nulo = Nulo
SYMMETRY SimetriaMatriculas
INVARIANT ValidadaCompleta
CHECK_DEADLOCK FALSE
