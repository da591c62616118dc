SPECIFICATION Spec
CONSTANTS
    m1 = m1 m2 = m2 p1 = p1 p2 = p2
    Matriculas = {m1, m2}
    Pedidos = {p1, p2}
    Operacoes <- DoisPedidos
    MaxFalhas = 0
    Nulo = Nulo
SYMMETRY SimetriaMatriculas
INVARIANT AprovadaValidada
CHECK_DEADLOCK FALSE
