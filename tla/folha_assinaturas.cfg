SPECIFICATION Spec
CONSTANTS
    m1 = m1 m2 = m2 p1 = p1 p2 = p2
    Matriculas = {m1, m2}
    Pedidos = {p1}
    Operacoes <- UmPedido
    MaxFalhas = 2
    Nulo = Nulo
SYMMETRY SimetriaMatriculas
INVARIANTS TypeOK PresenteSegueEstado AprovadaValidada ValidadaCompletaSemLms
PROPERTY AprovadaNaoMuda
CHECK_DEADLOCK FALSE
