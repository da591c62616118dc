SPECIFICATION SpecTodas
CONSTANTS
    sz = sz st = st f1 = f1 m1 = m1 m2 = m2 m3 = m3 ez = ez et = et Nenhum = Nenhum
    Plataformas <- DuasPlataformas
    Sessoes = {sz, st}
    PlataformaDe <- DuasSessoes
    Formandos = {f1}
    DoPortal = {}
    Mensagens = {m1, m2, m3}
    Conteudo <- ConteudoSqs
    Execucoes = {ez, et}
    LoopDe <- LoopsSqs
    Transportes = {"sqs"}
    TokensIguais = {TRUE, FALSE}
    Pedidos = {}
    DuracoesPedido <- SemDuracao
    MaxRelogio = 1
    MaxAcessos = 0
    MaxFalhas = 2
INVARIANTS ApagadaFoiTratada TempoNaoExcede
PROPERTIES EntregaEventual DecisaoChega CertificadoTransferido TrabalhoTermina
CHECK_DEADLOCK FALSE
