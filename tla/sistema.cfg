SPECIFICATION SpecTodas
CONSTANTS
    Pedidos = {"c1", "c2", "p1"}
    Operacoes <- Certificacao
    Lote = 1
    MaxTentativas = 2
    MaxSubmissoes = 1
    MaxFalhas = 1
    Nenhum = Nenhum
    Partes = {"sigo", "gestor", "limite", "navegacao", "cortes", "funil", "importar", "trabalhos", "fila"}
    DeGestor <- ContasEditadas
    DeLimite <- ContasActivadas
    DeNavegacao <- DoisNavegadores
    DeCortes <- ComFalha
    DeFunil <- UmaEmpresa
    DeImportar <- DuasImportacoes
    DeTrabalhos <- UmTrabalho
    DeFila <- DoisCanais
INVARIANTS TodosTipos LimiteRespeitado UmaSessaoPorConta CookieVivo ConversaoAposAceite AceiteRegistado
    ImportacaoInteira AplicadoFoiCriado FicheiroGuardado
    SemRegistosRepetidos PresencaFechada EntradasAlternadas TempoConfere
PROPERTIES AdminSempreProtegido RespostaFica
CHECK_DEADLOCK FALSE
