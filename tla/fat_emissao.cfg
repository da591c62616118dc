\* One emitter, other requests around it, failures between any two statements.
SPECIFICATION Spec
CONSTANTS
  f1 = f1
  f2 = f2
  f3 = f3
  p1 = p1
  p2 = p2
  q1 = q1
  q2 = q2
  cAT = cAT
  Nenhum = Nenhum
  Series <- MCSeries
  SeriesFT <- MCSeriesFT
  NotaDe <- MCNotaDe
  CodigoDaAt <- MCCodigoDaAt
  Faturas = {f1, f2}
  Propostas = {}
  Totais = {1}
  Codigos = {cAT}
  Pedidos = {p1, p2}
  Operacoes <- OperacoesEmissao
  AutoSerie = TRUE
  Interrupcoes = TRUE
  MaxNumero = 3
SYMMETRY SimetriaFaturas
CHECK_DEADLOCK FALSE
INVARIANTS
  TypeOK
  NumeracaoUnica
  CadeiaHash
  ComunicadaExisteNaAt
PROPERTIES
  NumeroNuncaMuda
  EmissaoImplementaLivro
