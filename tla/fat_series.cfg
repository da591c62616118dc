\* One emitter, a client that registers the series and edits its code, and both write
\* the configuration; no failures.
SPECIFICATION Spec
CONSTANTS
  f1 = f1
  f2 = f2
  f3 = f3
  p1 = p1
  p2 = p2
  q1 = q1
  q2 = q2
  cAT = cAT
  Nenhum = Nenhum
  Series <- MCSeries
  SeriesFT <- MCSeriesFT
  NotaDe <- MCNotaDe
  CodigoDaAt <- MCCodigoDaAt
  Faturas = {f1, f2}
  Propostas = {}
  Totais = {1}
  Codigos = {cAT}
  Pedidos = {p1, p2}
  Operacoes <- OperacoesSeries
  AutoSerie = FALSE
  Interrupcoes = FALSE
  MaxNumero = 2
SYMMETRY SimetriaFaturas
CHECK_DEADLOCK FALSE
INVARIANTS
  EmitidaComAtcud
  NumeracaoSemLacunas
  ComunicadaTemRegisto
  AtivaComLicenca
