\* Two requests emit the same draft.
SPECIFICATION Spec
CONSTANTS
  f1 = f1
  f2 = f2
  f3 = f3
  p1 = p1
  p2 = p2
  q1 = q1
  q2 = q2
  cAT = cAT
  Nenhum = Nenhum
  Series <- MCSeries
  SeriesFT <- MCSeriesFT
  NotaDe <- MCNotaDe
  CodigoDaAt <- MCCodigoDaAt
  Faturas = {f1}
  Propostas = {}
  Totais = {1}
  Codigos = {cAT}
  Pedidos = {p1, p2}
  Operacoes <- DoisEmissores
  AutoSerie = TRUE
  Interrupcoes = FALSE
  MaxNumero = 3
CHECK_DEADLOCK FALSE
PROPERTIES
  NumeroNuncaMuda
