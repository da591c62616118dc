\* One client of the documents and one of credit notes, both invoice two proposals; no failures.
SPECIFICATION Spec
CONSTANTS
  f1 = f1
  f2 = f2
  f3 = f3
  p1 = p1
  p2 = p2
  q1 = q1
  q2 = q2
  cAT = cAT
  Nenhum = Nenhum
  Series <- MCSeries
  SeriesFT <- MCSeriesFT
  NotaDe <- MCNotaDe
  CodigoDaAt <- MCCodigoDaAt
  Faturas = {f1, f2, f3}
  Propostas = {q1, q2}
  Totais = {1, 2}
  Codigos = {cAT}
  Pedidos = {p1, p2}
  Operacoes <- OperacoesDocumentos
  AutoSerie = TRUE
  Interrupcoes = FALSE
  MaxNumero = 1
SYMMETRY SimetriaFaturas
CHECK_DEADLOCK FALSE
INVARIANTS
  AssinaturaConfere
  NotaCreditoUnica
  PropostaUmaFatura
PROPERTIES
  AnuladaParaSempre
