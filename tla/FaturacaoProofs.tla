--------------------------- MODULE FaturacaoProofs ---------------------------
(* Theorems about Faturacao, for every set of invoices, series, requests.  *)
EXTENDS Faturacao, TLAPS

-----------------------------------------------------------------------------
(* Typing *)

(* The idle request is well typed.                                         *)
LEMMA LivreTipo == Livre \in PedidoRow /\ Livre.pc = "livre"
BY SeriesAssumption DEF Livre, PedidoRow, Passos, ConfigInicial, ConfigRow

(* Replacing the local variables of one request keeps the typing of all.   *)
LEMMA SegueTipo ==
    ASSUME NEW p \in Pedidos, NEW r \in PedidoRow,
           pedido \in [Pedidos -> PedidoRow], Segue(p, r)
    PROVE  pedido' \in [Pedidos -> PedidoRow]
BY DEF Segue

(* So does the end of a handler.                                           *)
LEMMA TerminaTipo ==
    ASSUME NEW p \in Pedidos, pedido \in [Pedidos -> PedidoRow], Termina(p)
    PROVE  pedido' \in [Pedidos -> PedidoRow]
BY LivreTipo, SegueTipo DEF Termina

(* Every first step of a handler keeps the types: it writes only the local *)
(* variables of its request.                                               *)
LEMMA ChamadaTipo ==
    ASSUME TypeOK, NEW p \in Pedidos, Chamada(p)
    PROVE  TypeOK'
<1> USE LivreTipo DEF Passos, PassosEmissao, PassosSerie, PassosDocumento, PassosNota
<1> SUFFICES \E r \in PedidoRow :
        Segue(p, r) /\ UNCHANGED <<fatura, serie, config, comunicacoes, atRegistados, atAnulados>>
    BY SegueTipo DEF TypeOK
<1>1. ASSUME NEW q \in Propostas, NEW s \in SeriesFT, NEW t \in Totais, FaturarPropostaLer(p, q, s, t)
      PROVE  \E r \in PedidoRow : Segue(p, r)
    <2>1. [Livre EXCEPT !.pc = "proposta.criar", !.q = q, !.s = s, !.total = t] \in PedidoRow
      BY SeriesAssumption, TotaisAssumption DEF PedidoRow
    <2> QED BY <1>1, <2>1 DEF FaturarPropostaLer
<1>2. ASSUME NEW f \in Faturas, NEW t \in Totais, UpdateLer(p, f, t)
      PROVE  \E r \in PedidoRow : Segue(p, r)
    BY <1>2, TotaisAssumption DEF UpdateLer, PedidoRow
<1>3. ASSUME NEW f \in Faturas, EmitirLer(p, f)
      PROVE  \E r \in PedidoRow : Segue(p, r)
    <2> DEFINE b == ComunicacaoPermitida(config) /\ config.automatica
    <2>1. b \in BOOLEAN
      BY DEF ComunicacaoPermitida, TypeOK, ConfigRow
    <2>2. fatura[f].serie \in Series /\ fatura[f].total \in Nat
      BY DEF TypeOK, FaturaRow
    <2> HIDE DEF b
    <2>3. [Livre EXCEPT !.pc = "emitir.serie", !.emite = TRUE, !.f = f, !.s = fatura[f].serie,
                        !.total = fatura[f].total, !.marcar = b] \in PedidoRow
      BY <2>1, <2>2 DEF PedidoRow
    <2> QED BY <1>3, <2>3 DEF EmitirLer, b
<1>4. ASSUME NEW f \in Faturas, ComunicarAt(p, f)
      PROVE  \E r \in PedidoRow : Segue(p, r)
    BY <1>4 DEF ComunicarAt, ComDocumento, PedidoRow, TypeOK, FaturaRow
<1>5. ASSUME NEW f \in Faturas, ReenviarAt(p, f)
      PROVE  \E r \in PedidoRow : Segue(p, r)
    BY <1>5 DEF ReenviarAt, ComDocumento, PedidoRow, TypeOK, FaturaRow
<1>6. ASSUME NEW f \in Faturas, AnularLer(p, f)
      PROVE  \E r \in PedidoRow : Segue(p, r)
    <2>1. fatura[f].serie \in Series /\ fatura[f].numero \in Nat
      BY DEF TypeOK, FaturaRow
    <2>2. \A pc \in {"anular.at", "anular.gravar"} :
             [Livre EXCEPT !.pc = pc, !.f = f, !.s = fatura[f].serie, !.numero = fatura[f].numero]
                \in PedidoRow
      BY <2>1 DEF PedidoRow
    <2> QED BY <1>6, <2>2 DEF AnularLer
<1>7. ASSUME NEW f \in Faturas, NotaCreditoLer(p, f)
      PROVE  \E r \in PedidoRow : Segue(p, r)
    <2>1. fatura[f].total \in Nat
      BY DEF TypeOK, FaturaRow
    <2>2. NotaDe[fatura[f].serie] \in Series
      BY <1>7, SeriesAssumption DEF NotaCreditoLer
    <2>3. [Livre EXCEPT !.pc = "nc.procurar", !.f = f, !.s = NotaDe[fatura[f].serie],
                        !.total = fatura[f].total] \in PedidoRow
      BY <2>1, <2>2 DEF PedidoRow
    <2> QED BY <1>7, <2>3 DEF NotaCreditoLer
<1>8. ASSUME NEW s \in Series, ComunicarSerieAt(p, s)
      PROVE  \E r \in PedidoRow : Segue(p, r)
    <2> DEFINE n == IF serie[s].numInicial = 0 THEN serie[s].proximoNumero ELSE serie[s].numInicial
    <2>1. n \in Nat
      BY DEF TypeOK, SerieRow
    <2> HIDE DEF n
    <2>2. [Livre EXCEPT !.pc = "serie.at", !.s = s, !.numero = n] \in PedidoRow
      BY <2>1 DEF PedidoRow
    <2> QED BY <1>8, <2>2 DEF ComunicarSerieAt, n
<1>9. ASSUME NEW s \in Series, NEW presente \in BOOLEAN, NEW c \in Codigos \cup {Nenhum},
             UpdateSerieLer(p, s, presente, c)
      PROVE  \E r \in PedidoRow : Segue(p, r)
    BY <1>9 DEF UpdateSerieLer, PedidoRow
<1>10. ASSUME NEW c \in ConfigRow, UpdateConfigLer(p, c)
      PROVE  \E r \in PedidoRow : Segue(p, r)
    BY <1>10 DEF UpdateConfigLer, PedidoRow
<1> QED
    BY <1>1, <1>2, <1>3, <1>4, <1>5, <1>6, <1>7, <1>8, <1>9, <1>10
    DEF Chamada, FaturarPropostaLer, UpdateLer, EmitirLer, ComunicarAt, ReenviarAt, AnularLer,
        NotaCreditoLer, ComunicarSerieAt, UpdateSerieLer, UpdateConfigLer

(* The records a step writes are well typed when the values it puts in     *)
(* them are.                                                               *)
LEMMA PedidoCampos ==
    ASSUME NEW r \in PedidoRow, NEW pc \in Passos
    PROVE  /\ [r EXCEPT !.pc = pc] \in PedidoRow
           /\ \A n \in Nat : [r EXCEPT !.pc = pc, !.numero = n] \in PedidoRow
           /\ \A n \in Nat : [r EXCEPT !.pc = pc, !.anterior = n] \in PedidoRow
           /\ \A ok \in BOOLEAN : [r EXCEPT !.pc = pc, !.ok = ok] \in PedidoRow
           /\ \A ok \in BOOLEAN, c \in Codigos \cup {Nenhum} :
                 [r EXCEPT !.pc = pc, !.ok = ok, !.codigo = c] \in PedidoRow
           /\ \A n \in Nat, c \in Codigos \cup {Nenhum} :
                 [r EXCEPT !.pc = pc, !.numero = n, !.codigo = c] \in PedidoRow
<1>1. [r EXCEPT !.pc = pc] \in PedidoRow
    BY DEF PedidoRow
<1>2. ASSUME NEW n \in Nat
      PROVE  [r EXCEPT !.pc = pc, !.numero = n] \in PedidoRow
    BY DEF PedidoRow
<1>3. ASSUME NEW n \in Nat
      PROVE  [r EXCEPT !.pc = pc, !.anterior = n] \in PedidoRow
    BY DEF PedidoRow
<1>4. ASSUME NEW ok \in BOOLEAN
      PROVE  [r EXCEPT !.pc = pc, !.ok = ok] \in PedidoRow
    BY DEF PedidoRow
<1>5. ASSUME NEW ok \in BOOLEAN, NEW c \in Codigos \cup {Nenhum}
      PROVE  [r EXCEPT !.pc = pc, !.ok = ok, !.codigo = c] \in PedidoRow
    BY DEF PedidoRow
<1>6. ASSUME NEW n \in Nat, NEW c \in Codigos \cup {Nenhum}
      PROVE  [r EXCEPT !.pc = pc, !.numero = n, !.codigo = c] \in PedidoRow
    BY DEF PedidoRow
<1> QED BY <1>1, <1>2, <1>3, <1>4, <1>5, <1>6

(* The rows a step writes are well typed: with a new estado,               *)
LEMMA FaturaEstado ==
    ASSUME NEW row \in FaturaRow, NEW e \in Estados
    PROVE  [row EXCEPT !.estado = e] \in FaturaRow
BY DEF FaturaRow

(* ... with a new total,                                                   *)
LEMMA FaturaTotal ==
    ASSUME NEW row \in FaturaRow, NEW t \in Nat
    PROVE  [row EXCEPT !.total = t] \in FaturaRow
BY DEF FaturaRow

(* ... inserted as a draft,                                                *)
LEMMA FaturaInserida ==
    ASSUME NEW row \in FaturaRow, NEW s \in Series, NEW t \in Nat,
           NEW ref \in Faturas \cup {Nenhum}, NEW q \in Propostas \cup {Nenhum}
    PROVE  [row EXCEPT !.estado = "RASCUNHO", !.serie = s, !.total = t, !.ref = ref, !.proposta = q]
             \in FaturaRow
<1> DEFINE x == [row EXCEPT !.estado = "RASCUNHO", !.serie = s, !.total = t]
<1>1. x \in FaturaRow
    BY DEF FaturaRow, Estados
<1> HIDE DEF x
<1>2. [x EXCEPT !.ref = ref, !.proposta = q] \in FaturaRow
    BY <1>1 DEF FaturaRow
<1> QED BY <1>2 DEF x

(* ... or emitted.                                                         *)
LEMMA FaturaNumerada ==
    ASSUME NEW row \in FaturaRow, NEW n \in Nat, NEW c \in Codigos \cup {Nenhum},
           NEW t \in Nat, NEW a \in Nat
    PROVE  [row EXCEPT !.estado = "EMITIDA", !.numero = n, !.codigo = c, !.assinado = t, !.anterior = a]
             \in FaturaRow
<1> DEFINE x == [row EXCEPT !.estado = "EMITIDA", !.numero = n, !.codigo = c]
<1>1. x \in FaturaRow
    BY DEF FaturaRow, Estados
<1> HIDE DEF x
<1>2. [x EXCEPT !.assinado = t, !.anterior = a] \in FaturaRow
    BY <1>1 DEF FaturaRow
<1> QED BY <1>2 DEF x

(* So are the series it writes.                                            *)
LEMMA SerieCampos ==
    ASSUME NEW row \in SerieRow
    PROVE  /\ \A n \in Nat : [row EXCEPT !.proximoNumero = n + 1] \in SerieRow
           /\ \A c \in Codigos \cup {Nenhum}, e \in {"PENDENTE", "REGISTADA"} :
                 [row EXCEPT !.codigo = c, !.estadoAt = e] \in SerieRow
           /\ \A c \in Codigos \cup {Nenhum}, n \in Nat :
                 [row EXCEPT !.codigo = c, !.estadoAt = "REGISTADA", !.numInicial = n] \in SerieRow
<1>1. ASSUME NEW n \in Nat
      PROVE  [row EXCEPT !.proximoNumero = n + 1] \in SerieRow
    BY DEF SerieRow
<1>2. ASSUME NEW c \in Codigos \cup {Nenhum}, NEW e \in {"PENDENTE", "REGISTADA"}
      PROVE  [row EXCEPT !.codigo = c, !.estadoAt = e] \in SerieRow
    BY DEF SerieRow
<1>3. ASSUME NEW c \in Codigos \cup {Nenhum}, NEW n \in Nat
      PROVE  [row EXCEPT !.codigo = c, !.estadoAt = "REGISTADA", !.numInicial = n] \in SerieRow
    BY DEF SerieRow
<1> QED BY <1>1, <1>2, <1>3

(* Rewriting one row keeps the typing of the table.                        *)
LEMMA FaturaTipo ==
    ASSUME fatura \in [Faturas -> FaturaRow], NEW f, NEW row,
           f \in Faturas => row \in FaturaRow,
           fatura' = [fatura EXCEPT ![f] = row]
    PROVE  fatura' \in [Faturas -> FaturaRow]
OBVIOUS

(* The same of a series.                                                   *)
LEMMA SerieTipo ==
    ASSUME serie \in [Series -> SerieRow], NEW s \in Series, NEW row \in SerieRow,
           serie' = [serie EXCEPT ![s] = row]
    PROVE  serie' \in [Series -> SerieRow]
OBVIOUS

(* Every later step of a handler, and every step of AT, keeps the types.   *)
LEMMA PassoTipo ==
    ASSUME TypeOK, NEW p \in Pedidos, Passo(p)
    PROVE  TypeOK'
<1> DEFINE r == pedido[p]
           PedidoOK == pedido' \in [Pedidos -> PedidoRow]
           FaturaOK == fatura' \in [Faturas -> FaturaRow]
           SerieOK == serie' \in [Series -> SerieRow]
<1>a. /\ r \in PedidoRow
      /\ r.f \in Faturas \cup {Nenhum} /\ r.s \in Series /\ r.q \in Propostas \cup {Nenhum}
      /\ r.numero \in Nat /\ r.total \in Nat /\ r.codigo \in Codigos \cup {Nenhum}
      /\ r.anterior \in Nat /\ r.ok \in BOOLEAN /\ r.config \in ConfigRow
    BY DEF TypeOK, PedidoRow
<1>b. /\ \A f \in Faturas : fatura[f] \in FaturaRow
      /\ \A s \in Series : serie[s] \in SerieRow
    BY DEF TypeOK
<1>c. \A x \in PedidoRow : Segue(p, x) => PedidoOK
    BY SegueTipo DEF TypeOK
<1>d. Termina(p) => PedidoOK
    BY TerminaTipo DEF TypeOK
<1>e. \A f, row : fatura' = [fatura EXCEPT ![f] = row] /\ (f \in Faturas => row \in FaturaRow) => FaturaOK
    BY FaturaTipo DEF TypeOK
<1>f. \A s \in Series : \A row \in SerieRow : serie' = [serie EXCEPT ![s] = row] => SerieOK
    BY SerieTipo DEF TypeOK
<1>g. {"emitir.ler", "serie.at", "emitir.anterior", "emitir.gravarSerie", "emitir.gravarFatura",
       "emitir.auto", "com.gravar", "com.log", "anular.resposta", "anular.gravar", "nc.criar",
       "serie.gravar"} \subseteq Passos
    BY DEF Passos, PassosEmissao, PassosSerie, PassosDocumento, PassosNota
<1>h. {"COMUNICADA_AT", "ANULADA"} \subseteq Estados
    BY DEF Estados
<1> HIDE DEF r, PedidoOK, FaturaOK, SerieOK
<1>1. CASE FaturarPropostaCriar(p)
  <2>1. ASSUME NEW f \in Faturas, Inserir(f, r.s, r.total, Nenhum, r.q)
        PROVE  FaturaOK
    <3>1. /\ fatura[f] \in FaturaRow /\ r.s \in Series /\ r.total \in Nat
          /\ Nenhum \in Faturas \cup {Nenhum} /\ r.q \in Propostas \cup {Nenhum}
      BY <1>a, <1>b
    <3>2. [fatura[f] EXCEPT !.estado = "RASCUNHO", !.serie = r.s, !.total = r.total,
                            !.ref = Nenhum, !.proposta = r.q] \in FaturaRow
      BY ONLY <3>1, FaturaInserida
    <3> QED BY <1>e, <2>1, <3>2 DEF Inserir
  <2>2. FaturaOK
    BY <1>1, <2>1 DEF FaturarPropostaCriar, FaturaOK, TypeOK, r
  <2> QED BY <1>1, <1>d, <2>2 DEF FaturarPropostaCriar, TypeOK, FaturaOK, PedidoOK
<1>2. CASE UpdateGravar(p)
  <2>1. r.f \in Faturas => [fatura[r.f] EXCEPT !.total = r.total] \in FaturaRow
    BY <1>a, <1>b, FaturaTotal
  <2>2. FaturaOK
    BY <1>e, <1>2, <2>1 DEF UpdateGravar, r
  <2> QED BY <1>2, <1>d, <2>2 DEF UpdateGravar, TypeOK, FaturaOK, PedidoOK
<1>3. CASE EnsureSerieComunicadaAt(p)
  <2>1. \A s \in Series : serie[s].numInicial \in Nat /\ serie[s].proximoNumero \in Nat
    BY <1>b DEF SerieRow
  <2>2. PedidoOK
    BY <1>a, <1>c, <1>g, <1>3, <2>1, PedidoCampos DEF EnsureSerieComunicadaAt, r
  <2> QED BY <1>3, <2>2 DEF EnsureSerieComunicadaAt, TypeOK, PedidoOK
<1>4. CASE LerSerie(p)
  <2>1. \A s \in Series : serie[s].codigo \in Codigos \cup {Nenhum} /\ serie[s].proximoNumero \in Nat
    BY <1>b DEF SerieRow
  <2>2. PedidoOK
    BY <1>a, <1>c, <1>d, <1>g, <1>4, <2>1, PedidoCampos DEF LerSerie, r
  <2> QED BY <1>4, <2>2 DEF LerSerie, TypeOK, PedidoOK
<1>5. CASE LerAnterior(p)
  <2>1. NumerosEmitidos(r.s, r.f) \subseteq Nat
    BY <1>b DEF NumerosEmitidos, FaturaRow
  <2>2. PICK n \in Nat : Segue(p, [r EXCEPT !.pc = "emitir.gravarSerie", !.anterior = n])
    BY <1>5, <2>1 DEF LerAnterior, r
  <2>3. PedidoOK
    BY <1>a, <1>c, <1>g, <2>2, PedidoCampos
  <2> QED BY <1>5, <2>3 DEF LerAnterior, TypeOK, PedidoOK
<1>6. CASE GravarProximoNumero(p)
  <2>1. [serie[r.s] EXCEPT !.proximoNumero = r.numero + 1] \in SerieRow
    BY <1>a, <1>b, SerieCampos
  <2>2. SerieOK
    BY <1>a, <1>f, <1>6, <2>1 DEF GravarProximoNumero, r
  <2>3. PedidoOK
    BY <1>a, <1>c, <1>g, <1>6, PedidoCampos DEF GravarProximoNumero, r
  <2> QED BY <1>6, <2>2, <2>3 DEF GravarProximoNumero, TypeOK, SerieOK, PedidoOK
<1>7. CASE GravarEmissao(p)
  <2>1. r.f \in Faturas => [fatura[r.f] EXCEPT !.estado = "EMITIDA", !.numero = r.numero,
            !.codigo = r.codigo, !.assinado = r.total, !.anterior = r.anterior] \in FaturaRow
    BY <1>a, <1>b, FaturaNumerada
  <2>2. FaturaOK
    BY <1>e, <1>7, <2>1 DEF GravarEmissao, r
  <2>3. PedidoOK
    BY <1>a, <1>c, <1>d, <1>g, <1>7, PedidoCampos DEF GravarEmissao, r
  <2> QED BY <1>7, <2>2, <2>3 DEF GravarEmissao, TypeOK, FaturaOK, PedidoOK
<1>8. CASE ComunicarAutomatica(p)
  <2>1. r.f \in Faturas => ComDocumento(r.f, TRUE) \in PedidoRow
    BY <1>b, LivreTipo DEF ComDocumento, FaturaRow, PedidoRow, Passos, PassosDocumento
  <2>2. PedidoOK
    BY <1>a, <1>c, <1>d, <1>8, <2>1 DEF ComunicarAutomatica, r
  <2> QED BY <1>8, <2>2 DEF ComunicarAutomatica, TypeOK, PedidoOK
<1>9. CASE AtRegistarDocumento(p)
  <2>1. Documento(r) \in Series \X Nat
    BY <1>a DEF Documento
  <2>2. PedidoOK
    BY <1>a, <1>c, <1>g, <1>9, PedidoCampos DEF AtRegistarDocumento, r
  <2> QED BY <1>9, <2>1, <2>2 DEF AtRegistarDocumento, TypeOK, PedidoOK, r
<1>10. CASE MarcarComunicada(p)
  <2>1. FaturaOK
    BY <1>b, <1>e, <1>h, <1>10, FaturaEstado DEF MarcarComunicada
  <2>2. PedidoOK
    BY <1>a, <1>c, <1>g, <1>10, PedidoCampos DEF MarcarComunicada, r
  <2> QED BY <1>10, <2>1, <2>2 DEF MarcarComunicada, TypeOK, FaturaOK, PedidoOK
<1>11. CASE RegistarComunicacao(p)
    BY <1>a, <1>d, <1>11 DEF RegistarComunicacao, TypeOK, PedidoOK, r
<1>12. CASE AtAnularDocumento(p)
  <2>1. Documento(r) \in Series \X Nat
    BY <1>a DEF Documento
  <2>2. PedidoOK
    BY <1>a, <1>c, <1>g, <1>12, PedidoCampos DEF AtAnularDocumento, r
  <2> QED BY <1>12, <2>1, <2>2 DEF AtAnularDocumento, TypeOK, PedidoOK, r
<1>13. CASE AnularResposta(p)
  <2>1. comunicacoes' \in [Faturas -> SUBSET BOOLEAN]
    BY <1>a, <1>13 DEF AnularResposta, TypeOK, r
  <2>2. PedidoOK
    BY <1>a, <1>c, <1>d, <1>g, <1>13, PedidoCampos DEF AnularResposta, r
  <2> QED BY <1>13, <2>1, <2>2 DEF AnularResposta, TypeOK, PedidoOK
<1>14. CASE AnularGravar(p)
  <2>1. FaturaOK
    BY <1>b, <1>e, <1>h, <1>14, FaturaEstado DEF AnularGravar
  <2> QED BY <1>14, <1>d, <2>1 DEF AnularGravar, TypeOK, FaturaOK, PedidoOK
<1>15. CASE NotaCreditoProcurar(p)
  <2>1. PedidoOK
    BY <1>a, <1>c, <1>d, <1>g, <1>15, PedidoCampos DEF NotaCreditoProcurar, r
  <2> QED BY <1>15, <2>1 DEF NotaCreditoProcurar, TypeOK, PedidoOK
<1>16. CASE NotaCreditoCriar(p)
  <2>1. PICK g \in Faturas : Inserir(g, r.s, r.total, r.f, Nenhum)
    BY <1>16 DEF NotaCreditoCriar, r
  <2>2. /\ fatura[g] \in FaturaRow /\ r.s \in Series /\ r.total \in Nat
        /\ r.f \in Faturas \cup {Nenhum} /\ Nenhum \in Propostas \cup {Nenhum}
    BY <1>a, <1>b
  <2>3. [fatura[g] EXCEPT !.estado = "RASCUNHO", !.serie = r.s, !.total = r.total,
                          !.ref = r.f, !.proposta = Nenhum] \in FaturaRow
    BY ONLY <2>2, FaturaInserida
  <2>4. FaturaOK
    BY <1>e, <2>1, <2>3 DEF Inserir
  <2> QED BY <1>16, <1>d, <2>4 DEF NotaCreditoCriar, TypeOK, FaturaOK, PedidoOK
<1>17. CASE AtRegistarSerie(p)
  <2>1. CodigoDaAt[r.s] \in Codigos
    BY <1>a, CodigosAssumption
  <2>2. PedidoOK
    BY <1>a, <1>c, <1>g, <1>17, <2>1, PedidoCampos DEF AtRegistarSerie, r
  <2> QED BY <1>17, <2>2 DEF AtRegistarSerie, TypeOK, PedidoOK
<1>18. CASE GravarSerieAt(p)
  <2>1. SerieOK
    <3>1. [serie[r.s] EXCEPT !.codigo = r.codigo, !.estadoAt = "REGISTADA", !.numInicial = r.numero]
            \in SerieRow
      BY <1>a, <1>b, SerieCampos
    <3> QED BY <1>a, <1>f, <1>18, <3>1 DEF GravarSerieAt, SerieOK, TypeOK, r
  <2>2. PedidoOK
    BY <1>a, <1>c, <1>d, <1>g, <1>18, PedidoCampos DEF GravarSerieAt, r
  <2> QED BY <1>18, <2>1, <2>2 DEF GravarSerieAt, TypeOK, SerieOK, PedidoOK
<1>19. CASE UpdateSerieGravar(p)
  <2>1. serie[r.s].estadoAt \in {"PENDENTE", "REGISTADA"}
    BY <1>a, <1>b DEF SerieRow
  <2> DEFINE e == IF r.codigo # Nenhum THEN "REGISTADA" ELSE serie[r.s].estadoAt
  <2>2. e \in {"PENDENTE", "REGISTADA"}
    BY <2>1
  <2> HIDE DEF e
  <2>3. [serie[r.s] EXCEPT !.codigo = r.codigo, !.estadoAt = e] \in SerieRow
    BY <1>a, <1>b, <2>2, SerieCampos
  <2>4. SerieOK
    BY <1>a, <1>f, <1>19, <2>3 DEF UpdateSerieGravar, r, e
  <2> QED BY <1>19, <1>d, <2>4 DEF UpdateSerieGravar, TypeOK, SerieOK, PedidoOK
<1>20. CASE UpdateConfigGravar(p)
    BY <1>a, <1>d, <1>20 DEF UpdateConfigGravar, TypeOK, PedidoOK, r
<1> QED
    BY <1>1, <1>2, <1>3, <1>4, <1>5, <1>6, <1>7, <1>8, <1>9, <1>10, <1>11, <1>12, <1>13, <1>14,
       <1>15, <1>16, <1>17, <1>18, <1>19, <1>20 DEF Passo

(* The initial state is well typed.                                        *)
LEMMA TipoInicial == Init => TypeOK
BY LivreTipo, SeriesAssumption
DEF Init, TypeOK, FaturaRow, Estados, SerieRow, ConfigRow, ConfigInicial

(* Every step keeps the types.                                             *)
LEMMA TipoSeguinte ==
    ASSUME TypeOK, [Next]_vars
    PROVE  TypeOK'
<1>1. ASSUME NEW f \in Faturas, NEW s \in Series, NEW t \in Totais, Create(f, s, t)
      PROVE  TypeOK'
  <2>1. [fatura[f] EXCEPT !.estado = "RASCUNHO", !.serie = s, !.total = t,
                          !.ref = Nenhum, !.proposta = Nenhum] \in FaturaRow
    BY FaturaInserida, TotaisAssumption DEF TypeOK
  <2>2. fatura' \in [Faturas -> FaturaRow]
    BY <1>1, <2>1, FaturaTipo DEF Create, Inserir, TypeOK
  <2> QED BY <1>1, <2>2 DEF Create, TypeOK
<1>2. ASSUME NEW p \in Pedidos, Interromper(p)
      PROVE  TypeOK'
    BY <1>2, TerminaTipo DEF Interromper, TypeOK
<1>3. CASE UNCHANGED vars
    BY <1>3 DEF TypeOK, vars
<1> QED BY <1>1, <1>2, <1>3, ChamadaTipo, PassoTipo DEF Next

(* Every row and every local variable keeps its type, whatever the         *)
(* requests do.                                                            *)
THEOREM TypeCorrect == Spec => []TypeOK
<1>1. Init => TypeOK
    BY TipoInicial
<1>2. TypeOK /\ [Next]_vars => TypeOK'
    BY TipoSeguinte
<1> QED BY <1>1, <1>2, PTL DEF Spec

-----------------------------------------------------------------------------
(* Numbering, when one request emits *)

(* Idle, emission, series and document steps do not overlap.               *)
LEMMA PassosDistintos ==
    /\ "livre" \notin PassosEmissao \cup PassosSerie \cup PassosDocumento
    /\ PassosEmissao \cap PassosSerie = {}
    /\ (PassosEmissao \cup PassosSerie) \cap PassosDocumento = {}
BY DEF PassosEmissao, PassosSerie, PassosDocumento

(* A step that numbers nothing, advances no series and leaves every        *)
(* request as it was or in order, keeps the invariant.                     *)
LEMMA Quadro ==
    ASSUME TypeOK, TypeOK', EmissaoInv,
           \A g \in Faturas :
              /\ fatura'[g].numero = fatura[g].numero
              /\ fatura[g].estado # "INEXISTENTE" => fatura'[g].serie = fatura[g].serie
              /\ \/ fatura'[g].estado = fatura[g].estado
                 \/ fatura[g].estado = "INEXISTENTE" /\ fatura'[g].estado = "RASCUNHO"
                 \/ /\ fatura[g].numero # 0
                    /\ \/ fatura'[g].estado = "ANULADA"
                       \/ /\ fatura'[g].estado = "COMUNICADA_AT"
                          /\ <<fatura[g].serie, fatura[g].numero>> \in atRegistados,
           \A s \in Series : serie'[s].proximoNumero = serie[s].proximoNumero,
           atRegistados \subseteq atRegistados',
           \A p \in Pedidos : \/ pedido'[p] = pedido[p]
                              \/ EmissaoEmCurso(p)' /\ DocumentoEmCurso(p)'
    PROVE  EmissaoInv'
<1>1. /\ \A g \in Faturas : /\ fatura[g].numero \in Nat /\ fatura'[g].numero \in Nat
                             /\ fatura[g].serie \in Series /\ fatura'[g].serie \in Series
                             /\ fatura[g].estado \in Estados /\ fatura'[g].estado \in Estados
      /\ \A s \in Series : serie[s].proximoNumero \in Nat \ {0}
      /\ \A p \in Pedidos : pedido[p].s \in Series /\ pedido[p].numero \in Nat
    BY DEF TypeOK, FaturaRow, SerieRow, PedidoRow
<1>2. \A g \in Faturas : fatura'[g].numero = fatura[g].numero
    OBVIOUS
<1>3. \A g \in Faturas : fatura[g].numero # 0 => fatura'[g].serie = fatura[g].serie
    BY DEF EmissaoInv, NumeroSeEmitida
<1>4. \A g \in Faturas : fatura[g].estado = "RASCUNHO" =>
         fatura'[g].serie = fatura[g].serie /\ fatura'[g].estado = "RASCUNHO"
    BY DEF EmissaoInv, NumeroSeEmitida
<1>5. NumeroSeEmitida'
    BY DEF EmissaoInv, NumeroSeEmitida
<1>6. NumeroAbaixoDoProximo'
  <2> SUFFICES ASSUME NEW g \in Faturas
               PROVE  fatura'[g].numero < serie'[fatura'[g].serie].proximoNumero
    BY DEF NumeroAbaixoDoProximo
  <2>1. serie'[fatura'[g].serie].proximoNumero = serie[fatura'[g].serie].proximoNumero
    BY <1>1
  <2>2. CASE fatura[g].numero = 0
    BY <1>1, <1>2, <2>1, <2>2
  <2>3. CASE fatura[g].numero # 0
    BY <1>1, <1>2, <1>3, <2>1, <2>3 DEF EmissaoInv, NumeroAbaixoDoProximo
  <2> QED BY <2>2, <2>3
<1>7. NumeracaoUnica'
  <2>1. NumeracaoUnica
    BY DEF EmissaoInv
  <2> QED BY ONLY <1>2, <1>3, <2>1 DEF NumeracaoUnica
<1>8. ComunicadaExisteNaAt'
  <2> SUFFICES ASSUME NEW g \in Faturas, fatura'[g].estado = "COMUNICADA_AT"
               PROVE  <<fatura[g].serie, fatura[g].numero>> \in atRegistados /\ fatura[g].numero # 0
    BY <1>2, <1>3 DEF ComunicadaExisteNaAt
  <2> QED BY DEF EmissaoInv, NumeroSeEmitida, ComunicadaExisteNaAt
<1>9. ASSUME NEW p \in Pedidos, pedido'[p] = pedido[p]
      PROVE  EmissaoEmCurso(p)' /\ DocumentoEmCurso(p)'
  <2>1. EmissaoEmCurso(p) /\ DocumentoEmCurso(p)
    BY DEF EmissaoInv
  <2>2. \A g \in Faturas :
           fatura'[g].serie = pedido[p].s /\ fatura[g].numero # 0 => fatura[g].serie = pedido[p].s
    BY <1>3
  <2>3. pedido[p].s \in Series /\ pedido[p].numero \in Nat
    BY <1>1
  <2>4. serie'[pedido[p].s].proximoNumero = serie[pedido[p].s].proximoNumero
    BY <2>3
  <2>5. atRegistados \subseteq atRegistados'
    OBVIOUS
  <2>6. \A g \in Faturas : fatura[g].numero \in Nat
    BY <1>1
  <2>7. EmissaoEmCurso(p)'
    BY ONLY <1>2, <1>4, <1>9, <2>1, <2>2, <2>3, <2>4, <2>6 DEF EmissaoEmCurso, Emitindo
  <2>8. DocumentoEmCurso(p)'
    BY ONLY <1>2, <1>3, <1>9, <2>1, <2>5 DEF DocumentoEmCurso, Documento
  <2> QED BY <2>7, <2>8
<1> QED BY <1>5, <1>6, <1>7, <1>8, <1>9 DEF EmissaoInv

(* A step that writes no row but, at most, AT's register keeps it if it    *)
(* leaves its request in order.                                            *)
LEMMA SoPedido ==
    ASSUME TypeOK, TypeOK', EmissaoInv, NEW p \in Pedidos, NEW r, Segue(p, r),
           fatura' = fatura, serie' = serie, atRegistados \subseteq atRegistados',
           EmissaoEmCurso(p)', DocumentoEmCurso(p)'
    PROVE  EmissaoInv'
<1>1. \A x \in Pedidos : \/ pedido'[x] = pedido[x]
                         \/ EmissaoEmCurso(x)' /\ DocumentoEmCurso(x)'
    BY DEF Segue, TypeOK
<1> QED BY <1>1, Quadro

(* A request that neither emits nor deals with a document is in order.     *)
LEMMA ForaDaEmissao ==
    ASSUME NEW p \in Pedidos,
           pedido'[p].pc \notin PassosEmissao \cup PassosDocumento,
           pedido'[p].pc \in PassosSerie => ~pedido'[p].emite
    PROVE  EmissaoEmCurso(p)' /\ DocumentoEmCurso(p)'
BY DEF EmissaoEmCurso, DocumentoEmCurso, Emitindo, PassosEmissao, PassosDocumento

(* A request that starts to deal with a document of f is in order.         *)
LEMMA ComDocumentoEmOrdem ==
    ASSUME NEW p \in Pedidos, NEW f \in Faturas, fatura' = fatura, fatura[f].numero # 0,
           pedido'[p].pc \in {"com.at", "anular.at", "anular.gravar"},
           pedido'[p].f = f, pedido'[p].s = fatura[f].serie, pedido'[p].numero = fatura[f].numero
    PROVE  EmissaoEmCurso(p)' /\ DocumentoEmCurso(p)'
<1>1. pedido'[p].pc \notin PassosEmissao \cup PassosSerie
    BY DEF PassosEmissao, PassosSerie
<1>2. EmissaoEmCurso(p)'
    BY <1>1 DEF EmissaoEmCurso, Emitindo
<1>3. DocumentoEmCurso(p)'
    BY DEF DocumentoEmCurso
<1> QED BY <1>2, <1>3

(* The first step of a handler keeps it.                                   *)
LEMMA ChamadaEmissao ==
    ASSUME TypeOK, TypeOK', EmissaoInv, NEW p \in Pedidos, Chamada(p)
    PROVE  EmissaoInv'
<1> DEFINE EmOrdem == EmissaoEmCurso(p)' /\ DocumentoEmCurso(p)'
<1>a. \A r : Segue(p, r) => pedido'[p] = r
    BY DEF Segue, TypeOK
<1>b. /\ Livre \in PedidoRow
      /\ \A f \in Faturas : fatura[f].estado # "INEXISTENTE" /\ fatura[f].estado # "RASCUNHO"
                               => fatura[f].numero # 0
    BY LivreTipo DEF EmissaoInv, NumeroSeEmitida
<1> SUFFICES /\ \E r : Segue(p, r)
             /\ UNCHANGED <<fatura, serie, atRegistados>>
             /\ EmOrdem
    BY SoPedido
<1> HIDE DEF EmOrdem
<1>c. {"proposta.criar", "update.gravar", "nc.procurar", "updateSerie.gravar", "config.gravar", "serie.at"}
         \cap (PassosEmissao \cup PassosDocumento) = {}
    BY DEF PassosEmissao, PassosDocumento
<1>d. \A pc \in {"proposta.criar", "update.gravar", "nc.procurar", "updateSerie.gravar", "config.gravar"} :
         pedido'[p].pc = pc => EmOrdem
    BY <1>c, ForaDaEmissao DEF EmOrdem, PassosSerie
<1>e. \A f \in Faturas : \A marcar :
         Segue(p, ComDocumento(f, marcar)) /\ fatura' = fatura /\ EmVigor(f) => EmOrdem
  <2> SUFFICES ASSUME NEW f \in Faturas, NEW marcar,
                      Segue(p, ComDocumento(f, marcar)), fatura' = fatura, EmVigor(f)
               PROVE  EmOrdem
    OBVIOUS
  <2>1. /\ pedido'[p].pc = "com.at" /\ pedido'[p].f = f
        /\ pedido'[p].s = fatura[f].serie /\ pedido'[p].numero = fatura[f].numero
    BY <1>a, <1>b DEF ComDocumento, PedidoRow
  <2>2. fatura[f].numero # 0
    BY <1>b DEF EmVigor
  <2> QED BY <2>1, <2>2, ComDocumentoEmOrdem DEF EmOrdem
<1>1. ASSUME NEW q \in Propostas, NEW s \in SeriesFT, NEW t \in Totais, FaturarPropostaLer(p, q, s, t)
      PROVE  EmOrdem
    BY <1>1, <1>a, <1>b, <1>d DEF FaturarPropostaLer, PedidoRow
<1>2. ASSUME NEW f \in Faturas, NEW t \in Totais, UpdateLer(p, f, t)
      PROVE  EmOrdem
    BY <1>2, <1>a, <1>b, <1>d DEF UpdateLer, PedidoRow
<1>3. ASSUME NEW f \in Faturas, EmitirLer(p, f)
      PROVE  EmOrdem
  <2>1. /\ pedido'[p].pc = "emitir.serie" /\ pedido'[p].emite
        /\ pedido'[p].f = f /\ pedido'[p].s = fatura[f].serie
    <3>1. \A m : Segue(p, [Livre EXCEPT !.pc = "emitir.serie", !.emite = TRUE, !.f = f,
                             !.s = fatura[f].serie, !.total = fatura[f].total, !.marcar = m]) =>
                  /\ pedido'[p].pc = "emitir.serie" /\ pedido'[p].emite
                  /\ pedido'[p].f = f /\ pedido'[p].s = fatura[f].serie
      BY <1>a DEF Livre
    <3> QED BY <1>3, <3>1 DEF EmitirLer
  <2>2. fatura'[f].serie = fatura[f].serie /\ fatura'[f].estado = "RASCUNHO" /\ p \in Emissores
    BY <1>3 DEF EmitirLer, Aceita, Emissores
  <2>3. f \in Faturas
    OBVIOUS
  <2> QED BY ONLY <2>1, <2>2, <2>3 DEF EmOrdem, EmissaoEmCurso, DocumentoEmCurso, Emitindo, PassosDocumento
<1>4. ASSUME NEW f \in Faturas, ComunicarAt(p, f)
      PROVE  EmOrdem
    BY <1>4, <1>e DEF ComunicarAt
<1>5. ASSUME NEW f \in Faturas, ReenviarAt(p, f)
      PROVE  EmOrdem
    BY <1>5, <1>e DEF ReenviarAt
<1>6. ASSUME NEW f \in Faturas, AnularLer(p, f)
      PROVE  EmOrdem
  <2>1. /\ pedido'[p].pc \in {"anular.at", "anular.gravar"} /\ pedido'[p].f = f
        /\ pedido'[p].s = fatura[f].serie /\ pedido'[p].numero = fatura[f].numero
    BY <1>6, <1>a, <1>b DEF AnularLer, PedidoRow
  <2>2. fatura[f].numero # 0 /\ fatura' = fatura
    BY <1>6, <1>b DEF AnularLer, EmVigor
  <2> QED BY <2>1, <2>2, ComDocumentoEmOrdem DEF EmOrdem
<1>7. ASSUME NEW f \in Faturas, NotaCreditoLer(p, f)
      PROVE  EmOrdem
    BY <1>7, <1>a, <1>b, <1>d DEF NotaCreditoLer, PedidoRow
<1>8. ASSUME NEW s \in Series, ComunicarSerieAt(p, s)
      PROVE  EmOrdem
  <2>1. pedido'[p].pc = "serie.at" /\ ~pedido'[p].emite
    <3>1. \A n : Segue(p, [Livre EXCEPT !.pc = "serie.at", !.s = s, !.numero = n]) =>
                  pedido'[p].pc = "serie.at" /\ ~pedido'[p].emite
      BY <1>a DEF Livre
    <3> QED BY <1>8, <3>1 DEF ComunicarSerieAt
  <2> QED BY <2>1, <1>c, ForaDaEmissao DEF EmOrdem
<1>9. ASSUME NEW s \in Series, NEW presente \in BOOLEAN, NEW c \in Codigos \cup {Nenhum},
             UpdateSerieLer(p, s, presente, c)
      PROVE  EmOrdem
    BY <1>9, <1>a, <1>b, <1>d DEF UpdateSerieLer, PedidoRow
<1>10. ASSUME NEW c \in ConfigRow, UpdateConfigLer(p, c)
      PROVE  EmOrdem
    BY <1>10, <1>a, <1>b, <1>d DEF UpdateConfigLer, PedidoRow
<1> QED
    BY <1>1, <1>2, <1>3, <1>4, <1>5, <1>6, <1>7, <1>8, <1>9, <1>10
    DEF Chamada, FaturarPropostaLer, UpdateLer, EmitirLer, ComunicarAt, ReenviarAt, AnularLer,
        NotaCreditoLer, ComunicarSerieAt, UpdateSerieLer, UpdateConfigLer

(* An emission that goes on with the same invoice and series is in order.  *)
LEMMA Avanca ==
    ASSUME EmissaoInv, NEW p \in Pedidos, Emitindo(p), fatura' = fatura,
           pedido'[p].pc \in (PassosEmissao \ {"emitir.gravarFatura"}) \cup PassosSerie,
           pedido'[p].f = pedido[p].f, pedido'[p].s = pedido[p].s, pedido'[p].emite = pedido[p].emite,
           pedido'[p].pc \in {"emitir.anterior", "emitir.gravarSerie"} =>
              /\ pedido'[p].numero = serie'[pedido[p].s].proximoNumero
              /\ pedido'[p].numero <= MaxNumero
    PROVE  EmissaoEmCurso(p)' /\ DocumentoEmCurso(p)'
<1>1. EmissaoEmCurso(p)
    BY DEF EmissaoInv
<1>2. pedido'[p].pc # "emitir.gravarFatura"
    BY DEF PassosSerie
<1>3. EmissaoEmCurso(p)'
    BY <1>1, <1>2 DEF EmissaoEmCurso
<1>4. DocumentoEmCurso(p)'
    BY PassosDistintos DEF DocumentoEmCurso, PassosDocumento
<1> QED BY <1>3, <1>4

(* So is a request that goes on with the same document.                    *)
LEMMA DocumentoAvanca ==
    ASSUME EmissaoInv, NEW p \in Pedidos,
           pedido[p].pc \in PassosDocumento \ {"emitir.auto"},
           pedido'[p].pc \in PassosDocumento \ {"emitir.auto"},
           pedido'[p].f = pedido[p].f, pedido'[p].s = pedido[p].s, pedido'[p].numero = pedido[p].numero,
           fatura'[pedido[p].f].numero = fatura[pedido[p].f].numero,
           fatura'[pedido[p].f].serie = fatura[pedido[p].f].serie,
           pedido'[p].pc = "com.gravar" /\ pedido'[p].ok => Documento(pedido[p]) \in atRegistados'
    PROVE  EmissaoEmCurso(p)' /\ DocumentoEmCurso(p)'
<1>1. DocumentoEmCurso(p)
    BY DEF EmissaoInv
<1>2. pedido'[p].pc \notin PassosEmissao \cup PassosSerie
    BY PassosDistintos
<1>3. EmissaoEmCurso(p)'
    BY <1>2 DEF EmissaoEmCurso, Emitindo, PassosEmissao
<1>4. DocumentoEmCurso(p)'
    BY <1>1 DEF DocumentoEmCurso, Documento
<1> QED BY <1>3, <1>4

(* Inserting a draft keeps the invariant.                                  *)
LEMMA InserirEmissao ==
    ASSUME TypeOK, TypeOK', EmissaoInv, UNCHANGED <<serie, atRegistados>>,
           NEW f \in Faturas, NEW s \in Series, NEW t, NEW ref, NEW q,
           fatura[f].estado = "INEXISTENTE", Inserir(f, s, t, ref, q),
           \A p \in Pedidos : \/ pedido'[p] = pedido[p]
                              \/ EmissaoEmCurso(p)' /\ DocumentoEmCurso(p)'
    PROVE  EmissaoInv'
<1>1. fatura[f] \in FaturaRow
    BY DEF TypeOK
<1>2. fatura'[f].numero = fatura[f].numero /\ fatura'[f].estado = "RASCUNHO"
    BY <1>1 DEF Inserir, TypeOK, FaturaRow
<1>3. \A g \in Faturas \ {f} : fatura'[g] = fatura[g]
    BY DEF Inserir, TypeOK
<1>4. \A g \in Faturas :
        /\ fatura'[g].numero = fatura[g].numero
        /\ fatura[g].estado # "INEXISTENTE" => fatura'[g].serie = fatura[g].serie
        /\ \/ fatura'[g].estado = fatura[g].estado
           \/ fatura[g].estado = "INEXISTENTE" /\ fatura'[g].estado = "RASCUNHO"
    BY <1>2, <1>3
<1> QED BY <1>4, Quadro

(* Changing the state of the document a request deals with keeps it; it    *)
(* becomes COMUNICADA_AT only if AT registered it.                         *)
LEMMA EstadoEmissao ==
    ASSUME TypeOK, TypeOK', EmissaoInv, UNCHANGED <<serie, atRegistados>>, NEW p \in Pedidos,
           pedido[p].pc \in PassosDocumento \ {"emitir.auto"},
           NEW e, fatura' = [fatura EXCEPT ![pedido[p].f].estado = e],
           e = "ANULADA" \/ (e = "COMUNICADA_AT" /\ Documento(pedido[p]) \in atRegistados),
           NEW r, Segue(p, r),
           EmissaoEmCurso(p)' /\ DocumentoEmCurso(p)'
    PROVE  EmissaoInv'
<1> DEFINE f == pedido[p].f
<1>1. /\ f \in Faturas /\ fatura[f].numero # 0
      /\ Documento(pedido[p]) = <<fatura[f].serie, fatura[f].numero>>
    BY DEF EmissaoInv, DocumentoEmCurso, Documento
<1>2. fatura[f] \in FaturaRow
    BY <1>1 DEF TypeOK
<1>3. fatura'[f].numero = fatura[f].numero /\ fatura'[f].serie = fatura[f].serie /\ fatura'[f].estado = e
    BY <1>1, <1>2 DEF TypeOK, FaturaRow
<1>4. \A g \in Faturas \ {f} : fatura'[g] = fatura[g]
    BY DEF TypeOK
<1>5. \A x \in Pedidos : \/ pedido'[x] = pedido[x]
                         \/ EmissaoEmCurso(x)' /\ DocumentoEmCurso(x)'
    BY DEF Segue, TypeOK
<1> HIDE DEF f
<1>6. \A g \in Faturas :
        /\ fatura'[g].numero = fatura[g].numero
        /\ fatura[g].estado # "INEXISTENTE" => fatura'[g].serie = fatura[g].serie
        /\ \/ fatura'[g].estado = fatura[g].estado
           \/ /\ fatura[g].numero # 0
              /\ \/ fatura'[g].estado = "ANULADA"
                 \/ /\ fatura'[g].estado = "COMUNICADA_AT"
                    /\ <<fatura[g].serie, fatura[g].numero>> \in atRegistados
    BY <1>1, <1>3, <1>4
<1> QED BY <1>5, <1>6, Quadro

(* Every later step of a handler, and every step of AT, keeps it, because  *)
(* no other request is emitting while one advances the series.             *)
LEMMA PassoEmissao ==
    ASSUME EmissorUnico, TypeOK, TypeOK', EmissaoInv, NEW p \in Pedidos, Passo(p)
    PROVE  EmissaoInv'
<1> DEFINE r == pedido[p]
           EmOrdem == EmissaoEmCurso(p)' /\ DocumentoEmCurso(p)'
           Mesma == pedido'[p].f = r.f /\ pedido'[p].s = r.s /\ pedido'[p].emite = r.emite
<1>a. \A x : Segue(p, x) => pedido'[p] = x /\ \A y \in Pedidos \ {p} : pedido'[y] = pedido[y]
    BY DEF Segue, TypeOK
<1>b. /\ r \in PedidoRow
      /\ r.f \in Faturas \cup {Nenhum} /\ r.s \in Series /\ r.numero \in Nat
    BY DEF TypeOK, PedidoRow
<1>c. EmissaoEmCurso(p) /\ DocumentoEmCurso(p)
    BY DEF EmissaoInv
<1>d. Termina(p) => pedido'[p].pc = "livre" /\ EmOrdem
  <2>1. Termina(p) => pedido'[p].pc = "livre"
    BY <1>a, LivreTipo DEF Termina
  <2> QED BY <2>1, PassosDistintos, ForaDaEmissao
<1> HIDE DEF r
<1>e. \A pc : Segue(p, [r EXCEPT !.pc = pc]) =>
         pedido'[p].pc = pc /\ Mesma /\ pedido'[p].numero = r.numero /\ pedido'[p].ok = r.ok
    BY <1>a, <1>b DEF PedidoRow
<1>f. ASSUME NEW pc, NEW n, Segue(p, [r EXCEPT !.pc = pc, !.numero = n])
      PROVE  pedido'[p].pc = pc /\ Mesma /\ pedido'[p].numero = n
  <2>1. pedido'[p] = [r EXCEPT !.pc = pc, !.numero = n]
    BY <1>a, <1>f
  <2> QED BY <1>b, <2>1 DEF PedidoRow
<1>g. ASSUME NEW pc, NEW ok, Segue(p, [r EXCEPT !.pc = pc, !.ok = ok])
      PROVE  pedido'[p].pc = pc /\ Mesma /\ pedido'[p].numero = r.numero /\ pedido'[p].ok = ok
  <2>1. pedido'[p] = [r EXCEPT !.pc = pc, !.ok = ok]
    BY <1>a, <1>g
  <2> QED BY <1>b, <2>1 DEF PedidoRow
<1>h. ASSUME NEW pc, NEW n, NEW c, Segue(p, [r EXCEPT !.pc = pc, !.numero = n, !.codigo = c])
      PROVE  pedido'[p].pc = pc /\ Mesma /\ pedido'[p].numero = n
  <2>1. pedido'[p] = [r EXCEPT !.pc = pc, !.numero = n, !.codigo = c]
    BY <1>a, <1>h
  <2> QED BY <1>b, <2>1 DEF PedidoRow
<1>i. ASSUME NEW pc, NEW n, Segue(p, [r EXCEPT !.pc = pc, !.anterior = n])
      PROVE  pedido'[p].pc = pc /\ Mesma /\ pedido'[p].numero = r.numero
  <2>1. pedido'[p] = [r EXCEPT !.pc = pc, !.anterior = n]
    BY <1>a, <1>i
  <2> QED BY <1>b, <2>1 DEF PedidoRow
<1>j. ASSUME NEW pc, NEW ok, NEW c, Segue(p, [r EXCEPT !.pc = pc, !.ok = ok, !.codigo = c])
      PROVE  pedido'[p].pc = pc /\ Mesma
  <2>1. pedido'[p] = [r EXCEPT !.pc = pc, !.ok = ok, !.codigo = c]
    BY <1>a, <1>j
  <2> QED BY <1>b, <2>1 DEF PedidoRow
<1>k. \A s \in Series : serie[s].proximoNumero \in Nat \ {0}
    BY DEF TypeOK, SerieRow
<1>l. \A g \in Faturas : fatura[g] \in FaturaRow /\ fatura[g].numero \in Nat /\ fatura[g].serie \in Series
    BY DEF TypeOK, FaturaRow
<1>m. \A x : Segue(p, x) /\ EmOrdem =>
         \A y \in Pedidos : \/ pedido'[y] = pedido[y]
                            \/ EmissaoEmCurso(y)' /\ DocumentoEmCurso(y)'
    BY <1>a
<1> HIDE DEF EmOrdem, Mesma
<1>1. CASE FaturarPropostaCriar(p)
  <2>1. CASE UNCHANGED fatura
    BY <1>1, <1>d, <2>1, SoPedido DEF FaturarPropostaCriar, Termina, EmOrdem
  <2>2. ASSUME NEW f \in Faturas, fatura[f].estado = "INEXISTENTE", Inserir(f, r.s, r.total, Nenhum, r.q)
        PROVE  EmissaoInv'
    BY <1>1, <1>a, <1>b, <1>d, <2>2, InserirEmissao DEF FaturarPropostaCriar, Termina, EmOrdem
  <2> QED BY <1>1, <2>1, <2>2 DEF FaturarPropostaCriar, r
<1>2. CASE UpdateGravar(p)
  <2>1. \A g \in Faturas : /\ fatura'[g].numero = fatura[g].numero
                            /\ fatura'[g].serie = fatura[g].serie
                            /\ fatura'[g].estado = fatura[g].estado
    <3>1. \A g \in Faturas : fatura'[g] = IF g = r.f THEN [fatura[g] EXCEPT !.total = r.total] ELSE fatura[g]
      BY <1>2 DEF UpdateGravar, TypeOK, r
    <3> QED BY <1>l, <3>1 DEF FaturaRow
  <2>2. UNCHANGED <<serie, atRegistados>> /\ Termina(p)
    BY <1>2 DEF UpdateGravar
  <2> QED BY ONLY TypeOK, TypeOK', EmissaoInv, <1>d, <1>m, <2>1, <2>2, Quadro DEF Termina
<1>3. CASE EnsureSerieComunicadaAt(p)
  <2>1. pedido'[p].pc \in {"emitir.ler", "serie.at"} /\ Mesma
    BY <1>3, <1>e, <1>f DEF EnsureSerieComunicadaAt, r
  <2>2. Emitindo(p) /\ fatura' = fatura /\ serie' = serie /\ atRegistados' = atRegistados
    BY <1>3 DEF EnsureSerieComunicadaAt, Em, Emitindo, PassosEmissao
  <2>3. EmOrdem
    <3>1. /\ pedido'[p].pc \in (PassosEmissao \ {"emitir.gravarFatura"}) \cup PassosSerie
          /\ pedido'[p].pc \notin {"emitir.anterior", "emitir.gravarSerie"}
      BY <2>1 DEF PassosEmissao, PassosSerie
    <3>2. pedido'[p].f = pedido[p].f /\ pedido'[p].s = pedido[p].s /\ pedido'[p].emite = pedido[p].emite
      BY <2>1 DEF Mesma, r
    <3>3. EmissaoEmCurso(p)' /\ DocumentoEmCurso(p)'
      BY <2>2, <3>1, <3>2, Avanca
    <3> QED BY <3>3 DEF EmOrdem
  <2> QED BY <1>3, <2>2, <2>3, SoPedido DEF EmOrdem, EnsureSerieComunicadaAt
<1>4. CASE LerSerie(p)
  <2>1. Emitindo(p) /\ fatura' = fatura /\ serie' = serie /\ atRegistados' = atRegistados
    BY <1>4 DEF LerSerie, Em, Emitindo, PassosEmissao
  <2>2. CASE Termina(p)
    BY <1>d, <2>1, <2>2, SoPedido DEF Termina, EmOrdem
  <2>3. CASE /\ serie[r.s].proximoNumero <= MaxNumero
             /\ Segue(p, [r EXCEPT !.pc = "emitir.anterior", !.numero = serie[r.s].proximoNumero,
                                   !.codigo = serie[r.s].codigo])
    <3>1. /\ pedido'[p].pc = "emitir.anterior" /\ Mesma
          /\ pedido'[p].numero = serie'[r.s].proximoNumero /\ pedido'[p].numero <= MaxNumero
      <4> DEFINE n == serie[r.s].proximoNumero
                 c == serie[r.s].codigo
      <4>1. Segue(p, [r EXCEPT !.pc = "emitir.anterior", !.numero = n, !.codigo = c]) /\ n <= MaxNumero
        BY <2>3
      <4>2. n = serie'[r.s].proximoNumero
        BY <2>1
      <4> HIDE DEF n, c
      <4> QED BY ONLY <1>h, <4>1, <4>2
    <3>2. pedido'[p].pc \in (PassosEmissao \ {"emitir.gravarFatura"}) \cup PassosSerie
      BY <3>1 DEF PassosEmissao
    <3>3. /\ pedido'[p].f = pedido[p].f /\ pedido'[p].s = pedido[p].s /\ pedido'[p].emite = pedido[p].emite
          /\ pedido'[p].numero = serie'[pedido[p].s].proximoNumero
      BY <3>1 DEF Mesma, r
    <3>4. EmissaoEmCurso(p)' /\ DocumentoEmCurso(p)'
      BY <2>1, <3>1, <3>2, <3>3, Avanca
    <3> QED BY <2>1, <2>3, <3>4, SoPedido DEF EmOrdem
  <2> QED BY <1>4, <2>2, <2>3 DEF LerSerie, r
<1>5. CASE LerAnterior(p)
  <2>1. /\ Emitindo(p) /\ fatura' = fatura /\ serie' = serie /\ atRegistados' = atRegistados
        /\ r.numero = serie[r.s].proximoNumero /\ r.numero <= MaxNumero
    BY <1>5, <1>c DEF LerAnterior, Em, Emitindo, PassosEmissao, EmissaoEmCurso, r
  <2>2. PICK n : Segue(p, [r EXCEPT !.pc = "emitir.gravarSerie", !.anterior = n])
    BY <1>5 DEF LerAnterior, r
  <2>3. pedido'[p].pc = "emitir.gravarSerie" /\ Mesma /\ pedido'[p].numero = r.numero
    BY <1>i, <2>2
  <2>4. EmOrdem
    BY <2>1, <2>3, Avanca DEF r, EmOrdem, Mesma, PassosEmissao
  <2> QED BY <2>1, <2>2, <2>4, SoPedido DEF EmOrdem
<1>6. CASE GravarProximoNumero(p)
  <2>1. /\ Emitindo(p) /\ r.pc = "emitir.gravarSerie"
        /\ r.numero = serie[r.s].proximoNumero /\ r.numero <= MaxNumero
    BY <1>6, <1>c DEF GravarProximoNumero, Em, Emitindo, PassosEmissao, EmissaoEmCurso, r
  <2>2. fatura' = fatura /\ atRegistados' = atRegistados /\ Segue(p, [r EXCEPT !.pc = "emitir.gravarFatura"])
    BY <1>6 DEF GravarProximoNumero, r
  <2>3. /\ serie'[r.s].proximoNumero = r.numero + 1
        /\ \A s \in Series : serie'[s].proximoNumero >= serie[s].proximoNumero
    <3>1. \A s \in Series : serie'[s] = IF s = r.s THEN [serie[s] EXCEPT !.proximoNumero = r.numero + 1]
                                                  ELSE serie[s]
      BY <1>6, <1>b DEF GravarProximoNumero, TypeOK, r
    <3>2. \A s \in Series : serie[s] \in SerieRow
      BY DEF TypeOK
    <3>3. \A s \in Series : serie'[s].proximoNumero = IF s = r.s THEN r.numero + 1 ELSE serie[s].proximoNumero
      BY <3>1, <3>2 DEF SerieRow
    <3> QED BY <1>b, <1>k, <2>1, <3>3
  <2>4. pedido'[p].pc = "emitir.gravarFatura" /\ Mesma /\ pedido'[p].numero = r.numero
    BY <1>e, <2>2
  <2>5. \A g \in Faturas : fatura[g].numero < serie[fatura[g].serie].proximoNumero
    BY DEF EmissaoInv, NumeroAbaixoDoProximo
  <2>6. EmissaoEmCurso(p)'
    <3>1. r.numero # 0 /\ r.numero < serie'[r.s].proximoNumero
      BY <1>b, <1>k, <2>1, <2>3
    <3>2. \A g \in Faturas : fatura'[g].serie = r.s => fatura'[g].numero < r.numero
      BY <2>1, <2>2, <2>5
    <3>3. /\ p \in Emissores /\ r.emite /\ r.f \in Faturas
          /\ r.s = fatura'[r.f].serie /\ fatura'[r.f].estado = "RASCUNHO"
      BY <1>c, <2>1, <2>2 DEF EmissaoEmCurso, r
    <3> QED BY ONLY <2>1, <2>4, <3>1, <3>2, <3>3 DEF EmissaoEmCurso, Mesma
  <2>7. DocumentoEmCurso(p)'
    BY <2>4 DEF DocumentoEmCurso, PassosDocumento
  <2>8. ASSUME NEW y \in Pedidos \ {p}
        PROVE  EmissaoEmCurso(y)' /\ DocumentoEmCurso(y)'
    <3>1. pedido'[y] = pedido[y] /\ EmissaoEmCurso(y) /\ DocumentoEmCurso(y)
      BY <1>a, <2>2 DEF EmissaoInv
    <3>2. ~Emitindo(y)
      BY <1>c, <2>1, <3>1 DEF EmissorUnico, EmissaoEmCurso
    <3>3. EmissaoEmCurso(y)'
      BY ONLY <3>1, <3>2 DEF EmissaoEmCurso, Emitindo, PassosEmissao
    <3>4. DocumentoEmCurso(y)'
      BY ONLY <2>2, <3>1 DEF DocumentoEmCurso, Documento
    <3> QED BY <3>3, <3>4
  <2>9. NumeroAbaixoDoProximo'
    BY <1>k, <1>l, <2>2, <2>3, <2>5 DEF NumeroAbaixoDoProximo, TypeOK, SerieRow
  <2>10. NumeroSeEmitida' /\ NumeracaoUnica' /\ ComunicadaExisteNaAt'
    BY <2>2 DEF EmissaoInv, NumeroSeEmitida, NumeracaoUnica, ComunicadaExisteNaAt
  <2> QED BY <2>6, <2>7, <2>8, <2>9, <2>10 DEF EmissaoInv
<1>7. CASE GravarEmissao(p)
  <2> DEFINE f == r.f
  <2>1. /\ Emitindo(p) /\ r.pc = "emitir.gravarFatura" /\ f \in Faturas
        /\ r.s = fatura[f].serie /\ fatura[f].estado = "RASCUNHO"
        /\ r.numero # 0 /\ r.numero < serie[r.s].proximoNumero
        /\ \A g \in Faturas : fatura[g].serie = r.s => fatura[g].numero < r.numero
    BY <1>7, <1>c DEF GravarEmissao, Em, Emitindo, PassosEmissao, EmissaoEmCurso, r
  <2>2. serie' = serie /\ atRegistados' = atRegistados
    BY <1>7 DEF GravarEmissao
  <2>3. /\ fatura'[f] = [fatura[f] EXCEPT !.estado = "EMITIDA", !.numero = r.numero, !.codigo = r.codigo,
                                         !.assinado = r.total, !.anterior = r.anterior]
        /\ \A g \in Faturas \ {f} : fatura'[g] = fatura[g]
    BY <1>7, <2>1 DEF GravarEmissao, TypeOK, r
  <2>4. fatura'[f].estado = "EMITIDA" /\ fatura'[f].numero = r.numero /\ fatura'[f].serie = fatura[f].serie
    BY <1>l, <2>1, <2>3 DEF FaturaRow
  <2>5. fatura[f].numero = 0
    BY <2>1 DEF EmissaoInv, NumeroSeEmitida
  <2> HIDE DEF f
  <2>6. \/ Termina(p)
        \/ Segue(p, [r EXCEPT !.pc = "emitir.auto"])
    BY <1>7 DEF GravarEmissao, r
  <2>7. EmOrdem
    <3>1. CASE Termina(p)
      BY <1>d, <3>1
    <3>2. CASE Segue(p, [r EXCEPT !.pc = "emitir.auto"])
      <4>1. pedido'[p].pc = "emitir.auto" /\ pedido'[p].f = f
        BY <1>e, <3>2 DEF Mesma, f
      <4>2. EmissaoEmCurso(p)'
        BY <4>1 DEF EmissaoEmCurso, Emitindo, PassosEmissao, PassosSerie
      <4>3. DocumentoEmCurso(p)'
        BY <2>1, <2>4, <4>1 DEF DocumentoEmCurso
      <4> QED BY <4>2, <4>3 DEF EmOrdem
    <3> QED BY <2>6, <3>1, <3>2
  <2>8. ASSUME NEW y \in Pedidos \ {p}
        PROVE  EmissaoEmCurso(y)' /\ DocumentoEmCurso(y)'
    <3>1. pedido'[y] = pedido[y] /\ EmissaoEmCurso(y) /\ DocumentoEmCurso(y)
      BY <1>a, <2>6 DEF EmissaoInv, Termina
    <3>2. ~Emitindo(y)
      BY <1>c, <2>1, <3>1 DEF EmissorUnico, EmissaoEmCurso
    <3>3. EmissaoEmCurso(y)'
      BY ONLY <3>1, <3>2 DEF EmissaoEmCurso, Emitindo, PassosEmissao
    <3>4. \A g \in Faturas : fatura[g].numero # 0 => fatura'[g] = fatura[g]
      BY <2>3, <2>5
    <3>5. DocumentoEmCurso(y)'
      <4> DEFINE q == pedido[y]
      <4>1. pedido'[y] = q
        BY <3>1
      <4>2. /\ q.pc \in PassosDocumento => q.f \in Faturas /\ fatura[q.f].numero # 0
            /\ q.pc \in PassosDocumento \ {"emitir.auto"} =>
                  q.s = fatura[q.f].serie /\ q.numero = fatura[q.f].numero
            /\ q.pc = "com.gravar" /\ q.ok => Documento(q) \in atRegistados
        BY ONLY <3>1 DEF DocumentoEmCurso
      <4> HIDE DEF q
      <4>3. q.pc \in PassosDocumento => fatura'[q.f] = fatura[q.f]
        BY <3>4, <4>2
      <4> QED BY ONLY <2>2, <4>1, <4>2, <4>3 DEF DocumentoEmCurso, Documento
    <3> QED BY <3>3, <3>5
  <2>9. NumeroAbaixoDoProximo'
    <3> SUFFICES ASSUME NEW g \in Faturas
                 PROVE  fatura'[g].numero < serie[fatura'[g].serie].proximoNumero
      BY <2>2 DEF NumeroAbaixoDoProximo
    <3>1. CASE g = f
      BY <2>1, <2>4, <3>1
    <3>2. CASE g # f
      BY <2>3, <3>2 DEF EmissaoInv, NumeroAbaixoDoProximo
    <3> QED BY <3>1, <3>2
  <2>10. NumeroSeEmitida'
    <3> SUFFICES ASSUME NEW g \in Faturas
                 PROVE  fatura'[g].numero = 0 <=> fatura'[g].estado \in {"INEXISTENTE", "RASCUNHO"}
      BY DEF NumeroSeEmitida
    <3>1. CASE g = f
      BY <2>1, <2>4, <3>1
    <3>2. CASE g # f
      BY <2>3, <3>2 DEF EmissaoInv, NumeroSeEmitida
    <3> QED BY <3>1, <3>2
  <2>11. NumeracaoUnica'
    <3> SUFFICES ASSUME NEW a \in Faturas, NEW b \in Faturas, a # b, fatura'[a].numero # 0,
                        fatura'[a].serie = fatura'[b].serie
                 PROVE  fatura'[a].numero # fatura'[b].numero
      BY DEF NumeracaoUnica
    <3>1. CASE a = f
      <4>1. fatura'[b] = fatura[b]
        BY <2>3, <3>1
      <4>2. fatura[b].serie = r.s
        BY <2>1, <2>4, <3>1, <4>1
      <4>3. fatura[b].numero < r.numero
        BY <2>1, <4>2
      <4> QED BY <1>b, <1>l, <2>4, <3>1, <4>1, <4>3
    <3>2. CASE b = f
      <4>1. fatura'[a] = fatura[a]
        BY <2>3, <3>2
      <4>2. fatura[a].serie = r.s
        BY <2>1, <2>4, <3>2, <4>1
      <4>3. fatura[a].numero < r.numero
        BY <2>1, <4>2
      <4> QED BY <1>b, <1>l, <2>4, <3>2, <4>1, <4>3
    <3>3. CASE a # f /\ b # f
      BY <2>3, <3>3 DEF EmissaoInv, NumeracaoUnica
    <3> QED BY <3>1, <3>2, <3>3
  <2>12. ComunicadaExisteNaAt'
    BY <2>2, <2>3, <2>4 DEF EmissaoInv, ComunicadaExisteNaAt
  <2> QED BY <2>7, <2>8, <2>9, <2>10, <2>11, <2>12 DEF EmissaoInv, EmOrdem
<1>8. CASE ComunicarAutomatica(p)
  <2>1. UNCHANGED <<fatura, serie, atRegistados>>
    BY <1>8 DEF ComunicarAutomatica
  <2>2. CASE Termina(p)
    BY <1>d, <2>1, <2>2, SoPedido DEF Termina, EmOrdem
  <2>3. CASE r.f \in Faturas /\ EmVigor(r.f) /\ Segue(p, ComDocumento(r.f, TRUE))
    <3>1. fatura[r.f].numero # 0
      BY <2>3 DEF EmVigor, EmissaoInv, NumeroSeEmitida
    <3>2. /\ pedido'[p].pc = "com.at" /\ pedido'[p].f = r.f
          /\ pedido'[p].s = fatura[r.f].serie /\ pedido'[p].numero = fatura[r.f].numero
      <4>1. ASSUME NEW m, Segue(p, ComDocumento(r.f, m))
            PROVE  /\ pedido'[p].pc = "com.at" /\ pedido'[p].f = r.f
                   /\ pedido'[p].s = fatura[r.f].serie /\ pedido'[p].numero = fatura[r.f].numero
        <5>1. pedido'[p] = ComDocumento(r.f, m)
          BY <1>a, <4>1
        <5> QED BY <5>1, LivreTipo DEF ComDocumento, PedidoRow
      <4> QED BY <2>3, <4>1
    <3>3. EmOrdem
      BY <2>1, <2>3, <3>1, <3>2, ComDocumentoEmOrdem DEF EmOrdem
    <3> QED BY <2>1, <2>3, <3>3, SoPedido DEF EmOrdem
  <2> QED BY <1>8, <2>2, <2>3 DEF ComunicarAutomatica, r
<1>9. CASE AtRegistarDocumento(p)
  <2>1. /\ fatura' = fatura /\ serie' = serie /\ atRegistados \subseteq atRegistados'
        /\ r.pc \in PassosDocumento \ {"emitir.auto"}
    BY <1>9 DEF AtRegistarDocumento, Em, PassosDocumento, r
  <2>2. PICK ok : Segue(p, [r EXCEPT !.pc = "com.gravar", !.ok = ok])
    BY <1>9 DEF AtRegistarDocumento, r
  <2>3. pedido'[p].pc = "com.gravar" /\ Mesma /\ pedido'[p].numero = r.numero
    BY <1>g, <2>2
  <2>4. pedido'[p].ok => Documento(r) \in atRegistados'
    <3>1. \/ Documento(r) \in atRegistados'
          \/ Segue(p, [r EXCEPT !.pc = "com.gravar", !.ok = FALSE])
      BY <1>9 DEF AtRegistarDocumento, r
    <3>2. ASSUME Segue(p, [r EXCEPT !.pc = "com.gravar", !.ok = FALSE])
          PROVE  ~pedido'[p].ok
      <4>1. pedido'[p] = [r EXCEPT !.pc = "com.gravar", !.ok = FALSE]
        BY <1>a, <3>2
      <4> QED BY <1>b, <4>1 DEF PedidoRow
    <3> QED BY <3>1, <3>2
  <2>5. EmOrdem
    BY <2>1, <2>3, <2>4, DocumentoAvanca DEF EmOrdem, Mesma, PassosDocumento, r
  <2> QED BY <2>1, <2>2, <2>5, SoPedido DEF EmOrdem
<1>10. CASE MarcarComunicada(p)
  <2>1. /\ serie' = serie /\ atRegistados' = atRegistados
        /\ fatura' = [fatura EXCEPT ![r.f].estado = "COMUNICADA_AT"]
        /\ r.pc = "com.gravar" /\ r.ok /\ Segue(p, [r EXCEPT !.pc = "com.log"])
    BY <1>10 DEF MarcarComunicada, Em, r
  <2>2. /\ r.f \in Faturas /\ Documento(r) \in atRegistados
        /\ r.pc \in PassosDocumento \ {"emitir.auto"}
    BY <1>c, <2>1 DEF DocumentoEmCurso, PassosDocumento, r
  <2>3. pedido'[p].pc = "com.log" /\ Mesma /\ pedido'[p].numero = r.numero
    BY <1>e, <2>1
  <2>4. fatura'[r.f] = [fatura[r.f] EXCEPT !.estado = "COMUNICADA_AT"]
    BY <2>1, <2>2 DEF TypeOK
  <2>5. fatura'[r.f].numero = fatura[r.f].numero /\ fatura'[r.f].serie = fatura[r.f].serie
    BY <1>l, <2>2, <2>4 DEF FaturaRow
  <2>6. EmOrdem
    BY <2>2, <2>3, <2>5, DocumentoAvanca DEF EmOrdem, Mesma, PassosDocumento, r
  <2> QED BY <2>1, <2>2, <2>6, EstadoEmissao DEF EmOrdem, r
<1>11. CASE RegistarComunicacao(p)
    BY <1>11, <1>d, SoPedido DEF RegistarComunicacao, Termina, EmOrdem
<1>12. CASE AtAnularDocumento(p)
  <2>1. /\ fatura' = fatura /\ serie' = serie /\ atRegistados' = atRegistados
        /\ r.pc \in PassosDocumento \ {"emitir.auto"}
    BY <1>12 DEF AtAnularDocumento, Em, PassosDocumento, r
  <2>2. PICK ok \in BOOLEAN : Segue(p, [r EXCEPT !.pc = "anular.resposta", !.ok = ok])
    BY <1>12 DEF AtAnularDocumento, r
  <2>3. pedido'[p].pc = "anular.resposta" /\ Mesma /\ pedido'[p].numero = r.numero
    BY <1>g, <2>2
  <2>4. EmOrdem
    BY <2>1, <2>3, DocumentoAvanca DEF EmOrdem, Mesma, PassosDocumento, r
  <2> QED BY <2>1, <2>2, <2>4, SoPedido DEF EmOrdem
<1>13. CASE AnularResposta(p)
  <2>1. /\ fatura' = fatura /\ serie' = serie /\ atRegistados' = atRegistados
        /\ r.pc \in PassosDocumento \ {"emitir.auto"}
        /\ Termina(p) \/ Segue(p, [r EXCEPT !.pc = "anular.gravar"])
    BY <1>13 DEF AnularResposta, Em, PassosDocumento, r
  <2>2. CASE Termina(p)
    BY <1>d, <2>1, <2>2, SoPedido DEF Termina, EmOrdem
  <2>3. CASE Segue(p, [r EXCEPT !.pc = "anular.gravar"])
    <3>1. pedido'[p].pc = "anular.gravar" /\ Mesma /\ pedido'[p].numero = r.numero
      BY <1>e, <2>3
    <3>2. EmOrdem
      BY <2>1, <3>1, DocumentoAvanca DEF EmOrdem, Mesma, PassosDocumento, r
    <3> QED BY <2>1, <2>3, <3>2, SoPedido DEF EmOrdem
  <2> QED BY <2>1, <2>2, <2>3
<1>14. CASE AnularGravar(p)
  <2>1. /\ serie' = serie /\ atRegistados' = atRegistados
        /\ fatura' = [fatura EXCEPT ![r.f].estado = "ANULADA"]
        /\ r.pc \in PassosDocumento \ {"emitir.auto"} /\ Termina(p)
    BY <1>14 DEF AnularGravar, Em, PassosDocumento, r
  <2> QED BY <1>d, <2>1, EstadoEmissao DEF Termina, EmOrdem, r
<1>15. CASE NotaCreditoProcurar(p)
  <2>1. /\ UNCHANGED <<fatura, serie, atRegistados>>
        /\ Termina(p) \/ Segue(p, [r EXCEPT !.pc = "nc.criar"])
    BY <1>15 DEF NotaCreditoProcurar, r
  <2>2. CASE Termina(p)
    BY <1>d, <2>1, <2>2, SoPedido DEF Termina, EmOrdem
  <2>3. CASE Segue(p, [r EXCEPT !.pc = "nc.criar"])
    <3>1. pedido'[p].pc = "nc.criar"
      BY <1>e, <2>3
    <3>2. EmOrdem
      BY <3>1, ForaDaEmissao DEF EmOrdem, PassosEmissao, PassosDocumento, PassosSerie
    <3> QED BY <2>1, <2>3, <3>2, SoPedido DEF EmOrdem
  <2> QED BY <2>1, <2>2, <2>3
<1>16. CASE NotaCreditoCriar(p)
  <2>1. PICK g \in Faturas : fatura[g].estado = "INEXISTENTE" /\ Inserir(g, r.s, r.total, r.f, Nenhum)
    BY <1>16 DEF NotaCreditoCriar, r
  <2>2. UNCHANGED <<serie, atRegistados>> /\ Termina(p)
    BY <1>16 DEF NotaCreditoCriar
  <2> QED BY <1>b, <1>d, <1>m, <2>1, <2>2, InserirEmissao DEF Termina
<1>17. CASE AtRegistarSerie(p)
  <2>1. UNCHANGED <<fatura, serie, atRegistados>> /\ r.pc = "serie.at"
    BY <1>17 DEF AtRegistarSerie, Em, r
  <2>2. PICK ok, c : Segue(p, [r EXCEPT !.pc = "serie.gravar", !.ok = ok, !.codigo = c])
    BY <1>17 DEF AtRegistarSerie, r
  <2>3. pedido'[p].pc = "serie.gravar" /\ Mesma
    BY <1>j, <2>2
  <2>4. CASE r.emite
    <3>1. Emitindo(p)
      BY <2>1, <2>4 DEF Emitindo, PassosSerie, r
    <3>2. EmOrdem
      BY <2>1, <2>3, <3>1, Avanca DEF EmOrdem, Mesma, PassosSerie, r
    <3> QED BY <2>1, <2>2, <3>2, SoPedido DEF EmOrdem
  <2>5. CASE ~r.emite
    <3>1. EmOrdem
      BY <2>3, <2>5, ForaDaEmissao DEF EmOrdem, Mesma, PassosEmissao, PassosDocumento
    <3> QED BY <2>1, <2>2, <3>1, SoPedido DEF EmOrdem
  <2> QED BY <2>4, <2>5
<1>18. CASE GravarSerieAt(p)
  <2>1. /\ UNCHANGED <<fatura, atRegistados>> /\ r.pc = "serie.gravar"
        /\ Termina(p) \/ (r.emite /\ Segue(p, [r EXCEPT !.pc = "emitir.ler"]))
    BY <1>18 DEF GravarSerieAt, Em, r
  <2>2. \A s \in Series : serie'[s].proximoNumero = serie[s].proximoNumero
    <3>1. \/ serie' = serie
          \/ serie' = [serie EXCEPT ![r.s] = [serie[r.s] EXCEPT !.codigo = r.codigo,
                                       !.estadoAt = "REGISTADA", !.numInicial = r.numero]]
      BY <1>18 DEF GravarSerieAt, r
    <3>2. ASSUME NEW s \in Series
          PROVE  \/ serie'[s] = serie[s]
                 \/ serie'[s] = [serie[s] EXCEPT !.codigo = r.codigo,
                                   !.estadoAt = "REGISTADA", !.numInicial = r.numero]
      BY <3>1 DEF TypeOK
    <3>3. \A s \in Series : serie[s] \in SerieRow
      BY DEF TypeOK
    <3> QED BY <3>2, <3>3 DEF SerieRow
  <2>3. EmOrdem
    <3>1. CASE Termina(p)
      BY <1>d, <3>1
    <3>2. CASE r.emite /\ Segue(p, [r EXCEPT !.pc = "emitir.ler"])
      <4>1. Emitindo(p)
        BY <2>1, <3>2 DEF Emitindo, PassosSerie, r
      <4>2. pedido'[p].pc = "emitir.ler" /\ Mesma
        BY <1>e, <3>2
      <4> QED BY <2>1, <4>1, <4>2, Avanca DEF EmOrdem, Mesma, PassosEmissao, r
    <3> QED BY <2>1, <3>1, <3>2
  <2> QED BY <1>m, <2>1, <2>2, <2>3, Quadro DEF Termina
<1>19. CASE UpdateSerieGravar(p)
  <2>1. UNCHANGED <<fatura, atRegistados>> /\ Termina(p)
    BY <1>19 DEF UpdateSerieGravar
  <2>2. \A s \in Series : serie'[s].proximoNumero = serie[s].proximoNumero
    <3>1. \E c, e : serie' = [serie EXCEPT ![r.s] = [serie[r.s] EXCEPT !.codigo = c, !.estadoAt = e]]
      BY <1>19 DEF UpdateSerieGravar, r
    <3> QED BY <1>b, <3>1 DEF TypeOK, SerieRow
  <2> QED BY <1>d, <1>m, <2>1, <2>2, Quadro DEF Termina
<1>20. CASE UpdateConfigGravar(p)
    BY <1>20, <1>d, SoPedido DEF UpdateConfigGravar, Termina, EmOrdem
<1> QED
    BY <1>1, <1>2, <1>3, <1>4, <1>5, <1>6, <1>7, <1>8, <1>9, <1>10, <1>11, <1>12, <1>13, <1>14,
       <1>15, <1>16, <1>17, <1>18, <1>19, <1>20 DEF Passo

(* It holds initially.                                                     *)
LEMMA EmissaoInicial == Init => EmissaoInv
<1> SUFFICES ASSUME Init PROVE EmissaoInv
    OBVIOUS
<1>1. \A f \in Faturas : /\ fatura[f].estado = "INEXISTENTE" /\ fatura[f].numero = 0
                         /\ fatura[f].serie \in Series
    BY SeriesAssumption DEF Init
<1>2. \A s \in Series : serie[s].proximoNumero = 1
    BY DEF Init
<1>3. \A p \in Pedidos : pedido[p].pc = "livre"
    BY LivreTipo DEF Init
<1>4. ASSUME NEW p \in Pedidos
      PROVE  EmissaoEmCurso(p) /\ DocumentoEmCurso(p)
    BY <1>3, PassosDistintos DEF EmissaoEmCurso, DocumentoEmCurso, Emitindo
<1>5. NumeroSeEmitida
    BY <1>1 DEF NumeroSeEmitida
<1>6. NumeroAbaixoDoProximo
    BY <1>1, <1>2 DEF NumeroAbaixoDoProximo
<1>7. NumeracaoUnica /\ ComunicadaExisteNaAt
    BY <1>1 DEF NumeracaoUnica, ComunicadaExisteNaAt
<1> QED BY <1>4, <1>5, <1>6, <1>7 DEF EmissaoInv

(* Every step keeps it.                                                    *)
LEMMA EmissaoSeguinte ==
    ASSUME EmissorUnico, TypeOK, TypeOK', EmissaoInv, [Next]_vars
    PROVE  EmissaoInv'
<1>1. ASSUME NEW f \in Faturas, NEW s \in Series, NEW t \in Totais, Create(f, s, t)
      PROVE  EmissaoInv'
    BY <1>1, InserirEmissao DEF Create
<1>2. ASSUME NEW p \in Pedidos, Interromper(p)
      PROVE  EmissaoInv'
  <2>1. /\ fatura' = fatura /\ serie' = serie /\ atRegistados' = atRegistados
        /\ Segue(p, Livre) /\ pedido'[p].pc = "livre"
    BY <1>2, LivreTipo DEF Interromper, Termina, Segue, TypeOK
  <2> QED BY <2>1, PassosDistintos, ForaDaEmissao, SoPedido
<1>3. CASE UNCHANGED vars
    BY <1>3, Quadro DEF vars
<1> QED BY <1>1, <1>2, <1>3, ChamadaEmissao, PassoEmissao DEF Next

(* The invariant of the emission: numbers are below the next number of     *)
(* their series, and every request in progress agrees with the rows.       *)
THEOREM EmissaoCorrecta ==
    ASSUME EmissorUnico
    PROVE  Spec => []EmissaoInv
<1>1. Init => TypeOK /\ EmissaoInv
    BY TipoInicial, EmissaoInicial
<1>2. TypeOK /\ EmissaoInv /\ [Next]_vars => TypeOK' /\ EmissaoInv'
    BY TipoSeguinte, EmissaoSeguinte
<1> QED BY <1>1, <1>2, PTL DEF Spec

(* While at most one request emits, two documents of a series never share  *)
(* a number.                                                               *)
THEOREM NumeracaoCorrecta ==
    ASSUME EmissorUnico
    PROVE  Spec => []NumeracaoUnica
<1>1. EmissaoInv => NumeracaoUnica
    BY DEF EmissaoInv
<1> QED BY <1>1, EmissaoCorrecta, PTL

(* ... and an invoice shown as communicated is registered at AT.           *)
THEOREM ComunicacaoCorrecta ==
    ASSUME EmissorUnico
    PROVE  Spec => []ComunicadaExisteNaAt
<1>1. EmissaoInv => ComunicadaExisteNaAt
    BY DEF EmissaoInv
<1> QED BY <1>1, EmissaoCorrecta, PTL

-----------------------------------------------------------------------------
(* The book of a series *)

(* A step keeps every number.                                              *)
NumerosIguais ==
    \A g \in Faturas : /\ fatura'[g].numero = fatura[g].numero
                       /\ fatura[g].numero # 0 => fatura'[g].serie = fatura[g].serie

(* A step numbers f, above the other numbers of its series.                *)
Numera(f) ==
    /\ fatura[f].numero = 0
    /\ fatura'[f].numero \in 1 .. MaxNumero
    /\ fatura'[f].serie = fatura[f].serie
    /\ \A g \in Faturas \ {f} : fatura'[g] = fatura[g]
    /\ \A g \in Faturas : fatura[g].serie = fatura[f].serie => fatura[g].numero < fatura'[f].numero

(* What a step may do to the numbers: emission gives one, above the others *)
(* of the series, and nothing else touches them.                           *)
LEMMA EfeitoNosNumeros ==
    ASSUME TypeOK, EmissaoInv, [Next]_vars
    PROVE  NumerosIguais \/ \E f \in Faturas : Numera(f)
<1>a. \A g \in Faturas : fatura[g] \in FaturaRow
    BY DEF TypeOK
<1>b. ASSUME UNCHANGED fatura
      PROVE  NumerosIguais
    BY <1>b DEF NumerosIguais
<1>c. ASSUME NEW f \in Faturas, NEW s, NEW t, NEW ref, NEW q,
             fatura[f].estado = "INEXISTENTE", Inserir(f, s, t, ref, q)
      PROVE  NumerosIguais
  <2>1. fatura[f].numero = 0
    BY <1>c DEF EmissaoInv, NumeroSeEmitida
  <2>2. fatura'[f].numero = fatura[f].numero /\ \A g \in Faturas \ {f} : fatura'[g] = fatura[g]
    BY <1>a, <1>c DEF Inserir, TypeOK, FaturaRow
  <2> QED BY <2>1, <2>2 DEF NumerosIguais
<1>d. ASSUME NEW f, NEW e, fatura' = [fatura EXCEPT ![f].estado = e]
      PROVE  NumerosIguais
  <2>1. \A g \in Faturas : fatura'[g] = IF g = f THEN [fatura[g] EXCEPT !.estado = e] ELSE fatura[g]
    BY <1>d DEF TypeOK
  <2> QED BY <1>a, <2>1 DEF NumerosIguais, FaturaRow
<1>1. ASSUME NEW f \in Faturas, NEW s \in Series, NEW t \in Totais, Create(f, s, t)
      PROVE  NumerosIguais
    BY <1>1, <1>c DEF Create
<1>2. ASSUME NEW p \in Pedidos, FaturarPropostaCriar(p)
      PROVE  NumerosIguais
    BY <1>2, <1>b, <1>c DEF FaturarPropostaCriar
<1>3. ASSUME NEW p \in Pedidos, NotaCreditoCriar(p)
      PROVE  NumerosIguais
    BY <1>3, <1>c DEF NotaCreditoCriar
<1>4. ASSUME NEW p \in Pedidos, UpdateGravar(p)
      PROVE  NumerosIguais
  <2>1. \A g \in Faturas : fatura'[g] = IF g = pedido[p].f THEN [fatura[g] EXCEPT !.total = pedido[p].total]
                                                           ELSE fatura[g]
    BY <1>4 DEF UpdateGravar, TypeOK
  <2> QED BY <1>a, <2>1 DEF NumerosIguais, FaturaRow
<1>5. ASSUME NEW p \in Pedidos, MarcarComunicada(p) \/ AnularGravar(p)
      PROVE  NumerosIguais
    BY <1>5, <1>d DEF MarcarComunicada, AnularGravar
<1>6. ASSUME NEW p \in Pedidos, GravarEmissao(p)
      PROVE  \E f \in Faturas : Numera(f)
  <2> DEFINE r == pedido[p]
             f == r.f
  <2>1. EmissaoEmCurso(p) /\ r.numero \in Nat /\ r.pc = "emitir.gravarFatura"
    BY <1>6 DEF EmissaoInv, TypeOK, PedidoRow, GravarEmissao, Em
  <2>2. /\ f \in Faturas /\ r.s = fatura[f].serie /\ fatura[f].estado = "RASCUNHO"
        /\ r.numero \in 1 .. MaxNumero
        /\ \A g \in Faturas : fatura[g].serie = r.s => fatura[g].numero < r.numero
    BY <2>1, PedidosAssumption DEF EmissaoEmCurso, Emitindo, PassosEmissao
  <2>3. /\ fatura'[f] = [fatura[f] EXCEPT !.estado = "EMITIDA", !.numero = r.numero, !.codigo = r.codigo,
                                         !.assinado = r.total, !.anterior = r.anterior]
        /\ \A g \in Faturas \ {f} : fatura'[g] = fatura[g]
    BY <1>6, <2>2 DEF GravarEmissao, TypeOK
  <2>4. fatura'[f].numero = r.numero /\ fatura'[f].serie = fatura[f].serie
    BY <1>a, <2>2, <2>3 DEF FaturaRow
  <2>5. fatura[f].numero = 0
    BY <2>2 DEF EmissaoInv, NumeroSeEmitida
  <2>6. Numera(f)
    BY <2>2, <2>3, <2>4, <2>5 DEF Numera
  <2> QED BY <2>2, <2>6
<1>7. ASSUME NEW p \in Pedidos, Passo(p)
      PROVE  \/ UNCHANGED fatura
             \/ FaturarPropostaCriar(p) \/ NotaCreditoCriar(p) \/ UpdateGravar(p)
             \/ MarcarComunicada(p) \/ AnularGravar(p) \/ GravarEmissao(p)
    BY <1>7 DEF Passo, EnsureSerieComunicadaAt, LerSerie, LerAnterior, GravarProximoNumero,
                ComunicarAutomatica, AtRegistarDocumento, RegistarComunicacao, AtAnularDocumento,
                AnularResposta, NotaCreditoProcurar, AtRegistarSerie, GravarSerieAt,
                UpdateSerieGravar, UpdateConfigGravar
<1>8. ASSUME NEW p \in Pedidos, Chamada(p)
      PROVE  UNCHANGED fatura
    BY <1>8 DEF Chamada, FaturarPropostaLer, UpdateLer, EmitirLer, ComunicarAt, ReenviarAt, AnularLer,
                NotaCreditoLer, ComunicarSerieAt, UpdateSerieLer, UpdateConfigLer
<1>9. ASSUME NEW p \in Pedidos, Interromper(p)
      PROVE  UNCHANGED fatura
    BY <1>9 DEF Interromper
<1> QED BY <1>b, <1>1, <1>2, <1>3, <1>4, <1>5, <1>6, <1>7, <1>8, <1>9 DEF Next, vars

(* While at most one request emits, a number once given is never changed.  *)
THEOREM NumeroFixo ==
    ASSUME EmissorUnico
    PROVE  Spec => NumeroNuncaMuda
<1>1. TypeOK /\ EmissaoInv /\ [Next]_vars
        => [\A f \in Faturas : fatura[f].numero # 0 => fatura'[f].numero = fatura[f].numero]_vars
    BY EfeitoNosNumeros DEF NumerosIguais, Numera
<1> QED BY <1>1, TypeCorrect, EmissaoCorrecta, PTL DEF Spec, NumeroNuncaMuda

(* While at most one request emits, the numbering implements the           *)
(* append-only book of LivroFiscal: every step writes one new entry above  *)
(* the others of its series, or writes nothing.                            *)
THEOREM EmissaoRefina ==
    ASSUME EmissorUnico
    PROVE  Spec => EmissaoImplementaLivro
<1>1. Init => Livro!InitLivro
    BY SeriesAssumption DEF Init, Livro!InitLivro, Lancamentos
<1>2. ASSUME TypeOK, EmissaoInv, [Next]_vars
      PROVE  [Livro!NextLivro]_Lancamentos
  <2>1. CASE NumerosIguais
    BY <2>1 DEF NumerosIguais, Lancamentos
  <2>2. ASSUME NEW f \in Faturas, Numera(f)
        PROVE  Livro!NextLivro
    <3> DEFINE s == fatura[f].serie
               n == fatura'[f].numero
    <3>1. s \in Series
      BY <1>2 DEF TypeOK, FaturaRow
    <3>2. ~Livro!Lancado(f)
      BY <2>2 DEF Livro!Lancado, Lancamentos, Numera
    <3>3. \A e \in Lancamentos[s] : e[1] < n
      BY <2>2, <3>1 DEF Lancamentos, Numera
    <3>4. Lancamentos' = [Lancamentos EXCEPT ![s] = Lancamentos[s] \cup {<<n, f>>}]
      <4>1. ASSUME NEW x \in Series, x # s
            PROVE  Lancamentos'[x] = Lancamentos[x]
        BY <2>2, <3>1, <4>1 DEF Lancamentos, Numera
      <4>2. Lancamentos'[s] = Lancamentos[s] \cup {<<n, f>>}
        BY <2>2, <3>1 DEF Lancamentos, Numera
      <4> QED BY <3>1, <4>1, <4>2 DEF Lancamentos
    <3>5. n \in 1 .. MaxNumero
      BY <2>2 DEF Numera
    <3>6. Livro!Lancar(s, f)
      BY <3>2, <3>3, <3>4, <3>5 DEF Livro!Lancar
    <3> QED BY <3>1, <3>6 DEF Livro!NextLivro
  <2> QED BY <1>2, <2>1, <2>2, EfeitoNosNumeros
<1> QED BY <1>1, <1>2, TypeCorrect, EmissaoCorrecta, PTL DEF Spec, EmissaoImplementaLivro, Livro!SpecLivro

-----------------------------------------------------------------------------
(***************************************************************************)
(* Theorems that need no restriction on the requests: any number of them   *)
(* emit, edit and invoice at the same time.                                *)
(***************************************************************************)

-----------------------------------------------------------------------------
(* What a step does to the rows of the invoices *)

InsereSemProposta ==
    \E f \in Faturas, s \in Series, t \in Nat, ref \in Faturas \cup {Nenhum} :
        fatura[f].estado = "INEXISTENTE" /\ Inserir(f, s, t, ref, Nenhum)
InsereComProposta ==
    \E f \in Faturas, s \in Series, t \in Nat, q \in Propostas \cup {Nenhum} :
        /\ fatura[f].estado = "INEXISTENTE" /\ Inserir(f, s, t, Nenhum, q)
        /\ \A g \in Faturas : fatura[g].proposta # q

LEMMA EfeitoNasFaturas ==
    ASSUME TypeOK, [Next]_vars
    PROVE  \/ UNCHANGED fatura
           \/ InsereSemProposta \/ InsereComProposta
           \/ \E p \in Pedidos : \/ UpdateGravar(p) \/ MarcarComunicada(p)
                                 \/ AnularGravar(p) \/ GravarEmissao(p)
<1>1. ASSUME NEW f \in Faturas, NEW s \in Series, NEW t \in Totais, Create(f, s, t)
      PROVE  InsereSemProposta
    BY <1>1, TotaisAssumption DEF Create, InsereSemProposta
<1>2. ASSUME NEW p \in Pedidos, FaturarPropostaCriar(p)
      PROVE  UNCHANGED fatura \/ InsereComProposta
  <2>1. pedido[p].s \in Series /\ pedido[p].total \in Nat /\ pedido[p].q \in Propostas \cup {Nenhum}
    BY DEF TypeOK, PedidoRow
  <2> QED BY <1>2, <2>1 DEF FaturarPropostaCriar, InsereComProposta
<1>3. ASSUME NEW p \in Pedidos, NotaCreditoCriar(p)
      PROVE  InsereSemProposta
  <2>1. /\ pedido[p].s \in Series /\ pedido[p].total \in Nat
        /\ pedido[p].f \in Faturas \cup {Nenhum}
    BY DEF TypeOK, PedidoRow
  <2> QED BY <1>3, <2>1 DEF NotaCreditoCriar, InsereSemProposta
<1>4. ASSUME NEW p \in Pedidos, Passo(p)
      PROVE  \/ UNCHANGED fatura
             \/ FaturarPropostaCriar(p) \/ NotaCreditoCriar(p) \/ UpdateGravar(p)
             \/ MarcarComunicada(p) \/ AnularGravar(p) \/ GravarEmissao(p)
    BY <1>4 DEF Passo, EnsureSerieComunicadaAt, LerSerie, LerAnterior, GravarProximoNumero,
                ComunicarAutomatica, AtRegistarDocumento, RegistarComunicacao, AtAnularDocumento,
                AnularResposta, NotaCreditoProcurar, AtRegistarSerie, GravarSerieAt,
                UpdateSerieGravar, UpdateConfigGravar
<1>5. ASSUME NEW p \in Pedidos, Chamada(p)
      PROVE  UNCHANGED fatura
    BY <1>5 DEF Chamada, FaturarPropostaLer, UpdateLer, EmitirLer, ComunicarAt, ReenviarAt, AnularLer,
                NotaCreditoLer, ComunicarSerieAt, UpdateSerieLer, UpdateConfigLer
<1>6. ASSUME NEW p \in Pedidos, Interromper(p)
      PROVE  UNCHANGED fatura
    BY <1>6 DEF Interromper
<1> QED BY <1>1, <1>2, <1>3, <1>4, <1>5, <1>6 DEF Next, vars

(* The insertion of f changes its estado, proposal and the rest of the     *)
(* draft, not its number or code.                                          *)
LEMMA EfeitoDeInserir ==
    ASSUME TypeOK, NEW f \in Faturas, NEW s \in Series, NEW t \in Nat,
           NEW ref \in Faturas \cup {Nenhum}, NEW q \in Propostas \cup {Nenhum},
           Inserir(f, s, t, ref, q)
    PROVE  /\ \A g \in Faturas \ {f} : fatura'[g] = fatura[g]
           /\ fatura'[f].proposta = q /\ fatura'[f].codigo = fatura[f].codigo
           /\ fatura'[f].estado = "RASCUNHO"
BY DEF Inserir, TypeOK, FaturaRow

-----------------------------------------------------------------------------
(* Proposals *)

LEMMA PropostaSegue ==
    ASSUME TypeOK, PropostaUmaFatura, [Next]_vars
    PROVE  PropostaUmaFatura'
<1>a. \A g \in Faturas : fatura[g] \in FaturaRow
    BY DEF TypeOK
<1>b. ASSUME \A g \in Faturas : fatura'[g].proposta = fatura[g].proposta
      PROVE  PropostaUmaFatura'
    BY <1>b DEF PropostaUmaFatura
<1>1. CASE UNCHANGED fatura
    BY <1>1, <1>b
<1>2. CASE InsereSemProposta
  <2>1. PICK f \in Faturas, s \in Series, t \in Nat, ref \in Faturas \cup {Nenhum} :
           Inserir(f, s, t, ref, Nenhum)
    BY <1>2 DEF InsereSemProposta
  <2>2. fatura'[f].proposta = Nenhum /\ \A g \in Faturas \ {f} : fatura'[g] = fatura[g]
    BY <2>1, EfeitoDeInserir
  <2> QED BY <2>2 DEF PropostaUmaFatura
<1>3. CASE InsereComProposta
  <2>1. PICK f \in Faturas, s \in Series, t \in Nat, q \in Propostas \cup {Nenhum} :
           Inserir(f, s, t, Nenhum, q) /\ \A g \in Faturas : fatura[g].proposta # q
    BY <1>3 DEF InsereComProposta
  <2>2. fatura'[f].proposta = q /\ \A g \in Faturas \ {f} : fatura'[g] = fatura[g]
    BY <2>1, EfeitoDeInserir
  <2> QED BY <2>1, <2>2 DEF PropostaUmaFatura
<1>4. ASSUME NEW p \in Pedidos, UpdateGravar(p)
      PROVE  \A g \in Faturas : fatura'[g].proposta = fatura[g].proposta
    BY <1>a, <1>4 DEF UpdateGravar, TypeOK, FaturaRow
<1>5. ASSUME NEW p \in Pedidos, MarcarComunicada(p) \/ AnularGravar(p)
      PROVE  \A g \in Faturas : fatura'[g].proposta = fatura[g].proposta
    BY <1>a, <1>5 DEF MarcarComunicada, AnularGravar, TypeOK, FaturaRow
<1>6. ASSUME NEW p \in Pedidos, GravarEmissao(p)
      PROVE  \A g \in Faturas : fatura'[g].proposta = fatura[g].proposta
    BY <1>a, <1>6 DEF GravarEmissao, TypeOK, FaturaRow
<1> QED BY <1>b, <1>1, <1>2, <1>3, <1>4, <1>5, <1>6, EfeitoNasFaturas

(* createFromProposta: a proposal is invoiced once, however many requests  *)
(* invoice it.                                                             *)
THEOREM PropostaCorrecta == Spec => []PropostaUmaFatura
<1>1. Init => PropostaUmaFatura
    BY DEF Init, PropostaUmaFatura
<1>2. TypeOK /\ PropostaUmaFatura /\ [Next]_vars => PropostaUmaFatura'
    BY PropostaSegue
<1> QED BY <1>1, <1>2, TypeCorrect, PTL DEF Spec

-----------------------------------------------------------------------------
(* The licence *)

(* A configuration about to be written is active only with the licence.    *)
ConfigEmCurso(p) ==
    Em(p, "config.gravar") => (pedido[p].config.ativa => pedido[p].config.licenca)
LicencaInv == AtivaComLicenca /\ \A p \in Pedidos : ConfigEmCurso(p)

(* Only p moves, and not to the update of the configuration.               *)
SegueLonge(p) ==
    /\ config' = config
    /\ \A x \in Pedidos \ {p} : pedido'[x] = pedido[x]
    /\ pedido'[p].pc # "config.gravar"

LEMMA LongeMantem ==
    ASSUME LicencaInv, NEW p \in Pedidos, SegueLonge(p)
    PROVE  LicencaInv'
BY DEF LicencaInv, AtivaComLicenca, ConfigEmCurso, Em, SegueLonge

LEMMA TerminaLonge ==
    ASSUME TypeOK, NEW p \in Pedidos, Termina(p), config' = config
    PROVE  SegueLonge(p)
BY LivreTipo DEF Termina, Segue, SegueLonge, TypeOK

(* Going on with the local variables the request has.                      *)
LEMMA PassaLonge ==
    ASSUME TypeOK, NEW p \in Pedidos, NEW r, Segue(p, r), r.pc # "config.gravar", config' = config
    PROVE  SegueLonge(p)
BY DEF Segue, SegueLonge, TypeOK

(* Every first step but that of applyConfigUpdate.                         *)
LEMMA ChamadaLonge ==
    ASSUME TypeOK, NEW p \in Pedidos, Chamada(p), ~\E c \in ConfigRow : UpdateConfigLer(p, c)
    PROVE  SegueLonge(p)
<1> USE LivreTipo DEF Segue, SegueLonge, TypeOK, PedidoRow
<1>1. ASSUME NEW q \in Propostas, NEW s \in SeriesFT, NEW t \in Totais, FaturarPropostaLer(p, q, s, t)
      PROVE  SegueLonge(p)
    BY <1>1 DEF FaturarPropostaLer
<1>2. ASSUME NEW f \in Faturas, NEW t \in Totais, UpdateLer(p, f, t)
      PROVE  SegueLonge(p)
    BY <1>2 DEF UpdateLer
<1>3. ASSUME NEW f \in Faturas, EmitirLer(p, f)
      PROVE  SegueLonge(p)
    BY <1>3 DEF EmitirLer
<1>4. ASSUME NEW f \in Faturas, ComunicarAt(p, f)
      PROVE  SegueLonge(p)
    BY <1>4 DEF ComunicarAt, ComDocumento
<1>5. ASSUME NEW f \in Faturas, ReenviarAt(p, f)
      PROVE  SegueLonge(p)
    BY <1>5 DEF ReenviarAt, ComDocumento
<1>6. ASSUME NEW f \in Faturas, AnularLer(p, f)
      PROVE  SegueLonge(p)
    BY <1>6 DEF AnularLer
<1>7. ASSUME NEW f \in Faturas, NotaCreditoLer(p, f)
      PROVE  SegueLonge(p)
    BY <1>7 DEF NotaCreditoLer
<1>8. ASSUME NEW s \in Series, ComunicarSerieAt(p, s)
      PROVE  SegueLonge(p)
    BY <1>8 DEF ComunicarSerieAt
<1>9. ASSUME NEW s \in Series, NEW presente \in BOOLEAN,
             NEW c \in Codigos \cup {Nenhum}, UpdateSerieLer(p, s, presente, c)
      PROVE  SegueLonge(p)
    BY <1>9 DEF UpdateSerieLer
<1> QED BY <1>1, <1>2, <1>3, <1>4, <1>5, <1>6, <1>7, <1>8, <1>9 DEF Chamada

(* Every later step but that of applyConfigUpdate.                         *)
LEMMA PassoLonge ==
    ASSUME TypeOK, NEW p \in Pedidos, Passo(p), ~UpdateConfigGravar(p)
    PROVE  SegueLonge(p)
<1>a. pedido[p] \in PedidoRow
    BY DEF TypeOK
<1>1. ASSUME FaturarPropostaCriar(p) \/ UpdateGravar(p) \/ RegistarComunicacao(p)
             \/ AnularGravar(p) \/ NotaCreditoCriar(p) \/ UpdateSerieGravar(p)
      PROVE  SegueLonge(p)
    BY <1>1, TerminaLonge
    DEF FaturarPropostaCriar, UpdateGravar, RegistarComunicacao, AnularGravar, NotaCreditoCriar,
        UpdateSerieGravar
<1>2. CASE EnsureSerieComunicadaAt(p)
  <2>1. config' = config /\ \E n : \/ Segue(p, [pedido[p] EXCEPT !.pc = "emitir.ler"])
                                    \/ Segue(p, [pedido[p] EXCEPT !.pc = "serie.at", !.numero = n])
    BY <1>2 DEF EnsureSerieComunicadaAt
  <2>2. /\ [pedido[p] EXCEPT !.pc = "emitir.ler"].pc = "emitir.ler"
        /\ \A n : [pedido[p] EXCEPT !.pc = "serie.at", !.numero = n].pc = "serie.at"
    BY <1>a DEF PedidoRow
  <2> QED BY <2>1, <2>2, PassaLonge
<1>3. CASE LerSerie(p)
  <2>1. /\ config' = config
        /\ \/ Termina(p)
           \/ \E n, c : Segue(p, [pedido[p] EXCEPT !.pc = "emitir.anterior", !.numero = n, !.codigo = c])
    BY <1>3 DEF LerSerie
  <2>2. \A n, c : [pedido[p] EXCEPT !.pc = "emitir.anterior", !.numero = n, !.codigo = c].pc
                    = "emitir.anterior"
    BY <1>a DEF PedidoRow
  <2> QED BY <2>1, <2>2, PassaLonge, TerminaLonge
<1>4. CASE LerAnterior(p)
    BY <1>a, <1>4, TerminaLonge DEF LerAnterior, Segue, SegueLonge, TypeOK, PedidoRow
<1>5. CASE GravarProximoNumero(p)
    BY <1>a, <1>5, TerminaLonge DEF GravarProximoNumero, Segue, SegueLonge, TypeOK, PedidoRow
<1>6. CASE GravarEmissao(p)
    BY <1>a, <1>6, TerminaLonge DEF GravarEmissao, Segue, SegueLonge, TypeOK, PedidoRow
<1>7. CASE ComunicarAutomatica(p)
  <2>1. config' = config
    BY <1>7 DEF ComunicarAutomatica
  <2>2. ASSUME Segue(p, ComDocumento(pedido[p].f, TRUE))
        PROVE  SegueLonge(p)
    <3>1. ComDocumento(pedido[p].f, TRUE).pc = "com.at"
      BY LivreTipo DEF ComDocumento, PedidoRow
    <3> QED BY <2>1, <2>2, <3>1 DEF Segue, SegueLonge, TypeOK
  <2> QED BY <1>7, <2>1, <2>2, TerminaLonge DEF ComunicarAutomatica
<1>8. CASE AtRegistarDocumento(p)
  <2>1. PICK ok \in BOOLEAN : Segue(p, [pedido[p] EXCEPT !.pc = "com.gravar", !.ok = ok])
    BY <1>8 DEF AtRegistarDocumento
  <2>2. config' = config
    BY <1>8 DEF AtRegistarDocumento
  <2> QED BY <1>a, <2>1, <2>2 DEF Segue, SegueLonge, TypeOK, PedidoRow
<1>9. CASE MarcarComunicada(p)
    BY <1>a, <1>9, TerminaLonge DEF MarcarComunicada, Segue, SegueLonge, TypeOK, PedidoRow
<1>10. CASE AtAnularDocumento(p)
  <2>1. PICK ok \in BOOLEAN : Segue(p, [pedido[p] EXCEPT !.pc = "anular.resposta", !.ok = ok])
    BY <1>10 DEF AtAnularDocumento
  <2>2. config' = config
    BY <1>10 DEF AtAnularDocumento
  <2> QED BY <1>a, <2>1, <2>2 DEF Segue, SegueLonge, TypeOK, PedidoRow
<1>11. CASE AnularResposta(p)
    BY <1>a, <1>11, TerminaLonge DEF AnularResposta, Segue, SegueLonge, TypeOK, PedidoRow
<1>12. CASE NotaCreditoProcurar(p)
    BY <1>a, <1>12, TerminaLonge DEF NotaCreditoProcurar, Segue, SegueLonge, TypeOK, PedidoRow
<1>13. CASE AtRegistarSerie(p)
    BY <1>a, <1>13, TerminaLonge DEF AtRegistarSerie, Segue, SegueLonge, TypeOK, PedidoRow
<1>14. CASE GravarSerieAt(p)
    BY <1>a, <1>14, TerminaLonge DEF GravarSerieAt, Segue, SegueLonge, TypeOK, PedidoRow
<1> QED BY <1>1, <1>2, <1>3, <1>4, <1>5, <1>6, <1>7, <1>8, <1>9, <1>10, <1>11, <1>12, <1>13,
           <1>14 DEF Passo

LEMMA LicencaSegue ==
    ASSUME TypeOK, LicencaInv, [Next]_vars
    PROVE  LicencaInv'
<1>1. ASSUME NEW f \in Faturas, NEW s \in Series, NEW t \in Totais, Create(f, s, t)
      PROVE  LicencaInv'
    BY <1>1 DEF Create, LicencaInv, AtivaComLicenca, ConfigEmCurso, Em
<1>2. ASSUME NEW p \in Pedidos, NEW c \in ConfigRow, UpdateConfigLer(p, c)
      PROVE  LicencaInv'
  <2>1. pedido' = [pedido EXCEPT ![p] = [Livre EXCEPT !.pc = "config.gravar", !.config = c]]
    BY <1>2 DEF UpdateConfigLer, Segue
  <2>2. /\ \A x \in Pedidos \ {p} : pedido'[x] = pedido[x]
        /\ pedido'[p].config = c /\ config' = config /\ (c.ativa => c.licenca)
    BY <1>2, <2>1, LivreTipo DEF UpdateConfigLer, TypeOK, PedidoRow
  <2> QED BY <2>2 DEF LicencaInv, AtivaComLicenca, ConfigEmCurso, Em
<1>3. ASSUME NEW p \in Pedidos, UpdateConfigGravar(p)
      PROVE  LicencaInv'
  <2>1. config' = pedido[p].config /\ (pedido[p].config.ativa => pedido[p].config.licenca)
    BY <1>3 DEF UpdateConfigGravar, LicencaInv, ConfigEmCurso
  <2>2. \A x \in Pedidos : pedido'[x] = pedido[x] \/ pedido'[x].pc # "config.gravar"
    BY <1>3, LivreTipo DEF UpdateConfigGravar, Termina, Segue, TypeOK
  <2> QED BY <2>1, <2>2 DEF LicencaInv, AtivaComLicenca, ConfigEmCurso, Em
<1>4. ASSUME NEW p \in Pedidos, Chamada(p) \/ Passo(p) \/ Interromper(p),
             ~UpdateConfigGravar(p), ~\E c \in ConfigRow : UpdateConfigLer(p, c)
      PROVE  LicencaInv'
    BY <1>4, ChamadaLonge, PassoLonge, TerminaLonge, LongeMantem DEF Interromper
<1>5. CASE UNCHANGED vars
    BY <1>5 DEF vars, LicencaInv, AtivaComLicenca, ConfigEmCurso, Em
<1> QED BY <1>1, <1>2, <1>3, <1>4, <1>5 DEF Next

(* applyConfigUpdate: communication is never active without the licence,   *)
(* however many updates overwrite each other.                              *)
THEOREM LicencaCorrecta == Spec => []AtivaComLicenca
<1>1. Init => LicencaInv
    BY LivreTipo DEF Init, LicencaInv, AtivaComLicenca, ConfigEmCurso, Em
<1>2. TypeOK /\ LicencaInv /\ [Next]_vars => LicencaInv'
    BY LicencaSegue
<1>3. LicencaInv => AtivaComLicenca
    BY DEF LicencaInv
<1> QED BY <1>1, <1>2, <1>3, TypeCorrect, PTL DEF Spec

-----------------------------------------------------------------------------
(* The validation code *)

PassosComCodigo == {"emitir.anterior", "emitir.gravarSerie", "emitir.gravarFatura"}

(* An emission past the read of its series holds a code, whatever the      *)
(* series has now; a request that talks to AT does it about a document     *)
(* that has one.                                                           *)
ComCodigo(p) ==
    LET r == pedido[p] IN
    /\ r.pc \in PassosComCodigo => r.codigo # Nenhum
    /\ r.pc \in PassosDocumento /\ r.f \in Faturas => fatura[r.f].codigo # Nenhum
AtcudInv == EmitidaComAtcud /\ \A p \in Pedidos : ComCodigo(p)

(* A code is never lost, and a document that is emitted has one.           *)
CodigosFicam ==
    \A f \in Faturas : /\ fatura[f].codigo # Nenhum => fatura'[f].codigo # Nenhum
                       /\ Emitida(f)' => fatura'[f].codigo # Nenhum

LEMMA CodigosFicamSempre ==
    ASSUME TypeOK, AtcudInv, [Next]_vars
    PROVE  CodigosFicam
<1>a. \A g \in Faturas : fatura[g] \in FaturaRow
    BY DEF TypeOK
<1>b. \A f \in Faturas : Emitida(f) => fatura[f].codigo # Nenhum
    BY DEF AtcudInv, EmitidaComAtcud
<1>1. CASE UNCHANGED fatura
    BY <1>1, <1>b DEF CodigosFicam, Emitida, EmVigor
<1>2. ASSUME NEW f \in Faturas, NEW s \in Series, NEW t \in Nat, NEW ref \in Faturas \cup {Nenhum},
             NEW q \in Propostas \cup {Nenhum}, Inserir(f, s, t, ref, q)
      PROVE  CodigosFicam
    BY <1>2, <1>b, EfeitoDeInserir DEF CodigosFicam, Emitida, EmVigor
<1>3. ASSUME NEW p \in Pedidos, UpdateGravar(p)
      PROVE  CodigosFicam
  <2>1. \A f \in Faturas : fatura'[f].codigo = fatura[f].codigo /\ fatura'[f].estado = fatura[f].estado
    BY <1>a, <1>3 DEF UpdateGravar, TypeOK, FaturaRow
  <2> QED BY <2>1, <1>b DEF CodigosFicam, Emitida, EmVigor
<1>4. ASSUME NEW p \in Pedidos, MarcarComunicada(p) \/ AnularGravar(p)
      PROVE  CodigosFicam
  <2>1. \A f \in Faturas : fatura'[f].codigo = fatura[f].codigo
    BY <1>a, <1>4 DEF MarcarComunicada, AnularGravar, TypeOK, FaturaRow
  <2>2. \A f \in Faturas \ {pedido[p].f} : fatura'[f] = fatura[f]
    BY <1>4 DEF MarcarComunicada, AnularGravar, TypeOK
  <2>3. pedido[p].pc \in PassosDocumento
    BY <1>4 DEF MarcarComunicada, AnularGravar, Em, PassosDocumento
  <2>4. pedido[p].f \in Faturas => fatura[pedido[p].f].codigo # Nenhum
    BY <2>3 DEF AtcudInv, ComCodigo
  <2> QED BY <2>1, <2>2, <2>4, <1>b DEF CodigosFicam, Emitida, EmVigor
<1>5. ASSUME NEW p \in Pedidos, GravarEmissao(p)
      PROVE  CodigosFicam
  <2>1. pedido[p].codigo # Nenhum
    BY <1>5 DEF GravarEmissao, Em, AtcudInv, ComCodigo, PassosComCodigo
  <2>2. \A f \in Faturas \ {pedido[p].f} : fatura'[f] = fatura[f]
    BY <1>5 DEF GravarEmissao, TypeOK
  <2>3. pedido[p].f \in Faturas => fatura'[pedido[p].f].codigo = pedido[p].codigo
    BY <1>a, <1>5 DEF GravarEmissao, TypeOK, FaturaRow
  <2> QED BY <2>1, <2>2, <2>3, <1>b DEF CodigosFicam, Emitida, EmVigor
<1> QED BY <1>1, <1>2, <1>3, <1>4, <1>5, EfeitoNasFaturas DEF InsereSemProposta, InsereComProposta

(* Only p moves, and ComCodigo holds of it.                                *)
SegueComCodigo(p) ==
    /\ \A x \in Pedidos \ {p} : pedido'[x] = pedido[x]
    /\ ComCodigo(p)'

LEMMA SegueMantemCodigo ==
    ASSUME AtcudInv, CodigosFicam, NEW p \in Pedidos, SegueComCodigo(p)
    PROVE  AtcudInv'
BY DEF AtcudInv, EmitidaComAtcud, ComCodigo, CodigosFicam, SegueComCodigo

LEMMA ForaMantemCodigo ==
    ASSUME TypeOK, NEW p \in Pedidos, NEW r, Segue(p, r), r.pc \notin PassosComCodigo \cup PassosDocumento
    PROVE  SegueComCodigo(p)
BY DEF Segue, SegueComCodigo, ComCodigo, TypeOK

LEMMA TerminaMantemCodigo ==
    ASSUME TypeOK, NEW p \in Pedidos, Termina(p)
    PROVE  SegueComCodigo(p)
BY ForaMantemCodigo, LivreTipo DEF Termina, PassosComCodigo, PassosDocumento

LEMMA ChamadaComCodigo ==
    ASSUME TypeOK, AtcudInv, NEW p \in Pedidos, Chamada(p)
    PROVE  SegueComCodigo(p)
<1>a. fatura' = fatura
    BY DEF Chamada, FaturarPropostaLer, UpdateLer, EmitirLer, ComunicarAt, ReenviarAt, AnularLer,
           NotaCreditoLer, ComunicarSerieAt, UpdateSerieLer, UpdateConfigLer
<1>b. \A f \in Faturas : EmVigor(f) => fatura[f].codigo # Nenhum
    BY DEF AtcudInv, EmitidaComAtcud, Emitida
<1> USE LivreTipo DEF Segue, PedidoRow, PassosComCodigo, PassosDocumento
<1>1. ASSUME NEW q \in Propostas, NEW s \in SeriesFT, NEW t \in Totais, FaturarPropostaLer(p, q, s, t)
      PROVE  SegueComCodigo(p)
    BY <1>1 DEF FaturarPropostaLer, SegueComCodigo, ComCodigo, TypeOK
<1>2. ASSUME NEW f \in Faturas, NEW t \in Totais, UpdateLer(p, f, t)
      PROVE  SegueComCodigo(p)
    BY <1>2 DEF UpdateLer, SegueComCodigo, ComCodigo, TypeOK
<1>3. ASSUME NEW f \in Faturas, EmitirLer(p, f)
      PROVE  SegueComCodigo(p)
    BY <1>3 DEF EmitirLer, SegueComCodigo, ComCodigo, TypeOK
<1>4. ASSUME NEW f \in Faturas, NotaCreditoLer(p, f)
      PROVE  SegueComCodigo(p)
    BY <1>4 DEF NotaCreditoLer, SegueComCodigo, ComCodigo, TypeOK
<1>5. ASSUME NEW s \in Series, ComunicarSerieAt(p, s)
      PROVE  SegueComCodigo(p)
    BY <1>5 DEF ComunicarSerieAt, SegueComCodigo, ComCodigo, TypeOK
<1>6. ASSUME NEW s \in Series, NEW presente \in BOOLEAN,
             NEW c \in Codigos \cup {Nenhum}, UpdateSerieLer(p, s, presente, c)
      PROVE  SegueComCodigo(p)
    BY <1>6 DEF UpdateSerieLer, SegueComCodigo, ComCodigo, TypeOK
<1>7. ASSUME NEW c \in ConfigRow, UpdateConfigLer(p, c)
      PROVE  SegueComCodigo(p)
    BY <1>7 DEF UpdateConfigLer, SegueComCodigo, ComCodigo, TypeOK
<1>8. ASSUME NEW f \in Faturas, ComunicarAt(p, f) \/ ReenviarAt(p, f)
      PROVE  SegueComCodigo(p)
  <2>1. PICK m \in BOOLEAN : Segue(p, ComDocumento(f, m))
    BY <1>8 DEF ComunicarAt, ReenviarAt
  <2>2. ComDocumento(f, m).pc = "com.at" /\ ComDocumento(f, m).f = f
    BY DEF ComDocumento
  <2>3. fatura[f].codigo # Nenhum
    BY <1>b, <1>8 DEF ComunicarAt, ReenviarAt
  <2> QED BY <1>a, <2>1, <2>2, <2>3 DEF SegueComCodigo, ComCodigo, TypeOK
<1>9. ASSUME NEW f \in Faturas, AnularLer(p, f)
      PROVE  SegueComCodigo(p)
  <2>1. pedido'[p].f = f /\ \A x \in Pedidos \ {p} : pedido'[x] = pedido[x]
    BY <1>9 DEF AnularLer, TypeOK
  <2>2. pedido'[p].pc \notin PassosComCodigo
    BY <1>9 DEF AnularLer, TypeOK
  <2>3. fatura[f].codigo # Nenhum
    BY <1>b, <1>9 DEF AnularLer
  <2> QED BY <1>a, <2>1, <2>2, <2>3 DEF SegueComCodigo, ComCodigo
<1> QED BY <1>1, <1>2, <1>3, <1>4, <1>5, <1>6, <1>7, <1>8, <1>9 DEF Chamada

LEMMA PassoComCodigo ==
    ASSUME TypeOK, AtcudInv, CodigosFicam, NEW p \in Pedidos, Passo(p)
    PROVE  SegueComCodigo(p)
<1>a. pedido[p] \in PedidoRow /\ ComCodigo(p)
    BY DEF TypeOK, AtcudInv
<1>b. ASSUME NEW r, Segue(p, r), r.codigo = pedido[p].codigo, r.f = pedido[p].f,
             r.pc \in PassosComCodigo => pedido[p].pc \in PassosComCodigo,
             r.pc \in PassosDocumento => pedido[p].pc \in PassosDocumento
      PROVE  SegueComCodigo(p)
    BY <1>a, <1>b DEF Segue, SegueComCodigo, ComCodigo, CodigosFicam, TypeOK
<1> USE DEF PassosComCodigo, PassosDocumento
<1>1. ASSUME FaturarPropostaCriar(p) \/ UpdateGravar(p) \/ RegistarComunicacao(p)
             \/ AnularGravar(p) \/ NotaCreditoCriar(p) \/ UpdateSerieGravar(p)
             \/ UpdateConfigGravar(p)
      PROVE  SegueComCodigo(p)
    BY <1>1, TerminaMantemCodigo
    DEF FaturarPropostaCriar, UpdateGravar, RegistarComunicacao, AnularGravar, NotaCreditoCriar,
        UpdateSerieGravar, UpdateConfigGravar
<1>2. CASE EnsureSerieComunicadaAt(p)
  <2>1. ASSUME NEW n, Segue(p, [pedido[p] EXCEPT !.pc = "serie.at", !.numero = n])
        PROVE  SegueComCodigo(p)
    BY <1>a, <2>1 DEF Segue, SegueComCodigo, ComCodigo, TypeOK, PedidoRow
  <2>2. ASSUME Segue(p, [pedido[p] EXCEPT !.pc = "emitir.ler"])
        PROVE  SegueComCodigo(p)
    BY <1>a, <2>2 DEF Segue, SegueComCodigo, ComCodigo, TypeOK, PedidoRow
  <2> QED BY <1>2, <2>1, <2>2 DEF EnsureSerieComunicadaAt
<1>3. CASE LerSerie(p)
  <2>1. ASSUME NEW n, NEW c, c # Nenhum,
               Segue(p, [pedido[p] EXCEPT !.pc = "emitir.anterior", !.numero = n, !.codigo = c])
        PROVE  SegueComCodigo(p)
    BY <1>a, <2>1 DEF Segue, SegueComCodigo, ComCodigo, TypeOK, PedidoRow
  <2>2. \/ Termina(p)
        \/ /\ serie[pedido[p].s].codigo # Nenhum
           /\ Segue(p, [pedido[p] EXCEPT !.pc = "emitir.anterior",
                                         !.numero = serie[pedido[p].s].proximoNumero,
                                         !.codigo = serie[pedido[p].s].codigo])
    BY <1>3 DEF LerSerie
  <2> QED BY <2>1, <2>2, TerminaMantemCodigo
<1>4. CASE NotaCreditoProcurar(p)
    BY <1>a, <1>4, TerminaMantemCodigo
    DEF NotaCreditoProcurar, Segue, SegueComCodigo, ComCodigo, TypeOK, PedidoRow
<1>5. CASE AtRegistarSerie(p)
    BY <1>a, <1>5, TerminaMantemCodigo
    DEF AtRegistarSerie, Segue, SegueComCodigo, ComCodigo, TypeOK, PedidoRow
<1>6. CASE GravarSerieAt(p)
    BY <1>a, <1>6, TerminaMantemCodigo
    DEF GravarSerieAt, Segue, SegueComCodigo, ComCodigo, TypeOK, PedidoRow
<1>7. CASE LerAnterior(p)
  <2>1. PICK n \in NumerosEmitidos(pedido[p].s, pedido[p].f) \cup {0} :
           Segue(p, [pedido[p] EXCEPT !.pc = "emitir.gravarSerie", !.anterior = n])
    BY <1>7 DEF LerAnterior
  <2>2. pedido[p].pc = "emitir.anterior"
    BY <1>7 DEF LerAnterior, Em
  <2> QED BY <1>a, <1>b, <2>1, <2>2 DEF PedidoRow
<1>8. CASE GravarProximoNumero(p)
  <2>1. Segue(p, [pedido[p] EXCEPT !.pc = "emitir.gravarFatura"])
    BY <1>8 DEF GravarProximoNumero
  <2>2. pedido[p].pc = "emitir.gravarSerie"
    BY <1>8 DEF GravarProximoNumero, Em
  <2> QED BY <1>a, <1>b, <2>1, <2>2 DEF PedidoRow
<1>9. CASE AtRegistarDocumento(p)
  <2>1. PICK ok \in BOOLEAN : Segue(p, [pedido[p] EXCEPT !.pc = "com.gravar", !.ok = ok])
    BY <1>9 DEF AtRegistarDocumento
  <2>2. pedido[p].pc = "com.at"
    BY <1>9 DEF AtRegistarDocumento, Em
  <2> QED BY <1>a, <1>b, <2>1, <2>2 DEF PedidoRow
<1>10. CASE MarcarComunicada(p)
  <2>1. Segue(p, [pedido[p] EXCEPT !.pc = "com.log"])
    BY <1>10 DEF MarcarComunicada
  <2>2. pedido[p].pc = "com.gravar"
    BY <1>10 DEF MarcarComunicada, Em
  <2> QED BY <1>a, <1>b, <2>1, <2>2 DEF PedidoRow
<1>11. CASE AtAnularDocumento(p)
  <2>1. PICK ok \in BOOLEAN : Segue(p, [pedido[p] EXCEPT !.pc = "anular.resposta", !.ok = ok])
    BY <1>11 DEF AtAnularDocumento
  <2>2. pedido[p].pc = "anular.at"
    BY <1>11 DEF AtAnularDocumento, Em
  <2> QED BY <1>a, <1>b, <2>1, <2>2 DEF PedidoRow
<1>12. CASE AnularResposta(p)
  <2>1. ASSUME Segue(p, [pedido[p] EXCEPT !.pc = "anular.gravar"])
        PROVE  SegueComCodigo(p)
    <3>1. pedido[p].pc = "anular.resposta"
      BY <1>12 DEF AnularResposta, Em
    <3> QED BY <1>a, <1>b, <2>1, <3>1 DEF PedidoRow
  <2> QED BY <1>12, <2>1, TerminaMantemCodigo DEF AnularResposta
<1>13. CASE GravarEmissao(p)
  <2>1. ASSUME Segue(p, [pedido[p] EXCEPT !.pc = "emitir.auto"])
        PROVE  SegueComCodigo(p)
    <3>1. pedido'[p].pc = "emitir.auto" /\ pedido'[p].f = pedido[p].f
      BY <1>a, <2>1 DEF Segue, TypeOK, PedidoRow
    <3>2. pedido[p].codigo # Nenhum
      BY <1>a, <1>13 DEF GravarEmissao, Em, ComCodigo
    <3>3. pedido[p].f \in Faturas => fatura'[pedido[p].f].codigo = pedido[p].codigo
      BY <1>13 DEF GravarEmissao, TypeOK, FaturaRow
    <3> QED BY <2>1, <3>1, <3>2, <3>3 DEF Segue, SegueComCodigo, ComCodigo, TypeOK
  <2> QED BY <1>13, <2>1, TerminaMantemCodigo DEF GravarEmissao
<1>14. CASE ComunicarAutomatica(p)
  <2>1. ASSUME Segue(p, ComDocumento(pedido[p].f, TRUE))
        PROVE  SegueComCodigo(p)
    <3>1. /\ ComDocumento(pedido[p].f, TRUE).pc = "com.at"
          /\ ComDocumento(pedido[p].f, TRUE).f = pedido[p].f
      BY LivreTipo DEF ComDocumento, PedidoRow
    <3>2. pedido[p].pc = "emitir.auto"
      BY <1>14 DEF ComunicarAutomatica, Em
    <3>3. pedido[p].f \in Faturas => fatura'[pedido[p].f].codigo # Nenhum
      BY <1>a, <3>2 DEF ComCodigo, CodigosFicam
    <3> QED BY <2>1, <3>1, <3>3 DEF Segue, SegueComCodigo, ComCodigo, TypeOK
  <2> QED BY <1>14, <2>1, TerminaMantemCodigo DEF ComunicarAutomatica
<1> QED BY <1>1, <1>2, <1>3, <1>4, <1>5, <1>6, <1>7, <1>8, <1>9, <1>10, <1>11, <1>12, <1>13,
           <1>14 DEF Passo

LEMMA AtcudSegue ==
    ASSUME TypeOK, AtcudInv, [Next]_vars
    PROVE  AtcudInv'
<1>1. CodigosFicam
    BY CodigosFicamSempre
<1>2. ASSUME NEW p \in Pedidos, Chamada(p) \/ Passo(p) \/ Interromper(p)
      PROVE  AtcudInv'
    BY <1>1, <1>2, ChamadaComCodigo, PassoComCodigo, TerminaMantemCodigo, SegueMantemCodigo
    DEF Interromper
<1>3. CASE UNCHANGED pedido
    BY <1>1, <1>3 DEF AtcudInv, EmitidaComAtcud, ComCodigo, CodigosFicam
<1> QED BY <1>2, <1>3 DEF Next, Create, vars

(* emitir: every emitted document has a validation code, although another  *)
(* request may clear the code of the series while it is emitted.           *)
THEOREM AtcudCorrecto == Spec => []EmitidaComAtcud
<1>1. Init => AtcudInv
    BY LivreTipo DEF Init, AtcudInv, EmitidaComAtcud, Emitida, EmVigor, ComCodigo,
                     PassosComCodigo, PassosDocumento
<1>2. TypeOK /\ AtcudInv /\ [Next]_vars => AtcudInv'
    BY AtcudSegue
<1>3. AtcudInv => EmitidaComAtcud
    BY DEF AtcudInv
<1> QED BY <1>1, <1>2, <1>3, TypeCorrect, PTL DEF Spec
-----------------------------------------------------------------------------
(***************************************************************************)
(* What a step does to its request and to a row.                           *)
(***************************************************************************)

(* The first await of a handler, and what its call read.                   *)
PassosIniciais ==
    {"proposta.criar", "update.gravar", "emitir.serie", "com.at", "anular.at", "anular.gravar",
     "nc.procurar", "serie.at", "updateSerie.gravar", "config.gravar"}
Comeca(p) ==
    /\ pedido'[p].pc \in PassosIniciais
    /\ pedido'[p].pc = "update.gravar" =>
          /\ "update" \in Operacoes[p]
          /\ pedido'[p].f \in Faturas /\ fatura[pedido'[p].f].estado = "RASCUNHO"
    /\ pedido'[p].pc = "emitir.serie" =>
          /\ "emitir" \in Operacoes[p]
          /\ pedido'[p].f \in Faturas /\ fatura[pedido'[p].f].estado = "RASCUNHO"
          /\ pedido'[p].total = fatura[pedido'[p].f].total
    /\ pedido'[p].pc = "com.at" =>
          /\ "comunicarAt" \in Operacoes[p] \/ "reenviarAt" \in Operacoes[p]
          /\ pedido'[p].f \in Faturas /\ EmVigor(pedido'[p].f)
    /\ pedido'[p].pc \in {"anular.at", "anular.gravar"} => "anular" \in Operacoes[p]
    /\ pedido'[p].pc = "nc.procurar" => "notaCredito" \in Operacoes[p] /\ pedido'[p].f \in Faturas
    /\ pedido'[p].pc = "serie.at" => ~pedido'[p].emite

(* The order of the steps of the handlers.                                 *)
Arestas ==
    {<<"emitir.serie", "emitir.ler">>, <<"emitir.serie", "serie.at">>, <<"serie.at", "serie.gravar">>,
     <<"serie.gravar", "emitir.ler">>, <<"emitir.ler", "emitir.anterior">>,
     <<"emitir.anterior", "emitir.gravarSerie">>, <<"emitir.gravarSerie", "emitir.gravarFatura">>,
     <<"emitir.gravarFatura", "emitir.auto">>, <<"emitir.auto", "com.at">>, <<"com.at", "com.gravar">>,
     <<"com.gravar", "com.log">>, <<"anular.at", "anular.resposta">>,
     <<"anular.resposta", "anular.gravar">>, <<"nc.procurar", "nc.criar">>}
Continua(p) ==
    /\ <<pedido[p].pc, pedido'[p].pc>> \in Arestas
    /\ pedido'[p].f = pedido[p].f
    /\ Emitindo(p)' => Emitindo(p) /\ pedido'[p].total = pedido[p].total
    /\ pedido'[p].pc = "com.at" => pedido[p].f \in Faturas /\ EmVigor(pedido[p].f)

(* A step moves one request; the others keep their local variables.        *)
LEMMA UmPedido ==
    ASSUME TypeOK, [Next]_vars
    PROVE  \/ pedido' = pedido
           \/ \E p \in Pedidos : /\ Chamada(p) \/ Passo(p) \/ Interromper(p)
                                 /\ \A x \in Pedidos \ {p} : pedido'[x] = pedido[x]
<1>1. ASSUME NEW p \in Pedidos, Chamada(p) \/ Interromper(p)
      PROVE  \E r : Segue(p, r)
    BY <1>1 DEF Chamada, FaturarPropostaLer, UpdateLer, EmitirLer, ComunicarAt, ReenviarAt, AnularLer,
                NotaCreditoLer, ComunicarSerieAt, UpdateSerieLer, UpdateConfigLer, Interromper, Termina
<1>2. ASSUME NEW p \in Pedidos, Passo(p)
      PROVE  \E r : Segue(p, r)
    BY <1>2 DEF Passo, FaturarPropostaCriar, UpdateGravar, EnsureSerieComunicadaAt, LerSerie, LerAnterior,
                GravarProximoNumero, GravarEmissao, ComunicarAutomatica, AtRegistarDocumento,
                MarcarComunicada, RegistarComunicacao, AtAnularDocumento, AnularResposta, AnularGravar,
                NotaCreditoProcurar, NotaCreditoCriar, AtRegistarSerie, GravarSerieAt,
                UpdateSerieGravar, UpdateConfigGravar, Termina
<1>3. ASSUME NEW p \in Pedidos, NEW r, Segue(p, r)
      PROVE  \A x \in Pedidos \ {p} : pedido'[x] = pedido[x]
    BY <1>3 DEF Segue, TypeOK
<1>4. ASSUME NEW p \in Pedidos, Chamada(p) \/ Passo(p) \/ Interromper(p)
      PROVE  \A x \in Pedidos \ {p} : pedido'[x] = pedido[x]
    BY <1>1, <1>2, <1>3, <1>4
<1> QED BY <1>4 DEF Next, Create, vars

(* A call writes no row, and starts a handler.                             *)
LEMMA ChamadaComeca ==
    ASSUME TypeOK, NEW p \in Pedidos, Chamada(p)
    PROVE  Comeca(p)
<1>a. \A r : Segue(p, r) => pedido'[p] = r
    BY DEF Segue, TypeOK
<1> USE DEF PassosIniciais
<1>1. ASSUME NEW q \in Propostas, NEW s \in SeriesFT, NEW t \in Totais, FaturarPropostaLer(p, q, s, t)
      PROVE  Comeca(p)
  <2>1. pedido'[p].pc = "proposta.criar"
    BY <1>a, <1>1 DEF FaturarPropostaLer, Livre
  <2> QED BY <2>1 DEF Comeca
<1>2. ASSUME NEW f \in Faturas, NEW t \in Totais, UpdateLer(p, f, t)
      PROVE  Comeca(p)
  <2>1. pedido'[p].pc = "update.gravar" /\ pedido'[p].f = f
    BY <1>a, <1>2 DEF UpdateLer, Livre
  <2> QED BY <1>2, <2>1 DEF Comeca, UpdateLer, Aceita
<1>3. ASSUME NEW f \in Faturas, EmitirLer(p, f)
      PROVE  Comeca(p)
  <2>1. pedido'[p].pc = "emitir.serie" /\ pedido'[p].f = f /\ pedido'[p].total = fatura[f].total
    <3> DEFINE m == ComunicacaoPermitida(config) /\ config.automatica
    <3>1. pedido'[p] = [Livre EXCEPT !.pc = "emitir.serie", !.emite = TRUE, !.f = f,
                          !.s = fatura[f].serie, !.total = fatura[f].total, !.marcar = m]
      BY <1>a, <1>3 DEF EmitirLer
    <3> HIDE DEF m
    <3> QED BY <3>1 DEF Livre
  <2> QED BY <1>3, <2>1 DEF Comeca, EmitirLer, Aceita
<1>4. ASSUME NEW f \in Faturas, ComunicarAt(p, f) \/ ReenviarAt(p, f)
      PROVE  Comeca(p)
  <2>1. PICK m \in BOOLEAN : pedido'[p] = ComDocumento(f, m)
    BY <1>a, <1>4 DEF ComunicarAt, ReenviarAt
  <2>2. pedido'[p].pc = "com.at" /\ pedido'[p].f = f
    BY <2>1 DEF ComDocumento, Livre
  <2> QED BY <1>4, <2>2 DEF Comeca, ComunicarAt, ReenviarAt, Aceita
<1>5. ASSUME NEW f \in Faturas, AnularLer(p, f)
      PROVE  Comeca(p)
  <2>1. PICK pc \in {"anular.at", "anular.gravar"} :
           pedido'[p] = [Livre EXCEPT !.pc = pc, !.f = f, !.s = fatura[f].serie,
                                      !.numero = fatura[f].numero]
    BY <1>a, <1>5 DEF AnularLer
  <2>2. pedido'[p].pc = pc
    BY <2>1 DEF Livre
  <2> QED BY <1>5, <2>2 DEF Comeca, AnularLer, Aceita
<1>6. ASSUME NEW f \in Faturas, NotaCreditoLer(p, f)
      PROVE  Comeca(p)
  <2>1. pedido'[p].pc = "nc.procurar" /\ pedido'[p].f = f
    BY <1>a, <1>6 DEF NotaCreditoLer, Livre
  <2> QED BY <1>6, <2>1 DEF Comeca, NotaCreditoLer, Aceita
<1>7. ASSUME NEW s \in Series, ComunicarSerieAt(p, s)
      PROVE  Comeca(p)
  <2>1. PICK n : pedido'[p] = [Livre EXCEPT !.pc = "serie.at", !.s = s, !.numero = n]
    BY <1>a, <1>7 DEF ComunicarSerieAt
  <2>2. pedido'[p].pc = "serie.at" /\ ~pedido'[p].emite
    BY <2>1 DEF Livre
  <2> QED BY <2>2 DEF Comeca
<1>8. ASSUME NEW s \in Series, NEW presente \in BOOLEAN, NEW c \in Codigos \cup {Nenhum},
             UpdateSerieLer(p, s, presente, c)
      PROVE  Comeca(p)
  <2>1. pedido'[p].pc = "updateSerie.gravar"
    BY <1>a, <1>8 DEF UpdateSerieLer, Livre
  <2> QED BY <2>1 DEF Comeca
<1>9. ASSUME NEW c \in ConfigRow, UpdateConfigLer(p, c)
      PROVE  Comeca(p)
  <2>1. pedido'[p] = [Livre EXCEPT !.pc = "config.gravar", !.config = c]
    BY <1>a, <1>9 DEF UpdateConfigLer
  <2>2. pedido'[p].pc = "config.gravar"
    BY <2>1 DEF Livre
  <2> QED BY <2>2 DEF Comeca
<1> QED BY <1>1, <1>2, <1>3, <1>4, <1>5, <1>6, <1>7, <1>8, <1>9 DEF Chamada
(* A later step of a handler goes on with the same row, or ends it.        *)
LEMMA PassoContinua ==
    ASSUME TypeOK, NEW p \in Pedidos, Passo(p)
    PROVE  pedido'[p].pc = "livre" \/ Continua(p)
<1> DEFINE r == pedido[p]
<1>a. \A x : Segue(p, x) => pedido'[p] = x
    BY DEF Segue, TypeOK
<1>b. Termina(p) => pedido'[p].pc = "livre"
    BY <1>a, LivreTipo DEF Termina
<1>c. r \in PedidoRow
    BY DEF TypeOK
<1> HIDE DEF r
<1>d. \A pc : Segue(p, [r EXCEPT !.pc = pc]) =>
         /\ pedido'[p].pc = pc /\ pedido'[p].f = r.f
         /\ pedido'[p].total = r.total /\ pedido'[p].emite = r.emite
    BY <1>a, <1>c DEF PedidoRow
<1>e. ASSUME NEW pc, NEW pc2, <<pc, pc2>> \in Arestas, r.pc = pc, pc # "emitir.auto",
             pedido'[p].pc = pc2, pedido'[p].f = r.f,
             pedido'[p].total = r.total, pedido'[p].emite = r.emite,
             pc = "serie.gravar" => r.emite
      PROVE  Continua(p)
  <2>1. pc2 # "com.at"
    BY <1>e DEF Arestas
  <2>2. Emitindo(p)' => Emitindo(p)
    BY <1>e DEF Emitindo, Arestas, PassosEmissao, PassosSerie, r
  <2> QED BY <1>e, <2>1, <2>2 DEF Continua, r
<1>1. ASSUME FaturarPropostaCriar(p) \/ UpdateGravar(p) \/ RegistarComunicacao(p)
             \/ AnularGravar(p) \/ NotaCreditoCriar(p) \/ UpdateSerieGravar(p) \/ UpdateConfigGravar(p)
      PROVE  pedido'[p].pc = "livre"
    BY <1>1, <1>b
    DEF FaturarPropostaCriar, UpdateGravar, RegistarComunicacao, AnularGravar, NotaCreditoCriar,
        UpdateSerieGravar, UpdateConfigGravar
<1>2. CASE EnsureSerieComunicadaAt(p)
  <2>1. r.pc = "emitir.serie"
    BY <1>2 DEF EnsureSerieComunicadaAt, Em, r
  <2>2. CASE Segue(p, [r EXCEPT !.pc = "emitir.ler"])
    <3>1. <<"emitir.serie", "emitir.ler">> \in Arestas
      BY DEF Arestas
    <3> QED BY <1>d, <1>e, <2>1, <2>2, <3>1
  <2>3. ASSUME NEW n, Segue(p, [r EXCEPT !.pc = "serie.at", !.numero = n])
        PROVE  Continua(p)
    <3>1. <<"emitir.serie", "serie.at">> \in Arestas
      BY DEF Arestas
    <3>2. pedido'[p] = [r EXCEPT !.pc = "serie.at", !.numero = n]
      BY <1>a, <2>3
    <3>3. /\ pedido'[p].pc = "serie.at" /\ pedido'[p].f = r.f
          /\ pedido'[p].total = r.total /\ pedido'[p].emite = r.emite
      BY <1>c, <3>2 DEF PedidoRow
    <3> QED BY <1>e, <2>1, <3>1, <3>3
  <2>4. \/ Segue(p, [r EXCEPT !.pc = "emitir.ler"])
        \/ \E n : Segue(p, [r EXCEPT !.pc = "serie.at", !.numero = n])
    BY <1>2 DEF EnsureSerieComunicadaAt, r
  <2> QED BY <2>2, <2>3, <2>4
<1>3. CASE LerSerie(p)
  <2>1. ASSUME NEW n, NEW c, Segue(p, [r EXCEPT !.pc = "emitir.anterior", !.numero = n, !.codigo = c])
        PROVE  Continua(p)
    <3>1. <<"emitir.ler", "emitir.anterior">> \in Arestas /\ r.pc = "emitir.ler"
      BY <1>3 DEF Arestas, LerSerie, Em, r
    <3>2. pedido'[p] = [r EXCEPT !.pc = "emitir.anterior", !.numero = n, !.codigo = c]
      BY <1>a, <2>1
    <3>3. /\ pedido'[p].pc = "emitir.anterior" /\ pedido'[p].f = r.f
          /\ pedido'[p].total = r.total /\ pedido'[p].emite = r.emite
      BY <1>c, <3>2 DEF PedidoRow
    <3> QED BY <1>e, <3>1, <3>3
  <2>2. Termina(p) \/ \E n, c : Segue(p, [r EXCEPT !.pc = "emitir.anterior", !.numero = n, !.codigo = c])
    BY <1>3 DEF LerSerie, r
  <2> QED BY <1>b, <2>1, <2>2
<1>4. CASE LerAnterior(p)
  <2>1. PICK n : Segue(p, [r EXCEPT !.pc = "emitir.gravarSerie", !.anterior = n])
    BY <1>4 DEF LerAnterior, r
  <2>2. <<"emitir.anterior", "emitir.gravarSerie">> \in Arestas /\ r.pc = "emitir.anterior"
    BY <1>4 DEF Arestas, LerAnterior, Em, r
  <2>3. pedido'[p] = [r EXCEPT !.pc = "emitir.gravarSerie", !.anterior = n]
    BY <1>a, <2>1
  <2>4. /\ pedido'[p].pc = "emitir.gravarSerie" /\ pedido'[p].f = r.f
        /\ pedido'[p].total = r.total /\ pedido'[p].emite = r.emite
    BY <1>c, <2>3 DEF PedidoRow
  <2> QED BY <1>e, <2>2, <2>4
<1>5. CASE GravarProximoNumero(p)
  <2>1. r.pc = "emitir.gravarSerie" /\ Segue(p, [r EXCEPT !.pc = "emitir.gravarFatura"])
    BY <1>5 DEF GravarProximoNumero, Em, r
  <2>2. <<"emitir.gravarSerie", "emitir.gravarFatura">> \in Arestas
    BY DEF Arestas
  <2> QED BY <1>d, <1>e, <2>1, <2>2
<1>6. CASE GravarEmissao(p)
  <2>1. r.pc = "emitir.gravarFatura" /\ (Termina(p) \/ Segue(p, [r EXCEPT !.pc = "emitir.auto"]))
    BY <1>6 DEF GravarEmissao, Em, r
  <2>2. <<"emitir.gravarFatura", "emitir.auto">> \in Arestas
    BY DEF Arestas
  <2> QED BY <1>b, <1>d, <1>e, <2>1, <2>2
<1>7. CASE ComunicarAutomatica(p)
  <2>1. /\ r.pc = "emitir.auto"
        /\ Termina(p) \/ (r.f \in Faturas /\ EmVigor(r.f) /\ Segue(p, ComDocumento(r.f, TRUE)))
    BY <1>7 DEF ComunicarAutomatica, Em, r
  <2>2. ASSUME r.f \in Faturas, EmVigor(r.f), Segue(p, ComDocumento(r.f, TRUE))
        PROVE  Continua(p)
    <3>1. pedido'[p] = ComDocumento(r.f, TRUE)
      BY <1>a, <2>2
    <3>2. pedido'[p].pc = "com.at" /\ pedido'[p].f = r.f
      BY <3>1 DEF ComDocumento, Livre
    <3>3. ~Emitindo(p)' /\ <<"emitir.auto", "com.at">> \in Arestas
      BY <3>2 DEF Emitindo, PassosEmissao, PassosSerie, Arestas
    <3> QED BY <2>1, <2>2, <3>2, <3>3 DEF Continua, r
  <2> QED BY <1>b, <2>1, <2>2
<1>8. CASE AtRegistarDocumento(p)
  <2>1. PICK ok : Segue(p, [r EXCEPT !.pc = "com.gravar", !.ok = ok])
    BY <1>8 DEF AtRegistarDocumento, r
  <2>2. <<"com.at", "com.gravar">> \in Arestas /\ r.pc = "com.at"
    BY <1>8 DEF Arestas, AtRegistarDocumento, Em, r
  <2>3. pedido'[p] = [r EXCEPT !.pc = "com.gravar", !.ok = ok]
    BY <1>a, <2>1
  <2>4. /\ pedido'[p].pc = "com.gravar" /\ pedido'[p].f = r.f
        /\ pedido'[p].total = r.total /\ pedido'[p].emite = r.emite
    BY <1>c, <2>3 DEF PedidoRow
  <2> QED BY <1>e, <2>2, <2>4
<1>9. CASE MarcarComunicada(p)
  <2>1. r.pc = "com.gravar" /\ Segue(p, [r EXCEPT !.pc = "com.log"])
    BY <1>9 DEF MarcarComunicada, Em, r
  <2>2. <<"com.gravar", "com.log">> \in Arestas
    BY DEF Arestas
  <2> QED BY <1>d, <1>e, <2>1, <2>2
<1>10. CASE AtAnularDocumento(p)
  <2>1. PICK ok : Segue(p, [r EXCEPT !.pc = "anular.resposta", !.ok = ok])
    BY <1>10 DEF AtAnularDocumento, r
  <2>2. <<"anular.at", "anular.resposta">> \in Arestas /\ r.pc = "anular.at"
    BY <1>10 DEF Arestas, AtAnularDocumento, Em, r
  <2>3. pedido'[p] = [r EXCEPT !.pc = "anular.resposta", !.ok = ok]
    BY <1>a, <2>1
  <2>4. /\ pedido'[p].pc = "anular.resposta" /\ pedido'[p].f = r.f
        /\ pedido'[p].total = r.total /\ pedido'[p].emite = r.emite
    BY <1>c, <2>3 DEF PedidoRow
  <2> QED BY <1>e, <2>2, <2>4
<1>11. CASE AnularResposta(p)
  <2>1. r.pc = "anular.resposta" /\ (Termina(p) \/ Segue(p, [r EXCEPT !.pc = "anular.gravar"]))
    BY <1>11 DEF AnularResposta, Em, r
  <2>2. <<"anular.resposta", "anular.gravar">> \in Arestas
    BY DEF Arestas
  <2> QED BY <1>b, <1>d, <1>e, <2>1, <2>2
<1>12. CASE NotaCreditoProcurar(p)
  <2>1. r.pc = "nc.procurar" /\ (Termina(p) \/ Segue(p, [r EXCEPT !.pc = "nc.criar"]))
    BY <1>12 DEF NotaCreditoProcurar, Em, r
  <2>2. <<"nc.procurar", "nc.criar">> \in Arestas
    BY DEF Arestas
  <2> QED BY <1>b, <1>d, <1>e, <2>1, <2>2
<1>13. CASE AtRegistarSerie(p)
  <2>1. PICK ok, c : Segue(p, [r EXCEPT !.pc = "serie.gravar", !.ok = ok, !.codigo = c])
    BY <1>13 DEF AtRegistarSerie, r
  <2>2. <<"serie.at", "serie.gravar">> \in Arestas /\ r.pc = "serie.at"
    BY <1>13 DEF Arestas, AtRegistarSerie, Em, r
  <2>3. pedido'[p] = [r EXCEPT !.pc = "serie.gravar", !.ok = ok, !.codigo = c]
    BY <1>a, <2>1
  <2>4. /\ pedido'[p].pc = "serie.gravar" /\ pedido'[p].f = r.f
        /\ pedido'[p].total = r.total /\ pedido'[p].emite = r.emite
    BY <1>c, <2>3 DEF PedidoRow
  <2> QED BY <1>e, <2>2, <2>4
<1>14. CASE GravarSerieAt(p)
  <2>1. r.pc = "serie.gravar" /\ (Termina(p) \/ (r.emite /\ Segue(p, [r EXCEPT !.pc = "emitir.ler"])))
    BY <1>14 DEF GravarSerieAt, Em, r
  <2>2. <<"serie.gravar", "emitir.ler">> \in Arestas
    BY DEF Arestas
  <2> QED BY <1>b, <1>d, <1>e, <2>1, <2>2
<1> QED BY <1>1, <1>2, <1>3, <1>4, <1>5, <1>6, <1>7, <1>8, <1>9, <1>10, <1>11, <1>12, <1>13, <1>14
        DEF Passo
(* A request about to write its document, or its log, does nothing else;   *)
(* a call needs an idle request.                                           *)
LEMMA PassoDe ==
    ASSUME NEW p \in Pedidos, Passo(p)
    PROVE  /\ Em(p, "emitir.gravarFatura") => GravarEmissao(p)
           /\ Em(p, "com.log") => RegistarComunicacao(p)
           /\ Em(p, "emitir.anterior") => LerAnterior(p)
           /\ Em(p, "emitir.gravarSerie") => GravarProximoNumero(p)
           /\ Em(p, "nc.procurar") => NotaCreditoProcurar(p)
           /\ ~Em(p, "livre")
<1> DEFINE pc == pedido[p].pc
           Outros == pc \notin {"emitir.gravarFatura", "com.log", "emitir.anterior", "emitir.gravarSerie",
                                "nc.procurar", "livre"}
<1>1. ASSUME FaturarPropostaCriar(p) \/ UpdateGravar(p) \/ EnsureSerieComunicadaAt(p) \/ LerSerie(p)
             \/ ComunicarAutomatica(p)
      PROVE  Outros
    BY <1>1 DEF Em, FaturarPropostaCriar, UpdateGravar, EnsureSerieComunicadaAt, LerSerie,
                ComunicarAutomatica
<1>2. ASSUME AtRegistarDocumento(p) \/ MarcarComunicada(p) \/ AtAnularDocumento(p) \/ AnularResposta(p)
             \/ AnularGravar(p) \/ NotaCreditoCriar(p)
      PROVE  Outros
    BY <1>2 DEF Em, AtRegistarDocumento, MarcarComunicada, AtAnularDocumento, AnularResposta,
                AnularGravar, NotaCreditoCriar
<1>3. ASSUME AtRegistarSerie(p) \/ GravarSerieAt(p) \/ UpdateSerieGravar(p) \/ UpdateConfigGravar(p)
      PROVE  Outros
    BY <1>3 DEF Em, AtRegistarSerie, GravarSerieAt, UpdateSerieGravar, UpdateConfigGravar
<1>4. /\ GravarEmissao(p) => pc = "emitir.gravarFatura"
      /\ LerAnterior(p) => pc = "emitir.anterior"
      /\ GravarProximoNumero(p) => pc = "emitir.gravarSerie"
      /\ NotaCreditoProcurar(p) => pc = "nc.procurar"
    BY DEF Em, GravarEmissao, LerAnterior, GravarProximoNumero, NotaCreditoProcurar
<1>5. RegistarComunicacao(p) => pc \in {"com.log", "com.gravar"}
    BY DEF Em, RegistarComunicacao
<1> HIDE DEF pc
<1>6. Passo(p) => \/ Outros
                  \/ RegistarComunicacao(p) \/ GravarEmissao(p) \/ LerAnterior(p)
                  \/ GravarProximoNumero(p) \/ NotaCreditoProcurar(p)
    BY <1>1, <1>2, <1>3 DEF Passo
<1>7. /\ pc = "emitir.gravarFatura" => GravarEmissao(p)
      /\ pc = "com.log" => RegistarComunicacao(p)
      /\ pc = "emitir.anterior" => LerAnterior(p)
      /\ pc = "emitir.gravarSerie" => GravarProximoNumero(p)
      /\ pc = "nc.procurar" => NotaCreditoProcurar(p)
      /\ pc # "livre"
    BY <1>4, <1>5, <1>6
<1> QED BY <1>7 DEF Em, pc

LEMMA ChamadaLivre ==
    ASSUME NEW p \in Pedidos, Chamada(p)
    PROVE  Em(p, "livre") /\ UNCHANGED <<fatura, serie, comunicacoes>>
BY DEF Chamada, Aceita, FaturarPropostaLer, UpdateLer, EmitirLer, ComunicarAt, ReenviarAt, AnularLer,
       NotaCreditoLer, ComunicarSerieAt, UpdateSerieLer, UpdateConfigLer

(* What a step does to the row of g: a draft is inserted, edited or        *)
(* emitted, or an emitted document changes its estado.                     *)
Fixos(g) ==
    /\ fatura'[g].numero = fatura[g].numero
    /\ fatura'[g].assinado = fatura[g].assinado
    /\ fatura'[g].anterior = fatura[g].anterior
Mesma(g) ==
    /\ fatura'[g].serie = fatura[g].serie
    /\ fatura'[g].ref = fatura[g].ref
Nova(g) ==
    /\ Fixos(g)
    /\ fatura[g].estado = "INEXISTENTE" /\ fatura'[g].estado = "RASCUNHO"
    /\ \/ fatura'[g].ref = Nenhum
       \/ \E p \in Pedidos : NotaCreditoCriar(p) /\ fatura'[g].ref = pedido[p].f
Editada(g) ==
    /\ Fixos(g) /\ Mesma(g) /\ fatura'[g].estado = fatura[g].estado
    /\ \E p \in Pedidos : UpdateGravar(p) /\ pedido[p].f = g
Mudada(g) ==
    /\ Fixos(g) /\ Mesma(g) /\ fatura'[g].total = fatura[g].total
    /\ Emitida(g)
    /\ \E p \in Pedidos :
          /\ pedido[p].f = g
          /\ \/ MarcarComunicada(p) /\ fatura'[g].estado = "COMUNICADA_AT"
             \/ AnularGravar(p) /\ fatura'[g].estado = "ANULADA"
Numerada(g) ==
    /\ Mesma(g) /\ fatura'[g].total = fatura[g].total
    /\ fatura[g].estado = "RASCUNHO" /\ fatura'[g].estado = "EMITIDA"
    /\ \E p \in Pedidos : /\ GravarEmissao(p) /\ pedido[p].f = g
                          /\ fatura'[g].numero = pedido[p].numero
                          /\ fatura'[g].assinado = pedido[p].total
                          /\ fatura'[g].anterior = pedido[p].anterior

LEMMA LinhaSegue ==
    ASSUME TypeOK, EmissaoInv, [Next]_vars, NEW g \in Faturas
    PROVE  fatura'[g] = fatura[g] \/ Nova(g) \/ Editada(g) \/ Mudada(g) \/ Numerada(g)
<1>a. \A f \in Faturas : fatura[f] \in FaturaRow
    BY DEF TypeOK
<1>b. ASSUME NEW f \in Faturas, NEW s, NEW t, NEW ref, NEW q,
             fatura[f].estado = "INEXISTENTE", Inserir(f, s, t, ref, q),
             ref = Nenhum \/ \E p \in Pedidos : NotaCreditoCriar(p) /\ ref = pedido[p].f
      PROVE  fatura'[g] = fatura[g] \/ Nova(g)
  <2>1. CASE g # f
    BY <1>b, <2>1 DEF Inserir, TypeOK
  <2>2. CASE g = f
    <3>1. fatura'[g] = [fatura[g] EXCEPT !.estado = "RASCUNHO", !.serie = s, !.total = t,
                                         !.ref = ref, !.proposta = q]
      BY <1>b, <2>2 DEF Inserir, TypeOK
    <3>2. Fixos(g) /\ fatura'[g].estado = "RASCUNHO" /\ fatura'[g].ref = ref
      BY <1>a, <3>1 DEF Fixos, FaturaRow
    <3> QED BY <1>b, <2>2, <3>2 DEF Nova
  <2> QED BY <2>1, <2>2
<1>1. ASSUME NEW f \in Faturas, NEW s \in Series, NEW t \in Totais, Create(f, s, t)
      PROVE  fatura'[g] = fatura[g] \/ Nova(g)
    BY <1>1, <1>b DEF Create
<1>2. ASSUME NEW p \in Pedidos, FaturarPropostaCriar(p)
      PROVE  fatura'[g] = fatura[g] \/ Nova(g)
    BY <1>2, <1>b DEF FaturarPropostaCriar
<1>3. ASSUME NEW p \in Pedidos, NotaCreditoCriar(p)
      PROVE  fatura'[g] = fatura[g] \/ Nova(g)
  <2>1. PICK f \in Faturas :
           fatura[f].estado = "INEXISTENTE" /\ Inserir(f, pedido[p].s, pedido[p].total, pedido[p].f, Nenhum)
    BY <1>3 DEF NotaCreditoCriar
  <2> QED BY <1>3, <1>b, <2>1
<1>4. ASSUME NEW p \in Pedidos, UpdateGravar(p)
      PROVE  fatura'[g] = fatura[g] \/ Editada(g)
  <2>1. CASE g # pedido[p].f
    BY <1>4, <2>1 DEF UpdateGravar, TypeOK
  <2>2. CASE g = pedido[p].f
    <3>1. fatura'[g] = [fatura[g] EXCEPT !.total = pedido[p].total]
      BY <1>4, <2>2 DEF UpdateGravar, TypeOK
    <3>2. Fixos(g) /\ Mesma(g) /\ fatura'[g].estado = fatura[g].estado
      BY <1>a, <3>1 DEF Fixos, Mesma, FaturaRow
    <3> QED BY <1>4, <2>2, <3>2 DEF Editada
  <2> QED BY <2>1, <2>2
<1>5. ASSUME NEW p \in Pedidos, NEW e, fatura' = [fatura EXCEPT ![pedido[p].f].estado = e],
             \/ MarcarComunicada(p) /\ e = "COMUNICADA_AT"
             \/ AnularGravar(p) /\ e = "ANULADA"
      PROVE  fatura'[g] = fatura[g] \/ Mudada(g)
  <2>1. CASE g # pedido[p].f
    BY <1>5, <2>1 DEF TypeOK
  <2>2. CASE g = pedido[p].f
    <3>1. fatura'[g] = [fatura[g] EXCEPT !.estado = e]
      BY <1>5, <2>2 DEF TypeOK
    <3>2. Fixos(g) /\ Mesma(g) /\ fatura'[g].total = fatura[g].total /\ fatura'[g].estado = e
      BY <1>a, <3>1 DEF Fixos, Mesma, FaturaRow
    <3>3. fatura[g].numero # 0
      BY <1>5, <2>2 DEF EmissaoInv, DocumentoEmCurso, MarcarComunicada, AnularGravar, Em, PassosDocumento
    <3>4. Emitida(g)
      BY <1>a, <3>3 DEF EmissaoInv, NumeroSeEmitida, Emitida, EmVigor, FaturaRow, Estados
    <3> QED BY <1>5, <2>2, <3>2, <3>4 DEF Mudada
  <2> QED BY <2>1, <2>2
<1>6. ASSUME NEW p \in Pedidos, MarcarComunicada(p) \/ AnularGravar(p)
      PROVE  fatura'[g] = fatura[g] \/ Mudada(g)
    BY <1>5, <1>6 DEF MarcarComunicada, AnularGravar
<1>7. ASSUME NEW p \in Pedidos, GravarEmissao(p)
      PROVE  fatura'[g] = fatura[g] \/ Numerada(g)
  <2> DEFINE r == pedido[p]
  <2>1. CASE g # r.f
    BY <1>7, <2>1 DEF GravarEmissao, TypeOK
  <2>2. CASE g = r.f
    <3>1. fatura'[g] = [fatura[g] EXCEPT !.estado = "EMITIDA", !.numero = r.numero, !.codigo = r.codigo,
                                         !.assinado = r.total, !.anterior = r.anterior]
      BY <1>7, <2>2 DEF GravarEmissao, TypeOK
    <3>2. fatura[g].estado = "RASCUNHO"
      BY <1>7, <2>2 DEF GravarEmissao, Em, EmissaoInv, EmissaoEmCurso, Emitindo, PassosEmissao
    <3> HIDE DEF r
    <3>3. /\ Mesma(g) /\ fatura'[g].total = fatura[g].total /\ fatura'[g].estado = "EMITIDA"
          /\ fatura'[g].numero = r.numero /\ fatura'[g].assinado = r.total
          /\ fatura'[g].anterior = r.anterior
      BY <1>a, <3>1 DEF Mesma, FaturaRow
    <3> QED BY <1>7, <2>2, <3>2, <3>3 DEF Numerada, r
  <2> QED BY <2>1, <2>2
<1>8. ASSUME NEW p \in Pedidos, Passo(p)
      PROVE  \/ fatura' = fatura
             \/ FaturarPropostaCriar(p) \/ NotaCreditoCriar(p) \/ UpdateGravar(p)
             \/ MarcarComunicada(p) \/ AnularGravar(p) \/ GravarEmissao(p)
    BY <1>8 DEF Passo, EnsureSerieComunicadaAt, LerSerie, LerAnterior, GravarProximoNumero,
                ComunicarAutomatica, AtRegistarDocumento, RegistarComunicacao, AtAnularDocumento,
                AnularResposta, NotaCreditoProcurar, AtRegistarSerie, GravarSerieAt,
                UpdateSerieGravar, UpdateConfigGravar
<1>9. ASSUME NEW p \in Pedidos, Interromper(p)
      PROVE  fatura' = fatura
    BY <1>9 DEF Interromper
<1>10. CASE fatura' = fatura
    BY <1>10
<1>11. ASSUME NEW p \in Pedidos, Passo(p)
       PROVE  fatura'[g] = fatura[g] \/ Nova(g) \/ Editada(g) \/ Mudada(g) \/ Numerada(g)
    BY <1>2, <1>3, <1>4, <1>6, <1>7, <1>8, <1>10, <1>11
<1> QED BY <1>1, <1>9, <1>10, <1>11, ChamadaLivre DEF Next, vars
-----------------------------------------------------------------------------
(* The log of communications *)

(* Only a success of AT makes a row COMUNICADA_AT.                         *)
LEMMA SoMarcarComunica ==
    ASSUME TypeOK, [Next]_vars, NEW f \in Faturas, fatura'[f].estado = "COMUNICADA_AT"
    PROVE  \/ fatura[f].estado = "COMUNICADA_AT"
           \/ \E p \in Pedidos : MarcarComunicada(p) /\ pedido[p].f = f
<1>a. fatura[f] \in FaturaRow
    BY DEF TypeOK
<1>1. ASSUME NEW g \in Faturas, NEW s \in Series, NEW t \in Nat, NEW ref \in Faturas \cup {Nenhum},
             NEW q \in Propostas \cup {Nenhum}, Inserir(g, s, t, ref, q)
      PROVE  fatura[f].estado = "COMUNICADA_AT"
    BY <1>1, EfeitoDeInserir
<1>2. ASSUME NEW p \in Pedidos, UpdateGravar(p)
      PROVE  fatura[f].estado = "COMUNICADA_AT"
    BY <1>a, <1>2 DEF UpdateGravar, TypeOK, FaturaRow
<1>3. ASSUME NEW p \in Pedidos, MarcarComunicada(p)
      PROVE  fatura[f].estado = "COMUNICADA_AT" \/ pedido[p].f = f
    BY <1>3 DEF MarcarComunicada, TypeOK
<1>4. ASSUME NEW p \in Pedidos, AnularGravar(p)
      PROVE  fatura[f].estado = "COMUNICADA_AT"
  <2>1. fatura'[f] = fatura[f] \/ fatura'[f] = [fatura[f] EXCEPT !.estado = "ANULADA"]
    BY <1>4 DEF AnularGravar, TypeOK
  <2> QED BY <1>a, <2>1 DEF FaturaRow
<1>5. ASSUME NEW p \in Pedidos, GravarEmissao(p)
      PROVE  fatura[f].estado = "COMUNICADA_AT"
  <2>1. \/ fatura'[f] = fatura[f]
        \/ \E n, c, t, a : fatura'[f] = [fatura[f] EXCEPT !.estado = "EMITIDA", !.numero = n,
                                            !.codigo = c, !.assinado = t, !.anterior = a]
    BY <1>5 DEF GravarEmissao, TypeOK
  <2> QED BY <1>a, <2>1 DEF FaturaRow
<1> QED BY <1>1, <1>2, <1>3, <1>4, <1>5, EfeitoNasFaturas DEF InsereSemProposta, InsereComProposta

(* Nothing is removed from the log.                                        *)
LEMMA RegistosFicam ==
    ASSUME TypeOK, [Next]_vars, NEW f \in Faturas
    PROVE  comunicacoes[f] \subseteq comunicacoes'[f]
<1>1. ASSUME NEW p \in Pedidos, RegistarComunicacao(p) \/ AnularResposta(p)
      PROVE  comunicacoes[f] \subseteq comunicacoes'[f]
    BY <1>1 DEF RegistarComunicacao, AnularResposta, TypeOK
<1>2. ASSUME NEW p \in Pedidos, Passo(p)
      PROVE  RegistarComunicacao(p) \/ AnularResposta(p) \/ comunicacoes' = comunicacoes
    BY <1>2 DEF Passo, FaturarPropostaCriar, UpdateGravar, EnsureSerieComunicadaAt, LerSerie, LerAnterior,
                GravarProximoNumero, GravarEmissao, ComunicarAutomatica, AtRegistarDocumento,
                MarcarComunicada, AtAnularDocumento, AnularGravar, NotaCreditoProcurar,
                NotaCreditoCriar, AtRegistarSerie, GravarSerieAt, UpdateSerieGravar, UpdateConfigGravar
<1>3. ASSUME NEW p \in Pedidos, Interromper(p)
      PROVE  comunicacoes' = comunicacoes
    BY <1>3 DEF Interromper
<1> QED BY <1>1, <1>2, <1>3, ChamadaLivre DEF Next, Create, vars

LEMMA RegistoSegue ==
    ASSUME ~Interrupcoes, TypeOK, ComunicadaTemRegisto, [Next]_vars
    PROVE  ComunicadaTemRegisto'
<1> SUFFICES ASSUME NEW f \in Faturas, fatura'[f].estado = "COMUNICADA_AT"
             PROVE  \/ TRUE \in comunicacoes'[f]
                    \/ \E p \in Pedidos : pedido'[p].pc = "com.log" /\ pedido'[p].f = f /\ pedido'[p].ok
    BY DEF ComunicadaTemRegisto, Em
<1>1. ASSUME NEW p \in Pedidos, MarcarComunicada(p), pedido[p].f = f
      PROVE  pedido'[p].pc = "com.log" /\ pedido'[p].f = f /\ pedido'[p].ok
  <2>1. pedido[p] \in PedidoRow /\ pedido[p].ok
    BY <1>1 DEF TypeOK, MarcarComunicada
  <2>2. pedido'[p] = [pedido[p] EXCEPT !.pc = "com.log"]
    BY <1>1 DEF MarcarComunicada, Segue, TypeOK
  <2> QED BY <1>1, <2>1, <2>2 DEF PedidoRow
<1>2. CASE fatura[f].estado = "COMUNICADA_AT"
  <2>1. CASE TRUE \in comunicacoes[f]
    BY <2>1, RegistosFicam
  <2>2. ASSUME NEW p \in Pedidos, Em(p, "com.log"), pedido[p].f = f, pedido[p].ok
        PROVE  \/ TRUE \in comunicacoes'[f]
               \/ pedido'[p] = pedido[p]
    <3>1. CASE Passo(p)
      <4>1. RegistarComunicacao(p)
        BY <2>2, <3>1, PassoDe
      <4>2. pedido[p].ok = TRUE
        BY <2>2 DEF TypeOK, PedidoRow
      <4> QED BY <2>2, <4>1, <4>2 DEF RegistarComunicacao, TypeOK
    <3>2. ~Chamada(p) /\ ~Interromper(p)
      BY <2>2, ChamadaLivre DEF Em, Interromper
    <3> QED BY <3>1, <3>2, UmPedido
  <2>3. ASSUME NEW p \in Pedidos, Em(p, "com.log"), pedido[p].f = f, pedido[p].ok, pedido'[p] = pedido[p]
        PROVE  pedido'[p].pc = "com.log" /\ pedido'[p].f = f /\ pedido'[p].ok
    BY <2>3 DEF Em
  <2> QED BY <1>2, <2>1, <2>2, <2>3 DEF ComunicadaTemRegisto
<1> QED BY <1>1, <1>2, SoMarcarComunica

(* executarComunicacaoAt: while no statement fails, an invoice shown as    *)
(* communicated has a success in its log, or its request is about to write *)
(* it, however many requests communicate.                                  *)
THEOREM RegistoCorrecto ==
    ASSUME ~Interrupcoes
    PROVE  Spec => []ComunicadaTemRegisto
<1>1. Init => ComunicadaTemRegisto
    BY DEF Init, ComunicadaTemRegisto
<1>2. TypeOK /\ ComunicadaTemRegisto /\ [Next]_vars => ComunicadaTemRegisto'
    BY RegistoSegue
<1> QED BY <1>1, <1>2, TypeCorrect, PTL DEF Spec
-----------------------------------------------------------------------------
(* No number is lost *)

(* proximoNumero advances only when an emission writes it.                 *)
LEMMA ProximoSegue ==
    ASSUME TypeOK, [Next]_vars, NEW s \in Series
    PROVE  \/ serie'[s].proximoNumero = serie[s].proximoNumero
           \/ \E p \in Pedidos : /\ GravarProximoNumero(p) /\ pedido[p].s = s
                                 /\ serie'[s].proximoNumero = pedido[p].numero + 1
<1>a. serie[s] \in SerieRow
    BY DEF TypeOK
<1>1. ASSUME NEW p \in Pedidos, GravarProximoNumero(p)
      PROVE  \/ serie'[s].proximoNumero = serie[s].proximoNumero
             \/ pedido[p].s = s /\ serie'[s].proximoNumero = pedido[p].numero + 1
  <2> DEFINE n == pedido[p].numero + 1
  <2>1. serie' = [serie EXCEPT ![pedido[p].s].proximoNumero = n]
    BY <1>1 DEF GravarProximoNumero
  <2> HIDE DEF n
  <2>2. \/ serie'[s] = serie[s]
        \/ pedido[p].s = s /\ serie'[s] = [serie[s] EXCEPT !.proximoNumero = n]
    BY <2>1 DEF TypeOK
  <2>3. \/ serie'[s].proximoNumero = serie[s].proximoNumero
        \/ pedido[p].s = s /\ serie'[s].proximoNumero = n
    BY <1>a, <2>2 DEF SerieRow
  <2> QED BY <2>3 DEF n
<1>b. ASSUME NEW x, NEW row, serie' = [serie EXCEPT ![x] = row],
             x = s => row.proximoNumero = serie[s].proximoNumero
      PROVE  serie'[s].proximoNumero = serie[s].proximoNumero
    BY <1>b DEF TypeOK
<1>2. ASSUME NEW p \in Pedidos, GravarSerieAt(p)
      PROVE  serie'[s].proximoNumero = serie[s].proximoNumero
  <2> DEFINE x == pedido[p].s
  <2>1. CASE serie' = serie
    BY <2>1
  <2>2. ASSUME NEW c, NEW n,
               serie' = [serie EXCEPT ![x] = [serie[x] EXCEPT !.codigo = c, !.estadoAt = "REGISTADA",
                                                              !.numInicial = n]]
        PROVE  serie'[s].proximoNumero = serie[s].proximoNumero
    <3>1. [serie[s] EXCEPT !.codigo = c, !.estadoAt = "REGISTADA", !.numInicial = n].proximoNumero
            = serie[s].proximoNumero
      BY <1>a DEF SerieRow
    <3> HIDE DEF x
    <3> QED BY <1>b, <2>2, <3>1
  <2> QED BY <1>2, <2>1, <2>2 DEF GravarSerieAt
<1>3. ASSUME NEW p \in Pedidos, UpdateSerieGravar(p)
      PROVE  serie'[s].proximoNumero = serie[s].proximoNumero
  <2> DEFINE x == pedido[p].s
  <2>1. PICK c, e : serie' = [serie EXCEPT ![x] = [serie[x] EXCEPT !.codigo = c, !.estadoAt = e]]
    BY <1>3 DEF UpdateSerieGravar
  <2>2. [serie[s] EXCEPT !.codigo = c, !.estadoAt = e].proximoNumero = serie[s].proximoNumero
    BY <1>a DEF SerieRow
  <2> HIDE DEF x
  <2> QED BY <1>b, <2>1, <2>2
<1>4. ASSUME NEW p \in Pedidos, Passo(p)
      PROVE  GravarProximoNumero(p) \/ GravarSerieAt(p) \/ UpdateSerieGravar(p) \/ serie' = serie
    BY <1>4 DEF Passo, FaturarPropostaCriar, UpdateGravar, EnsureSerieComunicadaAt, LerSerie, LerAnterior,
                GravarEmissao, ComunicarAutomatica, AtRegistarDocumento, MarcarComunicada,
                RegistarComunicacao, AtAnularDocumento, AnularResposta, AnularGravar,
                NotaCreditoProcurar, NotaCreditoCriar, AtRegistarSerie, UpdateConfigGravar
<1>5. ASSUME NEW p \in Pedidos, Interromper(p)
      PROVE  serie' = serie
    BY <1>5 DEF Interromper
<1> QED BY <1>1, <1>2, <1>3, <1>4, <1>5, ChamadaLivre DEF Next, Create, vars

(* The row an emission writes has its number.                              *)
LEMMA EmissaoNumera ==
    ASSUME TypeOK, EmissaoInv, NEW p \in Pedidos, GravarEmissao(p)
    PROVE  /\ pedido[p].f \in Faturas
           /\ fatura'[pedido[p].f].serie = pedido[p].s
           /\ fatura'[pedido[p].f].numero = pedido[p].numero
           /\ fatura'[pedido[p].f].anterior = pedido[p].anterior
<1> DEFINE r == pedido[p]
<1>1. r.f \in Faturas /\ r.s = fatura[r.f].serie
    BY DEF GravarEmissao, Em, EmissaoInv, EmissaoEmCurso, Emitindo, PassosEmissao
<1>2. /\ fatura[r.f] \in FaturaRow
      /\ fatura'[r.f] = [fatura[r.f] EXCEPT !.estado = "EMITIDA", !.numero = r.numero, !.codigo = r.codigo,
                                            !.assinado = r.total, !.anterior = r.anterior]
    BY <1>1 DEF GravarEmissao, TypeOK
<1> HIDE DEF r
<1>3. /\ fatura'[r.f].serie = fatura[r.f].serie /\ fatura'[r.f].numero = r.numero
      /\ fatura'[r.f].anterior = r.anterior
    BY <1>2 DEF FaturaRow
<1> QED BY <1>1, <1>3 DEF r

LEMMA LacunasSegue ==
    ASSUME ~Interrupcoes, TypeOK, EmissaoInv, NumeracaoSemLacunas, [Next]_vars
    PROVE  NumeracaoSemLacunas'
<1> SUFFICES ASSUME NEW s \in Series, NEW n \in 1 .. (serie'[s].proximoNumero - 1)
             PROVE  \/ \E f \in Faturas : fatura'[f].serie = s /\ fatura'[f].numero = n
                    \/ \E p \in Pedidos : /\ pedido'[p].pc = "emitir.gravarFatura"
                                          /\ pedido'[p].s = s /\ pedido'[p].numero = n
    BY DEF NumeracaoSemLacunas, Em
<1>1. ASSUME NEW f \in Faturas, fatura[f].serie = s, fatura[f].numero = n
      PROVE  fatura'[f].serie = s /\ fatura'[f].numero = n
  <2>1. fatura[f].numero # 0
    BY <1>1
  <2> QED BY <1>1, <2>1, EfeitoNosNumeros DEF NumerosIguais, Numera
<1>2. ASSUME NEW p \in Pedidos, Em(p, "emitir.gravarFatura"), pedido[p].s = s, pedido[p].numero = n
      PROVE  pedido'[p] = pedido[p] \/ \E f \in Faturas : fatura'[f].serie = s /\ fatura'[f].numero = n
  <2>1. CASE Passo(p)
    BY <1>2, <2>1, PassoDe, EmissaoNumera
  <2>2. ~Chamada(p) /\ ~Interromper(p)
    BY <1>2, ChamadaLivre DEF Em, Interromper
  <2> QED BY <2>1, <2>2, UmPedido
<1>3. CASE n \in 1 .. (serie[s].proximoNumero - 1)
  <2>1. \/ \E f \in Faturas : fatura[f].serie = s /\ fatura[f].numero = n
        \/ \E p \in Pedidos : Em(p, "emitir.gravarFatura") /\ pedido[p].s = s /\ pedido[p].numero = n
    BY <1>3 DEF NumeracaoSemLacunas
  <2> QED BY <1>1, <1>2, <2>1 DEF Em
<1>4. CASE n \notin 1 .. (serie[s].proximoNumero - 1)
  <2>1. PICK p \in Pedidos : /\ GravarProximoNumero(p) /\ pedido[p].s = s
                             /\ serie'[s].proximoNumero = pedido[p].numero + 1
    BY <1>4, ProximoSegue
  <2>2. pedido[p].numero = serie[s].proximoNumero
    BY <2>1 DEF GravarProximoNumero, Em, EmissaoInv, EmissaoEmCurso
  <2>3. serie[s].proximoNumero \in Nat /\ pedido[p] \in PedidoRow
    BY DEF TypeOK, SerieRow
  <2>4. n = pedido[p].numero
    BY <1>4, <2>1, <2>2, <2>3
  <2>5. pedido'[p] = [pedido[p] EXCEPT !.pc = "emitir.gravarFatura"]
    BY <2>1 DEF GravarProximoNumero, Segue, TypeOK
  <2>6. pedido'[p].pc = "emitir.gravarFatura" /\ pedido'[p].s = s /\ pedido'[p].numero = n
    BY <2>1, <2>3, <2>4, <2>5 DEF PedidoRow
  <2> QED BY <2>6
<1> QED BY <1>3, <1>4

(* emitir: while one request emits and no statement fails, no number of a  *)
(* series is lost.                                                         *)
THEOREM SemLacunas ==
    ASSUME EmissorUnico, ~Interrupcoes
    PROVE  Spec => []NumeracaoSemLacunas
<1>1. Init => NumeracaoSemLacunas
    BY DEF Init, NumeracaoSemLacunas
<1>2. TypeOK /\ EmissaoInv /\ NumeracaoSemLacunas /\ [Next]_vars => NumeracaoSemLacunas'
    BY LacunasSegue
<1> QED BY <1>1, <1>2, TypeCorrect, EmissaoCorrecta, PTL DEF Spec
-----------------------------------------------------------------------------
(* The chain of signatures *)

(* What an emission read as the last document is still the last one of the *)
(* series when it writes its own.                                          *)
CadeiaEmCurso(p) ==
    LET r == pedido[p] IN
    r.pc \in {"emitir.gravarSerie", "emitir.gravarFatura"} =>
        /\ r.anterior < r.numero
        /\ r.anterior # 0 =>
              \E g \in Faturas : fatura[g].serie = r.s /\ fatura[g].numero = r.anterior
        /\ \A g \in Faturas : fatura[g].serie = r.s => fatura[g].numero <= r.anterior
CadeiaInv == CadeiaHash /\ \A p \in Pedidos : CadeiaEmCurso(p)

(* A step emits nothing: numbers, and what was chained, stay.              *)
NadaEmitido ==
    \A g \in Faturas : /\ Fixos(g)
                       /\ fatura[g].numero # 0 => fatura'[g].serie = fatura[g].serie

LEMMA EmiteOuNao ==
    ASSUME TypeOK, EmissaoInv, [Next]_vars
    PROVE  NadaEmitido \/ \E p \in Pedidos : GravarEmissao(p)
<1>1. ASSUME NEW g \in Faturas, ~\E p \in Pedidos : GravarEmissao(p)
      PROVE  Fixos(g) /\ (fatura[g].numero # 0 => fatura'[g].serie = fatura[g].serie)
  <2>1. Nova(g) => Fixos(g) /\ fatura[g].numero = 0
    BY DEF Nova, EmissaoInv, NumeroSeEmitida
  <2>2. Editada(g) \/ Mudada(g) => Fixos(g) /\ Mesma(g)
    BY DEF Editada, Mudada
  <2>3. ~Numerada(g)
    BY <1>1 DEF Numerada
  <2>4. fatura'[g] = fatura[g] => Fixos(g)
    BY DEF Fixos
  <2> QED BY <2>1, <2>2, <2>3, <2>4, LinhaSegue DEF Mesma
<1> QED BY <1>1 DEF NadaEmitido

(* Documents that took a number are the emitted ones.                      *)
LEMMA EmitidaTemNumero ==
    ASSUME TypeOK, EmissaoInv, NEW f \in Faturas
    PROVE  Emitida(f) <=> fatura[f].numero # 0
BY DEF TypeOK, EmissaoInv, NumeroSeEmitida, Emitida, EmVigor, FaturaRow, Estados

(* Reading the last document establishes it.                               *)
LEMMA LerUltima ==
    ASSUME TypeOK, EmissaoInv, NEW p \in Pedidos, LerAnterior(p)
    PROVE  CadeiaEmCurso(p)'
<1> DEFINE r == pedido[p]
           N == NumerosEmitidos(r.s, r.f)
<1>1. PICK n \in N \cup {0} : /\ \A m \in N : m <= n
                              /\ Segue(p, [r EXCEPT !.pc = "emitir.gravarSerie", !.anterior = n])
    BY DEF LerAnterior
<1>2. /\ r \in PedidoRow /\ r.s \in Series /\ fatura' = fatura
      /\ r.numero = serie[r.s].proximoNumero /\ r.f \in Faturas /\ fatura[r.f].numero = 0
    BY DEF TypeOK, PedidoRow, LerAnterior, Em, EmissaoInv, EmissaoEmCurso, Emitindo, PassosEmissao,
           NumeroSeEmitida
<1>3. \A g \in Faturas : fatura[g].numero \in Nat /\ fatura[g].numero < serie[fatura[g].serie].proximoNumero
    BY DEF TypeOK, FaturaRow, EmissaoInv, NumeroAbaixoDoProximo
<1>4. serie[r.s].proximoNumero \in Nat \ {0}
    BY <1>2 DEF TypeOK, SerieRow
<1>5. pedido'[p] = [r EXCEPT !.pc = "emitir.gravarSerie", !.anterior = n]
    BY <1>1 DEF Segue, TypeOK
<1> HIDE DEF r
<1>6. pedido'[p].anterior = n /\ pedido'[p].s = r.s /\ pedido'[p].numero = r.numero
    BY <1>2, <1>5 DEF PedidoRow
<1>7. n # 0 => \E g \in Faturas : fatura[g].serie = r.s /\ fatura[g].numero = n
    BY <1>1 DEF NumerosEmitidos
<1>8. n < r.numero
    BY <1>2, <1>3, <1>4, <1>7
<1>9. ASSUME NEW g \in Faturas, fatura[g].serie = r.s
      PROVE  fatura[g].numero <= n
  <2>1. n \in Nat
    BY <1>3, <1>7
  <2>2. CASE fatura[g].numero = 0
    BY <2>1, <2>2
  <2>3. CASE fatura[g].numero # 0
    BY <1>1, <1>2, <1>9, <2>3, EmitidaTemNumero DEF NumerosEmitidos
  <2> QED BY <2>2, <2>3
<1> QED BY <1>2, <1>6, <1>7, <1>8, <1>9 DEF CadeiaEmCurso

LEMMA CadeiaEmCursoSegue ==
    ASSUME EmissorUnico, TypeOK, EmissaoInv, [Next]_vars, NEW x \in Pedidos, CadeiaEmCurso(x)
    PROVE  CadeiaEmCurso(x)'
<1> DEFINE r == pedido[x]
<1>a. r \in PedidoRow /\ \A g \in Faturas : fatura[g].numero \in Nat
    BY DEF TypeOK, FaturaRow
<1> SUFFICES ASSUME pedido'[x].pc \in {"emitir.gravarSerie", "emitir.gravarFatura"}
             PROVE  CadeiaEmCurso(x)'
    BY DEF CadeiaEmCurso
<1>1. CASE LerAnterior(x)
    BY <1>1, LerUltima
<1>2. ASSUME r.pc \in {"emitir.gravarSerie", "emitir.gravarFatura"},
             pedido'[x].anterior = r.anterior, pedido'[x].numero = r.numero, pedido'[x].s = r.s
      PROVE  CadeiaEmCurso(x)'
  <2> HIDE DEF r
  <2>0. /\ r.anterior \in Nat /\ r.anterior < r.numero
        /\ r.anterior # 0 => \E g \in Faturas : fatura[g].serie = r.s /\ fatura[g].numero = r.anterior
        /\ \A g \in Faturas : fatura[g].serie = r.s => fatura[g].numero <= r.anterior
    BY <1>a, <1>2 DEF CadeiaEmCurso, PedidoRow, r
  <2>1. CASE NadaEmitido
    <3>1. \A g \in Faturas : fatura[g].numero # 0 =>
             fatura'[g].numero = fatura[g].numero /\ fatura'[g].serie = fatura[g].serie
      BY <2>1 DEF NadaEmitido, Fixos
    <3>2. r.anterior # 0 => \E g \in Faturas : fatura'[g].serie = r.s /\ fatura'[g].numero = r.anterior
      BY <2>0, <3>1
    <3>3. ASSUME NEW g \in Faturas, fatura'[g].serie = r.s
          PROVE  fatura'[g].numero <= r.anterior
      <4>1. CASE fatura[g].numero = 0
        <5>1. fatura'[g].numero = 0
          BY <2>1, <4>1 DEF NadaEmitido, Fixos
        <5> QED BY <2>0, <5>1
      <4>2. CASE fatura[g].numero # 0
        BY <2>0, <3>1, <3>3, <4>2
      <4> QED BY <4>1, <4>2
    <3> QED BY <1>2, <2>0, <3>2, <3>3 DEF CadeiaEmCurso
  <2>2. ASSUME NEW p \in Pedidos, GravarEmissao(p)
        PROVE  FALSE
    <3>1. x \in Emissores /\ p \in Emissores
      BY <1>2, <2>2 DEF EmissaoInv, EmissaoEmCurso, Emitindo, PassosEmissao, GravarEmissao, Em, r
    <3>2. x = p
      BY <3>1 DEF EmissorUnico
    <3>3. Passo(x) /\ Em(x, "emitir.gravarFatura")
      BY <2>2, <3>2 DEF Passo, GravarEmissao
    <3>4. pedido'[x].pc = "livre" \/ <<"emitir.gravarFatura", pedido'[x].pc>> \in Arestas
      BY <3>3, PassoContinua DEF Continua, Em
    <3> QED BY <3>4 DEF Arestas
  <2> QED BY <2>1, <2>2, EmiteOuNao
<1>3. CASE pedido'[x] = pedido[x]
    BY <1>2, <1>3
<1>4. CASE Passo(x)
  <2>1. <<r.pc, pedido'[x].pc>> \in Arestas
    BY <1>4, PassoContinua DEF Continua
  <2>2. \/ r.pc = "emitir.anterior"
        \/ r.pc = "emitir.gravarSerie"
    BY <2>1 DEF Arestas
  <2>3. CASE r.pc = "emitir.anterior"
    BY <1>1, <1>4, <2>3, PassoDe DEF Em
  <2>4. CASE r.pc = "emitir.gravarSerie"
    <3>1. GravarProximoNumero(x)
      BY <1>4, <2>4, PassoDe DEF Em
    <3>2. pedido'[x] = [r EXCEPT !.pc = "emitir.gravarFatura"]
      BY <3>1 DEF GravarProximoNumero, Segue, TypeOK
    <3> HIDE DEF r
    <3>3. pedido'[x].anterior = r.anterior /\ pedido'[x].numero = r.numero /\ pedido'[x].s = r.s
      BY <1>a, <3>2 DEF PedidoRow
    <3> QED BY <1>2, <2>4, <3>3
  <2> QED BY <2>2, <2>3, <2>4
<1>5. ~Chamada(x) /\ ~Interromper(x)
  <2>1. ~Chamada(x)
    BY ChamadaComeca DEF Comeca, PassosIniciais
  <2>2. Interromper(x) => pedido'[x].pc = "livre"
    BY LivreTipo DEF Interromper, Termina, Segue, TypeOK
  <2> QED BY <2>1, <2>2
<1> QED BY <1>3, <1>4, <1>5, UmPedido

LEMMA CadeiaSegue ==
    ASSUME TypeOK, TypeOK', EmissaoInv, EmissaoInv', CadeiaInv, [Next]_vars
    PROVE  CadeiaHash'
<1> DEFINE Encadeada(f) ==
              /\ fatura'[f].anterior < fatura'[f].numero
              /\ fatura'[f].anterior # 0 =>
                    \E g \in Faturas : /\ fatura'[g].serie = fatura'[f].serie
                                       /\ fatura'[g].numero = fatura'[f].anterior
              /\ \A g \in Faturas : fatura'[g].serie = fatura'[f].serie =>
                    ~(fatura'[f].anterior < fatura'[g].numero /\ fatura'[g].numero < fatura'[f].numero)
<1> SUFFICES ASSUME NEW f \in Faturas, fatura'[f].numero # 0
             PROVE  Encadeada(f)
  <2>1. \A f \in Faturas : Emitida(f)' => fatura'[f].numero # 0
    BY DEF EmissaoInv, NumeroSeEmitida, Emitida, EmVigor
  <2> QED BY <2>1 DEF CadeiaHash
<1>a. \A g \in Faturas : /\ fatura[g].numero \in Nat /\ fatura[g].anterior \in Nat
                         /\ fatura'[g].numero \in Nat /\ fatura'[g].anterior \in Nat
    BY DEF TypeOK, FaturaRow
<1>b. ASSUME NEW h \in Faturas, fatura[h].numero # 0
      PROVE  /\ fatura[h].anterior < fatura[h].numero
             /\ fatura[h].anterior # 0 =>
                   \E g \in Faturas : /\ fatura[g].serie = fatura[h].serie
                                      /\ fatura[g].numero = fatura[h].anterior
             /\ \A g \in Faturas : fatura[g].serie = fatura[h].serie =>
                   ~(fatura[h].anterior < fatura[g].numero /\ fatura[g].numero < fatura[h].numero)
    BY <1>b, EmitidaTemNumero DEF CadeiaInv, CadeiaHash
<1>1. CASE NadaEmitido
  <2>1. /\ fatura[f].numero # 0 /\ fatura'[f].numero = fatura[f].numero
        /\ fatura'[f].anterior = fatura[f].anterior /\ fatura'[f].serie = fatura[f].serie
    BY <1>1 DEF NadaEmitido, Fixos
  <2>2. \A g \in Faturas : /\ fatura'[g].numero = fatura[g].numero
                           /\ fatura[g].numero # 0 => fatura'[g].serie = fatura[g].serie
    BY <1>1 DEF NadaEmitido, Fixos
  <2>3. fatura'[f].anterior < fatura'[f].numero
    BY <1>b, <2>1
  <2>4. fatura'[f].anterior # 0 =>
           \E g \in Faturas : fatura'[g].serie = fatura'[f].serie /\ fatura'[g].numero = fatura'[f].anterior
    BY <1>b, <2>1, <2>2
  <2>5. ASSUME NEW g \in Faturas, fatura'[g].serie = fatura'[f].serie,
               fatura'[f].anterior < fatura'[g].numero, fatura'[g].numero < fatura'[f].numero
        PROVE  FALSE
    <3>1. fatura[g].numero # 0 /\ fatura'[g].numero = fatura[g].numero
      BY <1>a, <2>2, <2>5
    <3> QED BY <1>b, <2>1, <2>2, <2>5, <3>1
  <2> QED BY <2>3, <2>4, <2>5
<1>2. ASSUME NEW p \in Pedidos, GravarEmissao(p)
      PROVE  Encadeada(f)
  <2> DEFINE r == pedido[p]
             d == r.f
  <2>1. /\ d \in Faturas /\ fatura'[d].serie = r.s
        /\ fatura'[d].numero = r.numero /\ fatura'[d].anterior = r.anterior
        /\ \A g \in Faturas \ {d} : fatura'[g] = fatura[g]
    BY <1>2, EmissaoNumera DEF GravarEmissao, TypeOK
  <2>2. /\ r.anterior < r.numero
        /\ r.anterior # 0 => \E g \in Faturas : fatura[g].serie = r.s /\ fatura[g].numero = r.anterior
        /\ \A g \in Faturas : fatura[g].serie = r.s => fatura[g].numero <= r.anterior
    BY <1>2 DEF CadeiaInv, CadeiaEmCurso, GravarEmissao, Em
  <2>3. r.s = fatura[d].serie /\ fatura[d].numero = 0 /\ r.anterior \in Nat /\ r.numero \in Nat
    BY <1>2 DEF GravarEmissao, Em, EmissaoInv, EmissaoEmCurso, Emitindo, PassosEmissao, NumeroSeEmitida,
                TypeOK, PedidoRow
  <2> HIDE DEF r, d
  <2>4. CASE f = d
    <3>1. r.anterior # 0 => \E g \in Faturas : fatura'[g].serie = r.s /\ fatura'[g].numero = r.anterior
      BY <2>1, <2>2, <2>3
    <3>2. ASSUME NEW g \in Faturas, fatura'[g].serie = r.s,
                 r.anterior < fatura'[g].numero, fatura'[g].numero < r.numero
          PROVE  FALSE
      <4>1. g # d
        BY <2>1, <2>3, <3>2
      <4> QED BY <1>a, <2>1, <2>2, <2>3, <3>2, <4>1
    <3> QED BY <2>1, <2>2, <2>4, <3>1, <3>2
  <2>5. CASE f # d
    <3>1. fatura'[f] = fatura[f] /\ fatura[f].numero # 0
      BY <2>1, <2>5
    <3>2. fatura[f].anterior # 0 => \E g \in Faturas : /\ fatura'[g].serie = fatura[f].serie
                                                        /\ fatura'[g].numero = fatura[f].anterior
      BY <1>b, <2>1, <2>3, <3>1
    <3>3. ASSUME NEW g \in Faturas, fatura'[g].serie = fatura[f].serie,
                 fatura[f].anterior < fatura'[g].numero, fatura'[g].numero < fatura[f].numero
          PROVE  FALSE
      <4>1. CASE g # d
        BY <1>b, <2>1, <3>1, <3>3, <4>1
      <4>2. CASE g = d
        <5>1. fatura[f].numero <= r.anterior
          BY <2>1, <2>2, <3>3, <4>2
        <5> QED BY <1>a, <2>1, <2>2, <2>3, <3>3, <4>2, <5>1
      <4> QED BY <4>1, <4>2
    <3> QED BY <1>b, <3>1, <3>2, <3>3
  <2> QED BY <2>4, <2>5
<1> QED BY <1>1, <1>2, EmiteOuNao

(* emitir: while one request emits, the signature of each document chains  *)
(* to the one emitted just before it in its series, whatever fails.        *)
THEOREM CadeiaCorrecta ==
    ASSUME EmissorUnico
    PROVE  Spec => []CadeiaHash
<1>1. Init => CadeiaInv
    BY LivreTipo DEF Init, CadeiaInv, CadeiaHash, Emitida, EmVigor, CadeiaEmCurso
<1>2. TypeOK /\ TypeOK' /\ EmissaoInv /\ EmissaoInv' /\ CadeiaInv /\ [Next]_vars => CadeiaInv'
    BY CadeiaEmCursoSegue, CadeiaSegue DEF CadeiaInv
<1>3. CadeiaInv => CadeiaHash
    BY DEF CadeiaInv
<1> QED BY <1>1, <1>2, <1>3, TypeCorrect, EmissaoCorrecta, PTL DEF Spec
-----------------------------------------------------------------------------
(* What was signed *)

(* Only the request that emits edits drafts.                               *)
SoOEmissorEdita == \A a \in Emissores, b \in Pedidos : "update" \in Operacoes[b] => a = b

(* An edit in progress is of a draft; an emission in progress holds the    *)
(* total the draft has.                                                    *)
AssinaturaEmCurso(p) ==
    LET r == pedido[p] IN
    /\ r.pc = "update.gravar" =>
          "update" \in Operacoes[p] /\ r.f \in Faturas /\ fatura[r.f].estado = "RASCUNHO"
    /\ Emitindo(p) => r.total = fatura[r.f].total
AssinaturaInv == AssinaturaConfere /\ \A p \in Pedidos : AssinaturaEmCurso(p)

(* The draft an edit works on is not emitted meanwhile.                    *)
LEMMA EditadaFicaRascunho ==
    ASSUME EmissorUnico, SoOEmissorEdita, TypeOK, EmissaoInv, [Next]_vars,
           NEW x \in Pedidos, pedido[x].pc = "update.gravar", "update" \in Operacoes[x],
           NEW f \in Faturas, fatura[f].estado = "RASCUNHO"
    PROVE  fatura'[f].estado = "RASCUNHO"
<1>1. ~Numerada(f)
  <2> SUFFICES ASSUME NEW p \in Pedidos, GravarEmissao(p)
               PROVE  FALSE
    BY DEF Numerada
  <2>1. p \in Emissores /\ pedido[p].pc = "emitir.gravarFatura"
    BY DEF GravarEmissao, Em, EmissaoInv, EmissaoEmCurso, Emitindo, PassosEmissao
  <2> QED BY <2>1 DEF SoOEmissorEdita
<1>2. ~Mudada(f) /\ ~Nova(f)
    BY DEF Mudada, Nova, Emitida, EmVigor
<1> QED BY <1>1, <1>2, LinhaSegue DEF Editada

(* ... and the draft an emission works on is not edited.                   *)
LEMMA EmitidaFicaIgual ==
    ASSUME SoOEmissorEdita, TypeOK, EmissaoInv, AssinaturaInv, [Next]_vars,
           NEW x \in Pedidos, Emitindo(x)
    PROVE  fatura'[pedido[x].f].total = fatura[pedido[x].f].total
<1> DEFINE f == pedido[x].f
<1>1. x \in Emissores /\ f \in Faturas /\ fatura[f].estado = "RASCUNHO"
    BY DEF EmissaoInv, EmissaoEmCurso
<1>2. ~Editada(f)
  <2> SUFFICES ASSUME NEW p \in Pedidos, UpdateGravar(p)
               PROVE  FALSE
    BY DEF Editada
  <2>1. "update" \in Operacoes[p] /\ pedido[p].pc = "update.gravar"
    BY DEF AssinaturaInv, AssinaturaEmCurso, UpdateGravar, Em
  <2>2. pedido[x].pc # "update.gravar"
    BY DEF Emitindo, PassosEmissao, PassosSerie
  <2> QED BY <1>1, <2>1, <2>2 DEF SoOEmissorEdita
<1>3. ~Nova(f)
    BY <1>1 DEF Nova
<1> HIDE DEF f
<1>4. fatura'[f] = fatura[f] \/ Mudada(f) \/ Numerada(f)
    BY <1>1, <1>2, <1>3, LinhaSegue
<1>5. fatura'[f].total = fatura[f].total
    BY <1>4 DEF Mudada, Numerada
<1> QED BY <1>5 DEF f

LEMMA AssinaturaEmCursoSegue ==
    ASSUME EmissorUnico, SoOEmissorEdita, TypeOK, EmissaoInv, AssinaturaInv, [Next]_vars,
           NEW x \in Pedidos
    PROVE  AssinaturaEmCurso(x)'
<1> DEFINE r == pedido[x]
<1>a. AssinaturaEmCurso(x)
    BY DEF AssinaturaInv
<1>1. CASE pedido'[x] = r
  <2>1. ASSUME r.pc = "update.gravar"
        PROVE  "update" \in Operacoes[x] /\ r.f \in Faturas /\ fatura'[r.f].estado = "RASCUNHO"
    BY <1>a, <2>1, EditadaFicaRascunho DEF AssinaturaEmCurso
  <2>2. Emitindo(x) => r.total = fatura'[r.f].total
    BY <1>a, EmitidaFicaIgual DEF AssinaturaEmCurso
  <2>3. Emitindo(x)' => Emitindo(x)
    BY <1>1 DEF Emitindo
  <2> QED BY <1>1, <2>1, <2>2, <2>3 DEF AssinaturaEmCurso
<1>2. CASE Chamada(x)
  <2>1. Comeca(x) /\ fatura' = fatura
    BY <1>2, ChamadaComeca, ChamadaLivre
  <2>2. Emitindo(x)' => pedido'[x].pc = "emitir.serie"
    BY <2>1 DEF Comeca, PassosIniciais, Emitindo, PassosEmissao, PassosSerie
  <2> QED BY <2>1, <2>2 DEF Comeca, AssinaturaEmCurso
<1>3. CASE pedido'[x].pc = "livre"
    BY <1>3 DEF AssinaturaEmCurso, Emitindo, PassosEmissao, PassosSerie
<1>4. CASE Continua(x)
  <2>1. pedido'[x].pc # "update.gravar"
    BY <1>4 DEF Continua, Arestas
  <2>2. Emitindo(x)' => pedido'[x].total = fatura'[pedido'[x].f].total
    BY <1>4, <1>a, EmitidaFicaIgual DEF Continua, AssinaturaEmCurso
  <2> QED BY <2>1, <2>2 DEF AssinaturaEmCurso
<1>5. Interromper(x) => pedido'[x].pc = "livre"
    BY LivreTipo DEF Interromper, Termina, Segue, TypeOK
<1>6. Passo(x) => pedido'[x].pc = "livre" \/ Continua(x)
    BY PassoContinua
<1> QED BY <1>1, <1>2, <1>3, <1>4, <1>5, <1>6, UmPedido

LEMMA AssinaturaSegue ==
    ASSUME TypeOK, EmissaoInv, AssinaturaInv, [Next]_vars
    PROVE  AssinaturaConfere'
<1> SUFFICES ASSUME NEW f \in Faturas,
                    fatura'[f].estado \in {"EMITIDA", "COMUNICADA_AT", "ANULADA"}
             PROVE  fatura'[f].total = fatura'[f].assinado
    BY DEF AssinaturaConfere, Emitida, EmVigor
<1>a. fatura[f].estado \in {"EMITIDA", "COMUNICADA_AT", "ANULADA"} => fatura[f].total = fatura[f].assinado
    BY DEF AssinaturaInv, AssinaturaConfere, Emitida, EmVigor
<1>1. CASE fatura'[f] = fatura[f]
    BY <1>1, <1>a
<1>2. ~Nova(f)
    BY DEF Nova
<1>3. ~Editada(f)
    BY DEF Editada, UpdateGravar, Em, AssinaturaInv, AssinaturaEmCurso
<1>4. CASE Mudada(f)
    BY <1>4, <1>a DEF Mudada, Fixos, Emitida, EmVigor
<1>5. CASE Numerada(f)
  <2>1. PICK p \in Pedidos : /\ GravarEmissao(p) /\ pedido[p].f = f
                             /\ fatura'[f].assinado = pedido[p].total
    BY <1>5 DEF Numerada
  <2>2. pedido[p].total = fatura[f].total
    BY <2>1 DEF AssinaturaInv, AssinaturaEmCurso, Emitindo, PassosEmissao, GravarEmissao, Em
  <2> QED BY <1>5, <2>1, <2>2 DEF Numerada
<1> QED BY <1>1, <1>2, <1>3, <1>4, <1>5, LinhaSegue

(* update and emitir: when the request that emits is the only one that     *)
(* edits, an emitted document has the totals that were signed, whatever    *)
(* fails and whatever the others do.                                       *)
THEOREM AssinaturaCorrecta ==
    ASSUME EmissorUnico, SoOEmissorEdita
    PROVE  Spec => []AssinaturaConfere
<1>1. Init => AssinaturaInv
    BY LivreTipo DEF Init, AssinaturaInv, AssinaturaConfere, Emitida, EmVigor, AssinaturaEmCurso,
                     Emitindo, PassosEmissao, PassosSerie
<1>2. TypeOK /\ EmissaoInv /\ AssinaturaInv /\ [Next]_vars => AssinaturaInv'
    BY AssinaturaEmCursoSegue, AssinaturaSegue DEF AssinaturaInv
<1>3. AssinaturaInv => AssinaturaConfere
    BY DEF AssinaturaInv
<1> QED BY <1>1, <1>2, <1>3, TypeCorrect, EmissaoCorrecta, PTL DEF Spec

-----------------------------------------------------------------------------
(* Annulled documents and credit notes *)

(* Who marks documents as communicated is who annuls them.                 *)
Comunica(p) == Operacoes[p] \cap {"emitir", "comunicarAt", "reenviarAt"} # {}
SoUmMudaOEstado == \A a, b \in Pedidos : (Comunica(a) /\ "anular" \in Operacoes[b]) => a = b

(* A document that is being communicated is in force.                      *)
EstadoEmCurso(p) ==
    LET r == pedido[p] IN
    /\ r.pc \in {"emitir.auto", "com.at", "com.gravar"} =>
          Comunica(p) /\ r.f \in Faturas /\ EmVigor(r.f)
    /\ r.pc \in {"anular.at", "anular.resposta", "anular.gravar"} => "anular" \in Operacoes[p]
EstadoInv == \A p \in Pedidos : EstadoEmCurso(p)

(* ... and is not annulled meanwhile.                                      *)
LEMMA FicaEmVigor ==
    ASSUME SoUmMudaOEstado, TypeOK, EmissaoInv, EstadoInv, [Next]_vars,
           NEW x \in Pedidos, Comunica(x), pedido[x].pc # "anular.gravar",
           NEW f \in Faturas, EmVigor(f)
    PROVE  EmVigor(f)'
<1>1. ~Nova(f) /\ ~Numerada(f)
    BY DEF Nova, Numerada, EmVigor
<1>2. Editada(f) \/ fatura'[f] = fatura[f] => EmVigor(f)'
    BY DEF Editada, EmVigor
<1>3. CASE Mudada(f)
  <2>1. PICK p \in Pedidos : \/ MarcarComunicada(p) /\ fatura'[f].estado = "COMUNICADA_AT"
                             \/ AnularGravar(p) /\ fatura'[f].estado = "ANULADA"
    BY <1>3 DEF Mudada
  <2>2. ~AnularGravar(p)
    BY DEF AnularGravar, Em, EstadoInv, EstadoEmCurso, SoUmMudaOEstado
  <2> QED BY <2>1, <2>2 DEF EmVigor
<1> QED BY <1>1, <1>2, <1>3, LinhaSegue

LEMMA EstadoSegue ==
    ASSUME SoUmMudaOEstado, TypeOK, EmissaoInv, EstadoInv, [Next]_vars, NEW x \in Pedidos
    PROVE  EstadoEmCurso(x)'
<1> DEFINE r == pedido[x]
<1>a. EstadoEmCurso(x)
    BY DEF EstadoInv
<1>b. ASSUME r.pc \in {"emitir.auto", "com.at", "com.gravar"}
      PROVE  Comunica(x) /\ r.f \in Faturas /\ fatura'[r.f].estado \in {"EMITIDA", "COMUNICADA_AT"}
  <2>1. Comunica(x) /\ r.f \in Faturas /\ EmVigor(r.f)
    BY <1>a, <1>b DEF EstadoEmCurso
  <2>2. \A f \in Faturas : EmVigor(f) => fatura'[f].estado \in {"EMITIDA", "COMUNICADA_AT"}
    BY <1>b, <2>1, FicaEmVigor DEF EmVigor
  <2> QED BY <2>1, <2>2
<1>1. CASE pedido'[x] = r
    BY <1>1, <1>a, <1>b DEF EstadoEmCurso, EmVigor
<1>2. CASE Chamada(x)
  <2>1. Comeca(x) /\ fatura' = fatura
    BY <1>2, ChamadaComeca, ChamadaLivre
  <2> QED BY <2>1 DEF Comeca, PassosIniciais, EstadoEmCurso, EmVigor, Comunica
<1>3. CASE pedido'[x].pc = "livre"
    BY <1>3 DEF EstadoEmCurso
<1>4. CASE Passo(x) /\ Continua(x)
  <2>1. /\ <<r.pc, pedido'[x].pc>> \in Arestas
        /\ pedido'[x].f = r.f
    BY <1>4 DEF Continua
  <2>2. CASE pedido'[x].pc = "emitir.auto"
    <3>1. r.pc = "emitir.gravarFatura"
      BY <2>1, <2>2 DEF Arestas
    <3>2. GravarEmissao(x) /\ x \in Emissores /\ r.f \in Faturas
      BY <1>4, <3>1, PassoDe DEF Em, EmissaoInv, EmissaoEmCurso, Emitindo, PassosEmissao
    <3>3. fatura'[r.f].estado = "EMITIDA"
      BY <3>2 DEF GravarEmissao, TypeOK, FaturaRow
    <3>4. Comunica(x)
      BY <3>2 DEF Emissores, Comunica
    <3> QED BY <2>1, <2>2, <3>2, <3>3, <3>4 DEF EstadoEmCurso, EmVigor
  <2>3. CASE pedido'[x].pc \in {"com.at", "com.gravar"}
    <3>1. r.pc \in {"emitir.auto", "com.at"}
      BY <2>1, <2>3 DEF Arestas
    <3> QED BY <1>b, <2>1, <2>3, <3>1 DEF EstadoEmCurso, EmVigor
  <2>4. CASE pedido'[x].pc \in {"anular.at", "anular.resposta", "anular.gravar"}
    <3>1. r.pc \in {"anular.at", "anular.resposta"}
      BY <2>1, <2>4 DEF Arestas
    <3> QED BY <1>a, <2>4, <3>1 DEF EstadoEmCurso
  <2> QED BY <2>2, <2>3, <2>4 DEF EstadoEmCurso
<1>5. Interromper(x) => pedido'[x].pc = "livre"
    BY LivreTipo DEF Interromper, Termina, Segue, TypeOK
<1>6. Passo(x) => pedido'[x].pc = "livre" \/ Continua(x)
    BY PassoContinua
<1> QED BY <1>1, <1>2, <1>3, <1>4, <1>5, <1>6, UmPedido

(* An annulled row is not touched.                                         *)
LEMMA AnuladaFica ==
    ASSUME TypeOK, EmissaoInv, EstadoInv, [Next]_vars, NEW f \in Faturas, fatura[f].estado = "ANULADA"
    PROVE  fatura'[f].estado = "ANULADA"
<1>1. ~Nova(f) /\ ~Numerada(f)
    BY DEF Nova, Numerada
<1>2. Mudada(f) => fatura'[f].estado = "ANULADA"
    BY DEF Mudada, MarcarComunicada, Em, EstadoInv, EstadoEmCurso, EmVigor
<1> QED BY <1>1, <1>2, LinhaSegue DEF Editada

LEMMA EstadoInicial == Init => EstadoInv
BY LivreTipo DEF Init, EstadoInv, EstadoEmCurso

(* anular: when who communicates documents is who annuls them, an annulled *)
(* document stays annulled: no late answer of AT revives it.               *)
THEOREM AnuladaCorrecta ==
    ASSUME EmissorUnico, SoUmMudaOEstado
    PROVE  Spec => AnuladaParaSempre
<1>1. TypeOK /\ EmissaoInv /\ EstadoInv /\ [Next]_vars => EstadoInv'
    BY EstadoSegue DEF EstadoInv
<1>2. TypeOK /\ EmissaoInv /\ EstadoInv /\ [Next]_vars
        => [\A f \in Faturas : fatura[f].estado = "ANULADA" => fatura'[f].estado = "ANULADA"]_vars
    BY AnuladaFica
<1> QED BY <1>1, <1>2, EstadoInicial, TypeCorrect, EmissaoCorrecta, PTL DEF Spec, AnuladaParaSempre

(* One request makes credit notes.                                         *)
UmFazNotas ==
    \A a, b \in Pedidos : ("notaCredito" \in Operacoes[a] /\ "notaCredito" \in Operacoes[b]) => a = b

(* A credit note about to be inserted has no active one before it.         *)
NotaEmCurso(p) ==
    LET r == pedido[p] IN
    /\ r.pc \in {"nc.procurar", "nc.criar"} => "notaCredito" \in Operacoes[p] /\ r.f \in Faturas
    /\ r.pc = "nc.criar" => \A g \in Faturas : ~NotaActiva(g, r.f)
NotasInv == NotaCreditoUnica /\ \A p \in Pedidos : NotaEmCurso(p)

(* A note becomes active only when it is inserted.                         *)
LEMMA NotaNasce ==
    ASSUME TypeOK, EmissaoInv, EstadoInv, [Next]_vars,
           NEW f \in Faturas, NEW g \in Faturas, NotaActiva(g, f)'
    PROVE  \/ NotaActiva(g, f)
           \/ \E p \in Pedidos : NotaCreditoCriar(p) /\ pedido[p].f = f
<1>1. fatura'[g] = fatura[g] => NotaActiva(g, f)
    BY DEF NotaActiva
<1>2. ASSUME Nova(g)
      PROVE  \E p \in Pedidos : NotaCreditoCriar(p) /\ pedido[p].f = f
    BY <1>2, CodigosAssumption DEF Nova, NotaActiva
<1>3. Editada(g) => NotaActiva(g, f)
    BY DEF Editada, Mesma, NotaActiva
<1>4. ASSUME Mudada(g)
      PROVE  NotaActiva(g, f)
  <2>1. fatura[g].estado # "ANULADA"
    BY AnuladaFica DEF NotaActiva
  <2> QED BY <1>4, <2>1 DEF Mudada, Mesma, Emitida, EmVigor, NotaActiva
<1>5. Numerada(g) => NotaActiva(g, f)
    BY DEF Numerada, Mesma, NotaActiva
<1> QED BY <1>1, <1>2, <1>3, <1>4, <1>5, LinhaSegue

LEMMA NotaEmCursoSegue ==
    ASSUME UmFazNotas, TypeOK, EmissaoInv, EstadoInv, NotasInv, [Next]_vars, NEW x \in Pedidos
    PROVE  NotaEmCurso(x)'
<1> DEFINE r == pedido[x]
<1>a. NotaEmCurso(x)
    BY DEF NotasInv
<1>1. CASE pedido'[x] = r
  <2>1. ASSUME r.pc = "nc.criar", NEW f \in Faturas, f = r.f, NEW g \in Faturas, NotaActiva(g, f)'
        PROVE  FALSE
    <3>1. "notaCredito" \in Operacoes[x] /\ ~NotaActiva(g, f)
      BY <1>a, <2>1 DEF NotaEmCurso
    <3>2. PICK p \in Pedidos : NotaCreditoCriar(p)
      BY <2>1, <3>1, NotaNasce
    <3>3. p = x
      BY <3>1, <3>2 DEF UmFazNotas, NotasInv, NotaEmCurso, NotaCreditoCriar, Em
    <3>4. pedido'[x].pc = "livre"
      BY <3>2, <3>3, LivreTipo DEF NotaCreditoCriar, Termina, Segue, TypeOK
    <3> QED BY <1>1, <2>1, <3>4
  <2> QED BY <1>1, <1>a, <2>1 DEF NotaEmCurso, NotaActiva
<1>2. CASE Chamada(x)
  <2>1. Comeca(x)
    BY <1>2, ChamadaComeca
  <2> QED BY <2>1 DEF Comeca, PassosIniciais, NotaEmCurso
<1>3. CASE pedido'[x].pc = "livre"
    BY <1>3 DEF NotaEmCurso
<1>4. CASE Passo(x) /\ Continua(x)
  <2>1. <<r.pc, pedido'[x].pc>> \in Arestas /\ pedido'[x].f = r.f
    BY <1>4 DEF Continua
  <2>2. pedido'[x].pc # "nc.procurar"
    BY <2>1 DEF Arestas
  <2>3. CASE pedido'[x].pc = "nc.criar"
    <3>1. r.pc = "nc.procurar"
      BY <2>1, <2>3 DEF Arestas
    <3>2. NotaCreditoProcurar(x)
      BY <1>4, <3>1, PassoDe DEF Em
    <3>3. fatura' = fatura /\ \A g \in Faturas : ~NotaActiva(g, r.f)
      <4>1. Termina(x) => pedido'[x].pc = "livre"
        BY LivreTipo DEF Termina, Segue, TypeOK
      <4> QED BY <2>3, <3>2, <4>1 DEF NotaCreditoProcurar
    <3> QED BY <1>a, <2>1, <2>3, <3>1, <3>3 DEF NotaEmCurso, NotaActiva
  <2> QED BY <2>2, <2>3 DEF NotaEmCurso
<1>5. Interromper(x) => pedido'[x].pc = "livre"
    BY LivreTipo DEF Interromper, Termina, Segue, TypeOK
<1>6. Passo(x) => pedido'[x].pc = "livre" \/ Continua(x)
    BY PassoContinua
<1> QED BY <1>1, <1>2, <1>3, <1>4, <1>5, <1>6, UmPedido

LEMMA NotaUnicaSegue ==
    ASSUME TypeOK, EmissaoInv, EstadoInv, NotasInv, [Next]_vars
    PROVE  NotaCreditoUnica'
<1> SUFFICES ASSUME NEW f \in Faturas, NEW g \in Faturas, NEW h \in Faturas,
                    NotaActiva(g, f)', NotaActiva(h, f)'
             PROVE  g = h
    BY DEF NotaCreditoUnica
<1>1. CASE NotaActiva(g, f) /\ NotaActiva(h, f)
    BY <1>1 DEF NotasInv, NotaCreditoUnica
<1>2. ASSUME NEW p \in Pedidos, NotaCreditoCriar(p), pedido[p].f = f
      PROVE  g = h
  <2>1. ~NotaActiva(g, f) /\ ~NotaActiva(h, f)
    BY <1>2 DEF NotasInv, NotaEmCurso, NotaCreditoCriar, Em
  <2>2. PICK d \in Faturas : \A c \in Faturas \ {d} : fatura'[c] = fatura[c]
    BY <1>2 DEF NotaCreditoCriar, Inserir, TypeOK
  <2>3. \A c \in Faturas : fatura'[c] = fatura[c] /\ NotaActiva(c, f)' => NotaActiva(c, f)
    BY DEF NotaActiva
  <2> QED BY <2>1, <2>2, <2>3
<1> QED BY <1>1, <1>2, NotaNasce

(* criarNotaCredito: when one request makes credit notes, and who          *)
(* communicates documents is who annuls them, an invoice never has two     *)
(* active credit notes.                                                    *)
THEOREM NotaCorrecta ==
    ASSUME EmissorUnico, SoUmMudaOEstado, UmFazNotas
    PROVE  Spec => []NotaCreditoUnica
<1>1. Init => NotasInv
    BY LivreTipo DEF Init, NotasInv, NotaCreditoUnica, NotaActiva, NotaEmCurso
<1>2. TypeOK /\ EmissaoInv /\ EstadoInv /\ NotasInv /\ [Next]_vars => EstadoInv' /\ NotasInv'
    BY EstadoSegue, NotaEmCursoSegue, NotaUnicaSegue DEF EstadoInv, NotasInv
<1>3. NotasInv => NotaCreditoUnica
    BY DEF NotasInv
<1> QED BY <1>1, <1>2, <1>3, EstadoInicial, TypeCorrect, EmissaoCorrecta, PTL DEF Spec
=============================================================================
