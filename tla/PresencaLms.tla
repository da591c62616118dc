----------------------------- MODULE PresencaLms -----------------------------
(***************************************************************************)
(* Attendance time of one learner in one session, computed from the log of *)
(* AcessoLms rows: packages/shared/src/lms/presenca.ts.  A log is the      *)
(* sequence of rows in the order of ocorridoEm; instants are in seconds.   *)
(***************************************************************************)
EXTENDS Integers, Sequences, FiniteSets

Nulo == -1          \* null in a column of seconds

Eventos == {"join", "leave", "alert"}

AcessoRow == [evento: Eventos, em: Nat, duracao: Nat \cup {Nulo}]

SemNegativos(n) == IF n < 0 THEN 0 ELSE n

(* The position of the last entrance or exit, 0 when there is none: rows   *)
(* of other kinds are skipped.                                             *)
UltimoMovimento(log) ==
    LET M == {i \in DOMAIN log : log[i].evento \in {"join", "leave"}}
    IN  IF M = {} THEN 0 ELSE CHOOSE i \in M : \A j \in M : j <= i

(* ultimoJoinAberto # null *)
EmSessao(log) == UltimoMovimento(log) # 0 /\ log[UltimoMovimento(log)].evento = "join"

(* Fault: the entrance counted from is the first one of the session. *)
FaltaDesdePrimeiroJoin(log, ate) ==
    IF EmSessao(log)
    THEN SemNegativos(ate - log[CHOOSE i \in DOMAIN log : /\ log[i].evento = "join"
                                                          /\ \A j \in 1 .. (i - 1) : log[j].evento # "join"].em)
    ELSE Nulo

(* segundosDesdeUltimoJoin: since the last entrance, null when outside.    *)
SegundosDesdeUltimoJoin(log, ate) ==
    IF EmSessao(log) THEN SemNegativos(ate - log[UltimoMovimento(log)].em) ELSE Nulo

(* calcularSegundosPresencaJoinLeave: one turn of the loop over the log.   *)
(* `desde` is the entrance of the open interval; an exit adds the duration *)
(* its row has, or else the length of the interval.                        *)
Somar(a, e) ==
    CASE e.evento = "join" /\ a.desde = Nulo -> [a EXCEPT !.desde = e.em]
      [] e.evento = "leave" /\ a.desde # Nulo ->
           [desde |-> Nulo,
            total |-> a.total + IF e.duracao > 0 THEN e.duracao ELSE SemNegativos(e.em - a.desde)]
      [] OTHER -> a

SomaVazia == [desde |-> Nulo, total |-> 0]

Soma(log) ==
    LET soma[i \in 0 .. Len(log)] ==
            IF i = 0 THEN SomaVazia ELSE Somar(soma[i - 1], log[i])
    IN  soma[Len(log)]

(* ... and the interval still open counts until `ate`.                     *)
SegundosPresenca(log, ate) ==
    LET s == Soma(log)
    IN  s.total + IF s.desde = Nulo THEN 0 ELSE SemNegativos(ate - s.desde)

(* What the comment of calcularSegundosPresencaJoinLeave promises, "soma   *)
(* intervalos [join -> leave] por ordem cronologica; joins duplicados      *)
(* ignoram-se ate haver leave": the instants before `ate` at which some    *)
(* entrance has no exit after it.                                          *)
TempoEmSessao(log, ate) ==
    Cardinality({t \in 0 .. (ate - 1) :
        \E i \in DOMAIN log :
            /\ log[i].evento = "join" /\ log[i].em <= t
            /\ \A j \in (i + 1) .. Len(log) : log[j].evento = "leave" => log[j].em > t})
=============================================================================
