----------------------------- MODULE LivroFiscal -----------------------------
(***************************************************************************)
(* What the numbering of a billing series promises, whatever the requests  *)
(* in between: the book of a series is append-only, an entry ties one      *)
(* number to one document for ever, and a new entry has a number above all *)
(* the earlier ones.                                                       *)
(***************************************************************************)
EXTENDS Naturals

CONSTANTS Series, Documentos, Numeros

VARIABLE livro      \* livro[s]: entries <<numero, documento>> of series s

InitLivro == livro = [s \in Series |-> {}]

Lancado(d) == \E s \in Series : \E e \in livro[s] : e[2] = d

Lancar(s, d) ==
    /\ ~Lancado(d)
    /\ \E n \in Numeros :
          /\ \A e \in livro[s] : e[1] < n
          /\ livro' = [livro EXCEPT ![s] = @ \cup {<<n, d>>}]

NextLivro == \E s \in Series, d \in Documentos : Lancar(s, d)

SpecLivro == InitLivro /\ [][NextLivro]_livro
=============================================================================
