--------------------------- MODULE Cerrojos_proofs ----------------------------
(***************************************************************************)
(* Theorems about Cerrojos, for any number of processes, of detached       *)
(* threads and of events, and any degree and instances: threads wait for   *)
(* each other in a circle only in the known ways, none waits for itself,   *)
(* and a pause that has ended ends for whoever is in it.                   *)
(*                                                                         *)
(* What is left of a thread is a sequence that calls lengthen, so there    *)
(* is no list of the sequences that a thread may be at.  The invariant     *)
(* says of what is left that it keeps an order of the mutexes to its end:  *)
(* that it is in some set of pairs, of mutexes held and operations left,   *)
(* closed under what the operations may be followed by.                    *)
(***************************************************************************)
EXTENDS Cerrojos, Listas_proofs, FiniteSetTheorems

-------------------------------------------------------------------------------
(* The order of the mutexes.                                                *)

(* FILESYSTEM is as the holder of a mutex that F_OPEN waits for.            *)
Rango(m) ==
  CASE m \in {"desalojado", "finalizar"} -> 0
    [] m = "f_open" -> 1
    [] m = "EXEC" -> 2
    [] m = "core" -> 3
    [] m = "NEW" -> 4
    [] OTHER -> 5

(* m can be waited for with l held: by the order, or one of the known ways. *)
Orden(a, l, m) ==
  /\ l # m
  /\ \/ "recurso" \in {l, m}
     \/ {l, m} = {"desalojado", "finalizar"}
     \/ a = "PRIORIDADES" /\ {l, m} = {"READY", "EXEC"}
     \/ Rango(l) < Rango(m)

Admite(a, L, m) == \A l \in L : Orden(a, l, m)

-------------------------------------------------------------------------------
(* What is left of a thread.                                                *)
Sec(s) == \E S : s \in Seq(S)

EnPausa(s) == s # <<>> /\ Head(s).op = "ESPERA" /\ Head(s).m = "pausa"
PorPostear(s) == s # <<>> /\ Head(s).op = "HACE" /\ Head(s).x = "POST"

(* The effects that do not touch the pause.                                 *)
Ordinarios ==
  {"NADA", "CAE", "SACA", "SACA_EXEC", "PONE", "ENTRA", "INICIA_EN_MEMORIA",
   "LIBERA_EN_MEMORIA", "ADMITE", "BAJA", "VUELVE", "DESPACHA", "RECIBE", "RESPONDE",
   "ASIGNA", "ANOTA", "SUMA", "DEVUELVE", "DEJA_LA_COLA", "PIDE_ABRIR", "PIDE",
   "DESALOJADO", "NO_DESALOJADO", "NO_FINALIZAR", "MARCA", "PIDE_DESALOJO", "ENVIA"}
  \cup {"NINGUNO", "ELIGE", "MAYOR", "SALE_DE_NEW", "LEE", "DESENCOLA", "COMPARA"}

(* A thread that holds L and has s left may come to hold M and have t left, *)
(* or launch one that holds nothing and has t.                              *)
Siguientes(a, L, s) ==
  LET c == Head(s)
      t == Tail(s)
  IN  IF s = <<>> THEN {}
      ELSE CASE c.op = "TOMA" -> {<<L \cup {c.m}, t>>}
             [] c.op = "SUELTA" -> {<<L \ {c.m}, t>>}
             [] c.op = "SI" /\ c.x = "ALGORITMO" ->
                  {<<L, (IF a = c.m THEN c.a ELSE c.b) \o t>>}
             [] c.op = "SI" /\ c.x # "ALGORITMO" -> {<<L, c.a \o t>>, <<L, c.b \o t>>}
             [] c.op = "LLAMA" -> {<<L, Funcion(c.x) \o t>>}
             [] c.op = "LANZA" -> {<<L, t>>, <<{}, Funcion(c.x)>>}
             [] c.op \in {"BREVE", "HACE", "COPIA", "ESPERA"} -> {<<L, t>>}
             [] OTHER -> {}

(* With L held the first operation of s is in order, and nobody comes to    *)
(* wait in the pause but by finding it on.                                  *)
EnOrden(a, L, s) ==
  LET c == Head(s)
  IN  /\ c.op \in {"TOMA", "BREVE"} => c.m \in Mutexes /\ Admite(a, L, c.m)
      /\ c.op = "COPIA" => c.m \in Mutexes \ L
      /\ c.op = "SUELTA" => c.m \in Mutexes \cap L
      /\ c.op \in {"TOMA", "BREVE", "COPIA"} => c.x \in Ordinarios
      /\ c.op = "HACE" => \/ c.x \in Ordinarios \cup {"PAUSA", "POST"}
                          \/ c.x = "REANUDA" /\ PorPostear(Tail(s))
      /\ c.op = "ESPERA" => \/ c.m = "pausa" /\ "pausa" \in L
                            \/ c.m = "f_open" /\ Admite(a, L, "f_open")
      /\ IF c.op = "SI" /\ c.x = "PAUSADO" THEN ~EnPausa(c.b \o Tail(s))
         ELSE \A e \in Siguientes(a, L, s) : ~EnPausa(e[2])

Permitido(a, L, s) ==
  Sec(s) /\ IF s = <<>> THEN L \subseteq {"f_open"} ELSE EnOrden(a, L, s)

Cerrada(a, U) ==
  \A e \in U : Permitido(a, e[1], e[2]) /\ Siguientes(a, e[1], e[2]) \subseteq U

Buena(a, L, s) == \E U : <<L, s>> \in U /\ Cerrada(a, U)
Bien(a, L, s) == Buena(a, L, s) /\ ~EnPausa(s)

(* s, done with L held, leaves M held.                                      *)
Pasa(a, L, s, M) == Sec(s) /\ \A r : Bien(a, M, r) => Bien(a, L, s \o r)

-------------------------------------------------------------------------------
(* Sequences, of any kind of elements.                                      *)
LEMMA SecEnComun ==
  ASSUME NEW s, NEW t, NEW u, Sec(s), Sec(t), Sec(u)
  PROVE  \E S : s \in Seq(S) /\ t \in Seq(S) /\ u \in Seq(S)
<1>1. PICK A : s \in Seq(A)
  BY DEF Sec
<1>2. PICK B : t \in Seq(B)
  BY DEF Sec
<1>3. PICK C : u \in Seq(C)
  BY DEF Sec
<1>4. s \in Seq(A \cup B \cup C) /\ t \in Seq(A \cup B \cup C) /\ u \in Seq(A \cup B \cup C)
  <2>1. A \subseteq A \cup B \cup C /\ B \subseteq A \cup B \cup C /\ C \subseteq A \cup B \cup C
    OBVIOUS
  <2> QED BY <1>1, <1>2, <1>3, <2>1, SeqMonotonic
<1> QED BY <1>4

LEMMA SecNada == Sec(<<>>)
<1>1. <<>> \in Seq({})
  OBVIOUS
<1> QED BY <1>1 DEF Sec

LEMMA SecDeUno ==
  ASSUME NEW c
  PROVE  Sec(<<c>>)
<1>1. <<c>> \in Seq({c})
  OBVIOUS
<1> QED BY <1>1 DEF Sec

LEMMA SecJuntas ==
  ASSUME NEW s, NEW t, Sec(s), Sec(t)
  PROVE  Sec(s \o t)
<1>1. PICK S : s \in Seq(S) /\ t \in Seq(S)
  BY SecEnComun
<1>2. s \o t \in Seq(S)
  BY <1>1, ConcatProperties
<1> QED BY <1>2 DEF Sec

LEMMA SecAsocia ==
  ASSUME NEW s, NEW t, NEW u, NEW st, NEW tu, Sec(s), Sec(t), Sec(u), st = s \o t, tu = t \o u
  PROVE  st \o u = s \o tu
<1>1. PICK S : s \in Seq(S) /\ t \in Seq(S) /\ u \in Seq(S)
  BY SecEnComun
<1> QED BY <1>1, ConcatAssociative

LEMMA SecNeutra ==
  ASSUME NEW s, Sec(s)
  PROVE  s \o <<>> = s /\ <<>> \o s = s
<1>1. PICK S : s \in Seq(S)
  BY DEF Sec
<1> QED BY <1>1, ConcatEmptySeq

LEMMA CabezaDe ==
  ASSUME NEW c, NEW r, Sec(r)
  PROVE  /\ Sec(<<c>> \o r) /\ <<c>> \o r # <<>>
         /\ Head(<<c>> \o r) = c /\ Tail(<<c>> \o r) = r
<1>1. PICK S : <<c>> \in Seq(S) /\ r \in Seq(S)
  BY SecDeUno, SecEnComun
<1> DEFINE s == <<c>> \o r
<1>2. s \in Seq(S) /\ Len(s) = Len(r) + 1 /\ Len(r) \in Nat
  BY <1>1, ConcatProperties
<1>3. s[1] = c /\ \A i \in 1..Len(r) : s[i + 1] = r[i]
  <2>1. \A i \in 1..1 + Len(r) : s[i] = IF i <= 1 THEN <<c>>[i] ELSE r[i - 1]
    BY <1>1, ConcatProperties
  <2> QED BY <2>1, <1>2
<1> HIDE DEF s
<1>4. s # <<>>
  BY <1>2, EmptySeq
<1>5. Tail(s) \in Seq(S) /\ Len(Tail(s)) = Len(r)
      /\ \A i \in 1..Len(r) : Tail(s)[i] = r[i]
  BY <1>2, <1>3, <1>4, HeadTailProperties
<1>6. Tail(s) = r
  BY <1>1, <1>5, SeqEqual
<1>7. Head(s) = c
  BY <1>2, <1>3, <1>4
<1> QED BY <1>2, <1>4, <1>6, <1>7 DEF s, Sec

LEMMA SecDeTail ==
  ASSUME NEW s, Sec(s), s # <<>>
  PROVE  Sec(Tail(s))
<1>1. PICK S : s \in Seq(S)
  BY DEF Sec
<1> QED BY <1>1, HeadTailProperties DEF Sec

-------------------------------------------------------------------------------
(* What it is for a thread to be well, one operation at a time.             *)
LEMMA SonPares ==
  ASSUME NEW a, NEW L, NEW s, NEW e \in Siguientes(a, L, s)
  PROVE  e = <<e[1], e[2]>>
<1> DEFINE c == Head(s)
           t == Tail(s)
<1>1. \/ \E M, r : e = <<M, r>>
      \/ e \in {}
  BY Zenon DEF Siguientes
<1> QED BY <1>1

LEMMA Desplegar ==
  ASSUME NEW a, NEW L, NEW s, Buena(a, L, s)
  PROVE  Permitido(a, L, s) /\ \A e \in Siguientes(a, L, s) : Buena(a, e[1], e[2])
<1>1. PICK U : <<L, s>> \in U /\ Cerrada(a, U)
  BY DEF Buena
<1>2. Permitido(a, L, s) /\ Siguientes(a, L, s) \subseteq U
  BY <1>1, <<L, s>>[1] = L, <<L, s>>[2] = s, Zenon DEF Cerrada
<1>3. ASSUME NEW e \in Siguientes(a, L, s)
      PROVE  Buena(a, e[1], e[2])
  <2>1. e = <<e[1], e[2]>>
    BY SonPares
  <2>2. <<e[1], e[2]>> \in U
    BY <1>2, <2>1
  <2> QED BY <1>1, <2>2, Zenon DEF Buena
<1> QED BY <1>2, <1>3

LEMMA Plegar ==
  ASSUME NEW a, NEW L, NEW s, Permitido(a, L, s),
         \A e \in Siguientes(a, L, s) : Buena(a, e[1], e[2])
  PROVE  Buena(a, L, s)
<1> DEFINE W(e) == CHOOSE U : <<e[1], e[2]>> \in U /\ Cerrada(a, U)
           U == {<<L, s>>} \cup UNION {W(e) : e \in Siguientes(a, L, s)}
<1>1. ASSUME NEW e \in Siguientes(a, L, s)
      PROVE  e \in W(e) /\ Cerrada(a, W(e))
  <2>1. \E V : <<e[1], e[2]>> \in V /\ Cerrada(a, V)
    BY Zenon DEF Buena
  <2>2. e = <<e[1], e[2]>>
    BY SonPares
  <2>3. <<e[1], e[2]>> \in W(e) /\ Cerrada(a, W(e))
    BY <2>1, Zenon
  <2> HIDE DEF W
  <2> QED BY <2>2, <2>3
<1> HIDE DEF W
<1>2. Siguientes(a, L, s) \subseteq U
  BY <1>1
<1>3. ASSUME NEW f \in U
      PROVE  Permitido(a, f[1], f[2]) /\ Siguientes(a, f[1], f[2]) \subseteq U
  <2>1. CASE f = <<L, s>>
    <3>1. f[1] = L /\ f[2] = s
      BY <2>1
    <3> HIDE DEF U
    <3> QED BY <3>1, <1>2
  <2>2. CASE f # <<L, s>>
    <3>1. PICK e \in Siguientes(a, L, s) : f \in W(e)
      BY <2>2
    <3>2. W(e) \subseteq U
      OBVIOUS
    <3>3. Permitido(a, f[1], f[2]) /\ Siguientes(a, f[1], f[2]) \subseteq W(e)
      BY <1>1, <3>1, Zenon DEF Cerrada
    <3> HIDE DEF U
    <3> QED BY <3>2, <3>3
  <2> QED BY <2>1, <2>2
<1>4. <<L, s>> \in U
  OBVIOUS
<1> HIDE DEF U
<1>5. Cerrada(a, U)
  BY <1>3, Zenon DEF Cerrada
<1> QED BY <1>4, <1>5, Zenon DEF Buena

(* An operation that has one possible continuation.                         *)
LEMMA PlegarUno ==
  ASSUME NEW a, NEW L, NEW s, NEW M, NEW t,
         Siguientes(a, L, s) = {<<M, t>>}, Permitido(a, L, s), Buena(a, M, t)
  PROVE  Buena(a, L, s)
<1>1. \A e \in Siguientes(a, L, s) : Buena(a, e[1], e[2])
  <2>1. <<M, t>>[1] = M /\ <<M, t>>[2] = t
    OBVIOUS
  <2> QED BY <2>1, Zenon
<1> QED BY <1>1, Plegar

LEMMA PlegarDos ==
  ASSUME NEW a, NEW L, NEW s, NEW M, NEW t, NEW N, NEW u,
         Siguientes(a, L, s) = {<<M, t>>, <<N, u>>}, Permitido(a, L, s),
         Buena(a, M, t), Buena(a, N, u)
  PROVE  Buena(a, L, s)
<1>1. \A e \in Siguientes(a, L, s) : Buena(a, e[1], e[2])
  <2>1. <<M, t>>[1] = M /\ <<M, t>>[2] = t /\ <<N, u>>[1] = N /\ <<N, u>>[2] = u
    OBVIOUS
  <2> QED BY <2>1, Zenon
<1> QED BY <1>1, Plegar

LEMMA BuenaEsSec ==
  ASSUME NEW a, NEW L, NEW s, Buena(a, L, s)
  PROVE  Sec(s)
BY Desplegar DEF Permitido

LEMMA BienNada ==
  ASSUME NEW a, NEW L, L \subseteq {"f_open"}
  PROVE  Bien(a, L, <<>>)
<1>1. Siguientes(a, L, <<>>) = {}
  BY DEF Siguientes
<1>2. Permitido(a, L, <<>>)
  BY SecNada DEF Permitido
<1> QED BY <1>1, <1>2, Plegar DEF Bien, EnPausa

-------------------------------------------------------------------------------
(* What each kind of operation does to what is held.                        *)
LEMMA PasaNada ==
  ASSUME NEW a, NEW L
  PROVE  Pasa(a, L, <<>>, L)
<1>1. ASSUME NEW r, Bien(a, L, r)
      PROVE  Bien(a, L, <<>> \o r)
  <2>1. Sec(r)
    BY <1>1, BuenaEsSec DEF Bien
  <2>2. <<>> \o r = r
    BY <2>1, SecNeutra
  <2> QED BY <1>1, <2>2
<1> QED BY <1>1, SecNada DEF Pasa

LEMMA PasaLuego ==
  ASSUME NEW a, NEW L, NEW s, NEW M, NEW t, NEW N, Pasa(a, L, s, M), Pasa(a, M, t, N)
  PROVE  Pasa(a, L, s \o t, N)
<1>1. Sec(s) /\ Sec(t) /\ Sec(s \o t)
  BY SecJuntas DEF Pasa
<1>2. ASSUME NEW r, Bien(a, N, r)
      PROVE  Bien(a, L, (s \o t) \o r)
  <2>1. Sec(r)
    BY <1>2, BuenaEsSec DEF Bien
  <2>2. PICK st, tr : st = s \o t /\ tr = t \o r
    OBVIOUS
  <2>3. Bien(a, M, tr)
    BY <1>2, <2>2 DEF Pasa
  <2>4. Bien(a, L, s \o tr)
    BY <2>3 DEF Pasa
  <2>5. st \o r = s \o tr
    BY <1>1, <2>1, <2>2, SecAsocia
  <2> QED BY <2>2, <2>4, <2>5
<1> QED BY <1>1, <1>2 DEF Pasa

(* s is the operation and then r.                                           *)
EsI(s, op, m, x, r) == s = I(op, m, x) \o r

LEMMA SecDeI ==
  ASSUME NEW op, NEW m, NEW x
  PROVE  Sec(I(op, m, x))
BY SecDeUno DEF I

LEMMA PartesDeI ==
  ASSUME NEW a, NEW M, NEW op, NEW m, NEW x, NEW r, NEW s, Bien(a, M, r), EsI(s, op, m, x, r)
  PROVE  /\ Sec(s) /\ s # <<>> /\ Tail(s) = r /\ ~EnPausa(r)
         /\ Head(s).op = op /\ Head(s).m = m /\ Head(s).x = x
<1>1. Sec(r) /\ ~EnPausa(r)
  BY BuenaEsSec DEF Bien
<1>2. PICK c : c = [op |-> op, m |-> m, x |-> x]
  OBVIOUS
<1>3. s = <<c>> \o r
  BY <1>2 DEF EsI, I
<1>4. Sec(s) /\ s # <<>> /\ Head(s) = c /\ Tail(s) = r
  BY <1>1, <1>3, CabezaDe
<1> QED BY <1>1, <1>2, <1>4

(* Operations but decisions, calls and launches.                            *)
LEMMA PasaUno ==
  ASSUME NEW a, NEW L, NEW op, NEW m, NEW x, NEW M,
         \A r, s : Bien(a, M, r) /\ EsI(s, op, m, x, r) =>
           Siguientes(a, L, s) = {<<M, r>>} /\ EnOrden(a, L, s) /\ ~EnPausa(s)
  PROVE  Pasa(a, L, I(op, m, x), M)
<1>1. ASSUME NEW r, Bien(a, M, r)
      PROVE  Bien(a, L, I(op, m, x) \o r)
  <2>1. PICK s : EsI(s, op, m, x, r)
    BY DEF EsI
  <2>2. Siguientes(a, L, s) = {<<M, r>>} /\ EnOrden(a, L, s) /\ ~EnPausa(s)
    BY <1>1, <2>1, Zenon
  <2>3. Sec(s) /\ s # <<>>
    BY <1>1, <2>1, PartesDeI
  <2>4. Permitido(a, L, s)
    BY <2>2, <2>3 DEF Permitido
  <2>5. Buena(a, M, r)
    BY <1>1 DEF Bien
  <2>6. Buena(a, L, s)
    BY <2>2, <2>4, <2>5, PlegarUno
  <2> QED BY <2>1, <2>2, <2>6 DEF Bien, EsI
<1> QED BY <1>1, SecDeI DEF Pasa

LEMMA PasaToma ==
  ASSUME NEW a, NEW L, NEW m \in Mutexes, Admite(a, L, m), NEW x \in Ordinarios
  PROVE  Pasa(a, L, I("TOMA", m, x), L \cup {m})
<1>1. ASSUME NEW r, Bien(a, L \cup {m}, r), NEW s, EsI(s, "TOMA", m, x, r)
      PROVE  Siguientes(a, L, s) = {<<L \cup {m}, r>>} /\ EnOrden(a, L, s) /\ ~EnPausa(s)
  <2>1. s # <<>> /\ Tail(s) = r /\ ~EnPausa(r)
    BY <1>1, PartesDeI
  <2>2. Head(s).op = "TOMA" /\ Head(s).m = m /\ Head(s).x = x
    BY <1>1, PartesDeI
  <2>3. Siguientes(a, L, s) = {<<L \cup {m}, r>>}
    BY <2>1, <2>2 DEF Siguientes
  <2>4. \A e \in Siguientes(a, L, s) : ~EnPausa(e[2])
    BY <2>1, <2>3
  <2>5. EnOrden(a, L, s)
    BY <2>1, <2>2, <2>4 DEF EnOrden
  <2> QED BY <2>1, <2>2, <2>3, <2>5 DEF EnPausa
<1> QED BY <1>1, PasaUno

LEMMA PasaSuelta ==
  ASSUME NEW a, NEW L, NEW m \in Mutexes \cap L
  PROVE  Pasa(a, L, Suelta(m), L \ {m})
<1>1. ASSUME NEW r, Bien(a, L \ {m}, r), NEW s, EsI(s, "SUELTA", m, "NADA", r)
      PROVE  Siguientes(a, L, s) = {<<L \ {m}, r>>} /\ EnOrden(a, L, s) /\ ~EnPausa(s)
  <2>1. s # <<>> /\ Tail(s) = r /\ ~EnPausa(r)
    BY <1>1, PartesDeI
  <2>2. Head(s).op = "SUELTA" /\ Head(s).m = m /\ Head(s).x = "NADA"
    BY <1>1, PartesDeI
  <2>3. Siguientes(a, L, s) = {<<L \ {m}, r>>}
    BY <2>1, <2>2 DEF Siguientes
  <2>4. \A e \in Siguientes(a, L, s) : ~EnPausa(e[2])
    BY <2>1, <2>3
  <2>5. EnOrden(a, L, s)
    BY <2>1, <2>2, <2>4 DEF EnOrden
  <2> QED BY <2>1, <2>2, <2>3, <2>5 DEF EnPausa
<1>2. Pasa(a, L, I("SUELTA", m, "NADA"), L \ {m})
  BY <1>1, PasaUno
<1> QED BY <1>2 DEF Suelta

(* What leaves what is held as it is.                                       *)
LEMMA PasaIgual ==
  ASSUME NEW a, NEW L, NEW op, NEW m, NEW x,
         \/ op = "BREVE" /\ m \in Mutexes /\ Admite(a, L, m) /\ x \in Ordinarios
         \/ op = "COPIA" /\ m \in Mutexes \ L /\ x \in Ordinarios
         \/ op = "HACE" /\ x \in Ordinarios \cup {"PAUSA", "POST"}
         \/ op = "ESPERA" /\ m = "f_open" /\ Admite(a, L, "f_open")
  PROVE  Pasa(a, L, I(op, m, x), L)
<1>1. ASSUME NEW r, Bien(a, L, r), NEW s, EsI(s, op, m, x, r)
      PROVE  Siguientes(a, L, s) = {<<L, r>>} /\ EnOrden(a, L, s) /\ ~EnPausa(s)
  <2>1. s # <<>> /\ Tail(s) = r /\ ~EnPausa(r)
    BY <1>1, PartesDeI
  <2>2. Head(s).op = op /\ Head(s).m = m /\ Head(s).x = x
    BY <1>1, PartesDeI
  <2>3. Siguientes(a, L, s) = {<<L, r>>}
    BY <2>1, <2>2 DEF Siguientes
  <2>4. \A e \in Siguientes(a, L, s) : ~EnPausa(e[2])
    BY <2>1, <2>3
  <2>5. EnOrden(a, L, s)
    BY <2>1, <2>2, <2>4 DEF EnOrden
  <2> QED BY <2>1, <2>2, <2>3, <2>5 DEF EnPausa
<1> QED BY <1>1, PasaUno

(* What is over when it ends.                                               *)
LEMMA BienDePasa ==
  ASSUME NEW a, NEW L, L \subseteq {"f_open"}, NEW s, Pasa(a, L, s, L)
  PROVE  Bien(a, L, s)
<1>1. Bien(a, L, <<>>)
  BY BienNada
<1>2. PICK u : u = s \o <<>>
  OBVIOUS
<1>3. Bien(a, L, u) /\ Sec(s)
  BY <1>1, <1>2 DEF Pasa
<1>4. u = s
  BY <1>2, <1>3, SecNeutra
<1> QED BY <1>3, <1>4

(* u is the decision and then r.                                            *)
EsSi(u, x, m, s, t, r) == Sec(r) /\ u = Si(x, m, s, t) \o r

LEMMA PartesDeSi ==
  ASSUME NEW x, NEW m, NEW s, NEW t, NEW r, NEW u, EsSi(u, x, m, s, t, r)
  PROVE  /\ Sec(u) /\ u # <<>> /\ Tail(u) = r /\ Sec(Si(x, m, s, t))
         /\ Head(u).op = "SI" /\ Head(u).m = m /\ Head(u).x = x
         /\ Head(u).a = s /\ Head(u).b = t
<1>1. PICK c : c = [op |-> "SI", m |-> m, x |-> x, a |-> s, b |-> t]
  OBVIOUS
<1>2. Si(x, m, s, t) = <<c>>
  BY <1>1 DEF Si
<1>3. Sec(<<c>>)
  BY SecDeUno
<1>4. Sec(r) /\ u = <<c>> \o r
  BY <1>2 DEF EsSi
<1>5. Sec(u) /\ u # <<>> /\ Head(u) = c /\ Tail(u) = r
  BY <1>4, CabezaDe
<1> QED BY <1>1, <1>2, <1>3, <1>5

LEMMA SecDeSi ==
  ASSUME NEW x, NEW m, NEW s, NEW t
  PROVE  Sec(Si(x, m, s, t))
BY SecDeUno DEF Si

LEMMA PasaSi ==
  ASSUME NEW a, NEW L, NEW x, x # "ALGORITMO", NEW m, NEW s, NEW t, NEW M,
         Pasa(a, L, s, M), Pasa(a, L, t, M)
  PROVE  Pasa(a, L, Si(x, m, s, t), M)
<1>1. ASSUME NEW r, Bien(a, M, r)
      PROVE  Bien(a, L, Si(x, m, s, t) \o r)
  <2>1. PICK u, sr, tr : u = Si(x, m, s, t) \o r /\ sr = s \o r /\ tr = t \o r
    OBVIOUS
  <2>2. Bien(a, L, sr) /\ Bien(a, L, tr)
    BY <1>1, <2>1 DEF Pasa
  <2>3. Sec(r)
    BY <1>1, BuenaEsSec DEF Bien
  <2>4. PICK c : c = Head(u)
    OBVIOUS
  <2>5. /\ Sec(u) /\ u # <<>> /\ Tail(u) = r
        /\ c.op = "SI" /\ c.x = x /\ c.a = s /\ c.b = t
  <3>1. EsSi(u, x, m, s, t, r)
      BY <2>1, <2>3 DEF EsSi
    <3> QED BY <2>4, <3>1, PartesDeSi
  <2>6. Siguientes(a, L, u) = {<<L, sr>>, <<L, tr>>}
    BY <2>1, <2>4, <2>5 DEF Siguientes
  <2>7. /\ \A e \in Siguientes(a, L, u) : ~EnPausa(e[2])
        /\ ~EnPausa(c.b \o Tail(u))
    <3>1. ~EnPausa(sr) /\ ~EnPausa(tr)
      BY <2>2 DEF Bien
    <3>2. c.b \o Tail(u) = tr
      BY <2>1, <2>5
    <3>3. \A e \in Siguientes(a, L, u) : e[2] = sr \/ e[2] = tr
      BY <2>6
    <3> QED BY <3>1, <3>2, <3>3, Zenon
  <2>8. EnOrden(a, L, u)
    BY <2>4, <2>5, <2>7 DEF EnOrden
  <2>9. Permitido(a, L, u)
    BY <2>5, <2>8 DEF Permitido
  <2>10. Buena(a, L, sr) /\ Buena(a, L, tr)
    BY <2>2 DEF Bien
  <2>11. Buena(a, L, u)
    BY <2>6, <2>9, <2>10, PlegarDos
  <2>12. ~EnPausa(u)
    BY <2>4, <2>5 DEF EnPausa
  <2> QED BY <2>1, <2>11, <2>12 DEF Bien
<1> QED BY <1>1, SecDeSi DEF Pasa

LEMMA PasaSiAlgoritmo ==
  ASSUME NEW a, NEW L, NEW m, NEW s, NEW t, NEW M,
         Pasa(a, L, IF a = m THEN s ELSE t, M)
  PROVE  Pasa(a, L, Si("ALGORITMO", m, s, t), M)
<1>1. ASSUME NEW r, Bien(a, M, r)
      PROVE  Bien(a, L, Si("ALGORITMO", m, s, t) \o r)
  <2>1. PICK u, v, vr : /\ u = Si("ALGORITMO", m, s, t) \o r
                        /\ v = (IF a = m THEN s ELSE t) /\ vr = v \o r
    OBVIOUS
  <2>2. Bien(a, L, vr)
    BY <1>1, <2>1 DEF Pasa
  <2>3. Sec(r)
    BY <1>1, BuenaEsSec DEF Bien
  <2>4. PICK c : c = Head(u)
    OBVIOUS
  <2>5. /\ Sec(u) /\ u # <<>> /\ Tail(u) = r
        /\ c.op = "SI" /\ c.x = "ALGORITMO" /\ c.m = m /\ c.a = s /\ c.b = t
    <3>1. EsSi(u, "ALGORITMO", m, s, t, r)
      BY <2>1, <2>3 DEF EsSi
    <3> QED BY <2>4, <3>1, PartesDeSi
  <2>6. Siguientes(a, L, u) = {<<L, vr>>}
    BY <2>1, <2>4, <2>5 DEF Siguientes
  <2>7. \A e \in Siguientes(a, L, u) : ~EnPausa(e[2])
    BY <2>2, <2>6 DEF Bien
  <2>8. EnOrden(a, L, u)
    BY <2>4, <2>5, <2>7 DEF EnOrden
  <2>9. Permitido(a, L, u)
    BY <2>5, <2>8 DEF Permitido
  <2>10. Buena(a, L, vr)
    BY <2>2 DEF Bien
  <2>11. Buena(a, L, u)
    BY <2>6, <2>9, <2>10, PlegarUno
  <2>12. ~EnPausa(u)
    BY <2>4, <2>5 DEF EnPausa
  <2> QED BY <2>1, <2>11, <2>12 DEF Bien
<1> QED BY <1>1, SecDeSi DEF Pasa

LEMMA PasaLlama ==
  ASSUME NEW a, NEW L, NEW f, NEW M, Pasa(a, L, Funcion(f), M)
  PROVE  Pasa(a, L, Llama(f), M)
<1>1. ASSUME NEW r, Bien(a, M, r)
      PROVE  Bien(a, L, I("LLAMA", NULL, f) \o r)
  <2>1. PICK u : EsI(u, "LLAMA", NULL, f, r)
    BY DEF EsI
  <2>2. PICK fr : fr = Funcion(f) \o r
    OBVIOUS
  <2>3. Bien(a, L, fr)
    BY <1>1, <2>2 DEF Pasa
  <2>4. /\ Sec(u) /\ u # <<>> /\ Tail(u) = r
        /\ Head(u).op = "LLAMA" /\ Head(u).x = f
    BY <1>1, <2>1, PartesDeI
  <2>5. Siguientes(a, L, u) = {<<L, fr>>}
    BY <2>2, <2>4 DEF Siguientes
  <2>6. \A e \in Siguientes(a, L, u) : ~EnPausa(e[2])
    BY <2>3, <2>5 DEF Bien
  <2>7. EnOrden(a, L, u)
    BY <2>4, <2>6 DEF EnOrden
  <2>8. Permitido(a, L, u)
    BY <2>4, <2>7 DEF Permitido
  <2>9. Buena(a, L, u)
    BY <2>3, <2>5, <2>8, PlegarUno DEF Bien
  <2>10. ~EnPausa(u)
    BY <2>4 DEF EnPausa
  <2> QED BY <2>1, <2>9, <2>10 DEF Bien, EsI
<1> QED BY <1>1, SecDeI DEF Pasa, Llama

LEMMA PasaLanza ==
  ASSUME NEW a, NEW L, NEW f, Pasa(a, {}, Funcion(f), {})
  PROVE  Pasa(a, L, Lanza(f), L)
<1>1. Bien(a, {}, Funcion(f))
  BY BienDePasa
<1>2. ASSUME NEW r, Bien(a, L, r)
      PROVE  Bien(a, L, I("LANZA", NULL, f) \o r)
  <2>1. PICK u : EsI(u, "LANZA", NULL, f, r)
    BY DEF EsI
  <2>2. PICK g : g = Funcion(f)
    OBVIOUS
  <2>3. /\ Sec(u) /\ u # <<>> /\ Tail(u) = r
        /\ Head(u).op = "LANZA" /\ Head(u).x = f
    BY <1>2, <2>1, PartesDeI
  <2>4. Siguientes(a, L, u) = {<<L, r>>, <<{}, g>>}
    BY <2>2, <2>3 DEF Siguientes
  <2>5. \A e \in Siguientes(a, L, u) : ~EnPausa(e[2])
    BY <1>1, <1>2, <2>2, <2>4 DEF Bien
  <2>6. EnOrden(a, L, u)
    BY <2>3, <2>5 DEF EnOrden
  <2>7. Permitido(a, L, u)
    BY <2>3, <2>6 DEF Permitido
  <2>8. Buena(a, L, r) /\ Buena(a, {}, g)
    BY <1>1, <1>2, <2>2 DEF Bien
  <2>9. Buena(a, L, u)
    BY <2>4, <2>7, <2>8, PlegarDos
  <2>10. ~EnPausa(u)
    BY <2>3 DEF EnPausa
  <2> QED BY <2>1, <2>9, <2>10 DEF Bien, EsI
<1> QED BY <1>2, SecDeI DEF Pasa, Lanza

(* A mutex held meanwhile.                                                  *)
LEMMA PasaCon ==
  ASSUME NEW a, NEW L, NEW m \in Mutexes, Admite(a, L, m), NEW s,
         Pasa(a, L \cup {m}, s, L \cup {m})
  PROVE  Pasa(a, L, Con(m, s), L)
<1>1. m \notin L
  BY DEF Admite, Orden
<1>2. Pasa(a, L, Toma(m), L \cup {m})
  <2>1. "NADA" \in Ordinarios
    BY DEF Ordinarios
  <2> QED BY <2>1, PasaToma DEF Toma
<1>3. Pasa(a, L \cup {m}, Suelta(m), L)
  <2>1. (L \cup {m}) \ {m} = L /\ m \in Mutexes \cap (L \cup {m})
    BY <1>1
  <2> QED BY <2>1, PasaSuelta
<1>4. Pasa(a, L, Toma(m) \o s, L \cup {m})
  BY <1>2, PasaLuego
<1>5. Pasa(a, L, (Toma(m) \o s) \o Suelta(m), L)
  BY <1>3, <1>4, PasaLuego
<1> QED BY <1>5 DEF Con

(* Pausador: whoever finds the pause on waits with its mutex held.          *)
LEMMA PasaPausador ==
  ASSUME NEW a, NEW L, Admite(a, L, "pausa")
  PROVE  Pasa(a, L, Pausador, L)
<1> DEFINE s == Si("PAUSADO", NULL, Espera("pausa"), <<>>)
           M == L \cup {"pausa"}
<1>1. ASSUME NEW r, Bien(a, M, r)
      PROVE  Bien(a, M, s \o r)
  <2>1. PICK e : EsI(e, "ESPERA", "pausa", "NADA", r)
    BY DEF EsI
  <2>2. PICK u, v : u = s \o r /\ v = <<>> \o r
    OBVIOUS
  <2>3. Sec(r)
    BY <1>1, BuenaEsSec DEF Bien
  <2>4. v = r
    BY <2>2, <2>3, SecNeutra
  <2>5. /\ Sec(e) /\ e # <<>> /\ Tail(e) = r
        /\ Head(e).op = "ESPERA" /\ Head(e).m = "pausa"
    BY <1>1, <2>1, PartesDeI
  <2>6. Buena(a, M, e)
    <3>1. Siguientes(a, M, e) = {<<M, r>>}
      BY <2>5 DEF Siguientes
    <3>2. \A f \in Siguientes(a, M, e) : ~EnPausa(f[2])
      BY <1>1, <3>1 DEF Bien
    <3>3. EnOrden(a, M, e)
      BY <2>5, <3>2 DEF EnOrden
    <3>4. Permitido(a, M, e)
      BY <2>5, <3>3 DEF Permitido
    <3>5. Buena(a, M, r)
      BY <1>1 DEF Bien
    <3> HIDE DEF M
    <3> QED BY <3>1, <3>4, <3>5, PlegarUno
  <2>7. PICK c : c = Head(u)
    OBVIOUS
  <2>8. /\ Sec(u) /\ u # <<>> /\ Tail(u) = r
        /\ c.op = "SI" /\ c.x = "PAUSADO" /\ c.a = Espera("pausa") /\ c.b = <<>>
    <3>1. EsSi(u, "PAUSADO", NULL, Espera("pausa"), <<>>, r)
      BY <2>2, <2>3 DEF EsSi
    <3> QED BY <2>7, <3>1, PartesDeSi
  <2>9. c.a \o r = e
    BY <2>1, <2>8 DEF Espera, EsI
  <2>10. c.b \o r = r
    BY <2>2, <2>4, <2>8
  <2>11. Siguientes(a, M, u) = {<<M, e>>, <<M, r>>}
    BY <2>7, <2>8, <2>9, <2>10 DEF Siguientes
  <2>12. ~EnPausa(c.b \o Tail(u))
    BY <1>1, <2>8, <2>10 DEF Bien
  <2>13. EnOrden(a, M, u)
    BY <2>7, <2>8, <2>12 DEF EnOrden
  <2>14. Permitido(a, M, u)
    BY <2>8, <2>13 DEF Permitido
  <2>15. Buena(a, M, u)
    <3>1. Buena(a, M, r)
      BY <1>1 DEF Bien
    <3> HIDE DEF M
    <3> QED BY <2>6, <2>11, <2>14, <3>1, PlegarDos
  <2>16. ~EnPausa(u)
    BY <2>7, <2>8 DEF EnPausa
  <2> QED BY <2>2, <2>15, <2>16 DEF Bien
<1>2. Pasa(a, M, s, M)
  <2>1. Sec(s)
    BY SecDeSi
  <2> HIDE DEF s, M
  <2> QED BY <1>1, <2>1 DEF Pasa
<1>3. "pausa" \in Mutexes
  BY DEF Mutexes
<1>4. Pasa(a, L, Con("pausa", s), L)
  <2> HIDE DEF s
  <2> QED BY <1>2, <1>3, PasaCon
<1> QED BY <1>4 DEF Pausador

-------------------------------------------------------------------------------
(* The functions of the Kernel, those that are called before those that     *)
(* call them: each keeps the order with any mutexes it may be called with,  *)
(* and leaves held what it found.                                           *)

(* What a call that goes through the pause may be made with.                *)
Livianos == {"finalizar", "recurso", "f_open"}

LEMMA PasaHace ==
  ASSUME NEW a, NEW L, NEW x \in Ordinarios \cup {"PAUSA", "POST"}
  PROVE  Pasa(a, L, Hace(x), L)
BY PasaIgual DEF Hace

LEMMA PasaSaca ==
  ASSUME NEW a, NEW L, NEW l
  PROVE  Pasa(a, L, Saca(l), L)
<1>1. "SACA" \in Ordinarios
  BY DEF Ordinarios
<1> QED BY <1>1, PasaIgual DEF Saca

LEMMA PasaBreve ==
  ASSUME NEW a, NEW L, NEW m \in Mutexes, Admite(a, L, m), NEW x \in Ordinarios
  PROVE  Pasa(a, L, Breve(m, x), L)
BY PasaIgual DEF Breve

LEMMA PasaAgregar ==
  ASSUME NEW a, NEW L, NEW m \in Mutexes \ L
  PROVE  Pasa(a, L, Agregar(m), L)
<1>1. "PONE" \in Ordinarios
  BY DEF Ordinarios
<1> QED BY <1>1, PasaIgual DEF Agregar

LEMMA Funciones ==
  /\ Funcion("PCP") = PcpPlanificar /\ Funcion("PLP") = PlpPlanifica
  /\ Funcion("NUEVO") = PlanificarNuevo /\ Funcion("LIBERAR") = LiberarRecursos
  /\ Funcion("TERMINAR") = Terminar /\ Funcion("DESBLOQUEAR") = Desbloquear
  /\ Funcion("ASIGNAR") = AsignarRecurso /\ Funcion("SLEEP") = ManejarSleep
  /\ Funcion("EXIT") = PlpExit /\ Funcion("DESALOJAR") = DesalojarProceso
  /\ Funcion("REUBICAR") = Reubicar /\ Funcion("FINALIZAR") = Finalizar
BY DEF Funcion

LEMMA PasaRRFIFO ==
  ASSUME NEW a, NEW L, L \subseteq Livianos
  PROVE  Pasa(a, L, AtenderRRFIFO, L)
<1> DEFINE E == L \cup {"EXEC"}
<1>1. "EXEC" \in Mutexes /\ Admite(a, L, "EXEC")
  BY DEF Mutexes, Listas, Admite, Orden, Rango, Livianos
<1>2. Pasa(a, E, Breve("READY", "ELIGE"), E)
  <2>1. "READY" \in Mutexes /\ Admite(a, E, "READY") /\ "ELIGE" \in Ordinarios
    BY DEF Mutexes, Listas, Admite, Orden, Rango, Livianos, Ordinarios
  <2> HIDE DEF E
  <2> QED BY <2>1, PasaBreve
<1>3. Pasa(a, E, Hace("DESPACHA"), E)
  BY PasaHace DEF Ordinarios
<1> HIDE DEF E
<1>4. Pasa(a, E, Si("ELEGIDO", NULL, Hace("DESPACHA"), <<>>), E)
  BY <1>3, PasaSi, PasaNada
<1>5. Pasa(a, E, Breve("READY", "ELIGE") \o Si("ELEGIDO", NULL, Hace("DESPACHA"), <<>>), E)
  BY <1>2, <1>4, PasaLuego
<1>6. Pasa(a, E, Si("VACIA", "EXEC",
                    Breve("READY", "ELIGE") \o Si("ELEGIDO", NULL, Hace("DESPACHA"), <<>>),
                    <<>>), E)
  BY <1>5, PasaSi, PasaNada
<1> QED BY <1>1, <1>6, PasaCon DEF AtenderRRFIFO, E

LEMMA PasaPrioridades ==
  ASSUME NEW a, a = "PRIORIDADES", NEW L, L \subseteq Livianos
  PROVE  Pasa(a, L, AtenderPrioridades, L)
<1> DEFINE R == L \cup {"READY"}
           E == R \cup {"EXEC"}
           elige == Si("ELEGIDO", NULL, Saca("READY") \o Hace("DESPACHA"), <<>>)
           mira == Si("VACIA", "EXEC", elige, Hace("COMPARA"))
<1>1. "READY" \in Mutexes /\ Admite(a, L, "READY") /\ "MAYOR" \in Ordinarios /\ "READY" \notin L
  BY DEF Mutexes, Listas, Admite, Orden, Rango, Livianos, Ordinarios
<1>2. "EXEC" \in Mutexes /\ Admite(a, R, "EXEC")
  BY DEF Mutexes, Listas, Admite, Orden, Rango, Livianos
<1>3. {"DESPACHA", "COMPARA"} \subseteq Ordinarios
  BY DEF Ordinarios
<1>4. Pasa(a, L, I("TOMA", "READY", "MAYOR"), R)
  BY <1>1, PasaToma
<1>5. Pasa(a, R, Suelta("READY"), L)
  <2>1. "READY" \in Mutexes \cap R /\ R \ {"READY"} = L
    BY <1>1
  <2> HIDE DEF R
  <2> QED BY <2>1, PasaSuelta
<1> HIDE DEF R
<1>6. Pasa(a, E, Saca("READY") \o Hace("DESPACHA"), E)
  BY <1>3, PasaSaca, PasaHace, PasaLuego
<1>7. Pasa(a, E, elige, E)
  BY <1>6, PasaSi, PasaNada
<1> HIDE DEF elige
<1>8. Pasa(a, E, mira, E)
  <2>1. Pasa(a, E, Hace("COMPARA"), E)
    BY <1>3, PasaHace
  <2> QED BY <1>7, <2>1, PasaSi
<1> HIDE DEF mira
<1>9. Pasa(a, R, Con("EXEC", mira), R)
  BY <1>2, <1>8, PasaCon
<1>10. Pasa(a, L, I("TOMA", "READY", "MAYOR") \o Con("EXEC", mira) \o Suelta("READY"), L)
  BY <1>4, <1>5, <1>9, PasaLuego
<1> QED BY <1>10 DEF AtenderPrioridades, mira, elige

LEMMA PasaPcp ==
  ASSUME NEW a, NEW L, L \subseteq Livianos
  PROVE  Pasa(a, L, Funcion("PCP"), L)
<1> DEFINE R == L \cup {"READY"}
           que == Si("ALGORITMO", "PRIORIDADES", AtenderPrioridades, AtenderRRFIFO)
           mira == Si("VACIA", "READY", Suelta("READY"), Suelta("READY") \o que)
<1>1. /\ "READY" \in Mutexes /\ Admite(a, L, "READY") /\ Admite(a, L, "pausa")
      /\ "NINGUNO" \in Ordinarios /\ "READY" \notin L
  BY DEF Mutexes, Listas, Admite, Orden, Rango, Livianos, Ordinarios
<1>2. Pasa(a, L, Pausador, L)
  BY <1>1, PasaPausador
<1>3. Pasa(a, L, I("TOMA", "READY", "NINGUNO"), R)
  BY <1>1, PasaToma
<1>4. Pasa(a, R, Suelta("READY"), L)
  <2>1. "READY" \in Mutexes \cap R /\ R \ {"READY"} = L
    BY <1>1
  <2> HIDE DEF R
  <2> QED BY <2>1, PasaSuelta
<1> HIDE DEF R
<1>5. Pasa(a, L, que, L)
  <2>1. PICK s : s = IF a = "PRIORIDADES" THEN AtenderPrioridades ELSE AtenderRRFIFO
    OBVIOUS
  <2>2. Pasa(a, L, s, L)
    BY <2>1, PasaPrioridades, PasaRRFIFO
  <2> QED BY <2>1, <2>2, PasaSiAlgoritmo
<1> HIDE DEF que
<1>6. Pasa(a, R, Suelta("READY") \o que, L)
  BY <1>4, <1>5, PasaLuego
<1>7. Pasa(a, R, mira, L)
  BY <1>4, <1>6, PasaSi
<1> HIDE DEF mira
<1>8. Pasa(a, L, Pausador \o I("TOMA", "READY", "NINGUNO") \o mira, L)
  BY <1>2, <1>3, <1>7, PasaLuego
<1>9. Pasa(a, L, PcpPlanificar, L)
  BY <1>8 DEF PcpPlanificar, mira, que
<1> QED BY <1>9, Funciones

LEMMA PasaPlp ==
  ASSUME NEW a
  PROVE  Pasa(a, {}, Funcion("PLP"), {})
<1> DEFINE C == {} \cup {"core"}
           N == C \cup {"NEW"}
           admite == Hace("SALE_DE_NEW") \o Hace("INICIA_EN_MEMORIA") \o Breve("READY", "ADMITE")
           mira == Si("LUGAR", NULL, admite, <<>>)
<1>1. /\ {"core", "NEW", "READY"} \subseteq Mutexes
      /\ Admite(a, {}, "core") /\ Admite(a, C, "NEW") /\ Admite(a, N, "READY")
      /\ {"SALE_DE_NEW", "INICIA_EN_MEMORIA", "ADMITE"} \subseteq Ordinarios
  BY DEF Mutexes, Listas, Admite, Orden, Rango, Ordinarios
<1> HIDE DEF N
<1>2. Pasa(a, N, admite, N)
  BY <1>1, PasaHace, PasaBreve, PasaLuego
<1> HIDE DEF admite
<1>3. Pasa(a, N, mira, N)
  BY <1>2, PasaSi, PasaNada
<1> HIDE DEF mira, C
<1>4. Pasa(a, C, Con("NEW", mira), C)
  BY <1>1, <1>3, PasaCon DEF N
<1>5. Pasa(a, {}, Con("core", Con("NEW", mira)), {})
  BY <1>1, <1>4, PasaCon DEF C
<1>6. Pasa(a, {}, Lanza("PCP"), {})
  <2>1. Pasa(a, {}, Funcion("PCP"), {})
    BY PasaPcp
  <2> QED BY <2>1, PasaLanza
<1>7. Pasa(a, {}, Con("core", Con("NEW", mira)) \o Lanza("PCP"), {})
  BY <1>5, <1>6, PasaLuego
<1>8. Pasa(a, {}, PlpPlanifica, {})
  BY <1>7 DEF PlpPlanifica, mira, admite
<1> QED BY <1>8, Funciones

LEMMA PasaNuevo ==
  ASSUME NEW a, NEW L, L \subseteq Livianos
  PROVE  Pasa(a, L, Funcion("NUEVO"), L)
<1>1. Pasa(a, L, Pausador, L)
  <2>1. Admite(a, L, "pausa")
    BY DEF Admite, Orden, Rango, Livianos
  <2> QED BY <2>1, PasaPausador
<1>2. Pasa(a, L, Lanza("PLP"), L)
  BY PasaPlp, PasaLanza
<1>3. Pasa(a, L, PlanificarNuevo, L)
  BY <1>1, <1>2, PasaLuego DEF PlanificarNuevo
<1> QED BY <1>3, Funciones

LEMMA PasaDesbloquear ==
  ASSUME NEW a, NEW L, L \subseteq Livianos
  PROVE  Pasa(a, L, Funcion("DESBLOQUEAR"), L)
<1> DEFINE B == L \cup {"BLOCKED"}
           mira == Si("ESTA", "BLOCKED", Saca("BLOCKED") \o Agregar("READY"), <<>>)
<1>1. /\ {"BLOCKED", "READY"} \subseteq Mutexes /\ "READY" \notin B
      /\ Admite(a, L, "pausa") /\ Admite(a, L, "BLOCKED")
  BY DEF Mutexes, Listas, Admite, Orden, Rango, Livianos
<1> HIDE DEF B
<1>2. Pasa(a, B, Saca("BLOCKED") \o Agregar("READY"), B)
  BY <1>1, PasaSaca, PasaAgregar, PasaLuego
<1>3. Pasa(a, B, mira, B)
  BY <1>2, PasaSi, PasaNada
<1> HIDE DEF mira
<1>4. Pasa(a, L, Con("BLOCKED", mira), L)
  BY <1>1, <1>3, PasaCon DEF B
<1>5. Pasa(a, L, Llama("PCP"), L)
  BY PasaPcp, PasaLlama
<1>6. Pasa(a, L, Pausador, L)
  BY <1>1, PasaPausador
<1>7. Pasa(a, L, Pausador \o Con("BLOCKED", mira) \o Llama("PCP"), L)
  BY <1>4, <1>5, <1>6, PasaLuego
<1>8. Pasa(a, L, Desbloquear, L)
  BY <1>7 DEF Desbloquear, mira
<1> QED BY <1>8, Funciones

LEMMA PasaAsignar ==
  ASSUME NEW a, NEW L, L \subseteq {"finalizar"}
  PROVE  Pasa(a, L, Funcion("ASIGNAR"), L)
<1> DEFINE R == L \cup {"recurso"}
           mira == Si("COLA", NULL, Hace("DESENCOLA") \o Llama("DESBLOQUEAR"), <<>>)
<1>1. /\ "recurso" \in Mutexes /\ R \subseteq Livianos /\ "DESENCOLA" \in Ordinarios
      /\ Admite(a, L, "pausa") /\ Admite(a, L, "recurso")
  BY DEF Mutexes, Listas, Admite, Orden, Rango, Livianos, Ordinarios
<1> HIDE DEF R
<1>2. Pasa(a, R, Hace("DESENCOLA") \o Llama("DESBLOQUEAR"), R)
  <2>1. Pasa(a, R, Llama("DESBLOQUEAR"), R)
    BY <1>1, PasaDesbloquear, PasaLlama
  <2>2. Pasa(a, R, Hace("DESENCOLA"), R)
    BY <1>1, PasaHace
  <2> QED BY <2>1, <2>2, PasaLuego
<1>3. Pasa(a, R, mira, R)
  BY <1>2, PasaSi, PasaNada
<1> HIDE DEF mira
<1>4. Pasa(a, L, Con("recurso", mira), L)
  BY <1>1, <1>3, PasaCon DEF R
<1>5. Pasa(a, L, Pausador, L)
  BY <1>1, PasaPausador
<1>6. Pasa(a, L, Pausador \o Con("recurso", mira), L)
  BY <1>4, <1>5, PasaLuego
<1>7. Pasa(a, L, AsignarRecurso, L)
  BY <1>6 DEF AsignarRecurso, mira
<1> QED BY <1>7, Funciones

LEMMA PasaSleep ==
  ASSUME NEW a
  PROVE  Pasa(a, {}, Funcion("SLEEP"), {})
<1>1. {"BLOCKED", "READY"} \subseteq Mutexes /\ Admite(a, {}, "BLOCKED") /\ "SACA" \in Ordinarios
  BY DEF Mutexes, Listas, Admite, Ordinarios
<1>2. Pasa(a, {}, Breve("BLOCKED", "SACA"), {})
  BY <1>1, PasaBreve
<1>3. Pasa(a, {}, Agregar("READY"), {})
  BY <1>1, PasaAgregar
<1>4. Pasa(a, {}, Llama("PCP"), {})
  BY PasaPcp, PasaLlama
<1>5. Pasa(a, {}, ManejarSleep, {})
  BY <1>2, <1>3, <1>4, PasaLuego DEF ManejarSleep
<1> QED BY <1>5, Funciones

(* The resources of a process are released whatever list it is in.          *)
LEMMA PasaTerminar ==
  ASSUME NEW a, NEW L, "recurso" \notin L, "EXIT" \notin L
  PROVE  Pasa(a, L, Llama("TERMINAR"), L)
<1> DEFINE R == L \cup {"recurso"}
           devuelve == Hace("DEVUELVE") \o Lanza("ASIGNAR")
           mira == Si("EN_COLA", NULL, Hace("DEJA_LA_COLA"), devuelve)
<1>1. /\ {"recurso", "EXIT"} \subseteq Mutexes /\ Admite(a, L, "recurso")
      /\ {"DEJA_LA_COLA", "DEVUELVE", "LIBERA_EN_MEMORIA"} \subseteq Ordinarios
  BY DEF Mutexes, Listas, Admite, Orden, Ordinarios
<1> HIDE DEF R
<1>2. Pasa(a, R, Lanza("ASIGNAR"), R)
  <2>1. Pasa(a, {}, Funcion("ASIGNAR"), {})
    BY PasaAsignar
  <2> QED BY <2>1, PasaLanza
<1>3. Pasa(a, R, devuelve, R)
  BY <1>1, <1>2, PasaHace, PasaLuego
<1> HIDE DEF devuelve
<1>4. Pasa(a, R, mira, R)
  <2>1. Pasa(a, R, Hace("DEJA_LA_COLA"), R)
    BY <1>1, PasaHace
  <2> QED BY <1>3, <2>1, PasaSi
<1> HIDE DEF mira
<1>5. Pasa(a, L, Con("recurso", mira), L)
  BY <1>1, <1>4, PasaCon DEF R
<1>6. Pasa(a, L, Si("TIENE", NULL, Con("recurso", mira), <<>>), L)
  BY <1>5, PasaSi, PasaNada
<1>7. Pasa(a, L, LiberarRecursos, L)
  BY <1>6 DEF LiberarRecursos, mira, devuelve
<1>8. Pasa(a, L, Llama("LIBERAR"), L)
  BY <1>7, Funciones, PasaLlama
<1>9. Pasa(a, L, Hace("LIBERA_EN_MEMORIA"), L)
  BY <1>1, PasaHace
<1>10. Pasa(a, L, Agregar("EXIT"), L)
  BY <1>1, PasaAgregar
<1>11. Pasa(a, L, Terminar, L)
  BY <1>8, <1>9, <1>10, PasaLuego DEF Terminar
<1> QED BY <1>11, Funciones, PasaLlama

LEMMA PasaSacarDeExec ==
  ASSUME NEW a, NEW L, NEW s, Pasa(a, L, s, L)
  PROVE  Pasa(a, L, SacarDeExec(s), L)
<1>1. Pasa(a, L, Saca("EXEC") \o s, L)
  BY PasaSaca, PasaLuego
<1>2. Pasa(a, L, Hace("CAE"), L)
  BY PasaHace DEF Ordinarios
<1> QED BY <1>1, <1>2, PasaSi DEF SacarDeExec

LEMMA PasaExit ==
  ASSUME NEW a, NEW L, L \subseteq {"finalizar"}
  PROVE  Pasa(a, L, Funcion("EXIT"), L)
<1> DEFINE E == L \cup {"EXEC"}
           termina == Llama("TERMINAR") \o Breve("core", "BAJA")
<1>1. /\ {"EXEC", "core"} \subseteq Mutexes /\ Admite(a, L, "EXEC") /\ Admite(a, E, "core")
      /\ "recurso" \notin E /\ "EXIT" \notin E /\ "BAJA" \in Ordinarios
      /\ L \subseteq Livianos
  BY DEF Mutexes, Listas, Admite, Orden, Rango, Ordinarios, Livianos
<1> HIDE DEF E
<1>2. Pasa(a, E, termina, E)
  BY <1>1, PasaTerminar, PasaBreve, PasaLuego
<1> HIDE DEF termina
<1>3. Pasa(a, E, SacarDeExec(termina), E)
  BY <1>2, PasaSacarDeExec
<1>4. Pasa(a, L, Con("EXEC", SacarDeExec(termina)), L)
  BY <1>1, <1>3, PasaCon DEF E
<1>5. Pasa(a, L, Llama("NUEVO"), L)
  BY <1>1, PasaNuevo, PasaLlama
<1>6. Pasa(a, L, PlpExit, L)
  BY <1>4, <1>5, PasaLuego DEF PlpExit, termina
<1> QED BY <1>6, Funciones

LEMMA PasaDesalojar ==
  ASSUME NEW a
  PROVE  Pasa(a, {}, Funcion("DESALOJAR"), {})
<1>1. /\ {"EXEC", "core", "desalojado", "finalizar"} \subseteq Mutexes
      /\ \A m : Admite(a, {}, m)
      /\ {"BAJA", "NO_DESALOJADO", "NO_FINALIZAR"} \subseteq Ordinarios
  BY DEF Mutexes, Listas, Admite, Ordinarios
<1>2. Pasa(a, {} \cup {"EXEC"}, Llama("TERMINAR"), {} \cup {"EXEC"})
  BY PasaTerminar
<1>3. Pasa(a, {}, Con("EXEC", SacarDeExec(Llama("TERMINAR"))), {})
  BY <1>1, <1>2, PasaSacarDeExec, PasaCon
<1>4. /\ Pasa(a, {}, Breve("core", "BAJA"), {})
      /\ Pasa(a, {}, Breve("desalojado", "NO_DESALOJADO"), {})
      /\ Pasa(a, {}, Breve("finalizar", "NO_FINALIZAR"), {})
  BY <1>1, PasaBreve
<1>5. Pasa(a, {}, Llama("NUEVO"), {})
  BY PasaNuevo, PasaLlama
<1>6. Pasa(a, {}, Con("EXEC", SacarDeExec(Llama("TERMINAR"))) \o Breve("core", "BAJA"), {})
  BY <1>3, <1>4, PasaLuego
<1>7. Pasa(a, {}, DesalojarProceso, {})
  BY <1>4, <1>5, <1>6, PasaLuego DEF DesalojarProceso
<1> QED BY <1>7, Funciones

LEMMA PasaReubicar ==
  ASSUME NEW a, NEW L, L \subseteq {"finalizar"}
  PROVE  Pasa(a, L, Funcion("REUBICAR"), L)
<1> DEFINE E == L \cup {"EXEC"}
           R == E \cup {"READY"}
<1>1. /\ {"EXEC", "READY", "desalojado"} \subseteq Mutexes
      /\ Admite(a, L, "EXEC") /\ Admite(a, E, "READY") /\ Admite(a, L, "desalojado")
      /\ {"VUELVE", "NO_DESALOJADO"} \subseteq Ordinarios /\ L \subseteq Livianos
  BY DEF Mutexes, Listas, Admite, Orden, Rango, Ordinarios, Livianos
<1> HIDE DEF R
<1>2. Pasa(a, R, SacarDeExec(Hace("VUELVE")), R)
  BY <1>1, PasaHace, PasaSacarDeExec
<1> HIDE DEF E
<1>3. Pasa(a, E, Con("READY", SacarDeExec(Hace("VUELVE"))), E)
  BY <1>1, <1>2, PasaCon DEF R
<1>4. Pasa(a, L, Con("EXEC", Con("READY", SacarDeExec(Hace("VUELVE")))), L)
  BY <1>1, <1>3, PasaCon DEF E
<1>5. Pasa(a, L, Breve("desalojado", "NO_DESALOJADO"), L)
  BY <1>1, PasaBreve
<1>6. Pasa(a, L, Llama("PCP"), L)
  BY <1>1, PasaPcp, PasaLlama
<1>7. Pasa(a, L, Reubicar, L)
  BY <1>4, <1>5, <1>6, PasaLuego DEF Reubicar
<1> QED BY <1>7, Funciones

(* FINALIZAR_PROCESO, with the two flags one inside the other.              *)
LEMMA PasaFinalizar ==
  ASSUME NEW a
  PROVE  Pasa(a, {}, Funcion("FINALIZAR"), {})
<1> DEFINE D == {} \cup {"desalojado"}
           F == D \cup {"finalizar"}
           en(l) == Con(l, Llama("TERMINAR")) \o Breve("core", "BAJA") \o Llama("NUEVO")
           new == Con("NEW", Hace("LIBERA_EN_MEMORIA") \o Agregar("EXIT"))
           exec == Con("desalojado", Con("finalizar", Hace("PIDE_DESALOJO")))
           exit == Con("EXIT", Si("ESTA", "EXIT", <<>>, Hace("CAE")))
<1>1. /\ Listas \cup {"core", "desalojado", "finalizar"} \subseteq Mutexes
      /\ \A m : Admite(a, {}, m)
      /\ Admite(a, D, "finalizar")
      /\ {"BAJA", "MARCA", "PIDE_DESALOJO", "LIBERA_EN_MEMORIA", "CAE"} \subseteq Ordinarios
      /\ {"NEW", "READY", "EXEC", "BLOCKED", "EXIT"} \subseteq Listas
  BY DEF Mutexes, Listas, Admite, Orden, Ordinarios
<1> HIDE DEF F
<1>2. ASSUME NEW x \in {"MARCA", "PIDE_DESALOJO"}
      PROVE  Pasa(a, {}, Con("desalojado", Con("finalizar", Hace(x))), {})
  <2>1. Pasa(a, F, Hace(x), F)
    BY <1>1, PasaHace
  <2> HIDE DEF D
  <2>2. Pasa(a, D, Con("finalizar", Hace(x)), D)
    BY <1>1, <2>1, PasaCon DEF F
  <2> QED BY <1>1, <2>2, PasaCon DEF D
<1>3. ASSUME NEW l \in {"READY", "BLOCKED"}
      PROVE  Pasa(a, {}, en(l), {})
  <2>1. Pasa(a, {} \cup {l}, Llama("TERMINAR"), {} \cup {l})
    BY PasaTerminar
  <2>2. Pasa(a, {}, Con(l, Llama("TERMINAR")), {})
    BY <1>1, <2>1, PasaCon
  <2>3. Pasa(a, {}, Breve("core", "BAJA"), {})
    BY <1>1, PasaBreve
  <2>4. Pasa(a, {}, Llama("NUEVO"), {})
    BY PasaNuevo, PasaLlama
  <2> QED BY <2>2, <2>3, <2>4, PasaLuego
<1>4. Pasa(a, {}, new, {})
  <2>1. Pasa(a, {} \cup {"NEW"}, Agregar("EXIT"), {} \cup {"NEW"})
    BY <1>1, PasaAgregar
  <2>2. Pasa(a, {} \cup {"NEW"}, Hace("LIBERA_EN_MEMORIA"), {} \cup {"NEW"})
    BY <1>1, PasaHace
  <2>3. Pasa(a, {} \cup {"NEW"}, Hace("LIBERA_EN_MEMORIA") \o Agregar("EXIT"), {} \cup {"NEW"})
    BY <2>1, <2>2, PasaLuego
  <2> QED BY <1>1, <2>3, PasaCon
<1>5. Pasa(a, {}, exit, {})
  <2>1. Pasa(a, {} \cup {"EXIT"}, Hace("CAE"), {} \cup {"EXIT"})
    BY <1>1, PasaHace
  <2>2. Pasa(a, {} \cup {"EXIT"}, Si("ESTA", "EXIT", <<>>, Hace("CAE")), {} \cup {"EXIT"})
    BY <2>1, PasaSi, PasaNada
  <2> QED BY <1>1, <2>2, PasaCon
<1>6. Pasa(a, {}, exec, {}) /\ Pasa(a, {}, en("READY"), {}) /\ Pasa(a, {}, en("BLOCKED"), {})
  BY <1>2, <1>3
<1> DEFINE segun == Si("ES", "NEW", new, Si("ES", "READY", en("READY"),
                    Si("ES", "EXEC", exec, Si("ES", "BLOCKED", en("BLOCKED"), exit))))
<1>7. Pasa(a, {}, segun, {})
  <2> HIDE DEF new, exec, exit, en
  <2>1. Pasa(a, {}, Si("ES", "BLOCKED", en("BLOCKED"), exit), {})
    BY <1>5, <1>6, PasaSi
  <2>2. Pasa(a, {}, Si("ES", "EXEC", exec, Si("ES", "BLOCKED", en("BLOCKED"), exit)), {})
    BY <1>6, <2>1, PasaSi
  <2>3. Pasa(a, {}, Si("ES", "READY", en("READY"),
                       Si("ES", "EXEC", exec, Si("ES", "BLOCKED", en("BLOCKED"), exit))), {})
    BY <1>6, <2>2, PasaSi
  <2> QED BY <1>4, <2>3, PasaSi
<1>8. Pasa(a, {}, Pausador, {})
  BY <1>1, PasaPausador
<1>9. Pasa(a, {}, Con("desalojado", Con("finalizar", Hace("MARCA"))), {})
  BY <1>2
<1>10. Pasa(a, {}, Con("desalojado", Con("finalizar", Hace("MARCA"))) \o Pausador \o segun, {})
  <2> HIDE DEF segun
  <2> QED BY <1>7, <1>8, <1>9, PasaLuego
<1>11. Pasa(a, {}, Finalizar, {})
  BY <1>10, Zenon DEF Finalizar
<1> QED BY <1>11, Funciones

(* The handlers of the traps, with the mutex of the flag.                   *)
LEMMA PasaTrap ==
  ASSUME NEW a, NEW t \in Traps
  PROVE  Pasa(a, {"finalizar"}, AtenderTrap[t], {"finalizar"})
<1> DEFINE L == {"finalizar"}
<1>1. /\ {"EXEC", "BLOCKED", "recurso"} \subseteq Mutexes \ L
      /\ Admite(a, L, "EXEC") /\ Admite(a, L, "f_open")
      /\ {"SACA_EXEC", "ANOTA", "ASIGNA", "RESPONDE", "SUMA", "PIDE_ABRIR", "PIDE"}
           \subseteq Ordinarios
      /\ L \subseteq Livianos
  BY DEF Mutexes, Listas, Admite, Orden, Rango, Ordinarios, Livianos
<1>2. L \subseteq {"finalizar"}
  OBVIOUS
<1> HIDE DEF L
<1>3. /\ Pasa(a, L, Llama("PCP"), L)
      /\ Pasa(a, L, Llama("EXIT"), L)
      /\ Pasa(a, L, Llama("ASIGNAR"), L)
  <2>1. Pasa(a, L, Funcion("PCP"), L)
    BY <1>1, PasaPcp
  <2>2. Pasa(a, L, Funcion("EXIT"), L) /\ Pasa(a, L, Funcion("ASIGNAR"), L)
    BY <1>2, PasaExit, PasaAsignar
  <2> QED BY <2>1, <2>2, PasaLlama
<1>4. Pasa(a, L, Breve("EXEC", "SACA_EXEC"), L) /\ Pasa(a, L, Agregar("BLOCKED"), L)
  BY <1>1, PasaBreve, PasaAgregar
<1>5. \A x \in {"ANOTA", "ASIGNA", "RESPONDE", "SUMA", "PIDE_ABRIR", "PIDE"} :
        Pasa(a, L, Hace(x), L)
  BY <1>1, PasaHace
<1>6. Pasa(a, L, AtenderTrap["SLEEP"], L)
  <2>1. Pasa(a, L, Lanza("SLEEP"), L)
    BY PasaSleep, PasaLanza
  <2>2. Pasa(a, L, Saca("EXEC") \o Agregar("BLOCKED") \o Lanza("SLEEP") \o Llama("PCP"), L)
    BY <1>3, <1>4, <2>1, PasaSaca, PasaLuego
  <2>3. AtenderTrap["SLEEP"] =
          Si("ESTA", "EXEC", Saca("EXEC") \o Agregar("BLOCKED") \o Lanza("SLEEP")
                             \o Llama("PCP"), <<>>)
    BY DEF AtenderTrap
  <2> QED BY <2>2, <2>3, PasaSi, PasaNada
<1>7. Pasa(a, L, AtenderTrap["WAIT"], L)
  <2>1. Pasa(a, L, Hace("ASIGNA") \o Hace("RESPONDE"), L)
    BY <1>5, PasaLuego
  <2>2. Pasa(a, L, Agregar("recurso"), L)
    BY <1>1, PasaAgregar
  <2>3. Pasa(a, L, Breve("EXEC", "SACA_EXEC") \o Hace("ANOTA") \o Agregar("BLOCKED"), L)
    BY <1>4, <1>5, PasaLuego
  <2>4. Pasa(a, L, Breve("EXEC", "SACA_EXEC") \o Hace("ANOTA") \o Agregar("BLOCKED")
                   \o Agregar("recurso") \o Llama("PCP"), L)
    BY <1>3, <2>2, <2>3, PasaLuego
  <2>5. AtenderTrap["WAIT"] =
          Si("INSTANCIAS", NULL, Hace("ASIGNA") \o Hace("RESPONDE"),
             Breve("EXEC", "SACA_EXEC") \o Hace("ANOTA") \o Agregar("BLOCKED")
             \o Agregar("recurso") \o Llama("PCP"))
    BY DEF AtenderTrap
  <2> QED BY <2>1, <2>4, <2>5, PasaSi
<1>8. Pasa(a, L, AtenderTrap["SIGNAL"], L)
  <2>1. Pasa(a, L, Si("COLA", NULL, Llama("ASIGNAR"), <<>>), L)
    BY <1>3, PasaSi, PasaNada
  <2>2. Pasa(a, L, Hace("SUMA") \o Hace("RESPONDE")
                   \o Si("COLA", NULL, Llama("ASIGNAR"), <<>>), L)
    BY <1>5, <2>1, PasaLuego
  <2>3. AtenderTrap["SIGNAL"] =
          Si("TIENE", NULL,
             Hace("SUMA") \o Hace("RESPONDE") \o Si("COLA", NULL, Llama("ASIGNAR"), <<>>),
             Llama("EXIT"))
    BY DEF AtenderTrap
  <2> QED BY <1>3, <2>2, <2>3, PasaSi
<1>9. Pasa(a, L, AtenderTrap["F_OPEN"], L)
  <2>1. Pasa(a, L, Espera("f_open"), L)
    BY <1>1, PasaIgual DEF Espera
  <2>2. Pasa(a, L, Hace("PIDE_ABRIR") \o Espera("f_open") \o Hace("RESPONDE"), L)
    BY <1>5, <2>1, PasaLuego
  <2>3. AtenderTrap["F_OPEN"] = Hace("PIDE_ABRIR") \o Espera("f_open") \o Hace("RESPONDE")
    BY DEF AtenderTrap
  <2> QED BY <2>2, <2>3
<1>10. Pasa(a, L, AtenderTrap["F_READ"], L)
  <2>1. Pasa(a, L, Breve("EXEC", "SACA_EXEC") \o Agregar("BLOCKED") \o Hace("PIDE")
                   \o Llama("PCP"), L)
    BY <1>3, <1>4, <1>5, PasaLuego
  <2>2. AtenderTrap["F_READ"] =
          Breve("EXEC", "SACA_EXEC") \o Agregar("BLOCKED") \o Hace("PIDE") \o Llama("PCP")
    BY DEF AtenderTrap
  <2> QED BY <2>1, <2>2
<1>11. Pasa(a, L, AtenderTrap["PAGE_FAULT"], L)
  <2> DEFINE E == L \cup {"EXEC"}
             bloquea == Saca("EXEC") \o Agregar("BLOCKED") \o Lanza("DESBLOQUEAR")
  <2>1. "BLOCKED" \in Mutexes \ E
    BY <1>1
  <2> HIDE DEF E
  <2>2. Pasa(a, E, Lanza("DESBLOQUEAR"), E)
    <3>1. Pasa(a, {}, Funcion("DESBLOQUEAR"), {})
      BY PasaDesbloquear
    <3> QED BY <3>1, PasaLanza
  <2>3. Pasa(a, E, Agregar("BLOCKED"), E)
    BY <2>1, PasaAgregar
  <2>4. Pasa(a, E, bloquea, E)
    BY <2>2, <2>3, PasaSaca, PasaLuego
  <2> HIDE DEF bloquea
  <2>5. Pasa(a, E, Si("ESTA", "EXEC", bloquea, <<>>), E)
    BY <2>4, PasaSi, PasaNada
  <2>6. Pasa(a, L, Con("EXEC", Si("ESTA", "EXEC", bloquea, <<>>)), L)
    BY <1>1, <2>5, PasaCon DEF E
  <2>7. AtenderTrap["PAGE_FAULT"] = Con("EXEC", Si("ESTA", "EXEC", bloquea, <<>>))
    BY DEF AtenderTrap, bloquea
  <2> QED BY <2>6, <2>7
<1>12. Pasa(a, L, AtenderTrap["EXIT"], L)
  <2>1. AtenderTrap["EXIT"] = Llama("EXIT")
    BY DEF AtenderTrap
  <2> QED BY <1>3, <2>1
<1>13. \A u \in Traps : Pasa(a, L, AtenderTrap[u], L)
  BY <1>6, <1>7, <1>8, <1>9, <1>10, <1>11, <1>12 DEF Traps
<1> QED BY <1>13 DEF L

LEMMA PasaDesalojarSiFinaliza ==
  ASSUME NEW a, NEW s, Pasa(a, {"finalizar"}, s, {"finalizar"})
  PROVE  Pasa(a, {}, Con("finalizar", Si("FINALIZAR", NULL, Lanza("DESALOJAR"), s)), {})
<1> DEFINE F == {} \cup {"finalizar"}
<1>1. "finalizar" \in Mutexes /\ Admite(a, {}, "finalizar") /\ F = {"finalizar"}
  BY DEF Mutexes, Admite
<1>2. Pasa(a, F, Lanza("DESALOJAR"), F)
  BY PasaDesalojar, PasaLanza
<1>3. Pasa(a, F, s, F)
  BY <1>1
<1> HIDE DEF F
<1>4. Pasa(a, F, Si("FINALIZAR", NULL, Lanza("DESALOJAR"), s), F)
  BY <1>2, <1>3, PasaSi
<1> QED BY <1>1, <1>4, PasaCon DEF F

LEMMA PasaInstruccion ==
  ASSUME NEW a, NEW t \in Traps
  PROVE  Pasa(a, {}, AtenderInstruccion(t), {})
<1> DEFINE atiende == Con("finalizar", Si("FINALIZAR", NULL, Lanza("DESALOJAR"), AtenderTrap[t]))
<1>1. /\ {"EXEC", "desalojado"} \subseteq Mutexes /\ \A m : Admite(a, {}, m)
      /\ {"RECIBE", "DESALOJADO"} \subseteq Ordinarios
  BY DEF Mutexes, Listas, Admite, Ordinarios
<1>2. Pasa(a, {}, Pausador, {})
  BY <1>1, PasaPausador
<1>3. Pasa(a, {}, Breve("EXEC", "RECIBE"), {}) /\ Pasa(a, {}, Breve("desalojado", "DESALOJADO"), {})
  BY <1>1, PasaBreve
<1>4. Pasa(a, {}, atiende, {})
  BY PasaTrap, PasaDesalojarSiFinaliza
<1> HIDE DEF atiende
<1>5. Pasa(a, {}, Breve("EXEC", "RECIBE") \o Pausador \o Breve("desalojado", "DESALOJADO")
                  \o atiende, {})
  BY <1>2, <1>3, <1>4, PasaLuego
<1> QED BY <1>5 DEF AtenderInstruccion, atiende

LEMMA PasaDesalojo ==
  ASSUME NEW a, NEW motivo
  PROVE  Pasa(a, {}, AtenderDesalojo(motivo), {})
<1> DEFINE decide == Con("finalizar", Si("FINALIZAR", NULL, Lanza("DESALOJAR"), Llama("REUBICAR")))
<1>1. /\ {"EXEC", "desalojado"} \subseteq Mutexes /\ \A m : Admite(a, {}, m)
      /\ {"RECIBE", "DESALOJADO"} \subseteq Ordinarios
  BY DEF Mutexes, Listas, Admite, Ordinarios
<1>2. Pasa(a, {}, Pausador, {})
  BY <1>1, PasaPausador
<1>3. Pasa(a, {}, Breve("EXEC", "RECIBE"), {}) /\ Pasa(a, {}, Breve("desalojado", "DESALOJADO"), {})
  BY <1>1, PasaBreve
<1>4. Pasa(a, {}, decide, {})
  <2>1. Pasa(a, {"finalizar"}, Llama("REUBICAR"), {"finalizar"})
    BY PasaReubicar, PasaLlama
  <2> QED BY <2>1, PasaDesalojarSiFinaliza
<1>5. Pasa(a, {}, Llama("DESALOJAR"), {})
  BY PasaDesalojar, PasaLlama
<1>6. PICK s : s = IF motivo = "DESALOJO_POR_CONSOLA" THEN Llama("DESALOJAR") ELSE decide
  OBVIOUS
<1>7. Pasa(a, {}, s, {})
  <2> HIDE DEF decide
  <2> QED BY <1>4, <1>5, <1>6
<1>8. Pasa(a, {}, AtenderMotivo(motivo), {})
  <2>1. AtenderMotivo(motivo) = Pausador \o s
    BY <1>6 DEF AtenderMotivo
  <2> QED BY <1>2, <1>7, <2>1, PasaLuego
<1> QED BY <1>3, <1>8, PasaLuego DEF AtenderDesalojo

LEMMA PasaInterrupcion ==
  ASSUME NEW a
  PROVE  Pasa(a, {}, GestionarInterrupt, {})
<1>1. /\ {"EXEC", "finalizar"} \subseteq Mutexes /\ \A m : Admite(a, {}, m)
      /\ {"LEE", "ENVIA"} \subseteq Ordinarios
  BY DEF Mutexes, Listas, Admite, Ordinarios
<1>2. Pasa(a, {}, Breve("EXEC", "LEE"), {}) /\ Pasa(a, {}, Breve("finalizar", "ENVIA"), {})
  BY <1>1, PasaBreve
<1> QED BY <1>2, PasaLuego DEF GestionarInterrupt

LEMMA PasaProcesoNuevo ==
  ASSUME NEW a
  PROVE  Pasa(a, {}, ProcesoNuevo, {})
<1>1. "NEW" \in Mutexes /\ Admite(a, {}, "NEW") /\ "ENTRA" \in Ordinarios
  BY DEF Mutexes, Listas, Admite, Ordinarios
<1>2. Pasa(a, {}, Breve("NEW", "ENTRA"), {})
  BY <1>1, PasaBreve
<1>3. Pasa(a, {}, Llama("NUEVO"), {})
  BY PasaNuevo, PasaLlama
<1> QED BY <1>2, <1>3, PasaLuego DEF ProcesoNuevo

LEMMA PasaBuscarEn ==
  ASSUME NEW a, NEW l \in Listas, NEW s, Pasa(a, {}, s, {})
  PROVE  Pasa(a, {}, BuscarEn(l, s), {})
<1> DEFINE M == {} \cup {l}
           saca == IF l \in {"NEW", "READY", "BLOCKED"} THEN Saca(l) ELSE <<>>
<1>1. l \in Mutexes /\ Admite(a, {}, l) /\ "NADA" \in Ordinarios
  BY DEF Mutexes, Admite, Ordinarios
<1>2. Pasa(a, {}, Toma(l), M)
  BY <1>1, PasaToma DEF Toma
<1>3. Pasa(a, M, Suelta(l), {})
  <2>1. l \in Mutexes \cap M /\ M \ {l} = {}
    BY <1>1
  <2> HIDE DEF M
  <2> QED BY <2>1, PasaSuelta
<1> HIDE DEF M
<1>4. Pasa(a, M, saca, M)
  BY PasaSaca, PasaNada
<1> HIDE DEF saca
<1>5. Pasa(a, {}, Llama("FINALIZAR"), {})
  BY PasaFinalizar, PasaLlama
<1>6. Pasa(a, M, saca \o Suelta(l) \o Llama("FINALIZAR"), {})
  BY <1>3, <1>4, <1>5, PasaLuego
<1>7. Pasa(a, M, Suelta(l) \o s, {})
  BY <1>3, PasaLuego
<1>8. Pasa(a, M, Si("ESTA", l, saca \o Suelta(l) \o Llama("FINALIZAR"), Suelta(l) \o s), {})
  BY <1>6, <1>7, PasaSi
<1>9. Pasa(a, {}, Toma(l) \o Si("ESTA", l, saca \o Suelta(l) \o Llama("FINALIZAR"),
                                Suelta(l) \o s), {})
  BY <1>2, <1>8, PasaLuego
<1> QED BY <1>9 DEF BuscarEn, saca

LEMMA PasaPlanificarExit ==
  ASSUME NEW a
  PROVE  Pasa(a, {}, PlanificarExit, {})
<1>1. Pasa(a, {}, Hace("CAE"), {})
  BY PasaHace DEF Ordinarios
<1>2. {"NEW", "READY", "EXEC", "EXIT", "BLOCKED"} \subseteq Listas
  BY DEF Listas
<1> QED BY <1>1, <1>2, PasaBuscarEn DEF PlanificarExit

LEMMA PasaPausar ==
  ASSUME NEW a
  PROVE  Pasa(a, {}, Pausar, {})
<1>1. Pasa(a, {}, Pausador, {})
  BY PasaPausador DEF Admite
<1>2. Pasa(a, {}, Hace("PAUSA"), {})
  BY PasaHace
<1> QED BY <1>1, <1>2, PasaLuego, PasaSi, PasaNada DEF Pausar

(* The post comes right after the end of the pause.                         *)
LEMMA PasaIniciar ==
  ASSUME NEW a
  PROVE  Pasa(a, {}, Iniciar, {})
<1> DEFINE s == Hace("REANUDA") \o Hace("POST")
<1>1. Sec(Hace("REANUDA")) /\ Sec(Hace("POST")) /\ Sec(s)
  BY SecDeI, SecJuntas DEF Hace
<1>2. ASSUME NEW r, Bien(a, {}, r)
      PROVE  Bien(a, {}, s \o r)
  <2>1. Sec(r)
    BY <1>2, BuenaEsSec DEF Bien
  <2>2. PICK pr : pr = Hace("POST") \o r
    OBVIOUS
  <2>3. PICK u : EsI(u, "HACE", NULL, "REANUDA", pr)
    BY DEF EsI
  <2>4. s \o r = u
    <3>1. PICK st : st = s
      OBVIOUS
    <3>2. st = Hace("REANUDA") \o Hace("POST") /\ u = Hace("REANUDA") \o pr
      BY <2>3, <3>1 DEF EsI, Hace
    <3>3. st \o r = Hace("REANUDA") \o pr
      BY <1>1, <2>1, <2>2, <3>2, SecAsocia
    <3> QED BY <3>1, <3>2, <3>3
  <2>5. Bien(a, {}, pr)
    <3>1. Pasa(a, {}, Hace("POST"), {})
      BY PasaHace
    <3> QED BY <1>2, <2>2, <3>1 DEF Pasa
  <2>6. PorPostear(pr)
    <3>1. EsI(pr, "HACE", NULL, "POST", r)
      BY <2>2 DEF EsI, Hace
    <3>2. pr # <<>> /\ Head(pr).op = "HACE" /\ Head(pr).x = "POST"
      BY <1>2, <3>1, PartesDeI
    <3> QED BY <3>2 DEF PorPostear
  <2>7. /\ Sec(u) /\ u # <<>> /\ Tail(u) = pr
        /\ Head(u).op = "HACE" /\ Head(u).x = "REANUDA"
    BY <2>3, <2>5, PartesDeI
  <2>8. Siguientes(a, {}, u) = {<<{}, pr>>}
    BY <2>7 DEF Siguientes
  <2>9. \A e \in Siguientes(a, {}, u) : ~EnPausa(e[2])
    BY <2>5, <2>8 DEF Bien
  <2>10. EnOrden(a, {}, u)
    BY <2>6, <2>7, <2>9 DEF EnOrden
  <2>11. Permitido(a, {}, u)
    BY <2>7, <2>10 DEF Permitido
  <2>12. Buena(a, {}, u)
    BY <2>5, <2>8, <2>11, PlegarUno DEF Bien
  <2>13. ~EnPausa(u)
    BY <2>7 DEF EnPausa
  <2> HIDE DEF s
  <2> QED BY <2>4, <2>12, <2>13 DEF Bien
<1>3. Pasa(a, {}, s, {})
  <2> HIDE DEF s
  <2> QED BY <1>1, <1>2 DEF Pasa
<1> HIDE DEF s
<1>4. Pasa(a, {}, Si("PAUSADO", NULL, s, <<>>), {})
  BY <1>3, PasaSi, PasaNada
<1> QED BY <1>4 DEF Iniciar, s

LEMMA PasaMirar ==
  ASSUME NEW a, NEW l \in Listas, NEW s, Pasa(a, {}, s, {})
  PROVE  Pasa(a, {}, Mirar(l, s), {})
<1>1. l \in Mutexes /\ Admite(a, {}, l) /\ "NADA" \in Ordinarios
  BY DEF Mutexes, Admite, Ordinarios
<1>2. Pasa(a, {}, Breve(l, "NADA"), {})
  BY <1>1, PasaBreve
<1>3. Pasa(a, {}, Si("ESTA", l, <<>>, s), {})
  BY PasaSi, PasaNada
<1> QED BY <1>2, <1>3, PasaLuego DEF Mirar

LEMMA PasaBuscarPcb ==
  ASSUME NEW a
  PROVE  Pasa(a, {}, BuscarPcb, {})
<1>1. {"NEW", "READY", "EXEC", "EXIT", "BLOCKED"} \subseteq Listas
  BY DEF Listas
<1> QED BY <1>1, PasaNada, PasaMirar DEF BuscarPcb

-------------------------------------------------------------------------------
(* The effects on the Kernel.                                               *)
Campos(k) ==
  {"var_pausa", "sem_pausa"} \subseteq DOMAIN k /\ k.var_pausa \in BOOLEAN /\ k.sem_pausa \in Nat

MismaPausa(k, n) == Campos(n) /\ n.var_pausa = k.var_pausa /\ n.sem_pausa = k.sem_pausa

(* The effects that choose a process.                                       *)
Elecciones == {"NINGUNO", "ELIGE", "MAYOR", "SALE_DE_NEW", "LEE", "DESENCOLA", "COMPARA"}

LEMMA OtroCampo ==
  ASSUME NEW k, Campos(k), NEW f, f \notin {"var_pausa", "sem_pausa"}, NEW v
  PROVE  MismaPausa(k, [k EXCEPT ![f] = v])
BY DEF MismaPausa, Campos

LEMMA OtrosDosCampos ==
  ASSUME NEW k, Campos(k), NEW f, f \notin {"var_pausa", "sem_pausa"}, NEW v,
         NEW g, g \notin {"var_pausa", "sem_pausa"}, NEW w
  PROVE  MismaPausa(k, [[k EXCEPT ![f] = v] EXCEPT ![g] = w])
BY DEF MismaPausa, Campos

LEMMA PonerSinPausa ==
  ASSUME NEW k, Campos(k), NEW p, NEW l
  PROVE  MismaPausa(k, Poner(k, p, l)) /\ MismaPausa(k, Quitar(k, p, l))
         /\ MismaPausa(k, Caido(k)) /\ MismaPausa(k, Avisado(k)) /\ MismaPausa(k, k)
BY DEF MismaPausa, Campos, Poner, Quitar, Caido, Avisado

LEMMA EfectoSinPausa ==
  ASSUME NEW k, Campos(k), NEW x \in Ordinarios \ Elecciones, NEW p, NEW m
  PROVE  MismaPausa(k, Efecto(k, x, p, m))
<1>1. CASE x \in {"NADA", "CAE", "SACA", "ENTRA", "VUELVE"}
  BY <1>1, PonerSinPausa DEF Efecto
<1>2. CASE x \in {"SACA_EXEC", "INICIA_EN_MEMORIA", "BAJA", "RESPONDE", "DEVUELVE"}
  BY <1>2 DEF Efecto, MismaPausa, Campos
<1>3. CASE x \in {"PIDE_ABRIR", "PIDE", "DESALOJADO", "NO_DESALOJADO", "NO_FINALIZAR"}
  BY <1>3 DEF Efecto, MismaPausa, Campos
<1>4. CASE x \in {"ASIGNA", "ANOTA", "SUMA", "DEJA_LA_COLA"}
  BY <1>4 DEF Efecto, MismaPausa, Campos
<1>5. CASE x \in {"ADMITE", "DESPACHA"}
  BY <1>5 DEF Efecto, MismaPausa, Campos, Poner
<1>6. CASE x \in {"MARCA", "ENVIA"}
  BY <1>6 DEF Efecto, MismaPausa, Campos
<1>7. CASE x \in {"PONE", "LIBERA_EN_MEMORIA", "RECIBE", "PIDE_DESALOJO"}
  BY <1>7 DEF Efecto, MismaPausa, Campos, Poner, Caido, Avisado
<1> QED BY <1>1, <1>2, <1>3, <1>4, <1>5, <1>6, <1>7 DEF Ordinarios, Elecciones

LEMMA EfectosSinPausa ==
  ASSUME NEW k, Campos(k), NEW x \in Ordinarios, NEW p, NEW m, NEW r \in Efectos(k, x, p, m)
  PROVE  MismaPausa(k, r.k)
<1>1. ASSUME NEW l, NEW quita \in BOOLEAN, NEW q \in DeLista(k, l, quita)
      PROVE  MismaPausa(k, q.k)
  BY PonerSinPausa DEF DeLista
<1>2. CASE x \in {"ELIGE", "MAYOR", "SALE_DE_NEW"}
  BY <1>1, <1>2 DEF Efectos
<1>3. CASE x = "LEE"
  <2>1. r \in IF k.lista["EXEC"] = {} THEN {[k |-> Caido(k), pcb |-> NULL]}
              ELSE DeLista(k, "EXEC", FALSE)
    BY <1>3 DEF Efectos
  <2>2. r = [k |-> Caido(k), pcb |-> NULL] \/ r \in DeLista(k, "EXEC", FALSE)
    BY <2>1
  <2>3. r = [k |-> Caido(k), pcb |-> NULL] => r.k = Caido(k)
    OBVIOUS
  <2> QED BY <1>1, <2>2, <2>3, PonerSinPausa
<1>4. CASE x = "NINGUNO"
  BY <1>4, PonerSinPausa DEF Efectos
<1>5. CASE x = "DESENCOLA"
  <2>1. PICK c, i : c = Tail(k.cola) /\ i = k.instancias - 1
    OBVIOUS
  <2>2. PICK n : n = [[k EXCEPT !.cola = c] EXCEPT !.instancias = i]
    OBVIOUS
  <2>3. k.instancias = [k EXCEPT !.cola = c].instancias
    OBVIOUS
  <2>4. r \in {[k |-> [k EXCEPT !.cola = Tail(@), !.instancias = @ - 1], pcb |-> Head(k.cola)]}
    BY <1>5 DEF Efectos
  <2>5. r = [k |-> n, pcb |-> Head(k.cola)]
    BY <2>1, <2>2, <2>3, <2>4
  <2>6. MismaPausa(k, n)
    BY <2>2, OtrosDosCampos
  <2> QED BY <2>5, <2>6
<1>6. CASE x = "COMPARA"
  BY <1>6, PonerSinPausa DEF Efectos
<1>7. CASE x \notin Elecciones
  <2>1. r = [k |-> Efecto(k, x, p, m), pcb |-> p]
    BY <1>7 DEF Efectos, Elecciones
  <2>2. MismaPausa(k, Efecto(k, x, p, m))
    BY <1>7, EfectoSinPausa
  <2> QED BY <2>1, <2>2
<1> QED BY <1>2, <1>3, <1>4, <1>5, <1>6, <1>7 DEF Elecciones

-------------------------------------------------------------------------------
(* What follows an operation of a thread with no other in between.          *)
Tomados(d, h) ==
  {m \in Mutexes : d[m] = h} \cup (IF h = "FILESYSTEM" THEN {"f_open"} ELSE {})

Duenos == [Mutexes -> Todos \cup {NULL}]

(* The others hold in e what they hold in d.                                *)
AjenosIgual(d, e, h) == \A g \in Todos \ {h} : Tomados(e, g) = Tomados(d, g)

(* r is a state that h may come to from having s left, with the Kernel at k *)
(* and the mutexes as d says.                                               *)
EnMarcha(r, h, d, s, k) ==
  /\ r = [resto |-> r.resto, dueno |-> r.dueno, k |-> r.k]
  /\ r.dueno \in Duenos /\ AjenosIgual(d, r.dueno, h)
  /\ Buena(algoritmo, Tomados(r.dueno, h), r.resto)
  /\ Campos(k) /\ MismaPausa(k, r.k)
  /\ EnPausa(r.resto) => r.k.var_pausa
  /\ PorPostear(s) => r.resto = s

LEMMA NullNoEsHilo == NULL \notin Todos
BY ConstantesCerrojos DEF Todos

LEMMA SueltaLoSuyo ==
  ASSUME NEW d \in Duenos, NEW h \in Todos, NEW m \in Mutexes \cap Tomados(d, h)
  PROVE  /\ [d EXCEPT ![m] = NULL] \in Duenos
         /\ Tomados([d EXCEPT ![m] = NULL], h) = Tomados(d, h) \ {m}
         /\ AjenosIgual(d, [d EXCEPT ![m] = NULL], h)
<1>1. d[m] = h /\ m # "f_open"
  BY DEF Tomados, Mutexes, Listas
<1>2. DOMAIN d = Mutexes
  BY DEF Duenos
<1>3. [d EXCEPT ![m] = NULL] \in Duenos
  BY DEF Duenos
<1>4. Tomados([d EXCEPT ![m] = NULL], h) = Tomados(d, h) \ {m}
  BY <1>1, <1>2, NullNoEsHilo DEF Tomados
<1>5. AjenosIgual(d, [d EXCEPT ![m] = NULL], h)
  BY <1>1, <1>2, NullNoEsHilo DEF Tomados, AjenosIgual
<1> QED BY <1>3, <1>4, <1>5

LEMMA TomaLoLibre ==
  ASSUME NEW d \in Duenos, NEW h \in Todos, NEW m \in Mutexes, d[m] = NULL
  PROVE  /\ [d EXCEPT ![m] = h] \in Duenos
         /\ Tomados([d EXCEPT ![m] = h], h) = Tomados(d, h) \cup {m}
         /\ AjenosIgual(d, [d EXCEPT ![m] = h], h)
<1>2. DOMAIN d = Mutexes
  BY DEF Duenos
<1>3. [d EXCEPT ![m] = h] \in Duenos
  BY DEF Duenos
<1>4. Tomados([d EXCEPT ![m] = h], h) = Tomados(d, h) \cup {m}
  BY <1>2, NullNoEsHilo DEF Tomados
<1>5. AjenosIgual(d, [d EXCEPT ![m] = h], h)
  BY <1>2, NullNoEsHilo DEF Tomados, AjenosIgual
<1> QED BY <1>3, <1>4, <1>5

LEMMA FormaEnMarcha ==
  ASSUME NEW h, NEW d, NEW s, NEW k, NEW v, NEW e \in Duenos, NEW n,
         AjenosIgual(d, e, h), Buena(algoritmo, Tomados(e, h), v),
         Campos(k), MismaPausa(k, n), EnPausa(v) => n.var_pausa, PorPostear(s) => v = s
  PROVE  EnMarcha([resto |-> v, dueno |-> e, k |-> n], h, d, s, k)
<1>1. PICK r : r = [resto |-> v, dueno |-> e, k |-> n]
  OBVIOUS
<1>2. r.resto = v /\ r.dueno = e /\ r.k = n
  BY <1>1
<1>3. EnMarcha(r, h, d, s, k)
  BY <1>1, <1>2 DEF EnMarcha
<1> QED BY <1>1, <1>3

LEMMA SeguirEnMarcha ==
  ASSUME NEW h \in Todos, NEW d, NEW s, NEW k, NEW p, NEW r, EnMarcha(r, h, d, s, k)
  PROVE  EnMarcha(Seguir(r, h, p), h, d, s, k)
<1> DEFINE a == algoritmo
<1>1. CASE r.resto = <<>>
  BY <1>1 DEF Seguir
<1>2. CASE r.resto # <<>>
  <2>1. PICK c, t, L : c = Head(r.resto) /\ t = Tail(r.resto) /\ L = Tomados(r.dueno, h)
    OBVIOUS
  <2>2. Permitido(a, L, r.resto) /\ \A e \in Siguientes(a, L, r.resto) : Buena(a, e[1], e[2])
    BY <2>1, Desplegar DEF EnMarcha
  <2>3. EnOrden(a, L, r.resto)
    BY <1>2, <2>2 DEF Permitido
  <2>4. /\ r = [resto |-> r.resto, dueno |-> r.dueno, k |-> r.k]
        /\ r.dueno \in Duenos /\ AjenosIgual(d, r.dueno, h)
        /\ Campos(k) /\ MismaPausa(k, r.k)
    BY DEF EnMarcha
  <2>5. (c.op # "HACE" \/ c.x # "POST") => ~PorPostear(s)
    BY <2>1 DEF EnMarcha, PorPostear
  <2>6. ASSUME c.op = "SI"
        PROVE  EnMarcha(Seguir(r, h, p), h, d, s, k)
    <3>1. PICK v : v = (IF Condicion(r.k, c.x, p, c.m) THEN c.a ELSE c.b) \o t
      OBVIOUS
    <3>2. Seguir(r, h, p) = [r EXCEPT !.resto = v]
      BY <1>2, <2>1, <2>6, <3>1 DEF Seguir
    <3>3. Seguir(r, h, p) = [resto |-> v, dueno |-> r.dueno, k |-> r.k]
      BY <2>4, <3>2
    <3>4. <<L, v>> \in Siguientes(a, L, r.resto)
      <4>1. CASE c.x = "ALGORITMO"
        <5>1. Condicion(r.k, c.x, p, c.m) <=> a = c.m
          BY <4>1 DEF Condicion
        <5>2. v = (IF a = c.m THEN c.a ELSE c.b) \o t
          BY <3>1, <5>1
        <5> QED BY <1>2, <2>1, <2>6, <4>1, <5>2 DEF Siguientes
      <4>2. CASE c.x # "ALGORITMO"
        <5>1. v = c.a \o t \/ v = c.b \o t
          BY <3>1
        <5> QED BY <1>2, <2>1, <2>6, <4>2, <5>1 DEF Siguientes
      <4> QED BY <4>1, <4>2
    <3>5. Buena(a, L, v)
      BY <2>2, <3>4
    <3>6. EnPausa(v) => r.k.var_pausa
      <4>1. CASE c.x = "PAUSADO"
        <5>1. Condicion(r.k, c.x, p, c.m) <=> r.k.var_pausa
          BY <4>1 DEF Condicion
        <5>2. ~r.k.var_pausa => v = c.b \o t
          BY <3>1, <5>1
        <5>3. ~EnPausa(c.b \o t)
          BY <2>1, <2>3, <2>6, <4>1 DEF EnOrden
        <5> QED BY <5>2, <5>3
      <4>2. CASE c.x # "PAUSADO"
        <5>1. \A e \in Siguientes(a, L, r.resto) : ~EnPausa(e[2])
          BY <2>1, <2>3, <4>2 DEF EnOrden
        <5> QED BY <3>4, <5>1
      <4> QED BY <4>1, <4>2
    <3> QED BY <2>1, <2>4, <2>5, <2>6, <3>3, <3>5, <3>6 DEF EnMarcha
  <2>7. c.op # "SI" => \A e \in Siguientes(a, L, r.resto) : ~EnPausa(e[2])
    BY <2>1, <2>3 DEF EnOrden
  <2>8. ASSUME c.op = "LLAMA"
        PROVE  EnMarcha(Seguir(r, h, p), h, d, s, k)
    <3>1. PICK v : v = Funcion(c.x) \o t
      OBVIOUS
    <3>2. Seguir(r, h, p) = [resto |-> v, dueno |-> r.dueno, k |-> r.k]
      <4>1. Seguir(r, h, p) = [[r EXCEPT !.resto = t] EXCEPT !.resto = Funcion(c.x) \o @]
        BY <1>2, <2>1, <2>8 DEF Seguir
      <4>2. [r EXCEPT !.resto = t] = [resto |-> t, dueno |-> r.dueno, k |-> r.k]
        BY <2>4
      <4> QED BY <3>1, <4>1, <4>2
    <3>3. <<L, v>> \in Siguientes(a, L, r.resto)
      BY <1>2, <2>1, <2>8, <3>1 DEF Siguientes
    <3>4. Buena(a, L, v) /\ ~EnPausa(v)
      BY <2>2, <2>7, <2>8, <3>3
    <3> QED BY <2>1, <2>4, <2>5, <2>8, <3>2, <3>4 DEF EnMarcha
  <2>9. ASSUME c.op = "SUELTA"
        PROVE  EnMarcha(Seguir(r, h, p), h, d, s, k)
    <3>1. PICK e : e = [r.dueno EXCEPT ![c.m] = NULL]
      OBVIOUS
    <3>2. Seguir(r, h, p) = [resto |-> t, dueno |-> e, k |-> r.k]
      <4>1. Seguir(r, h, p) = [[r EXCEPT !.resto = t] EXCEPT !.dueno[c.m] = NULL]
        BY <1>2, <2>1, <2>9 DEF Seguir
      <4>2. [r EXCEPT !.resto = t] = [resto |-> t, dueno |-> r.dueno, k |-> r.k]
        BY <2>4
      <4> QED BY <3>1, <4>1, <4>2
    <3>3. <<L \ {c.m}, t>> \in Siguientes(a, L, r.resto)
      BY <1>2, <2>1, <2>9 DEF Siguientes
    <3>4. Buena(a, L \ {c.m}, t) /\ ~EnPausa(t)
      BY <2>2, <2>7, <2>9, <3>3
    <3>5. c.m \in Mutexes \cap Tomados(r.dueno, h)
      BY <2>1, <2>3, <2>9 DEF EnOrden
    <3>6. e \in Duenos /\ Tomados(e, h) = L \ {c.m} /\ AjenosIgual(r.dueno, e, h)
      <4>1. PICK q, m : q = r.dueno /\ m = c.m
        OBVIOUS
      <4>2. q \in Duenos /\ m \in Mutexes \cap Tomados(q, h) /\ L = Tomados(q, h)
        BY <2>1, <2>4, <3>5, <4>1
      <4>3. e = [q EXCEPT ![m] = NULL]
        BY <3>1, <4>1
      <4>4. e \in Duenos /\ Tomados(e, h) = L \ {m} /\ AjenosIgual(q, e, h)
        BY <4>2, <4>3, SueltaLoSuyo
      <4> QED BY <4>1, <4>4
    <3>7. AjenosIgual(d, e, h)
      BY <2>4, <3>6 DEF AjenosIgual
    <3>8. Buena(a, Tomados(e, h), t) /\ ~PorPostear(s)
      BY <2>5, <2>9, <3>4, <3>6
    <3> QED BY <2>4, <3>2, <3>4, <3>6, <3>7, <3>8, FormaEnMarcha
  <2>10. ASSUME c.op = "HACE", c.x \in Juntas
         PROVE  EnMarcha(Seguir(r, h, p), h, d, s, k)
    <3>1. PICK n : n = Efecto(r.k, c.x, p, c.m)
      OBVIOUS
    <3>2. Seguir(r, h, p) = [resto |-> t, dueno |-> r.dueno, k |-> n]
      <4>1. Seguir(r, h, p) = [[r EXCEPT !.resto = t] EXCEPT !.k = Efecto(@, c.x, p, c.m)]
        BY <1>2, <2>1, <2>10 DEF Seguir
      <4>2. [r EXCEPT !.resto = t] = [resto |-> t, dueno |-> r.dueno, k |-> r.k]
        BY <2>4
      <4> QED BY <3>1, <4>1, <4>2
    <3>3. <<L, t>> \in Siguientes(a, L, r.resto)
      BY <1>2, <2>1, <2>10 DEF Siguientes
    <3>4. Buena(a, L, t) /\ ~EnPausa(t)
      BY <2>2, <2>7, <2>10, <3>3
    <3>5. c.x \in Ordinarios \ Elecciones /\ c.x # "POST"
      BY <2>10 DEF Juntas, Ordinarios, Elecciones
    <3>6. MismaPausa(k, n)
      <4>1. Campos(r.k)
        BY <2>4 DEF MismaPausa
      <4>2. MismaPausa(r.k, n)
        BY <3>1, <3>5, <4>1, EfectoSinPausa
      <4> QED BY <2>4, <4>2 DEF MismaPausa
    <3> QED BY <2>1, <2>4, <2>5, <3>2, <3>4, <3>5, <3>6 DEF EnMarcha
  <2>11. ASSUME c.op = "LANZA", h \in Hilos, t = <<>>
         PROVE  EnMarcha(Seguir(r, h, p), h, d, s, k)
    <3>1. PICK v : v = Funcion(c.x)
      OBVIOUS
    <3>2. Seguir(r, h, p) = [resto |-> v, dueno |-> r.dueno, k |-> r.k]
      <4>1. [r EXCEPT !.resto = t].resto = <<>>
        BY <2>4, <2>11
      <4>2. Seguir(r, h, p) = [r EXCEPT !.resto = Funcion(c.x)]
        BY <1>2, <2>1, <2>11, <4>1 DEF Seguir
      <4> QED BY <2>4, <3>1, <4>2
    <3>3. {<<L, t>>, <<{}, v>>} \subseteq Siguientes(a, L, r.resto)
      BY <1>2, <2>1, <2>11, <3>1 DEF Siguientes
    <3>4. Buena(a, L, <<>>) /\ Buena(a, {}, v) /\ ~EnPausa(v)
      BY <2>2, <2>7, <2>11, <3>3
    <3>5. L = {}
      <4>1. L \subseteq {"f_open"}
        BY <3>4, Desplegar DEF Permitido
      <4>2. h # "FILESYSTEM"
        BY <2>11, ConstantesCerrojos
      <4>3. "f_open" \notin L
        BY <2>1, <4>2 DEF Tomados, Mutexes, Listas
      <4> QED BY <4>1, <4>3
    <3>6. Buena(a, Tomados(r.dueno, h), v) /\ ~PorPostear(s)
      BY <2>1, <2>5, <2>11, <3>4, <3>5
    <3> QED BY <2>4, <3>2, <3>4, <3>6, FormaEnMarcha
  <2>12. ASSUME c.op # "SI", c.op # "LLAMA", c.op # "SUELTA",
                ~(c.op = "HACE" /\ c.x \in Juntas), ~(c.op = "LANZA" /\ h \in Hilos /\ t = <<>>)
         PROVE  EnMarcha(Seguir(r, h, p), h, d, s, k)
    <3>1. [r EXCEPT !.resto = t].resto = t
      BY <2>4
    <3>2. Seguir(r, h, p) = r
      BY <1>2, <2>1, <2>12, <3>1 DEF Seguir
    <3> QED BY <3>2
  <2> QED BY <2>6, <2>8, <2>9, <2>10, <2>11, <2>12
<1> QED BY <1>1, <1>2


(* g has the states that follow x, n times.                                 *)
Seguidos(g, h, p, x, n) == g = [i \in 0..n |-> IF i = 0 THEN x ELSE Seguir(g[i-1], h, p)]

(* The recursion of Avanzar has a solution.                                 *)
LEMMA SeguirPasoAPaso ==
  ASSUME NEW h, NEW p, NEW x, NEW N \in Nat
  PROVE  \E g : Seguidos(g, h, p, x, N)
<1> DEFINE Ec(g, m) == g = [n \in 0..m |-> IF n = 0 THEN x ELSE Seguir(g[n-1], h, p)]
           Faltan == {m \in 0..N : ~\E g : Ec(g, m)}
<1>1. Faltan = {}
  <2>1. SUFFICES ASSUME Faltan # {}
                 PROVE  FALSE
    OBVIOUS
  <2>2. PICK m \in Faltan : \A i \in Faltan : m <= i
    <3>1. Faltan \subseteq Nat
      OBVIOUS
    <3> HIDE DEF Faltan
    <3> QED BY <3>1, <2>1, HayMinimo
  <2>3. m # 0
    <3>1. PICK g : g = [n \in 0..0 |-> x]
      OBVIOUS
    <3>2. Ec(g, 0)
      <4>1. \A n \in 0..0 : n = 0
        OBVIOUS
      <4> QED BY <3>1, <4>1
    <3> HIDE DEF Ec
    <3> QED BY <2>2, <3>2
  <2>4. m \in Nat /\ m - 1 \in 0..N /\ ~(m <= m - 1)
    BY <2>2, <2>3
  <2>5. PICK g : Ec(g, m - 1)
    <3>1. m - 1 \notin Faltan
      BY <2>2, <2>4
    <3> HIDE DEF Ec
    <3> QED BY <2>4, <3>1
  <2>6. PICK f : f = [n \in 0..m |-> IF n = m THEN Seguir(g[m-1], h, p) ELSE g[n]]
    OBVIOUS
  <2>7. ASSUME NEW n \in 0..m
        PROVE  f[n] = IF n = 0 THEN x ELSE Seguir(f[n-1], h, p)
    <3>1. CASE n = 0
      <4>1. 0 \in 0..m-1 /\ n # m
        BY <3>1, <2>3, <2>4
      <4> QED BY <3>1, <4>1, <2>5, <2>6
    <3>2. CASE n # 0
      <4>1. n - 1 \in 0..m /\ n - 1 # m
        BY <3>2, <2>4
      <4>2. f[n-1] = g[n-1]
        BY <4>1, <2>6
      <4>3. CASE n = m
        BY <3>2, <4>2, <4>3, <2>6
      <4>4. CASE n # m
        <5>1. n \in 0..m-1
          BY <4>4, <2>4
        <5>2. g[n] = Seguir(g[n-1], h, p)
          BY <3>2, <5>1, <2>5
        <5> QED BY <3>2, <4>2, <4>4, <5>2, <2>6
      <4> QED BY <4>3, <4>4
    <3> QED BY <3>1, <3>2
  <2>8. Ec(f, m)
    BY <2>6, <2>7
  <2> HIDE DEF Ec
  <2> QED BY <2>2, <2>8
<1>2. \E g : Ec(g, N)
  <2> HIDE DEF Ec
  <2> QED BY <1>1
<1> QED BY <1>2 DEF Seguidos

(* What a step of h leaves, that starts it from s with the mutexes as d     *)
(* says, the Kernel at k, and the others as todos says.                     *)
Llega(r, todos, h, p) ==
  /\ dueno' = r.dueno /\ kernel' = r.k
  /\ hilos' = [todos EXCEPT ![h] = IF r.resto = <<>> THEN Libre
                                   ELSE [resto |-> r.resto, pcb |-> p]]

LEMMA AvanzarEnMarcha ==
  ASSUME NEW todos, NEW h \in Todos, NEW d \in Duenos, NEW s, NEW k, NEW p,
         Campos(k), Buena(algoritmo, Tomados(d, h), s), EnPausa(s) => k.var_pausa,
         Avanzar(todos, h, d, s, k, p)
  PROVE  \E r : EnMarcha(r, h, d, s, k) /\ Llega(r, todos, h, p)
<1> DEFINE x == [resto |-> s, dueno |-> d, k |-> k]
           Ec(g) == g = [n \in 0..MaxSeguidas |->
                           IF n = 0 THEN x ELSE Seguir(g[n-1], h, p)]
           tras == CHOOSE g : Ec(g)
<1>1. MaxSeguidas \in Nat
  BY DEF MaxSeguidas
<1>2. Ec(tras)
  <2>1. \E g : Seguidos(g, h, p, x, MaxSeguidas)
    <3> HIDE DEF x
    <3> QED BY <1>1, SeguirPasoAPaso
  <2>2. \E g : Ec(g)
    <3> HIDE DEF x
    <3> QED BY <2>1 DEF Seguidos
  <2> HIDE DEF Ec
  <2> QED BY <2>2
<1>3. Llega(tras[MaxSeguidas], todos, h, p)
  BY DEF Avanzar, Llega
<1> HIDE DEF tras
<1>4. tras[0] = x /\ \A n \in 1..MaxSeguidas : tras[n] = Seguir(tras[n-1], h, p)
  <2>1. \A n \in 0..MaxSeguidas : tras[n] = IF n = 0 THEN x ELSE Seguir(tras[n-1], h, p)
    BY <1>2
  <2> HIDE DEF x
  <2> QED BY <1>1, <2>1
<1>5. EnMarcha(x, h, d, s, k)
  <2>1. AjenosIgual(d, d, h) /\ MismaPausa(k, k)
    BY DEF AjenosIgual, MismaPausa
  <2> QED BY <2>1, FormaEnMarcha
<1> HIDE DEF x, Ec
<1> DEFINE Malos == {n \in 0..MaxSeguidas : ~EnMarcha(tras[n], h, d, s, k)}
<1>6. Malos = {}
  <2>1. SUFFICES ASSUME Malos # {}
                 PROVE  FALSE
    OBVIOUS
  <2>2. PICK m \in Malos : \A i \in Malos : m <= i
    <3>1. Malos \subseteq Nat
      BY <1>1
    <3> HIDE DEF Malos
    <3> QED BY <3>1, <2>1, HayMinimo
  <2>3. m # 0
    BY <1>4, <1>5, <2>2
  <2>4. m \in 1..MaxSeguidas /\ m - 1 \in 0..MaxSeguidas /\ ~(m <= m - 1)
    BY <1>1, <2>2, <2>3
  <2>5. EnMarcha(tras[m-1], h, d, s, k)
    BY <2>2, <2>4
  <2>6. EnMarcha(tras[m], h, d, s, k)
    <3>1. PICK r : r = tras[m-1]
      OBVIOUS
    <3>2. EnMarcha(r, h, d, s, k) /\ tras[m] = Seguir(r, h, p)
      BY <1>4, <2>4, <2>5, <3>1
    <3> QED BY <3>2, SeguirEnMarcha
  <2> QED BY <2>2, <2>6
<1>7. EnMarcha(tras[MaxSeguidas], h, d, s, k)
  BY <1>1, <1>6
<1> QED BY <1>3, <1>7

-------------------------------------------------------------------------------
(* The inductive invariant.                                                 *)

(* The pause is on, or its end is there or about to be told.                *)
Resuelta(k, s) == k.var_pausa \/ k.sem_pausa > 0 \/ PorPostear(s)

Pausas ==
  \A h \in Todos :
    EnPausa(hilos[h].resto) => \E g \in Todos : Resuelta(kernel, hilos[g].resto)

Ordenados == \A h \in Todos : Buena(algoritmo, Tomados(dueno, h), hilos[h].resto)

Inv ==
  dueno \in Duenos /\ DOMAIN hilos = Todos /\ Campos(kernel) /\ Ordenados /\ Pausas

(* h may go on from s, with the mutexes as d says, the Kernel at k and the  *)
(* others as they were, or launched, as todos says.                         *)
Parte(h, todos, d, s, k) ==
  /\ d \in Duenos /\ AjenosIgual(dueno, d, h)
  /\ Campos(k)
  /\ Bien(algoritmo, Tomados(d, h), s)
  /\ DOMAIN todos = Todos
  /\ \A g \in Todos \ {h} :
       \/ todos[g] = hilos[g]
       \/ hilos[g] = Libre /\ Bien(algoritmo, Tomados(dueno, g), todos[g].resto)
  /\ \/ Resuelta(kernel, hilos[h].resto) => Resuelta(k, s)
     \/ \A g \in Todos \ {h} : ~EnPausa(hilos[g].resto)

LEMMA NadaNoPostea == ~PorPostear(<<>>) /\ ~EnPausa(<<>>)
BY DEF PorPostear, EnPausa

LEMMA PasoDeHilo ==
  ASSUME Inv, NEW h \in Todos, NEW todos, NEW d, NEW s, NEW k, NEW p,
         Parte(h, todos, d, s, k), Avanzar(todos, h, d, s, k, p), UNCHANGED algoritmo
  PROVE  Inv'
<1>1. PICK r : EnMarcha(r, h, d, s, k) /\ Llega(r, todos, h, p)
  BY AvanzarEnMarcha DEF Parte, Bien
<1>2. /\ r.dueno \in Duenos /\ AjenosIgual(d, r.dueno, h)
      /\ Buena(algoritmo, Tomados(r.dueno, h), r.resto)
      /\ Campos(r.k) /\ r.k.var_pausa = k.var_pausa /\ r.k.sem_pausa = k.sem_pausa
      /\ EnPausa(r.resto) => r.k.var_pausa
      /\ PorPostear(s) => r.resto = s
  BY <1>1 DEF EnMarcha, MismaPausa
<1>3. /\ dueno' = r.dueno /\ kernel' = r.k
      /\ DOMAIN hilos' = Todos /\ hilos'[h].resto = r.resto
      /\ \A g \in Todos \ {h} : hilos'[g] = todos[g]
  <2>1. DOMAIN todos = Todos
    BY DEF Parte
  <2> QED BY <1>1, <2>1 DEF Llega, Libre
<1>4. dueno' \in Duenos /\ Campos(kernel')
  BY <1>2, <1>3
<1>5. Ordenados'
  <2>1. ASSUME NEW g \in Todos
        PROVE  Buena(algoritmo, Tomados(r.dueno, g), hilos'[g].resto)
    <3>1. CASE g = h
      BY <1>2, <1>3, <3>1
    <3>2. CASE g # h
      <4>1. Tomados(r.dueno, g) = Tomados(dueno, g)
        BY <1>2, <3>2 DEF AjenosIgual, Parte
      <4>2. Buena(algoritmo, Tomados(dueno, g), todos[g].resto)
        BY <3>2 DEF Parte, Inv, Ordenados, Bien
      <4> QED BY <1>3, <3>2, <4>1, <4>2
    <3> QED BY <3>1, <3>2
  <2> QED BY <1>3, <2>1 DEF Ordenados
<1>6. \A g \in Todos \ {h} :
        /\ PorPostear(hilos[g].resto) => hilos'[g] = hilos[g]
        /\ EnPausa(hilos'[g].resto) => hilos'[g] = hilos[g]
  <2> SUFFICES ASSUME NEW g \in Todos \ {h}
               PROVE  /\ PorPostear(hilos[g].resto) => hilos'[g] = hilos[g]
                      /\ EnPausa(hilos'[g].resto) => hilos'[g] = hilos[g]
    OBVIOUS
  <2>1. hilos'[g] = todos[g]
    BY <1>3
  <2>2. \/ todos[g] = hilos[g]
        \/ hilos[g].resto = <<>> /\ ~EnPausa(todos[g].resto)
    BY DEF Parte, Libre, Bien
  <2> QED BY <2>1, <2>2, NadaNoPostea
<1>7. Resuelta(k, s) => Resuelta(kernel', hilos'[h].resto)
  BY <1>2, <1>3 DEF Resuelta
<1>8. Pausas'
  <2>1. ASSUME NEW g \in Todos, EnPausa(hilos'[g].resto)
        PROVE  \E f \in Todos : Resuelta(kernel', hilos'[f].resto)
    <3>1. CASE g = h
      BY <1>2, <1>3, <2>1, <3>1 DEF Resuelta
    <3>2. CASE g # h
      <4>1. EnPausa(hilos[g].resto)
        BY <1>6, <2>1, <3>2
      <4>2. Resuelta(kernel, hilos[h].resto) => Resuelta(k, s)
        BY <3>2, <4>1 DEF Parte
      <4>3. PICK f \in Todos : Resuelta(kernel, hilos[f].resto)
        BY <4>1 DEF Inv, Pausas
      <4>4. CASE f # h /\ PorPostear(hilos[f].resto)
        BY <1>6, <4>4 DEF Resuelta
      <4>5. CASE f = h \/ ~PorPostear(hilos[f].resto)
        <5>1. Resuelta(kernel, hilos[h].resto)
          BY <4>3, <4>5 DEF Resuelta
        <5> QED BY <1>7, <4>2, <5>1
      <4> QED BY <4>4, <4>5
    <3> QED BY <3>1, <3>2
  <2> QED BY <2>1 DEF Pausas
<1> QED BY <1>3, <1>4, <1>5, <1>8 DEF Inv

(* What h is at.                                                            *)
LEMMA PasoEnOrden ==
  ASSUME Inv, NEW h \in Todos, hilos[h].resto # <<>>
  PROVE  /\ EnOrden(algoritmo, Tomados(dueno, h), hilos[h].resto)
         /\ \A e \in Siguientes(algoritmo, Tomados(dueno, h), hilos[h].resto) :
              Buena(algoritmo, e[1], e[2])
<1>1. PICK s, L : s = hilos[h].resto /\ L = Tomados(dueno, h)
  OBVIOUS
<1>2. Buena(algoritmo, L, s)
  BY <1>1 DEF Inv, Ordenados
<1>3. /\ Permitido(algoritmo, L, s)
      /\ \A e \in Siguientes(algoritmo, L, s) : Buena(algoritmo, e[1], e[2])
  BY <1>2, Desplegar
<1> QED BY <1>1, <1>3 DEF Permitido

(* Who waits in the pause holds its mutex.                                  *)
LEMMA UnoEnPausa ==
  ASSUME Inv, NEW h \in Todos, EnPausa(hilos[h].resto)
  PROVE  dueno["pausa"] = h
<1>1. hilos[h].resto # <<>> /\ Paso(h).op = "ESPERA" /\ Paso(h).m = "pausa"
  BY DEF EnPausa, Paso
<1>2. "pausa" \in Tomados(dueno, h)
  BY <1>1, PasoEnOrden DEF EnOrden, Paso
<1> QED BY <1>2 DEF Tomados

(* A thread that has nothing to do holds nothing, but the answer that       *)
(* FILESYSTEM owes.                                                         *)
Lleva(h) == IF h = "FILESYSTEM" THEN {"f_open"} ELSE {}

LEMMA LibreSinNada ==
  ASSUME Inv, NEW h \in Todos, hilos[h] = Libre
  PROVE  Tomados(dueno, h) = Lleva(h)
<1>1. PICK L : L = Tomados(dueno, h)
  OBVIOUS
<1>2. Buena(algoritmo, L, <<>>)
  BY <1>1 DEF Inv, Ordenados, Libre
<1>3. L \subseteq {"f_open"}
  BY <1>2, Desplegar DEF Permitido
<1>4. Tomados(dueno, h) \subseteq {"f_open"}
  BY <1>1, <1>3
<1>5. "f_open" \notin Mutexes
  BY DEF Mutexes, Listas
<1> QED BY <1>4, <1>5 DEF Tomados, Lleva

(* h goes on to its next operation.                                         *)
LEMMA SigueBien ==
  ASSUME Inv, NEW h \in Todos, hilos[h].resto # <<>>,
         NEW d \in Duenos, AjenosIgual(dueno, d, h), NEW s, NEW k, NEW p, Campos(k),
         <<Tomados(d, h), s>> \in Siguientes(algoritmo, Tomados(dueno, h), hilos[h].resto),
         Paso(h).op \notin {"SI", "LANZA"},
         \/ Resuelta(kernel, hilos[h].resto) => Resuelta(k, s)
         \/ \A g \in Todos \ {h} : ~EnPausa(hilos[g].resto),
         Avanzar(hilos, h, d, s, k, p), UNCHANGED algoritmo
  PROVE  Inv'
<1>1. PICK L, M, u : L = Tomados(dueno, h) /\ M = Tomados(d, h) /\ u = hilos[h].resto
  OBVIOUS
<1>2. /\ EnOrden(algoritmo, L, u)
      /\ \A e \in Siguientes(algoritmo, L, u) : Buena(algoritmo, e[1], e[2])
  BY <1>1, PasoEnOrden
<1>3. \A e \in Siguientes(algoritmo, L, u) : ~EnPausa(e[2])
  BY <1>1, <1>2 DEF EnOrden, Paso
<1>4. Buena(algoritmo, M, s) /\ ~EnPausa(s)
  <2>1. <<M, s>> \in Siguientes(algoritmo, L, u) /\ <<M, s>>[1] = M /\ <<M, s>>[2] = s
    BY <1>1
  <2> QED BY <1>2, <1>3, <2>1
<1>5. Parte(h, hilos, d, s, k)
  BY <1>1, <1>4 DEF Parte, Bien, Inv
<1> QED BY <1>5, PasoDeHilo

(* The operations whose effects are not of the pause.                       *)
LEMMA EjecutarBien ==
  ASSUME Inv, NEW h \in Todos, hilos[h].resto # <<>>,
         NEW d \in Duenos, AjenosIgual(dueno, d, h),
         <<Tomados(d, h), Tail(hilos[h].resto)>>
           \in Siguientes(algoritmo, Tomados(dueno, h), hilos[h].resto),
         Paso(h).op \notin {"SI", "LANZA"}, Paso(h).x \in Ordinarios,
         Ejecutar(h, d), UNCHANGED algoritmo
  PROVE  Inv'
<1>1. PICK s, x, m, p : /\ s = Tail(hilos[h].resto) /\ p = hilos[h].pcb
                        /\ x = Paso(h).x /\ m = Paso(h).m
  OBVIOUS
<1>2. PICK r \in Efectos(kernel, x, p, m) : Avanzar(hilos, h, d, s, r.k, r.pcb)
  BY <1>1, Zenon DEF Ejecutar
<1>3. MismaPausa(kernel, r.k)
  BY <1>1, <1>2, EfectosSinPausa DEF Inv
<1>4. ~PorPostear(hilos[h].resto)
  BY DEF PorPostear, Paso, Ordinarios
<1>5. Resuelta(kernel, hilos[h].resto) => Resuelta(r.k, s)
  BY <1>3, <1>4 DEF Resuelta, MismaPausa
<1>6. <<Tomados(d, h), s>> \in Siguientes(algoritmo, Tomados(dueno, h), hilos[h].resto)
  BY <1>1
<1>7. Campos(r.k)
  BY <1>3 DEF MismaPausa
<1> QED BY <1>2, <1>5, <1>6, <1>7, SigueBien

LEMMA SiguientesDe ==
  ASSUME NEW a, NEW L, NEW s, s # <<>>
  PROVE  /\ Head(s).op = "TOMA" => <<L \cup {Head(s).m}, Tail(s)>> \in Siguientes(a, L, s)
         /\ Head(s).op \in {"BREVE", "HACE", "COPIA", "ESPERA", "LANZA"}
              => <<L, Tail(s)>> \in Siguientes(a, L, s)
         /\ Head(s).op = "LANZA" => <<{}, Funcion(Head(s).x)>> \in Siguientes(a, L, s)
BY DEF Siguientes

LEMMA MismosDuenos ==
  ASSUME Inv, NEW h
  PROVE  dueno \in Duenos /\ AjenosIgual(dueno, dueno, h)
BY DEF Inv, AjenosIgual

LEMMA TomarConserva ==
  ASSUME Inv, NEW h \in Todos, Tomar(h)
  PROVE  Inv'
<1>1. PICK m, d : m = Paso(h).m /\ d = [dueno EXCEPT ![m] = h]
  OBVIOUS
<1>2. /\ hilos[h].resto # <<>> /\ Paso(h).op = "TOMA" /\ dueno[m] = NULL
      /\ Ejecutar(h, d) /\ UNCHANGED algoritmo
  BY <1>1 DEF Tomar, Proximo, Paso
<1>3. m \in Mutexes /\ Paso(h).x \in Ordinarios
  BY <1>1, <1>2, PasoEnOrden DEF EnOrden, Paso
<1>4. d \in Duenos /\ Tomados(d, h) = Tomados(dueno, h) \cup {m} /\ AjenosIgual(dueno, d, h)
  <2>1. dueno \in Duenos
    BY DEF Inv
  <2> QED BY <1>1, <1>2, <1>3, <2>1, TomaLoLibre
<1>5. <<Tomados(d, h), Tail(hilos[h].resto)>>
        \in Siguientes(algoritmo, Tomados(dueno, h), hilos[h].resto)
  BY <1>1, <1>2, <1>4, SiguientesDe DEF Paso
<1> QED BY <1>2, <1>3, <1>4, <1>5, EjecutarBien

LEMMA HacerConserva ==
  ASSUME Inv, NEW h \in Todos, Hacer(h)
  PROVE  Inv'
<1>1. /\ hilos[h].resto # <<>> /\ Paso(h).op \in {"HACE", "BREVE"}
      /\ Ejecutar(h, dueno) /\ UNCHANGED algoritmo
  BY DEF Hacer, Proximo, Paso
<1>2. <<Tomados(dueno, h), Tail(hilos[h].resto)>>
        \in Siguientes(algoritmo, Tomados(dueno, h), hilos[h].resto)
  BY <1>1, SiguientesDe DEF Paso
<1>3. CASE Paso(h).x \in Ordinarios
  BY <1>1, <1>2, <1>3, MismosDuenos, EjecutarBien
<1>4. CASE Paso(h).x \notin Ordinarios
  <2>1. PICK s, x, m, p : /\ s = Tail(hilos[h].resto) /\ p = hilos[h].pcb
                          /\ x = Paso(h).x /\ m = Paso(h).m
    OBVIOUS
  <2>2. x \in {"PAUSA", "POST"} \/ (x = "REANUDA" /\ PorPostear(s))
    <3>1. PICK a, L, u : /\ a = algoritmo /\ L = Tomados(dueno, h) /\ u = hilos[h].resto
                         /\ EnOrden(a, L, u)
      BY <1>1, PasoEnOrden
    <3>2. /\ Head(u).op \in {"TOMA", "BREVE", "COPIA"} => Head(u).x \in Ordinarios
          /\ Head(u).op = "HACE" => \/ Head(u).x \in Ordinarios \cup {"PAUSA", "POST"}
                                    \/ Head(u).x = "REANUDA" /\ PorPostear(Tail(u))
      BY <3>1 DEF EnOrden
    <3>3. Head(u).op \in {"HACE", "BREVE"} /\ Head(u).x = x /\ Tail(u) = s /\ x \notin Ordinarios
      BY <1>1, <1>4, <2>1, <3>1 DEF Paso
    <3> QED BY <3>2, <3>3
  <2>3. PICK r \in Efectos(kernel, x, p, m) : Avanzar(hilos, h, dueno, s, r.k, r.pcb)
    BY <1>1, <2>1, Zenon DEF Ejecutar
  <2>4. r.k = Efecto(kernel, x, p, m)
    <3>1. r \in {[k |-> Efecto(kernel, x, p, m), pcb |-> p]}
      BY <2>2, <2>3 DEF Efectos
    <3> QED BY <3>1
  <2>5. Campos(kernel)
    BY DEF Inv
  <2>6. CASE x = "PAUSA"
    <3>1. Campos(r.k) /\ r.k.var_pausa
      BY <2>4, <2>5, <2>6 DEF Efecto, Campos
    <3>2. Resuelta(r.k, s)
      BY <3>1 DEF Resuelta
    <3> QED BY <1>1, <1>2, <2>1, <2>3, <3>1, <3>2, MismosDuenos, SigueBien
  <2>7. CASE x = "POST"
    <3>1. Campos(r.k) /\ r.k.sem_pausa > 0
      BY <2>4, <2>5, <2>7 DEF Efecto, Campos
    <3>2. Resuelta(r.k, s)
      BY <3>1 DEF Resuelta
    <3> QED BY <1>1, <1>2, <2>1, <2>3, <3>1, <3>2, MismosDuenos, SigueBien
  <2>8. CASE x = "REANUDA"
    <3>1. Campos(r.k)
      BY <2>4, <2>5, <2>8 DEF Efecto, Campos
    <3>2. Resuelta(r.k, s)
      BY <2>2, <2>8 DEF Resuelta
    <3> QED BY <1>1, <1>2, <2>1, <2>3, <3>1, <3>2, MismosDuenos, SigueBien
  <2> QED BY <2>2, <2>6, <2>7, <2>8
<1> QED BY <1>3, <1>4

LEMMA BienColgado ==
  ASSUME NEW a, NEW L
  PROVE  Bien(a, L, Colgado)
<1>1. PICK c : c = [op |-> "COLGADO", m |-> NULL, x |-> "NADA"]
  OBVIOUS
<1>2. Colgado = <<c>>
  BY <1>1 DEF Colgado
<1>3. Sec(Colgado) /\ Colgado # <<>> /\ Head(Colgado) = c
  BY <1>2, SecDeUno
<1>4. Siguientes(a, L, Colgado) = {}
  BY <1>1, <1>3 DEF Siguientes
<1>5. EnOrden(a, L, Colgado)
  BY <1>1, <1>3, <1>4 DEF EnOrden
<1>6. Buena(a, L, Colgado)
  BY <1>3, <1>4, <1>5, Plegar DEF Permitido
<1> QED BY <1>1, <1>3, <1>6 DEF Bien, EnPausa

LEMMA CopiarConserva ==
  ASSUME Inv, NEW h \in Todos, Copiar(h)
  PROVE  Inv'
<1>1. /\ hilos[h].resto # <<>> /\ Paso(h).op = "COPIA" /\ UNCHANGED algoritmo
      /\ \/ Ejecutar(h, dueno)
         \/ Avanzar(hilos, h, dueno, Colgado, kernel, hilos[h].pcb)
  BY DEF Copiar, Proximo, Paso
<1>2. <<Tomados(dueno, h), Tail(hilos[h].resto)>>
        \in Siguientes(algoritmo, Tomados(dueno, h), hilos[h].resto)
  BY <1>1, SiguientesDe DEF Paso
<1>3. Paso(h).x \in Ordinarios
  BY <1>1, PasoEnOrden DEF EnOrden, Paso
<1>4. CASE Ejecutar(h, dueno)
  BY <1>1, <1>2, <1>3, <1>4, MismosDuenos, EjecutarBien
<1>5. CASE Avanzar(hilos, h, dueno, Colgado, kernel, hilos[h].pcb)
  <2>1. ~PorPostear(hilos[h].resto)
    BY <1>1 DEF PorPostear, Paso
  <2>2. Resuelta(kernel, hilos[h].resto) => Resuelta(kernel, Colgado)
    BY <2>1 DEF Resuelta
  <2>3. Parte(h, hilos, dueno, Colgado, kernel)
    BY <2>2, BienColgado, MismosDuenos DEF Parte, Inv
  <2> QED BY <1>1, <1>5, <2>3, PasoDeHilo
<1> QED BY <1>1, <1>4, <1>5

LEMMA EsperarConserva ==
  ASSUME Inv, NEW h \in Todos, Esperar(h)
  PROVE  Inv'
<1>1. hilos[h].resto # <<>> /\ Paso(h).op = "ESPERA" /\ UNCHANGED algoritmo
  BY DEF Esperar, Proximo, Paso
<1>2. PICK s, p : s = Tail(hilos[h].resto) /\ p = hilos[h].pcb
  OBVIOUS
<1>3. <<Tomados(dueno, h), s>> \in Siguientes(algoritmo, Tomados(dueno, h), hilos[h].resto)
  BY <1>1, <1>2, SiguientesDe DEF Paso
<1>4. Campos(kernel)
  BY DEF Inv
<1>5. CASE /\ Paso(h).m = "pausa" /\ kernel.sem_pausa > 0
           /\ Avanzar(hilos, h, dueno, s, [kernel EXCEPT !.sem_pausa = @ - 1], p)
  <2>1. PICK k : k = [kernel EXCEPT !.sem_pausa = @ - 1]
    OBVIOUS
  <2>2. Campos(k)
    BY <1>4, <1>5, <2>1 DEF Campos
  <2>3. EnPausa(hilos[h].resto)
    BY <1>1, <1>5 DEF EnPausa, Paso
  <2>4. \A g \in Todos \ {h} : ~EnPausa(hilos[g].resto)
    BY <2>3, UnoEnPausa
  <2> QED BY <1>1, <1>3, <1>5, <2>1, <2>2, <2>4, MismosDuenos, SigueBien
<1>6. CASE Avanzar(hilos, h, dueno, s, [kernel EXCEPT !.sem_f_open = @ - 1], p)
  <2>1. PICK k, v : k = [kernel EXCEPT !.sem_f_open = v] /\ v = kernel.sem_f_open - 1
    OBVIOUS
  <2>2. MismaPausa(kernel, k)
    BY <1>4, <2>1, OtroCampo
  <2>3. ~PorPostear(hilos[h].resto)
    BY <1>1 DEF PorPostear, Paso
  <2>4. Campos(k) /\ (Resuelta(kernel, hilos[h].resto) => Resuelta(k, s))
    BY <2>2, <2>3 DEF Resuelta, MismaPausa
  <2> QED BY <1>1, <1>3, <1>6, <2>1, <2>4, MismosDuenos, SigueBien
<1> QED BY <1>2, <1>5, <1>6 DEF Esperar

LEMMA LanzarConserva ==
  ASSUME Inv, NEW h \in Todos, Lanzar(h)
  PROVE  Inv'
<1>1. hilos[h].resto # <<>> /\ Paso(h).op = "LANZA" /\ UNCHANGED algoritmo
  BY DEF Lanzar, Proximo, Paso
<1>2. PICK s, p, f, L, u : /\ s = Tail(hilos[h].resto) /\ p = hilos[h].pcb /\ f = Funcion(Paso(h).x)
                           /\ L = Tomados(dueno, h) /\ u = hilos[h].resto
  OBVIOUS
<1>3. PICK g \in Hilos : /\ hilos[g] = Libre
                         /\ Avanzar([hilos EXCEPT ![g] = [resto |-> f, pcb |-> p]],
                                    h, dueno, s, kernel, p)
  BY <1>2, Zenon DEF Lanzar
<1>4. PICK todos : todos = [hilos EXCEPT ![g] = [resto |-> f, pcb |-> p]]
  OBVIOUS
<1>5. g # h /\ g \in Todos /\ Tomados(dueno, g) = {}
  <2>1. g \in Todos /\ g # "FILESYSTEM"
    BY ConstantesCerrojos DEF Todos
  <2> QED BY <1>1, <1>3, <2>1, LibreSinNada DEF Libre, Lleva
<1>6. Bien(algoritmo, L, s) /\ Bien(algoritmo, {}, f)
  <2>1. /\ EnOrden(algoritmo, L, u)
        /\ \A e \in Siguientes(algoritmo, L, u) : Buena(algoritmo, e[1], e[2])
    BY <1>1, <1>2, PasoEnOrden
  <2>2. \A e \in Siguientes(algoritmo, L, u) : ~EnPausa(e[2])
    BY <1>1, <1>2, <2>1 DEF EnOrden, Paso
  <2>3. <<L, s>> \in Siguientes(algoritmo, L, u) /\ <<{}, f>> \in Siguientes(algoritmo, L, u)
    BY <1>1, <1>2, SiguientesDe DEF Paso
  <2>4. <<L, s>>[1] = L /\ <<L, s>>[2] = s /\ <<{}, f>>[1] = {} /\ <<{}, f>>[2] = f
    OBVIOUS
  <2> QED BY <2>1, <2>2, <2>3, <2>4 DEF Bien
<1>7. /\ DOMAIN todos = Todos /\ todos[g].resto = f
      /\ \A i \in Todos \ {g} : todos[i] = hilos[i]
  BY <1>4, <1>5 DEF Inv
<1>8. ~PorPostear(hilos[h].resto)
  BY <1>1 DEF PorPostear, Paso
<1>9. Resuelta(kernel, hilos[h].resto) => Resuelta(kernel, s)
  BY <1>8 DEF Resuelta
<1>10. \A i \in Todos \ {h} :
         \/ todos[i] = hilos[i]
         \/ hilos[i] = Libre /\ Bien(algoritmo, Tomados(dueno, i), todos[i].resto)
  BY <1>3, <1>5, <1>6, <1>7
<1>11. Parte(h, todos, dueno, s, kernel)
  BY <1>2, <1>6, <1>7, <1>9, <1>10, MismosDuenos DEF Parte, Inv
<1> QED BY <1>1, <1>3, <1>4, <1>11, PasoDeHilo

-------------------------------------------------------------------------------
(* What makes a thread work.                                                *)
LEMMA EmpiezaBien ==
  ASSUME Inv, NEW h \in Todos, NEW s, NEW p, NEW k, Empieza(h, s, p, k),
         MismaPausa(kernel, k), Pasa(algoritmo, Lleva(h), s, Lleva(h))
  PROVE  Inv'
<1>1. hilos[h] = Libre /\ Avanzar(hilos, h, dueno, s, k, p) /\ UNCHANGED algoritmo
  BY DEF Empieza
<1>2. Tomados(dueno, h) = Lleva(h)
  BY <1>1, LibreSinNada
<1>3. Bien(algoritmo, Lleva(h), s)
  <2>1. Lleva(h) \subseteq {"f_open"}
    BY DEF Lleva
  <2> QED BY <2>1, BienDePasa
<1>4. Resuelta(kernel, hilos[h].resto) => Resuelta(k, s)
  <2>1. ~PorPostear(hilos[h].resto)
    BY <1>1, NadaNoPostea DEF Libre
  <2> QED BY <2>1 DEF Resuelta, MismaPausa
<1>5. Parte(h, hilos, dueno, s, k)
  BY <1>2, <1>3, <1>4, MismosDuenos DEF Parte, Inv, MismaPausa
<1> QED BY <1>1, <1>5, PasoDeHilo

(* The Kernel changes, and no thread moves.                                 *)
LEMMA SoloElKernel ==
  ASSUME Inv, MismaPausa(kernel, kernel'), UNCHANGED <<dueno, hilos, algoritmo>>
  PROVE  Inv'
<1>1. (dueno \in Duenos /\ DOMAIN hilos = Todos /\ Campos(kernel))'
  BY DEF Inv, MismaPausa
<1>2. Ordenados'
  BY DEF Inv, Ordenados
<1>3. Pausas'
  BY DEF Inv, Pausas, Resuelta, MismaPausa
<1> QED BY <1>1, <1>2, <1>3 DEF Inv

LEMMA DeTodos ==
  /\ {"DISPATCH", "INTERRUPT", "FILESYSTEM"} \subseteq Todos /\ Hilos \subseteq Todos
  /\ Lleva("DISPATCH") = {} /\ Lleva("INTERRUPT") = {} /\ Lleva("FILESYSTEM") = {"f_open"}
  /\ \A h \in Hilos : Lleva(h) = {}
BY ConstantesCerrojos DEF Todos, Lleva

LEMMA TrapConserva ==
  ASSUME Inv, NEW t \in Traps, Trap(t)
  PROVE  Inv'
<1>1. PICK k : k = [kernel EXCEPT !.en_cpu = NULL]
  OBVIOUS
<1>2. MismaPausa(kernel, k)
  BY <1>1, OtroCampo DEF Inv
<1>3. Empieza("DISPATCH", AtenderInstruccion(t), kernel.en_cpu, k)
  BY <1>1, Zenon DEF Trap
<1>4. Pasa(algoritmo, Lleva("DISPATCH"), AtenderInstruccion(t), Lleva("DISPATCH"))
  BY DeTodos, PasaInstruccion
<1> QED BY <1>2, <1>3, <1>4, DeTodos, EmpiezaBien

LEMMA InterrumpirseConserva ==
  ASSUME Inv, Interrumpirse
  PROVE  Inv'
<1>1. PICK k, s : /\ k = [kernel EXCEPT !.en_cpu = NULL, !.interrupcion = NULL]
                  /\ s = AtenderDesalojo(kernel.interrupcion)
  OBVIOUS
<1>2. MismaPausa(kernel, k)
  BY <1>1, OtrosDosCampos DEF Inv
<1>3. Empieza("DISPATCH", s, kernel.en_cpu, k)
  BY <1>1, Zenon DEF Interrumpirse
<1>4. Pasa(algoritmo, Lleva("DISPATCH"), s, Lleva("DISPATCH"))
  BY <1>1, DeTodos, PasaDesalojo
<1> QED BY <1>2, <1>3, <1>4, DeTodos, EmpiezaBien

LEMMA IgnorarConserva ==
  ASSUME Inv, Ignorar
  PROVE  Inv'
<1>1. kernel' = [kernel EXCEPT !.interrupcion = NULL] /\ UNCHANGED <<dueno, hilos, algoritmo>>
  BY DEF Ignorar
<1>2. MismaPausa(kernel, kernel')
  BY <1>1, OtroCampo DEF Inv
<1> QED BY <1>1, <1>2, SoloElKernel

LEMMA FinDeQuantumConserva ==
  ASSUME Inv, FinDeQuantum
  PROVE  Inv'
<1>1. UNCHANGED <<dueno, hilos, algoritmo>>
  BY DEF FinDeQuantum
<1>2. PICK k \in {kernel, Avisado(kernel)} : kernel' = [k EXCEPT !.quantum = FALSE]
  BY DEF FinDeQuantum
<1>3. MismaPausa(kernel, k)
  BY <1>2, PonerSinPausa DEF Inv
<1>4. MismaPausa(k, kernel')
  BY <1>2, <1>3, OtroCampo DEF MismaPausa
<1>5. MismaPausa(kernel, kernel')
  BY <1>3, <1>4 DEF MismaPausa
<1> QED BY <1>1, <1>5, SoloElKernel

LEMMA HiloInterruptConserva ==
  ASSUME Inv, HiloInterrupt
  PROVE  Inv'
<1>1. PICK k : k = [kernel EXCEPT !.sem_interrupcion = 0]
  OBVIOUS
<1>2. MismaPausa(kernel, k)
  BY <1>1, OtroCampo DEF Inv
<1>3. Empieza("INTERRUPT", GestionarInterrupt, NULL, k)
  BY <1>1, Zenon DEF HiloInterrupt
<1>4. Pasa(algoritmo, Lleva("INTERRUPT"), GestionarInterrupt, Lleva("INTERRUPT"))
  BY DeTodos, PasaInterrupcion
<1> QED BY <1>2, <1>3, <1>4, DeTodos, EmpiezaBien

LEMMA HiloFileSystemConserva ==
  ASSUME Inv, HiloFileSystem
  PROVE  Inv'
<1>1. PICK p \in kernel.pedidos :
        Empieza("FILESYSTEM", IF p = NULL THEN <<>> ELSE Desbloquear, p,
                [kernel EXCEPT !.pedidos = @ \ {p},
                               !.sem_f_open = IF p = NULL THEN @ + 1 ELSE @])
  BY Zenon DEF HiloFileSystem
<1>2. PICK k, s, v, w : /\ v = kernel.pedidos \ {p}
                        /\ w = IF p = NULL THEN kernel.sem_f_open + 1 ELSE kernel.sem_f_open
                        /\ k = [[kernel EXCEPT !.pedidos = v] EXCEPT !.sem_f_open = w]
                        /\ s = IF p = NULL THEN <<>> ELSE Desbloquear
  OBVIOUS
<1>3. MismaPausa(kernel, k)
  BY <1>2, OtrosDosCampos DEF Inv
<1>4. Empieza("FILESYSTEM", s, p, k)
  <2>1. [kernel EXCEPT !.pedidos = v].sem_f_open = kernel.sem_f_open
    OBVIOUS
  <2>2. k = [kernel EXCEPT !.pedidos = @ \ {p}, !.sem_f_open = IF p = NULL THEN @ + 1 ELSE @]
    BY <1>2, <2>1
  <2> QED BY <1>1, <1>2, <2>2
<1>5. Pasa(algoritmo, {"f_open"}, s, {"f_open"})
  <2>1. Pasa(algoritmo, {"f_open"}, Desbloquear, {"f_open"})
    <3>1. {"f_open"} \subseteq Livianos
      BY DEF Livianos
    <3> QED BY <3>1, PasaDesbloquear, Funciones
  <2> QED BY <1>2, <2>1, PasaNada
<1> QED BY <1>3, <1>4, <1>5, DeTodos, EmpiezaBien

(* The commands of the console.                                             *)
LEMMA ConsolaConserva ==
  ASSUME Inv, NEW p \in Procesos, NEW h \in Hilos,
         IniciarProceso(p, h) \/ FinalizarProceso(p, h) \/ ImprimirPcb(p, h)
  PROVE  Inv'
<1>1. Campos(kernel) /\ MismaPausa(kernel, kernel)
  BY DEF Inv, MismaPausa
<1>2. h \in Todos /\ Lleva(h) = {}
  BY DeTodos
<1>3. CASE IniciarProceso(p, h)
  <2>1. PICK k, v : v = [kernel.estado EXCEPT ![p] = "NEW"] /\ k = [kernel EXCEPT !.estado = v]
    OBVIOUS
  <2>2. MismaPausa(kernel, k)
    BY <1>1, <2>1, OtroCampo
  <2>3. Empieza(h, ProcesoNuevo, p, k)
    BY <1>3, <2>1 DEF IniciarProceso
  <2> QED BY <1>2, <2>2, <2>3, PasaProcesoNuevo, EmpiezaBien
<1>4. CASE FinalizarProceso(p, h)
  BY <1>1, <1>2, <1>4, PasaPlanificarExit, EmpiezaBien DEF FinalizarProceso
<1>5. CASE ImprimirPcb(p, h)
  BY <1>1, <1>2, <1>5, PasaBuscarPcb, EmpiezaBien DEF ImprimirPcb
<1> QED BY <1>3, <1>4, <1>5

LEMMA PausaConserva ==
  ASSUME Inv, NEW h \in Hilos, DetenerPlanificacion(h) \/ IniciarPlanificacion(h)
  PROVE  Inv'
<1>1. Campos(kernel) /\ MismaPausa(kernel, kernel)
  BY DEF Inv, MismaPausa
<1>2. h \in Todos /\ Lleva(h) = {}
  BY DeTodos
<1>3. CASE DetenerPlanificacion(h)
  BY <1>1, <1>2, <1>3, PasaPausar, EmpiezaBien DEF DetenerPlanificacion
<1>4. CASE IniciarPlanificacion(h)
  BY <1>1, <1>2, <1>4, PasaIniciar, EmpiezaBien DEF IniciarPlanificacion
<1> QED BY <1>3, <1>4

-------------------------------------------------------------------------------
(* Who waits for whom.                                                      *)

(* g has those that are waited for, one after the other from h.             *)
Esperados(g, h, n) == g = [i \in 1..n |-> IF i = 1 THEN EsperaA(h) ELSE EsperaA(g[i-1])]

(* The recursion of Cadena has a solution.                                  *)
LEMMA EsperadosPasoAPaso ==
  ASSUME NEW h, NEW N \in Nat
  PROVE  \E g : Esperados(g, h, N)
<1> DEFINE Faltan == {m \in 0..N : ~\E g : Esperados(g, h, m)}
<1>1. Faltan = {}
  <2>1. SUFFICES ASSUME Faltan # {}
                 PROVE  FALSE
    OBVIOUS
  <2>2. PICK m \in Faltan : \A i \in Faltan : m <= i
    <3>1. Faltan \subseteq Nat
      OBVIOUS
    <3> HIDE DEF Faltan
    <3> QED BY <3>1, <2>1, HayMinimo
  <2>3. m # 0
    <3>1. PICK g : g = [i \in 1..0 |-> h]
      OBVIOUS
    <3>2. \A i \in 1..0 : FALSE
      OBVIOUS
    <3>3. Esperados(g, h, 0)
      BY <3>1, <3>2 DEF Esperados
    <3> QED BY <2>2, <3>3
  <2>4. m \in Nat /\ m - 1 \in 0..N /\ ~(m <= m - 1)
    BY <2>2, <2>3
  <2>5. PICK g : Esperados(g, h, m - 1)
    BY <2>2, <2>4
  <2>6. PICK v : v = IF m = 1 THEN EsperaA(h) ELSE EsperaA(g[m-1])
    OBVIOUS
  <2>7. PICK f : f = [i \in 1..m |-> IF i = m THEN v ELSE g[i]]
    OBVIOUS
  <2>8. ASSUME NEW i \in 1..m
        PROVE  f[i] = IF i = 1 THEN EsperaA(h) ELSE EsperaA(f[i-1])
    <3>1. i # 1 => i - 1 \in 1..m /\ i - 1 # m
      BY <2>4
    <3>2. i # 1 => f[i-1] = g[i-1]
      BY <3>1, <2>7
    <3>3. CASE i = m
      BY <3>2, <3>3, <2>6, <2>7
    <3>4. CASE i # m
      <4>1. i \in 1..m-1
        BY <3>4, <2>4
      <4>2. g[i] = IF i = 1 THEN EsperaA(h) ELSE EsperaA(g[i-1])
        BY <4>1, <2>5 DEF Esperados
      <4> QED BY <3>2, <3>4, <4>2, <2>7
    <3> QED BY <3>3, <3>4
  <2>9. Esperados(f, h, m)
    BY <2>7, <2>8 DEF Esperados
  <2> QED BY <2>2, <2>9
<1> QED BY <1>1

EsCadena(h, N, f) ==
  /\ N \in Nat
  /\ Cadena(h) = {f[n] : n \in 1..N}
  /\ N >= 1 => f[1] = EsperaA(h)
  /\ \A n \in 2..N : f[n] = EsperaA(f[n-1])

LEMMA CadenaPasoAPaso ==
  ASSUME NEW h
  PROVE  \E N, f : EsCadena(h, N, f)
<1> DEFINE N == Cardinality(Todos)
           Ec(g) == g = [n \in 1..N |-> IF n = 1 THEN EsperaA(h) ELSE EsperaA(g[n-1])]
           tras == CHOOSE g : Ec(g)
<1>1. N \in Nat
  <2>1. IsFiniteSet({"DISPATCH", "INTERRUPT", "FILESYSTEM"})
    <3>1. IsFiniteSet({"DISPATCH"}) /\ IsFiniteSet({"INTERRUPT"}) /\ IsFiniteSet({"FILESYSTEM"})
      BY FS_Singleton
    <3>2. IsFiniteSet({"DISPATCH"} \cup {"INTERRUPT"})
      BY <3>1, FS_Union
    <3>3. IsFiniteSet(({"DISPATCH"} \cup {"INTERRUPT"}) \cup {"FILESYSTEM"})
      BY <3>1, <3>2, FS_Union
    <3>4. {"DISPATCH", "INTERRUPT", "FILESYSTEM"}
            = ({"DISPATCH"} \cup {"INTERRUPT"}) \cup {"FILESYSTEM"}
      OBVIOUS
    <3> QED BY <3>3, <3>4
  <2>2. IsFiniteSet(Todos)
    BY <2>1, ConstantesCerrojos, FS_Union DEF Todos
  <2> QED BY <2>2, FS_CardinalityType
<1>2. Cadena(h) = {tras[n] : n \in 1..N}
  BY DEF Cadena
<1> HIDE DEF N
<1>3. Ec(tras)
  <2>1. \E g : Esperados(g, h, N)
    BY <1>1, EsperadosPasoAPaso
  <2>2. \E g : Ec(g)
    BY <2>1 DEF Esperados
  <2> HIDE DEF Ec
  <2> QED BY <2>2
<1> HIDE DEF tras
<1>4. \A n \in 1..N : tras[n] = IF n = 1 THEN EsperaA(h) ELSE EsperaA(tras[n-1])
  BY <1>3
<1>5. N >= 1 => tras[1] = EsperaA(h)
  BY <1>1, <1>4
<1>6. \A n \in 2..N : tras[n] = EsperaA(tras[n-1])
  BY <1>1, <1>4
<1> QED BY <1>1, <1>2, <1>5, <1>6 DEF EsCadena

(* What g waits for.                                                        *)
Falta(g) ==
  IF Proximo(g, "ESPERA") /\ Paso(g).m = "f_open" THEN "f_open" ELSE Pedido(g)

(* Who waits goes by the order, and who is waited for has what is missing.  *)
LEMMA QuienEspera ==
  ASSUME Inv, NEW g \in Todos, EsperaA(g) # NULL
  PROVE  /\ EsperaA(g) \in Todos
         /\ Falta(g) \in Mutexes \cup {"f_open"}
         /\ Falta(g) \in Tomados(dueno, EsperaA(g))
         /\ Admite(algoritmo, Tomados(dueno, g), Falta(g))
         /\ Falta(g) # "f_open" => Falta(g) = Pedido(g)
<1>1. g # NULL
  BY NullNoEsHilo
<1>2. PICK a, L, u, c : /\ a = algoritmo /\ L = Tomados(dueno, g)
                        /\ u = hilos[g].resto /\ c = Paso(g)
  OBVIOUS
<1>3. CASE Proximo(g, "ESPERA") /\ Paso(g).m = "f_open"
  <2>1. Falta(g) = "f_open" /\ EsperaA(g) = "FILESYSTEM"
    <3>1. Pedido(g) = NULL
      BY <1>3 DEF Pedido, Proximo, Paso
    <3>2. EsperaA(g) = "FILESYSTEM"
      BY <1>1, <1>3, <3>1 DEF EsperaA
    <3> QED BY <1>3, <3>2 DEF Falta
  <2>2. u # <<>> /\ c = Head(u) /\ c.op = "ESPERA" /\ c.m = "f_open"
    BY <1>2, <1>3 DEF Proximo, Paso
  <2>3. EnOrden(a, L, u)
    BY <1>2, <2>2, PasoEnOrden
  <2>4. Admite(a, L, "f_open")
    BY <2>2, <2>3 DEF EnOrden
  <2>5. "f_open" \in Tomados(dueno, "FILESYSTEM") /\ "FILESYSTEM" \in Todos
    BY DEF Tomados, Todos
  <2> QED BY <1>2, <2>1, <2>4, <2>5
<1>4. CASE ~(Proximo(g, "ESPERA") /\ Paso(g).m = "f_open")
  <2>1. Falta(g) = Pedido(g) /\ Pedido(g) # NULL /\ EsperaA(g) = dueno[Pedido(g)]
    BY <1>1, <1>4 DEF Falta, EsperaA
  <2>2. Pedido(g) = c.m /\ u # <<>> /\ c = Head(u) /\ c.op \in {"TOMA", "BREVE"}
    BY <1>2, <2>1 DEF Pedido, Paso
  <2>3. EnOrden(a, L, u)
    BY <1>2, <2>2, PasoEnOrden
  <2>4. c.m \in Mutexes /\ Admite(a, L, c.m)
    BY <2>2, <2>3 DEF EnOrden
  <2>5. dueno[c.m] \in Todos \cup {NULL}
    BY <2>4 DEF Inv, Duenos
  <2>6. c.m \in Tomados(dueno, EsperaA(g))
    BY <2>1, <2>2, <2>4 DEF Tomados
  <2> QED BY <1>2, <2>1, <2>2, <2>4, <2>5, <2>6
<1> QED BY <1>3, <1>4

(* Threads that wait in a circle.                                           *)
LEMMA CadenaCerrada ==
  ASSUME Inv, NEW h \in Todos, h \in Cadena(h)
  PROVE  \E Z : Z \subseteq Cadena(h) \cap Todos /\ h \in Z /\ \A g \in Z : EsperaA(g) \in Z
<1>1. PICK N, f : /\ N \in Nat /\ Cadena(h) = {f[n] : n \in 1..N}
                  /\ N >= 1 => f[1] = EsperaA(h)
                  /\ \A n \in 2..N : f[n] = EsperaA(f[n-1])
  <2>1. PICK N, f : EsCadena(h, N, f)
    BY CadenaPasoAPaso
  <2> QED BY <2>1 DEF EsCadena
<1>2. PICK m \in 1..N : f[m] = h
  BY <1>1
<1>3. m \in Nat /\ m >= 1 /\ m <= N /\ 1..m \subseteq 1..N /\ N >= 1 /\ N \in Nat
  BY <1>1
<1> DEFINE Z == {f[n] : n \in 1..m}
<1>4. \A g \in Z : EsperaA(g) \in Z
  <2> SUFFICES ASSUME NEW n \in 1..m
               PROVE  EsperaA(f[n]) \in Z
    OBVIOUS
  <2>1. CASE n = m
    <3>1. EsperaA(f[n]) = f[1] /\ 1 \in 1..m
      BY <1>1, <1>2, <1>3, <2>1
    <3> QED BY <3>1
  <2>2. CASE n # m
    <3>1. n + 1 \in 1..m /\ n + 1 \in 2..N /\ (n + 1) - 1 = n
      BY <1>3, <2>2
    <3>2. EsperaA(f[n]) = f[n + 1]
      BY <1>1, <3>1
    <3> QED BY <3>1, <3>2
  <2> QED BY <2>1, <2>2
<1>5. \A n \in 1..N : f[n] \in Todos \cup {NULL}
  <2> DEFINE Malos == {n \in 1..N : f[n] \notin Todos \cup {NULL}}
  <2>1. Malos = {}
    <3>1. SUFFICES ASSUME Malos # {}
                   PROVE  FALSE
      OBVIOUS
    <3>2. PICK n \in Malos : \A i \in Malos : n <= i
      <4>1. Malos \subseteq Nat
        OBVIOUS
      <4> HIDE DEF Malos
      <4> QED BY <4>1, <3>1, HayMinimo
    <3>3. \A g \in Todos \cup {NULL} : EsperaA(g) \in Todos \cup {NULL}
      <4>1. EsperaA(NULL) = NULL
        BY DEF EsperaA
      <4> QED BY <4>1, QuienEspera
    <3>4. n # 1
      BY <1>1, <1>3, <3>2, <3>3
    <3>5. n \in 2..N /\ n - 1 \in 1..N /\ ~(n <= n - 1)
      BY <1>3, <3>2, <3>4
    <3>6. f[n] = EsperaA(f[n-1]) /\ f[n-1] \in Todos \cup {NULL}
      BY <1>1, <3>2, <3>5
    <3> QED BY <3>2, <3>3, <3>6
  <2> QED BY <2>1
<1>6. \A n \in 1..m : f[n] \in Todos
  <2> DEFINE Fuera == {n \in 0..m-1 : f[m - n] \notin Todos}
  <2>1. Fuera = {}
    <3>1. SUFFICES ASSUME Fuera # {}
                   PROVE  FALSE
      OBVIOUS
    <3>2. PICK n \in Fuera : \A i \in Fuera : n <= i
      <4>1. Fuera \subseteq Nat
        BY <1>3
      <4> HIDE DEF Fuera
      <4> QED BY <4>1, <3>1, HayMinimo
    <3>3. n # 0
      BY <1>2, <1>3, <3>2
    <3>4. n - 1 \in 0..m-1 /\ ~(n <= n - 1) /\ m - (n - 1) \in 2..N /\ (m - (n - 1)) - 1 = m - n
      BY <1>3, <3>2, <3>3
    <3>5. f[m - (n - 1)] \in Todos /\ f[m - (n - 1)] = EsperaA(f[m - n])
      BY <1>1, <3>2, <3>4
    <3>6. f[m - n] # NULL
      <4>1. EsperaA(NULL) = NULL
        BY DEF EsperaA
      <4> QED BY <3>5, <4>1, NullNoEsHilo
    <3>7. m - n \in 1..N
      BY <1>3, <3>2
    <3> QED BY <1>5, <3>2, <3>6, <3>7
  <2>2. \A n \in 1..m : m - n \in 0..m-1 /\ m - (m - n) = n
    BY <1>3
  <2> QED BY <2>1, <2>2
<1>7. Z \subseteq Cadena(h) \cap Todos /\ h \in Z
  BY <1>1, <1>2, <1>3, <1>6
<1> QED BY <1>4, <1>7

-------------------------------------------------------------------------------
(* The properties.                                                          *)
LEMMA InicioBien ==
  ASSUME Init
  PROVE  Inv
<1>1. dueno \in Duenos /\ DOMAIN hilos = Todos /\ Campos(kernel)
  BY DEF Init, Duenos, Campos
<1>2. \A h \in Todos : hilos[h].resto = <<>>
  BY DEF Init, Libre
<1>3. Ordenados
  <2>1. ASSUME NEW h \in Todos
        PROVE  Tomados(dueno, h) \subseteq {"f_open"}
    BY NullNoEsHilo DEF Init, Tomados
  <2> QED BY <1>2, <2>1, BienNada DEF Ordenados, Bien
<1>4. Pausas
  BY <1>2, NadaNoPostea DEF Pausas
<1> QED BY <1>1, <1>3, <1>4 DEF Inv

LEMMA PasoBien ==
  ASSUME Inv, [Next]_vars
  PROVE  Inv'
<1>1. CASE UNCHANGED vars
  <2>1. MismaPausa(kernel, kernel') /\ UNCHANGED <<dueno, hilos, algoritmo>>
    BY <1>1 DEF vars, MismaPausa, Inv
  <2> QED BY <2>1, SoloElKernel
<1>2. ASSUME NEW h \in Todos, Tomar(h) \/ Hacer(h) \/ Copiar(h) \/ Lanzar(h) \/ Esperar(h)
      PROVE  Inv'
  BY <1>2, TomarConserva, HacerConserva, CopiarConserva, LanzarConserva, EsperarConserva
<1>3. ASSUME NEW t \in Traps, Trap(t)
      PROVE  Inv'
  BY <1>3, TrapConserva
<1>4. ASSUME NEW p \in Procesos, NEW h \in Hilos,
             IniciarProceso(p, h) \/ FinalizarProceso(p, h) \/ ImprimirPcb(p, h)
      PROVE  Inv'
  BY <1>4, ConsolaConserva
<1>5. ASSUME NEW h \in Hilos, DetenerPlanificacion(h) \/ IniciarPlanificacion(h)
      PROVE  Inv'
  BY <1>5, PausaConserva
<1>6. CASE Interrumpirse \/ Ignorar \/ FinDeQuantum \/ HiloInterrupt \/ HiloFileSystem
  BY <1>6, InterrumpirseConserva, IgnorarConserva, FinDeQuantumConserva,
     HiloInterruptConserva, HiloFileSystemConserva
<1> QED BY <1>1, <1>2, <1>3, <1>4, <1>5, <1>6, Zenon DEF Next

(* The inductive invariant holds in every state: what each thread has left  *)
(* keeps the order of the mutexes with those that it holds, and whoever is  *)
(* in the pause will be told of its end.                                    *)
THEOREM InvarianteDeCerrojos == Spec => []Inv
<1> QED BY InicioBien, PasoBien, PTL DEF Spec

LEMMA OrdenSinAutobloqueo ==
  ASSUME Inv
  PROVE  SinAutobloqueo
<1> SUFFICES ASSUME NEW h \in Todos, hilos[h].resto # <<>>,
                    Paso(h).op \in {"TOMA", "BREVE", "COPIA"}, dueno[Paso(h).m] = h
             PROVE  FALSE
  BY DEF SinAutobloqueo
<1>1. PICK a, L, u, c : /\ a = algoritmo /\ L = Tomados(dueno, h)
                        /\ u = hilos[h].resto /\ c = Head(u) /\ c = Paso(h)
  BY DEF Paso
<1>2. EnOrden(a, L, u)
  BY <1>1, PasoEnOrden
<1>3. c.m \in Mutexes /\ (Admite(a, L, c.m) \/ c.m \notin L)
  BY <1>1, <1>2 DEF EnOrden
<1>4. c.m \in L
  BY <1>1, <1>3 DEF Tomados
<1> QED BY <1>3, <1>4 DEF Admite, Orden

(* No chain of calls of the Kernel comes to a mutex that its thread holds,  *)
(* or to a copy of it.                                                      *)
THEOREM NadieSeBloqueaSolo == Spec => []SinAutobloqueo
<1> QED BY InvarianteDeCerrojos, OrdenSinAutobloqueo, PTL

LEMMA PausasTerminan ==
  ASSUME Inv
  PROVE  PausaTermina
<1> SUFFICES ASSUME NEW h \in Todos, Proximo(h, "ESPERA"), Paso(h).m = "pausa", ~kernel.var_pausa
             PROVE  kernel.sem_pausa > 0 \/ \E g \in Todos : Proximo(g, "HACE") /\ Paso(g).x = "POST"
  BY DEF PausaTermina
<1>1. EnPausa(hilos[h].resto) /\ kernel.vivo
  BY DEF EnPausa, Proximo, Paso
<1>2. PICK g \in Todos : Resuelta(kernel, hilos[g].resto)
  BY <1>1 DEF Inv, Pausas
<1> QED BY <1>1, <1>2 DEF Resuelta, PorPostear, Proximo, Paso

(* A pause that has ended ends for whoever still waits in it, however       *)
(* DETENER_ and INICIAR_PLANIFICACION cross each other in any number of     *)
(* threads.                                                                 *)
THEOREM LaPausaTermina == Spec => []PausaTermina
<1> QED BY InvarianteDeCerrojos, PausasTerminan, PTL

LEMMA RangoEsNat == \A m : Rango(m) \in 0..5
BY DEF Rango

(* Going round a circle, an order would have to come down.                  *)
LEMMA CirculoConocido ==
  ASSUME Inv, NEW h \in Todos, h \in Cadena(h)
  PROVE  \/ \E g \in Cadena(h) : Pedido(g) = "recurso"
         \/ /\ \E g \in Cadena(h) : Pedido(g) = "desalojado"
            /\ \E g \in Cadena(h) : Pedido(g) = "finalizar"
         \/ /\ algoritmo = "PRIORIDADES"
            /\ \E g \in Cadena(h) : Pedido(g) = "READY"
            /\ \E g \in Cadena(h) : Pedido(g) = "EXEC"
<1>1. PICK Z : Z \subseteq Cadena(h) \cap Todos /\ h \in Z /\ \A g \in Z : EsperaA(g) \in Z
  BY CadenaCerrada
<1>2. ASSUME NEW g \in Z
      PROVE  /\ Orden(algoritmo, Falta(g), Falta(EsperaA(g)))
             /\ Falta(g) # "f_open" => Falta(g) = Pedido(g)
  <2>1. PICK e : e = EsperaA(g) /\ e \in Z
    BY <1>1
  <2>2. g \in Todos /\ e \in Todos /\ e # NULL /\ EsperaA(e) # NULL
    BY <1>1, <2>1, NullNoEsHilo
  <2>3. Falta(g) \in Tomados(dueno, e) /\ (Falta(g) # "f_open" => Falta(g) = Pedido(g))
    BY <2>1, <2>2, QuienEspera
  <2>4. Admite(algoritmo, Tomados(dueno, e), Falta(e))
    BY <2>2, QuienEspera
  <2>5. Orden(algoritmo, Falta(g), Falta(e))
    BY <2>3, <2>4 DEF Admite
  <2> QED BY <2>1, <2>3, <2>5
<1> DEFINE Altos == {i \in 0..5 : \E g \in Z : Rango(Falta(g)) = 5 - i}
<1>3. PICK i \in Altos : \A j \in Altos : i <= j
  <2>1. 5 - Rango(Falta(h)) \in Altos
    <3>1. PICK n : n = Rango(Falta(h)) /\ n \in 0..5
      BY RangoEsNat
    <3>2. 5 - n \in 0..5 /\ 5 - (5 - n) = n
      BY <3>1
    <3> QED BY <1>1, <3>1, <3>2
  <2>2. Altos \subseteq Nat
    OBVIOUS
  <2> HIDE DEF Altos
  <2> QED BY <2>1, <2>2, HayMinimo
<1>4. PICK g \in Z : Rango(Falta(g)) = 5 - i
  BY <1>3
<1>5. PICK e : e = EsperaA(g) /\ e \in Z
  BY <1>1
<1>6. PICK l, m : l = Falta(g) /\ m = Falta(e)
  OBVIOUS
<1>7. ~(Rango(l) < Rango(m))
  <2>1. PICK n : n = Rango(m) /\ n \in 0..5
    BY RangoEsNat
  <2>2. 5 - n \in 0..5 /\ 5 - (5 - n) = n
    BY <2>1
  <2>3. 5 - n \in Altos
    BY <1>5, <1>6, <2>1, <2>2
  <2>4. i <= 5 - n /\ i \in 0..5
    BY <1>3, <2>3
  <2> HIDE DEF Altos
  <2>5. ~(5 - i < n)
    BY <2>1, <2>4
  <2> QED BY <1>4, <1>6, <2>1, <2>5
<1>8. \/ "recurso" \in {l, m}
      \/ {l, m} = {"desalojado", "finalizar"}
      \/ algoritmo = "PRIORIDADES" /\ {l, m} = {"READY", "EXEC"}
  BY <1>2, <1>4, <1>5, <1>6, <1>7 DEF Orden
<1>9. /\ l # "f_open" => l = Pedido(g)
      /\ m # "f_open" => m = Pedido(e)
      /\ g \in Cadena(h) /\ e \in Cadena(h)
  BY <1>1, <1>2, <1>4, <1>5, <1>6
<1> HIDE DEF Altos
<1> QED BY <1>8, <1>9

LEMMA CirculosSonConocidos ==
  ASSUME Inv
  PROVE  CirculosConocidos
<1> SUFFICES ASSUME NEW h \in Todos, h \in Cadena(h)
             PROVE  LET en_juego == {Pedido(g) : g \in Cadena(h)}
                    IN  \/ "recurso" \in en_juego
                        \/ {"desalojado", "finalizar"} \subseteq en_juego
                        \/ algoritmo = "PRIORIDADES" /\ {"READY", "EXEC"} \subseteq en_juego
  BY DEF CirculosConocidos
<1>1. PICK C, E : C = Cadena(h) /\ E = {Pedido(g) : g \in C}
  OBVIOUS
<1>2. \/ "recurso" \in E
      \/ {"desalojado", "finalizar"} \subseteq E
      \/ algoritmo = "PRIORIDADES" /\ {"READY", "EXEC"} \subseteq E
  BY <1>1, CirculoConocido
<1> QED BY <1>1, <1>2

(* Threads wait for each other in a circle only through the queue of a      *)
(* resource, between the two flags of an eviction, or, under PRIORIDADES,   *)
(* through READY and EXEC.                                                  *)
THEOREM SoloCirculosConocidos == Spec => []CirculosConocidos
<1> QED BY InvarianteDeCerrojos, CirculosSonConocidos, PTL
===============================================================================
