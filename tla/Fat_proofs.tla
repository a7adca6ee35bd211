------------------------------ MODULE Fat_proofs ------------------------------
(***************************************************************************)
(* Theorems about Fat, for any number of files, threads, blocks, requests  *)
(* and restarts, and any sizes and positions: as long as no two            *)
(* truncations run at the same time, the files have chains that end, are   *)
(* their own and hold what their sizes promise, their data stay where they *)
(* are, and what is written lands where it was asked for.                  *)
(*                                                                         *)
(* The chain of a file is a recursive function of the FAT. The invariant   *)
(* does not use it: it says that some sequence of blocks is linked in the  *)
(* FAT for each file, and a lemma that the function finds that sequence.   *)
(***************************************************************************)
EXTENDS Fat, Listas_proofs, FiniteSetTheorems

-------------------------------------------------------------------------------
(* The inductive invariant.                                                 *)

(* No two truncations have run at the same time since the last restart.     *)
Limpio == ~historia.encimadas

Trunca(h) == hilo[h].op = "F_TRUNCATE"
Escribe(h) == hilo[h].op = "F_WRITE"

(* The threads that serve a request do it for a file that exists.           *)
Sirven ==
  \A h \in Hilos :
    \/ hilo[h] = Libre
    \/ (Trunca(h) \/ Escribe(h)) /\ hilo[h].archivo \in Nombres /\ Existe(hilo[h].archivo)

(* What the locals of a thread hold at each place, whoever else runs.       *)
Local(t) ==
  /\ t.pc = "ELEGIR" => t.i = 0 /\ t.lista = <<>>
  /\ t.pc \in {"ELEGIR", "SECUENCIA", "BUSCAR", "ENLAZAR", "REDUCIR", "DESPLAZAR"}
       => t.bloque \in Bloques
  /\ t.pc = "SECUENCIA" => t.rama \in {"MAS", "MENOS"} /\ t.cant > 0 /\ t.lista = <<>>
  /\ t.pc = "BUSCAR" => t.i < CANT_BLOQUES /\ Len(t.lista) < t.cant
  /\ t.pc = "ENLAZAR" => t.i \in 1..Len(t.lista)
  /\ t.pc = "FIJAR" => t.lista # <<>>
  /\ t.pc = "DESPLAZAR" => t.cant > 0

Tipos == TypeOK /\ Sirven /\ \A h \in Hilos : Local(hilo[h])

(* c is linked in a FAT from b on, to where it can be followed.             *)
Enlazada(tabla, c, b) ==
  /\ c # <<>> /\ c[1] = b
  /\ \A k \in 1..Len(c) : c[k] # 0
  /\ \A j, k \in 1..Len(c) : c[j] = c[k] => j = k
  /\ \A k \in 1..Len(c)-1 : tabla[c[k]] = c[k + 1]
  /\ tabla[c[Len(c)]] \in {0, EOF_FS}

(* cad has the chain of each file, and no two files share a block.          *)
Cadenas(tabla, cad) ==
  /\ cad \in [Nombres -> Seq(Bloques)]
  /\ \A f \in Nombres : IF ConBloques(f) THEN Enlazada(tabla, cad[f], fcbs[f].bloque_inicial)
                        ELSE cad[f] = <<>>
  /\ \A f, g \in Nombres : f # g =>
       \A j \in 1..Len(cad[f]), k \in 1..Len(cad[g]) : cad[f][j] # cad[g][k]

(* c ends, and has the whole blocks of a size n.                            *)
Cubre(tabla, c, n) ==
  /\ n \div TAM_BLOQUE <= Len(c)
  /\ n > 0 => c # <<>>
  /\ c # <<>> => tabla[c[Len(c)]] = EOF_FS

Enteras(cad) ==
  \A f \in Nombres : Existe(f) /\ ~Truncando(f) => Cubre(tabla_fat, cad[f], fcbs[f].tamanio)

(* x is in no chain.                                                        *)
Ajeno(x, cad) == \A f \in Nombres : \A k \in 1..Len(cad[f]) : cad[f][k] # x

(* The blocks a truncation has found are different.                         *)
Distintos(l) ==
  /\ \A k \in 1..Len(l) : l[k] # 0
  /\ \A j, k \in 1..Len(l) : l[j] = l[k] => j = k

(* What a truncation that grows is to do: how many blocks, and after which. *)
Crece(t, c) ==
  /\ t.cant > 0
  /\ \/ t.rama = "CERO" /\ t.viejo = 0 /\ t.cant = t.arg \div TAM_BLOQUE
     \/ /\ t.rama = "MAS" /\ c # <<>>
        /\ t.cant = (t.arg \div TAM_BLOQUE) - (t.viejo \div TAM_BLOQUE)

(* How far a truncation t is, of a file with the chain c.                   *)
Elige(tabla, t, c) == Cubre(tabla, c, t.viejo)

Recorre(tabla, t, c) ==
  /\ Cubre(tabla, c, t.viejo)
  /\ \E k \in 1..Len(c)-1 : c[k] = t.bloque
  /\ \/ t.rama = "MAS" /\ Crece(t, c)
     \/ t.rama = "MENOS" /\ t.arg \div TAM_BLOQUE <= Len(c)

Busca(tabla, t, c) ==
  /\ Cubre(tabla, c, t.viejo) /\ Crece(t, c)
  /\ t.rama = "MAS" => t.bloque = c[Len(c)]
  /\ Distintos(t.lista)
  /\ \A k \in 1..Len(t.lista) : tabla[t.lista[k]] = 0 /\ t.lista[k] < t.i

Enlaza(tabla, t, c, cad) ==
  /\ Crece(t, c) /\ Distintos(t.lista)
  /\ Len(t.lista) = t.cant /\ t.i \in 1..t.cant
  /\ \A k \in t.i..t.cant : tabla[t.lista[k]] = 0
  /\ \A k \in t.i + 1..t.cant : Ajeno(t.lista[k], cad)
  /\ \/ /\ t.i = 1 /\ Cubre(tabla, c, t.viejo) /\ Ajeno(t.lista[1], cad)
        /\ t.rama = "MAS" => t.bloque = c[Len(c)]
     \/ /\ t.i > 1 /\ t.rama = "CERO" /\ Cubre(tabla, c, t.viejo)
        /\ \A k \in 1..t.i - 1 : tabla[t.lista[k]] = t.lista[k + 1]
        /\ \A k \in 1..t.i : Ajeno(t.lista[k], cad)
     \/ /\ t.i > 1 /\ t.rama = "MAS"
        /\ (t.viejo \div TAM_BLOQUE) + t.i <= Len(c) /\ c[Len(c)] = t.lista[t.i]

Fija(tabla, t, c, cad) ==
  /\ t.rama = "CERO" /\ t.viejo = 0 /\ Cubre(tabla, c, t.viejo)
  /\ Enlazada(tabla, t.lista, t.lista[1]) /\ Cubre(tabla, t.lista, t.arg)
  /\ \A k \in 1..Len(t.lista) : Ajeno(t.lista[k], cad)

Reduce(t, c) ==
  c # <<>> /\ t.bloque = c[Len(c)] /\ t.arg \div TAM_BLOQUE <= Len(c)

Avance(tabla, t, c, cad) ==
  /\ t.pc = "ELEGIR" => Elige(tabla, t, c)
  /\ t.pc = "SECUENCIA" => Recorre(tabla, t, c)
  /\ t.pc = "BUSCAR" => Busca(tabla, t, c)
  /\ t.pc = "ENLAZAR" => Enlaza(tabla, t, c, cad)
  /\ t.pc = "FIJAR" => Fija(tabla, t, c, cad)
  /\ t.pc = "REDUCIR" => Reduce(t, c)
  /\ t.pc = "RESPONDER" => Cubre(tabla, c, t.arg)

Truncaciones(cad) ==
  /\ \A g, h \in Hilos : Trunca(g) /\ Trunca(h) => g = h
  /\ \A h \in Hilos : Trunca(h) =>
       /\ fcbs[hilo[h].archivo].tamanio = hilo[h].arg
       /\ hilo[h].pc \in {"ELEGIR", "SECUENCIA", "BUSCAR", "ENLAZAR", "FIJAR", "REDUCIR",
                          "RESPONDER"}
       /\ Avance(tabla_fat, hilo[h], cad[hilo[h].archivo], cad)

(* How far a write t has gone along the chain c.                            *)
Camina(t, c) ==
  LET hasta == t.arg \div TAM_BLOQUE
  IN  \/ /\ t.pc = "DESPLAZAR" /\ t.cant \in 1..hasta
         /\ (hasta - t.cant) + 1 <= Len(c) /\ t.bloque = c[(hasta - t.cant) + 1]
      \/ /\ t.pc = "EN_MEMORIA" /\ (hasta < Len(c) => t.bloque = c[hasta + 1])

Escrituras(cad) ==
  \A h \in Hilos : Escribe(h) /\ hilo[h].archivo \notin historia.archivos =>
    ~Truncando(hilo[h].archivo) /\ Camina(hilo[h], cad[hilo[h].archivo])

Sanas(cad) ==
  Cadenas(tabla_fat, cad) /\ tabla_fat[0] = EOF_FS /\ Enteras(cad) /\ Truncaciones(cad) /\ Escrituras(cad)

Inv == Tipos /\ (Limpio => \E cad : Sanas(cad))

-------------------------------------------------------------------------------
(* Chains.                                                                  *)

(* Different blocks are not more than there are.                            *)
LEMMA LargoDeDistintos ==
  ASSUME NEW c \in Seq(Bloques), \A j, k \in 1..Len(c) : c[j] = c[k] => j = k
  PROVE  Len(c) <= CANT_BLOQUES
<1>1. Len(c) \in Nat /\ DOMAIN c = 1..Len(c) /\ c \in [1..Len(c) -> Bloques]
  BY LenProperties
<1>2. CANT_BLOQUES \in Nat
  BY ConstantesFat
<1>3. IsFiniteSet(1..Len(c)) /\ Cardinality(1..Len(c)) = Len(c)
  BY <1>1, FS_Interval
<1>4. IsFiniteSet(Bloques) /\ Cardinality(Bloques) = CANT_BLOQUES
  BY <1>2, FS_Interval DEF Bloques
<1>5. SUFFICES ASSUME Cardinality(Bloques) < Cardinality(1..Len(c))
               PROVE  FALSE
  BY <1>1, <1>2, <1>3, <1>4
<1>6. \E x, y \in 1..Len(c) : x # y /\ c[x] = c[y]
  BY <1>1, <1>3, <1>4, <1>5, FS_PigeonHole
<1> QED BY <1>6

(* One block more, or none.                                                 *)
LEMMA AlargarDaSecuencia ==
  ASSUME TypeOK, NEW s \in Seq(Bloques) \ {<<>>}
  PROVE  Alargar(s) \in Seq(Bloques) \ {<<>>}
<1> DEFINE x == tabla_fat[s[Len(s)]]
<1>1. \A y \in Bloques : Append(s, y) \in Seq(Bloques) /\ Append(s, y) # <<>>
  BY AppendProperties
<1>2. Alargar(s) = IF x \in Bloques \ {0} THEN Append(s, x) ELSE s
  BY DEF Alargar
<1> HIDE DEF x
<1> QED BY <1>1, <1>2

(* The recursion of Recorrido has a solution, step by step.                 *)
LEMMA RecorridoPasoAPaso ==
  ASSUME TypeOK, NEW b \in Bloques
  PROVE  \E r \in [0..CANT_BLOQUES -> Seq(Bloques) \ {<<>>}] :
           /\ r[0] = <<b>> /\ Recorrido(b) = r[CANT_BLOQUES]
           /\ \A n \in 1..CANT_BLOQUES : r[n] = Alargar(r[n - 1])
<1> DEFINE S == Seq(Bloques) \ {<<>>}
           Hasta(m) == {g \in [0..m -> S] :
                          g[0] = <<b>> /\ \A n \in 1..m : g[n] = Alargar(g[n - 1])}
           Faltan == {m \in 0..CANT_BLOQUES : Hasta(m) = {}}
           Ec(g) == g = [n \in 0..CANT_BLOQUES |-> IF n = 0 THEN <<b>> ELSE Alargar(g[n - 1])]
           tras == CHOOSE g : Ec(g)
<1>1. CANT_BLOQUES \in Nat
  BY ConstantesFat
<1>2. <<b>> \in S
  OBVIOUS
<1>3. \A s \in S : Alargar(s) \in S
  BY AlargarDaSecuencia
<1> HIDE DEF S
<1>4. Faltan = {}
  <2>1. SUFFICES ASSUME Faltan # {}
                 PROVE  FALSE
    OBVIOUS
  <2>2. PICK m \in Faltan : \A k \in Faltan : m <= k
    <3>1. Faltan \subseteq Nat
      BY <1>1
    <3> HIDE DEF Faltan
    <3> QED BY <3>1, <2>1, HayMinimo
  <2>3. m # 0
    <3>1. [n \in 0..0 |-> <<b>>] \in Hasta(0)
      BY <1>2
    <3>2. Hasta(m) = {}
      <4> HIDE DEF Hasta
      <4> QED BY <2>2
    <3> QED BY <3>1, <3>2
  <2>4. m \in Nat /\ m - 1 \in 0..CANT_BLOQUES /\ Hasta(m - 1) # {} /\ Hasta(m) = {}
    <3> HIDE DEF Hasta
    <3>1. m \in 0..CANT_BLOQUES /\ Hasta(m) = {}
      BY <2>2
    <3>2. m \in Nat /\ m - 1 \in 0..CANT_BLOQUES /\ ~(m <= m - 1)
      BY <1>1, <2>3, <3>1
    <3>3. m - 1 \notin Faltan
      BY <3>2, <2>2
    <3> QED BY <3>1, <3>2, <3>3
  <2>5. PICK g \in [0..m-1 -> S] : g[0] = <<b>> /\ \A n \in 1..m-1 : g[n] = Alargar(g[n - 1])
    BY <2>4
  <2> DEFINE h == [n \in 0..m |-> IF n = m THEN Alargar(g[m - 1]) ELSE g[n]]
  <2>6. h \in [0..m -> S]
    <3>1. g[m - 1] \in S
      BY <2>3, <2>4, <2>5
    <3>2. Alargar(g[m - 1]) \in S
      BY <3>1, <1>3
    <3> QED BY <2>3, <2>4, <2>5, <3>2
  <2>7. h[0] = <<b>>
    BY <2>3, <2>4, <2>5
  <2>8. \A n \in 1..m : h[n] = Alargar(h[n - 1])
    <3> SUFFICES ASSUME NEW n \in 1..m
                 PROVE  h[n] = Alargar(h[n - 1])
      OBVIOUS
    <3>1. h[n - 1] = g[n - 1]
      BY <2>4
    <3>2. CASE n = m
      BY <3>1, <3>2, <2>4
    <3>3. CASE n # m
      <4>1. n \in 1..m-1 /\ h[n] = g[n]
        BY <3>3, <2>4
      <4> QED BY <4>1, <3>1, <2>5
    <3> QED BY <3>2, <3>3
  <2>9. Hasta(m) # {}
    BY <2>6, <2>7, <2>8
  <2> QED BY <2>4, <2>9
<1>5. PICK r \in [0..CANT_BLOQUES -> S] :
        r[0] = <<b>> /\ \A n \in 1..CANT_BLOQUES : r[n] = Alargar(r[n - 1])
  <2>1. Hasta(CANT_BLOQUES) # {}
    <3> HIDE DEF Hasta
    <3> QED BY <1>1, <1>4
  <2> QED BY <2>1
<1>6. Ec(r)
  <2>1. ASSUME NEW n \in 0..CANT_BLOQUES
        PROVE  r[n] = IF n = 0 THEN <<b>> ELSE Alargar(r[n - 1])
    <3>1. n # 0 => n \in 1..CANT_BLOQUES
      BY <1>1
    <3> QED BY <3>1, <1>5
  <2> QED BY <2>1, <1>5
<1>7. Ec(tras)
  <2> HIDE DEF Ec
  <2> QED BY <1>6
<1>8. Recorrido(b) = tras[CANT_BLOQUES]
  BY DEF Recorrido
<1> HIDE DEF tras
<1>9. tras[0] = <<b>> /\ \A n \in 1..CANT_BLOQUES : tras[n] = Alargar(tras[n - 1])
  <2>1. \A n \in 0..CANT_BLOQUES : tras[n] = IF n = 0 THEN <<b>> ELSE Alargar(tras[n - 1])
    BY <1>7
  <2> QED BY <2>1, <1>1
<1>10. tras \in [0..CANT_BLOQUES -> S]
  <2> DEFINE Malos == {n \in 0..CANT_BLOQUES : tras[n] \notin S}
  <2>1. Malos = {}
    <3>1. SUFFICES ASSUME Malos # {}
                   PROVE  FALSE
      OBVIOUS
    <3>2. PICK m \in Malos : \A k \in Malos : m <= k
      <4>1. Malos \subseteq Nat
        BY <1>1
      <4> HIDE DEF Malos
      <4> QED BY <4>1, <3>1, HayMinimo
    <3>3. m # 0
      BY <1>2, <1>9, <3>2
    <3>4. m \in 1..CANT_BLOQUES /\ m - 1 \in 0..CANT_BLOQUES /\ m - 1 \notin Malos
      BY <1>1, <3>2, <3>3
    <3>5. tras[m] = Alargar(tras[m - 1]) /\ tras[m - 1] \in S
      BY <3>4, <1>9
    <3> QED BY <3>2, <3>5, <1>3
  <2>2. tras = [n \in 0..CANT_BLOQUES |-> tras[n]]
    BY <1>7
  <2> QED BY <2>1, <2>2
<1> QED BY <1>8, <1>9, <1>10 DEF S


(* The first n + 1 elements of a sequence are the first n and one more.      *)
LEMMA PrefijoAlargado ==
  ASSUME NEW S, NEW c \in Seq(S), NEW n \in Nat, n < Len(c)
  PROVE  /\ SubSeq(c, 1, n + 1) = Append(SubSeq(c, 1, n), c[n + 1])
         /\ SubSeq(c, 1, n) \in Seq(S) /\ Len(SubSeq(c, 1, n)) = n
         /\ \A k \in 1..n : SubSeq(c, 1, n)[k] = c[k]
<1>1. Len(c) \in Nat /\ \A k \in 1..Len(c) : c[k] \in S
  OBVIOUS
<1>2. 1 \in 1..Len(c) + 1 /\ n \in 0..Len(c) /\ n + 1 \in 1..Len(c)
  BY <1>1
<1> DEFINE s == SubSeq(c, 1, n)
           t == SubSeq(c, 1, n + 1)
<1>3. s \in Seq(S) /\ Len(s) = n /\ \A k \in 1..n : s[k] = c[k]
  BY <1>1, <1>2
<1>4. t \in Seq(S) /\ Len(t) = n + 1 /\ \A k \in 1..n + 1 : t[k] = c[k]
  BY <1>1, <1>2
<1> HIDE DEF s, t
<1>5. Append(s, c[n + 1]) = t
  BY <1>1, <1>2, <1>3, <1>4
<1> QED BY <1>3, <1>5 DEF s, t

(* A chain linked from b is the one that Recorrido finds.                   *)
LEMMA RecorridoEncuentra ==
  ASSUME TypeOK, NEW b, NEW c \in Seq(Bloques), Enlazada(tabla_fat, c, b)
  PROVE  Recorrido(b) = c
<1>L. PICK L : L = Len(c)
  OBVIOUS
<1> DEFINE H(n) == IF n + 1 <= L THEN n + 1 ELSE L
<1>1. CANT_BLOQUES \in Nat /\ \A x \in Bloques : x \in Int /\ x # EOF_FS
  BY ConstantesFat DEF Bloques, EOF_FS
<1>2. /\ L \in Nat \ {0} /\ c \in [1..L -> Bloques] /\ L <= CANT_BLOQUES
      /\ c[1] = b /\ b \in Bloques
  <2>1. Len(c) \in Nat /\ c \in [1..Len(c) -> Bloques] /\ Len(c) # 0
    BY LenProperties, EmptySeq DEF Enlazada
  <2>2. Len(c) <= CANT_BLOQUES
    BY LargoDeDistintos DEF Enlazada
  <2> QED BY <1>L, <2>1, <2>2 DEF Enlazada
<1>3. PICK r \in [0..CANT_BLOQUES -> Seq(Bloques) \ {<<>>}] :
        /\ r[0] = <<b>> /\ Recorrido(b) = r[CANT_BLOQUES]
        /\ \A n \in 1..CANT_BLOQUES : r[n] = Alargar(r[n - 1])
  BY <1>2, RecorridoPasoAPaso
<1>4. SubSeq(c, 1, L) = c
  BY <1>2, <1>L
<1>5. ASSUME NEW n \in 1..CANT_BLOQUES, r[n - 1] = SubSeq(c, 1, H(n - 1))
      PROVE  r[n] = SubSeq(c, 1, H(n))
  <2>1. r[n] = Alargar(r[n - 1])
    BY <1>3
  <2>2. CASE n < L
    <3> DEFINE s == SubSeq(c, 1, n)
    <3>1. H(n - 1) = n /\ H(n) = n + 1 /\ n \in 1..L-1
      BY <1>1, <1>2, <2>2
    <3>2. Len(s) = n /\ s[n] = c[n] /\ s \in Seq(Bloques)
      BY <1>L, <1>2, <3>1, PrefijoAlargado
    <3>3. tabla_fat[c[n]] = c[n + 1] /\ c[n + 1] \in Bloques \ {0}
      BY <1>L, <1>2, <3>1 DEF Enlazada
    <3>4. Append(s, c[n + 1]) = SubSeq(c, 1, n + 1)
      BY <1>L, <1>2, <3>1, PrefijoAlargado
    <3> HIDE DEF s
    <3>5. Alargar(s) = Append(s, c[n + 1])
      BY <3>2, <3>3 DEF Alargar
    <3> QED BY <2>1, <1>5, <3>1, <3>4, <3>5 DEF s
  <2>3. CASE ~(n < L)
    <3>1. H(n - 1) = L /\ H(n) = L
      BY <1>1, <1>2, <2>3
    <3>2. tabla_fat[c[L]] \notin Bloques \ {0}
      BY <1>1, <1>L DEF Enlazada
    <3>3. Alargar(c) = c
      BY <1>L, <3>2 DEF Alargar
    <3> QED BY <2>1, <1>5, <3>1, <3>3, <1>4
  <2> QED BY <2>2, <2>3
<1>6. r[0] = SubSeq(c, 1, H(0))
  <2>1. H(0) = 1
    BY <1>2
  <2>2. SubSeq(c, 1, 1) = <<c[1]>>
    <3>1. SubSeq(c, 1, 0) = <<>>
      BY SubSeqEmpty
    <3>2. SubSeq(c, 1, 0 + 1) = Append(SubSeq(c, 1, 0), c[0 + 1])
      BY <1>2, <1>L, PrefijoAlargado
    <3>3. Append(<<>>, c[1]) = <<c[1]>> /\ 0 + 1 = 1
      OBVIOUS
    <3> QED BY <3>1, <3>2, <3>3
  <2> QED BY <2>1, <2>2, <1>2, <1>3
<1>7. r[CANT_BLOQUES] = SubSeq(c, 1, H(CANT_BLOQUES))
  <2> DEFINE Malos == {n \in 0..CANT_BLOQUES : r[n] # SubSeq(c, 1, H(n))}
  <2> SUFFICES ASSUME r[CANT_BLOQUES] # SubSeq(c, 1, H(CANT_BLOQUES))
               PROVE  FALSE
    OBVIOUS
  <2>1. CANT_BLOQUES \in Malos
    <3> HIDE DEF H
    <3> QED BY <1>1
  <2>2. PICK m \in Malos : \A k \in Malos : m <= k
    <3>1. Malos \subseteq Nat
      BY <1>1
    <3> HIDE DEF Malos
    <3> QED BY <3>1, <2>1, HayMinimo
  <2> HIDE DEF H
  <2>3. m \in 1..CANT_BLOQUES /\ m - 1 \in 0..CANT_BLOQUES /\ ~(m <= m - 1)
    BY <1>1, <1>6, <2>2
  <2>4. m - 1 \notin Malos
    BY <2>2, <2>3
  <2>5. r[m - 1] = SubSeq(c, 1, H(m - 1))
    BY <2>3, <2>4
  <2>6. r[m] = SubSeq(c, 1, H(m))
    BY <2>3, <2>5, <1>5 DEF H
  <2> QED BY <2>2, <2>6
<1>8. H(CANT_BLOQUES) = L
  BY <1>1, <1>2
<1> QED BY <1>3, <1>4, <1>7, <1>8

(* The chain of a file is the one that is linked for it.                    *)
LEMMA CadenaEs ==
  ASSUME TypeOK, NEW cad, Cadenas(tabla_fat, cad), NEW f \in Nombres
  PROVE  Cadena(f) = cad[f]
<1>1. cad[f] \in Seq(Bloques)
  BY DEF Cadenas
<1>2. CASE ConBloques(f)
  BY <1>1, <1>2, RecorridoEncuentra DEF Cadenas, Cadena
<1>3. CASE ~ConBloques(f)
  BY <1>3 DEF Cadenas, Cadena
<1> QED BY <1>2, <1>3

-------------------------------------------------------------------------------
(* The types.                                                               *)

LEMMA CeroEsBloque ==
  0 \in Bloques
BY ConstantesFat DEF Bloques

LEMMA LibreEsHilado ==
  Libre \in Hilados /\ Local(Libre) /\ Libre.op = "LIBRE"
<1>1. <<>> \in Seq(Bloques)
  OBVIOUS
<1> QED BY <1>1, CeroEsBloque DEF Libre, Hilados, Local

(* A file that exists has a size and a first block.                         *)
LEMMA FcbDeExistente ==
  ASSUME TypeOK, NEW f \in Nombres, Existe(f)
  PROVE  fcbs[f] \in Fcbs /\ fcbs[f].tamanio \in Nat /\ fcbs[f].bloque_inicial \in Bloques \cup {Basura}
<1>1. fcbs[f] \in Fcbs
  BY DEF TypeOK, Existe
<1> QED BY <1>1 DEF Fcbs

LEMMA FcbNoEsNull ==
  ASSUME NEW x \in Fcbs
  PROVE  x # NULL
BY ConstantesFat

(* The request a thread serves.                                             *)
LEMMA PedidoDeHilo ==
  ASSUME Tipos, NEW h \in Hilos
  PROVE  /\ hilo[h] \in Hilados /\ Local(hilo[h])
         /\ hilo[h] # Libre => /\ hilo[h].op \in {"F_TRUNCATE", "F_WRITE"}
                               /\ hilo[h].archivo \in Nombres /\ Existe(hilo[h].archivo)
BY DEF Tipos, TypeOK, Sirven, Trunca, Escribe

(* A step of a thread that goes on, or is done.                             *)
LEMMA TiposDeSigue ==
  ASSUME Tipos, NEW h \in Hilos, NEW nuevo \in Hilados, Local(nuevo), Sigue(h, nuevo),
         \/ nuevo = Libre
         \/ /\ nuevo.op \in {"F_TRUNCATE", "F_WRITE"}
            /\ nuevo.archivo \in Nombres /\ fcbs'[nuevo.archivo] # NULL,
         tabla_fat' \in [Bloques -> Bloques \cup {EOF_FS}],
         fcbs' \in [Nombres -> Fcbs \cup {NULL}],
         \A f \in Nombres : fcbs[f] # NULL => fcbs'[f] # NULL,
         filesystem' \in {"VIVO", "CAIDO"}, reinicios' \in 0..MaxReinicios,
         pedidos' \in 0..MaxPedidos, historia' \in Historias
  PROVE  Tipos'
<1>1. hilo' = [hilo EXCEPT ![h] = nuevo]
  BY DEF Sigue
<1>2. TypeOK'
  BY <1>1 DEF Tipos, TypeOK
<1>3. Sirven'
  <2> SUFFICES ASSUME NEW g \in Hilos
               PROVE  \/ hilo'[g] = Libre
                      \/ /\ hilo'[g].op \in {"F_TRUNCATE", "F_WRITE"}
                         /\ hilo'[g].archivo \in Nombres /\ fcbs'[hilo'[g].archivo] # NULL
    BY DEF Sirven, Trunca, Escribe, Existe
  <2>1. CASE g = h
    BY <1>1, <2>1 DEF Tipos, TypeOK
  <2>2. CASE g # h
    <3>1. hilo'[g] = hilo[g]
      BY <1>1, <2>2 DEF Tipos, TypeOK
    <3> QED BY <3>1, PedidoDeHilo DEF Existe
  <2> QED BY <2>1, <2>2
<1>4. \A g \in Hilos : Local(hilo'[g])
  BY <1>1 DEF Tipos, TypeOK
<1>5. \A g \in Hilos : Local(hilo[g])'
  BY <1>4 DEF Local
<1> QED BY <1>2, <1>3, <1>5 DEF Tipos

(* The end of every thread and of every FCB, in a fall or a restart.         *)
LEMMA TiposDeCaer ==
  ASSUME Tipos, tabla_fat' \in [Bloques -> Bloques \cup {EOF_FS}],
         hilo' = [t \in Hilos |-> Libre], fcbs' = [f \in Nombres |-> NULL],
         filesystem' \in {"VIVO", "CAIDO"}, reinicios' \in 0..MaxReinicios,
         pedidos' \in 0..MaxPedidos, historia' \in Historias
  PROVE  Tipos'
<1>1. \A h \in Hilos : hilo'[h] = Libre
  OBVIOUS
<1>2. TypeOK'
  BY LibreEsHilado DEF TypeOK
<1>3. Sirven'
  BY <1>1 DEF Sirven
<1>4. \A h \in Hilos : Local(hilo[h])'
  BY <1>1, LibreEsHilado DEF Local
<1> QED BY <1>2, <1>3, <1>4 DEF Tipos

(* What a request that starts leaves in the history.                        *)
LEMMA MezclaDa ==
  ASSUME TypeOK, NEW h, NEW op, NEW f \in Nombres, NEW m, m = Mezcla(h, op, f)
  PROVE  /\ m \in Historias
         /\ historia.encimadas => m.encimadas
         /\ historia.archivos \subseteq m.archivos
         /\ op = "F_WRITE" /\ fcbs[f].bloque_inicial = Basura => f \in m.archivos
         /\ \A o \in Hilos \ {h} :
              hilo[o] # Libre /\ (op = "F_TRUNCATE" \/ hilo[o].op = "F_TRUNCATE") =>
                /\ hilo[o].archivo = f => f \in m.archivos
                /\ hilo[o].op = op => m.encimadas
<1> DEFINE otros == {o \in Hilos \ {h} : hilo[o] # Libre /\ "F_TRUNCATE" \in {op, hilo[o].op}}
           extraviado == \/ op = "F_WRITE" /\ fcbs[f].bloque_inicial = Basura
                         \/ \E o \in otros : hilo[o].archivo = f
           e == historia.encimadas \/ \E o \in otros : hilo[o].op = op
           a == historia.archivos \cup (IF extraviado THEN {f} ELSE {})
<1>1. m = [encimadas |-> e, archivos |-> a]
  BY Zenon DEF Mezcla
<1>2. historia.encimadas \in BOOLEAN /\ historia.archivos \in SUBSET Nombres
  BY DEF TypeOK, Historias
<1>3. e \in BOOLEAN
  BY <1>2
<1>4. a \in SUBSET Nombres
  <2> HIDE DEF extraviado
  <2> QED BY <1>2
<1>5. extraviado => f \in a
  <2> HIDE DEF extraviado
  <2> QED OBVIOUS
<1>6. historia.archivos \subseteq a
  OBVIOUS
<1>7. m.encimadas = e /\ m.archivos = a /\ m \in Historias
  <2> HIDE DEF e, a
  <2> QED BY <1>1, <1>3, <1>4 DEF Historias
<1>8. \A o \in Hilos \ {h} :
        hilo[o] # Libre /\ (op = "F_TRUNCATE" \/ hilo[o].op = "F_TRUNCATE") => o \in otros
  OBVIOUS
<1> HIDE DEF a, otros
<1> QED BY <1>5, <1>6, <1>7, <1>8

LEMMA TiposDeInit ==
  ASSUME Init
  PROVE  Tipos
<1>1. \A h \in Hilos : hilo[h] = Libre
  BY DEF Init
<1>2. TypeOK
  <2>1. tabla_fat \in [Bloques -> Bloques \cup {EOF_FS}]
    BY CeroEsBloque DEF Init
  <2> QED BY <2>1, LibreEsHilado, ConstantesFat DEF Init, TypeOK, Historias, SinHistoria
<1>3. Sirven
  BY <1>1 DEF Sirven
<1>4. \A h \in Hilos : Local(hilo[h])
  BY <1>1, LibreEsHilado
<1> QED BY <1>2, <1>3, <1>4 DEF Tipos

(* A request that starts.                                                   *)
LEMMA TiposDePedido ==
  ASSUME Tipos, NEW h \in Hilos, NEW op, NEW f \in Nombres, Pide(h, op, f)
  PROVE  Existe(f) /\ pedidos' \in 0..MaxPedidos /\ historia' \in Historias
BY MezclaDa, ConstantesFat DEF Pide, Tipos, TypeOK

LEMMA TiposDeTruncar ==
  ASSUME Tipos, NEW h \in Hilos, NEW f \in Nombres, NEW n \in Tamanios, Truncar(h, f, n)
  PROVE  Tipos'
<1>1. Pide(h, "F_TRUNCATE", f)
  BY DEF Truncar
<1>2. Existe(f) /\ pedidos' \in 0..MaxPedidos /\ historia' \in Historias
  BY <1>1, TiposDePedido
<1>3. n \in Nat
  BY ConstantesFat
<1>4. PICK m \in Nat : m = fcbs[f].tamanio
  BY <1>2, FcbDeExistente DEF Tipos
<1> DEFINE nuevo == [Libre EXCEPT !.op = "F_TRUNCATE", !.archivo = f, !.arg = n,
                                  !.viejo = m, !.pc = "ELEGIR"]
<1>5. nuevo \in Hilados /\ Local(nuevo) /\ nuevo.op = "F_TRUNCATE" /\ nuevo.archivo = f
  <2>1. <<>> \in Seq(Bloques)
    OBVIOUS
  <2> QED BY <1>3, <2>1, CeroEsBloque DEF Libre, Hilados, Local
<1>6. Sigue(h, nuevo)
  BY <1>4, Zenon DEF Truncar
<1> HIDE DEF nuevo
<1>7. /\ fcbs' \in [Nombres -> Fcbs \cup {NULL}] /\ fcbs'[f] # NULL
      /\ \A g \in Nombres : fcbs[g] # NULL => fcbs'[g] # NULL
  <2>1. fcbs' = [fcbs EXCEPT ![f] = [fcbs[f] EXCEPT !.tamanio = n]]
    BY DEF Truncar
  <2>2. [fcbs[f] EXCEPT !.tamanio = n] \in Fcbs
    BY <1>2, <1>3, FcbDeExistente DEF Tipos, Fcbs
  <2>3. [fcbs[f] EXCEPT !.tamanio = n] # NULL
    BY <2>2, FcbNoEsNull
  <2> QED BY <2>1, <2>2, <2>3 DEF Tipos, TypeOK
<1> QED BY <1>2, <1>5, <1>6, <1>7, TiposDeSigue DEF Truncar, Tipos, TypeOK

LEMMA TiposDeBuscarBloque ==
  ASSUME Tipos, NEW h \in Hilos, NEW f \in Nombres, NEW n \in Punteros, BuscarBloque(h, f, n)
  PROVE  Tipos'
<1>1. Pide(h, "F_WRITE", f)
  BY DEF BuscarBloque
<1>2. Existe(f) /\ pedidos' \in 0..MaxPedidos /\ historia' \in Historias
  BY <1>1, TiposDePedido
<1>3. n \in Nat /\ TAM_BLOQUE \in Nat \ {0}
  BY ConstantesFat
<1>4. PICK s \in Nat : s = n \div TAM_BLOQUE
  BY <1>3
<1>5. PICK b \in Inicial(f) :
        IF b \notin Bloques
        THEN Caer
        ELSE /\ Sigue(h, [Libre EXCEPT !.op = "F_WRITE", !.archivo = f, !.arg = n,
                            !.bloque = b, !.cant = s,
                            !.pc = IF s = 0 THEN "EN_MEMORIA" ELSE "DESPLAZAR"])
             /\ Vive
  BY <1>4, Zenon DEF BuscarBloque
<1>6. UNCHANGED <<tabla_fat, reinicios>>
  BY DEF BuscarBloque
<1>7. CASE b \notin Bloques
  BY <1>2, <1>5, <1>6, <1>7, TiposDeCaer DEF Caer, Tipos, TypeOK
<1>8. CASE b \in Bloques
  <2> DEFINE nuevo == [Libre EXCEPT !.op = "F_WRITE", !.archivo = f, !.arg = n,
                            !.bloque = b, !.cant = s,
                            !.pc = IF s = 0 THEN "EN_MEMORIA" ELSE "DESPLAZAR"]
  <2>1. nuevo \in Hilados /\ Local(nuevo) /\ nuevo.op = "F_WRITE" /\ nuevo.archivo = f
    <3>1. <<>> \in Seq(Bloques)
      OBVIOUS
    <3>2. nuevo \in Hilados
      BY <1>3, <1>4, <1>8, <3>1 DEF Libre, Hilados
    <3>3. /\ nuevo.pc = IF s = 0 THEN "EN_MEMORIA" ELSE "DESPLAZAR"
          /\ nuevo.bloque = b /\ nuevo.cant = s /\ nuevo.op = "F_WRITE" /\ nuevo.archivo = f
      BY Zenon DEF Libre
    <3> HIDE DEF nuevo
    <3>4. Local(nuevo)
      BY <1>4, <1>8, <3>3 DEF Local
    <3> QED BY <3>2, <3>3, <3>4
  <2>2. Sigue(h, nuevo) /\ Vive
    BY <1>5, <1>8
  <2> HIDE DEF nuevo
  <2> QED BY <1>2, <1>6, <2>1, <2>2, TiposDeSigue DEF Vive, Existe, Tipos, TypeOK
<1> QED BY <1>7, <1>8

(* A step of a thread after its first one: it goes on, or the program falls. *)
LEMMA TiposDePaso ==
  ASSUME Tipos, NEW h \in Hilos, hilo[h] # Libre, UNCHANGED <<contadores, historia>>,
         tabla_fat' \in [Bloques -> Bloques \cup {EOF_FS}],
         \/ Caer
         \/ Sigue(h, Libre) /\ Vive
         \/ \E nuevo \in Hilados :
              /\ Sigue(h, nuevo) /\ Vive /\ Local(nuevo)
              /\ nuevo.op = hilo[h].op /\ nuevo.archivo = hilo[h].archivo
  PROVE  Tipos'
<1>1. reinicios' \in 0..MaxReinicios /\ pedidos' \in 0..MaxPedidos /\ historia' \in Historias
  BY DEF Tipos, TypeOK, contadores
<1>2. CASE Caer
  BY <1>1, <1>2, TiposDeCaer DEF Caer
<1>3. CASE Sigue(h, Libre) /\ Vive
  BY <1>1, <1>3, TiposDeSigue, LibreEsHilado DEF Vive, Tipos, TypeOK
<1>4. ASSUME NEW nuevo \in Hilados, Sigue(h, nuevo), Vive, Local(nuevo),
             nuevo.op = hilo[h].op, nuevo.archivo = hilo[h].archivo
      PROVE  Tipos'
  <2>1. /\ nuevo.op \in {"F_TRUNCATE", "F_WRITE"} /\ nuevo.archivo \in Nombres
        /\ fcbs[nuevo.archivo] # NULL
    BY <1>4, PedidoDeHilo DEF Existe
  <2> QED BY <1>1, <1>4, <2>1, TiposDeSigue DEF Vive, Tipos, TypeOK
<1> QED BY <1>2, <1>3, <1>4

LEMMA TiposDeCrearFcb ==
  ASSUME Tipos, NEW f \in Nombres, CrearFcb(f)
  PROVE  Tipos'
<1>1. [tamanio |-> 0, bloque_inicial |-> Basura] \in Fcbs
  BY DEF Fcbs
<1>2. /\ fcbs' \in [Nombres -> Fcbs \cup {NULL}]
      /\ \A g \in Nombres : fcbs[g] # NULL => fcbs'[g] # NULL
  BY <1>1, FcbNoEsNull DEF CrearFcb, Tipos, TypeOK
<1>3. TypeOK'
  BY <1>2 DEF CrearFcb, Tipos, TypeOK, contadores
<1>4. Sirven'
  BY <1>2 DEF CrearFcb, Tipos, Sirven, Trunca, Escribe, Existe
<1>5. \A h \in Hilos : Local(hilo[h])'
  BY DEF CrearFcb, Tipos, Local
<1> QED BY <1>3, <1>4, <1>5 DEF Tipos

(* A thread that is in a handler is not free.                               *)
LEMMA SirveNoLibre ==
  ASSUME NEW h, NEW op \in {"F_TRUNCATE", "F_WRITE"}, NEW pc, Sirve(h, op, pc)
  PROVE  hilo[h] # Libre /\ hilo[h].op = op /\ hilo[h].pc = pc
BY LibreEsHilado DEF Sirve

LEMMA CocienteEsNatural ==
  ASSUME NEW n \in Nat
  PROVE  n \div TAM_BLOQUE \in Nat
BY ConstantesFat

(* What is left is written for one more block at each turn.                 *)
LEMMA CocienteMonotono ==
  ASSUME NEW m \in Nat, NEW n \in Nat, m <= n
  PROVE  m \div TAM_BLOQUE <= n \div TAM_BLOQUE
<1>1. PICK k \in Nat \ {0} : k = TAM_BLOQUE
  BY ConstantesFat
<1>2. m \div k <= n \div k
  <2> DEFINE a == m \div k
             b == n \div k
  <2>1. a \in Nat /\ b \in Nat
    BY <1>1
  <2>2. m = k * a + (m % k) /\ n = k * b + (n % k) /\ m % k \in 0..k-1 /\ n % k \in 0..k-1
    BY <1>1
  <2>3. SUFFICES ASSUME ~(a <= b)
                 PROVE  FALSE
    OBVIOUS
  <2> HIDE DEF a, b
  <2>4. b + 1 <= a
    BY <2>1, <2>3
  <2>5. k * (b + 1) <= k * a
    BY <1>1, <2>1, <2>4
  <2>6. k * (b + 1) = k * b + k
    BY <1>1, <2>1
  <2>7. k * a \in Nat /\ k * b \in Nat
    BY <1>1, <2>1
  <2> QED BY <1>1, <2>2, <2>5, <2>6, <2>7
<1> QED BY <1>1, <1>2

(* The step of obtener_secuencia_de_bloques_de_archivo is well typed.       *)
LEMMA TiposDeAlcanza ==
  ASSUME Tipos, NEW h \in Hilos, hilo[h] # Libre, NEW b \in Bloques, NEW unico \in BOOLEAN,
         NEW rama \in {"MAS", "MENOS"}, NEW cant \in Nat \ {0}, hilo[h].lista = <<>>,
         Alcanza(h, b, unico, rama, cant), Vive, UNCHANGED <<tabla_fat, contadores, historia>>
  PROVE  Tipos'
<1>1. PICK t \in Hilados : t = hilo[h] /\ t.lista = <<>>
  BY PedidoDeHilo
<1>2. PICK e : e = tabla_fat[b]
  OBVIOUS
<1>3. PICK pc : pc = IF e # EOF_FS THEN "SECUENCIA"
                     ELSE IF rama = "MAS" THEN "BUSCAR" ELSE "REDUCIR"
  OBVIOUS
<1> DEFINE nuevo == [t EXCEPT !.bloque = b, !.unico = unico, !.rama = rama, !.cant = cant, !.i = 0,
                              !.pc = pc]
<1>4. Sigue(h, nuevo)
  BY <1>1, <1>2, <1>3, Zenon DEF Alcanza
<1>5. pc \in {"SECUENCIA", "BUSCAR", "REDUCIR"}
  BY <1>3
<1>6. nuevo \in Hilados
  <2>1. ASSUME pc = "SECUENCIA" PROVE nuevo \in Hilados
    BY <1>1, <2>1 DEF Hilados
  <2>2. ASSUME pc = "BUSCAR" PROVE nuevo \in Hilados
    BY <1>1, <2>2 DEF Hilados
  <2>3. ASSUME pc = "REDUCIR" PROVE nuevo \in Hilados
    BY <1>1, <2>3 DEF Hilados
  <2> HIDE DEF nuevo
  <2> QED BY <1>5, <2>1, <2>2, <2>3
<1>8. /\ nuevo.bloque = b /\ nuevo.rama = rama /\ nuevo.cant = cant /\ nuevo.i = 0
      /\ nuevo.lista = <<>> /\ nuevo.op = t.op /\ nuevo.archivo = t.archivo /\ nuevo.pc = pc
  BY <1>1 DEF Hilados
<1> HIDE DEF nuevo
<1>7. Local(nuevo)
  BY <1>5, <1>8, ConstantesFat DEF Local
<1> QED BY <1>1, <1>4, <1>6, <1>7, <1>8, TiposDePaso DEF Tipos, TypeOK

LEMMA TiposDeElegir ==
  ASSUME Tipos, NEW h \in Hilos, Elegir(h)
  PROVE  Tipos'
<1>1. /\ hilo[h] # Libre /\ hilo[h].pc = "ELEGIR"
      /\ UNCHANGED <<tabla_fat, contadores, historia>>
  BY Zenon, SirveNoLibre DEF Elegir
<1>2. /\ hilo[h].archivo \in Nombres /\ Existe(hilo[h].archivo)
      /\ hilo[h].lista = <<>> /\ hilo[h].i = 0 /\ hilo[h].bloque \in Bloques
  BY <1>1, PedidoDeHilo DEF Local
<1>3. PICK t \in Hilados : t = hilo[h]
  BY PedidoDeHilo
<1>4. PICK z \in Nat : z = fcbs[t.archivo].tamanio
  BY <1>2, <1>3, FcbDeExistente DEF Tipos
<1>5. t.arg \in Nat /\ t.viejo \in Nat
  BY DEF Hilados
<1>6. PICK n \in Nat : n = t.arg \div TAM_BLOQUE
  BY <1>5, CocienteEsNatural
<1>7. PICK v \in Nat : v = t.viejo \div TAM_BLOQUE
  BY <1>5, CocienteEsNatural
<1>8. PICK c \in Nat : c = z \div TAM_BLOQUE
  BY CocienteEsNatural
<1>9. \/ /\ t.arg > t.viejo /\ t.viejo = 0 /\ c > 0
         /\ Sigue(h, [t EXCEPT !.rama = "CERO", !.cant = c, !.pc = "BUSCAR"]) /\ Vive
      \/ Caer
      \/ /\ n # v
         /\ \E b \in Inicial(t.archivo) :
              IF b \notin Bloques
              THEN Caer
              ELSE /\ IF t.arg > t.viejo THEN Alcanza(h, b, TRUE, "MAS", n - v)
                                         ELSE Alcanza(h, b, TRUE, "MENOS", v - n)
                   /\ Vive
      \/ Sigue(h, [t EXCEPT !.pc = "RESPONDER"]) /\ Vive
  BY <1>3, <1>4, <1>6, <1>7, <1>8, Zenon DEF Elegir
<1>10. tabla_fat' \in [Bloques -> Bloques \cup {EOF_FS}]
  BY <1>1 DEF Tipos, TypeOK
<1>11. ASSUME c > 0, Sigue(h, [t EXCEPT !.rama = "CERO", !.cant = c, !.pc = "BUSCAR"]), Vive
       PROVE  Tipos'
  <2> DEFINE nuevo == [t EXCEPT !.rama = "CERO", !.cant = c, !.pc = "BUSCAR"]
  <2>1. /\ nuevo \in Hilados /\ nuevo.op = t.op /\ nuevo.archivo = t.archivo
        /\ nuevo.i = t.i /\ nuevo.lista = t.lista /\ nuevo.pc = "BUSCAR" /\ nuevo.cant = c
        /\ nuevo.rama = "CERO" /\ nuevo.bloque = t.bloque
    BY DEF Hilados
  <2>2. Sigue(h, nuevo)
    BY <1>11
  <2> HIDE DEF nuevo
  <2>3. Local(nuevo)
    BY <1>2, <1>3, <1>11, <2>1, ConstantesFat DEF Local
  <2> QED BY <1>1, <1>3, <1>10, <1>11, <2>1, <2>2, <2>3, TiposDePaso
<1>12. ASSUME NEW b \in Bloques, n # v, Vive,
              IF t.arg > t.viejo THEN Alcanza(h, b, TRUE, "MAS", n - v)
                                 ELSE Alcanza(h, b, TRUE, "MENOS", v - n)
       PROVE  Tipos'
  <2>1. CASE t.arg > t.viejo
    <3>1. n - v \in Nat \ {0}
      BY <1>5, <1>6, <1>7, <1>12, <2>1, CocienteMonotono
    <3> QED BY <1>1, <1>2, <1>12, <2>1, <3>1, TiposDeAlcanza
  <2>2. CASE ~(t.arg > t.viejo)
    <3>1. v - n \in Nat \ {0}
      BY <1>5, <1>6, <1>7, <1>12, <2>2, CocienteMonotono
    <3> QED BY <1>1, <1>2, <1>12, <2>2, <3>1, TiposDeAlcanza
  <2> QED BY <2>1, <2>2
<1>13. ASSUME Sigue(h, [t EXCEPT !.pc = "RESPONDER"]), Vive
       PROVE  Tipos'
  <2> DEFINE nuevo == [t EXCEPT !.pc = "RESPONDER"]
  <2>1. /\ nuevo \in Hilados /\ nuevo.op = t.op /\ nuevo.archivo = t.archivo
        /\ nuevo.pc = "RESPONDER" /\ nuevo.rama = t.rama /\ nuevo.bloque = t.bloque
    BY DEF Hilados
  <2>2. Sigue(h, nuevo)
    BY <1>13
  <2> HIDE DEF nuevo
  <2>3. Local(nuevo)
    BY <1>3, <2>1, PedidoDeHilo DEF Local
  <2> QED BY <1>1, <1>3, <1>10, <1>13, <2>1, <2>2, <2>3, TiposDePaso
<1>14. Caer => Tipos'
  BY <1>1, <1>10, TiposDePaso
<1> QED BY <1>9, <1>11, <1>12, <1>13, <1>14

LEMMA TiposDeSecuencia ==
  ASSUME Tipos, NEW h \in Hilos, Secuencia(h)
  PROVE  Tipos'
<1>1. /\ hilo[h] # Libre /\ hilo[h].pc = "SECUENCIA"
      /\ UNCHANGED <<tabla_fat, contadores, historia>>
  BY Zenon, SirveNoLibre DEF Secuencia
<1>2. hilo[h].lista = <<>> /\ hilo[h].rama \in {"MAS", "MENOS"} /\ hilo[h].cant \in Nat \ {0}
  <2>1. hilo[h].cant \in Nat
    BY PedidoDeHilo DEF Hilados
  <2> QED BY <1>1, <2>1, PedidoDeHilo DEF Local
<1>3. PICK b : b = tabla_fat[hilo[h].bloque]
  OBVIOUS
<1>4. IF b \notin Bloques THEN Caer ELSE Alcanza(h, b, FALSE, hilo[h].rama, hilo[h].cant) /\ Vive
  BY <1>3, Zenon DEF Secuencia
<1>5. Caer => Tipos'
  BY <1>1, TiposDePaso DEF Tipos, TypeOK
<1>6. b \in Bloques => Tipos'
  BY <1>1, <1>2, <1>4, TiposDeAlcanza
<1> QED BY <1>4, <1>5, <1>6

(* The free blocks found so far, with the one that is looked at.            *)
LEMMA TiposDeBuscar ==
  ASSUME Tipos, NEW h \in Hilos, Buscar(h)
  PROVE  Tipos'
<1>1. /\ hilo[h] # Libre /\ hilo[h].pc = "BUSCAR"
      /\ UNCHANGED <<tabla_fat, contadores, historia>>
  BY Zenon, SirveNoLibre DEF Buscar
<1>2. PICK t \in Hilados : t = hilo[h] /\ Local(t)
  BY PedidoDeHilo
<1>3. t.i \in Bloques /\ t.i \in Nat /\ t.lista \in Seq(Bloques) /\ t.cant \in Nat
      /\ t.bloque \in Bloques
  BY <1>1, <1>2, ConstantesFat DEF Local, Hilados, Bloques
<1>4. PICK l : l = IF tabla_fat[t.i] = 0 THEN Append(t.lista, t.i) ELSE t.lista
  OBVIOUS
<1>5. l \in Seq(Bloques) /\ Len(l) \in Nat
  BY <1>3, <1>4, AppendProperties
<1>6. IF Len(l) < t.cant /\ t.i + 1 = CANT_BLOQUES
      THEN Caer
      ELSE /\ Sigue(h, IF Len(l) < t.cant
                       THEN [t EXCEPT !.lista = l, !.i = @ + 1]
                       ELSE [t EXCEPT !.lista = l, !.i = 1, !.pc = "ENLAZAR"])
           /\ Vive
  BY <1>2, <1>4, Zenon DEF Buscar, MirarEntrada
<1>7. tabla_fat' \in [Bloques -> Bloques \cup {EOF_FS}]
  BY <1>1 DEF Tipos, TypeOK
<1>8. Caer => Tipos'
  BY <1>1, <1>7, TiposDePaso
<1>9. ASSUME Len(l) < t.cant, t.i + 1 # CANT_BLOQUES, Sigue(h, [t EXCEPT !.lista = l, !.i = @ + 1]), Vive
      PROVE  Tipos'
  <2>0. PICK k \in Nat : k = t.i + 1
    BY <1>3
  <2> DEFINE nuevo == [t EXCEPT !.lista = l, !.i = k]
  <2>1. /\ nuevo \in Hilados /\ nuevo.op = t.op /\ nuevo.archivo = t.archivo
        /\ nuevo.pc = "BUSCAR" /\ nuevo.rama = t.rama /\ nuevo.bloque = t.bloque
        /\ nuevo.i = k /\ nuevo.lista = l /\ nuevo.cant = t.cant
    BY <1>1, <1>2, <1>3, <1>5 DEF Hilados
  <2>2. Sigue(h, nuevo)
    BY <1>9, <2>0, Zenon
  <2>3. k < CANT_BLOQUES
    BY <2>0, <1>3, <1>9, ConstantesFat DEF Bloques
  <2> HIDE DEF nuevo
  <2>4. Local(nuevo)
    BY <1>3, <1>9, <2>1, <2>3 DEF Local
  <2> QED BY <1>1, <1>2, <1>7, <1>9, <2>1, <2>2, <2>4, TiposDePaso
<1>10. ASSUME ~(Len(l) < t.cant), Sigue(h, [t EXCEPT !.lista = l, !.i = 1, !.pc = "ENLAZAR"]), Vive
       PROVE  Tipos'
  <2> DEFINE nuevo == [t EXCEPT !.lista = l, !.i = 1, !.pc = "ENLAZAR"]
  <2>1. /\ nuevo \in Hilados /\ nuevo.op = t.op /\ nuevo.archivo = t.archivo
        /\ nuevo.pc = "ENLAZAR" /\ nuevo.rama = t.rama /\ nuevo.bloque = t.bloque
        /\ nuevo.i = 1 /\ nuevo.lista = l /\ nuevo.cant = t.cant
    BY <1>2, <1>3, <1>5 DEF Hilados
  <2>2. Sigue(h, nuevo)
    BY <1>10
  <2>3. Len(l) >= 1
    <3>1. t.cant > 0
      BY <1>1, <1>2, <1>3 DEF Local
    <3> QED BY <1>3, <1>5, <1>10, <3>1
  <2> HIDE DEF nuevo
  <2>4. Local(nuevo)
    BY <1>3, <1>5, <2>1, <2>3 DEF Local
  <2> QED BY <1>1, <1>2, <1>7, <1>10, <2>1, <2>2, <2>4, TiposDePaso
<1> QED BY <1>6, <1>8, <1>9, <1>10

LEMMA TiposDeEnlazar ==
  ASSUME Tipos, NEW h \in Hilos, Enlazar(h)
  PROVE  Tipos'
<1>1. /\ hilo[h] # Libre /\ hilo[h].pc = "ENLAZAR"
      /\ Vive /\ UNCHANGED <<contadores, historia>>
  BY Zenon, SirveNoLibre DEF Enlazar, Vive
<1>2. PICK t \in Hilados : t = hilo[h] /\ Local(t)
  BY PedidoDeHilo
<1>3. /\ t.lista \in Seq(Bloques) /\ t.i \in 1..Len(t.lista) /\ t.i \in Nat
      /\ t.bloque \in Bloques
  BY <1>1, <1>2 DEF Local, Hilados
<1>a. PICK k \in Nat : k = t.i + 1
  BY <1>3
<1>b. /\ t.lista # <<>> /\ t.lista[t.i] \in Bloques /\ t.lista[1] \in Bloques
      /\ t.i # Len(t.lista) => k \in 1..Len(t.lista) /\ t.lista[k] \in Bloques
  <2>1. PICK l \in Seq(Bloques), i \in Nat : l = t.lista /\ i = t.i
    BY <1>3
  <2>2. PICK n \in Nat : n = Len(l)
    BY <2>1
  <2>3. l \in [1..n -> Bloques] /\ i \in 1..n /\ l # <<>>
    BY <1>3, <2>1, <2>2
  <2> QED BY <1>a, <2>1, <2>2, <2>3
<1>4. PICK ultimo : ultimo = (t.i = Len(t.lista))
  OBVIOUS
<1>5. PICK e : e = [tabla_fat EXCEPT ![t.lista[t.i]] = IF ultimo THEN EOF_FS ELSE t.lista[k]]
  OBVIOUS
<1>6. /\ tabla_fat' = IF t.rama = "MAS" /\ t.i = 1 /\ t.bloque # t.lista[1]
                      THEN [e EXCEPT ![t.bloque] = t.lista[1]] ELSE e
      /\ Sigue(h, [t EXCEPT !.i = @ + 1,
                            !.pc = IF ~ultimo THEN "ENLAZAR"
                                   ELSE IF t.rama = "CERO" THEN "FIJAR" ELSE "RESPONDER"])
  BY <1>2, <1>4, <1>5, <1>a, Zenon DEF Enlazar
<1>7. PICK pc : pc = IF ~ultimo THEN "ENLAZAR"
                                   ELSE IF t.rama = "CERO" THEN "FIJAR" ELSE "RESPONDER"
  OBVIOUS
<1>8. tabla_fat' \in [Bloques -> Bloques \cup {EOF_FS}]
  <2>1. e \in [Bloques -> Bloques \cup {EOF_FS}]
    BY <1>4, <1>5, <1>b DEF Tipos, TypeOK
  <2> QED BY <1>3, <1>6, <1>b, <2>1
<1> DEFINE nuevo == [t EXCEPT !.i = k, !.pc = pc]
<1>9. Sigue(h, nuevo)
  BY <1>6, <1>7, <1>a, Zenon
<1>10. pc \in {"ENLAZAR", "FIJAR", "RESPONDER"} /\ (pc = "ENLAZAR" => ~ultimo)
  BY <1>7
<1>11. /\ nuevo \in Hilados /\ nuevo.op = t.op /\ nuevo.archivo = t.archivo
       /\ nuevo.pc = pc /\ nuevo.rama = t.rama /\ nuevo.bloque = t.bloque
       /\ nuevo.i = k /\ nuevo.lista = t.lista
  BY <1>10 DEF Hilados
<1> HIDE DEF nuevo
<1>12. Local(nuevo)
  BY <1>2, <1>3, <1>4, <1>b, <1>10, <1>11 DEF Local
<1> QED BY <1>1, <1>2, <1>8, <1>9, <1>11, <1>12, TiposDePaso

LEMMA TiposDeFijar ==
  ASSUME Tipos, NEW h \in Hilos, Fijar(h)
  PROVE  Tipos'
<1>1. /\ hilo[h] # Libre /\ hilo[h].pc = "FIJAR"
      /\ UNCHANGED <<tabla_fat, filesystem, contadores, historia>>
  BY Zenon, SirveNoLibre DEF Fijar
<1>2. PICK t \in Hilados : t = hilo[h] /\ Local(t)
  BY PedidoDeHilo
<1>3. t.archivo \in Nombres /\ Existe(t.archivo) /\ t.op \in {"F_TRUNCATE", "F_WRITE"}
  BY <1>1, <1>2, PedidoDeHilo
<1>4. t.lista[1] \in Bloques
  <2>1. t.lista \in Seq(Bloques) /\ t.lista # <<>>
    BY <1>1, <1>2 DEF Local, Hilados
  <2> QED BY <2>1, EmptySeq
<1>5. fcbs' = [fcbs EXCEPT ![t.archivo] = [fcbs[t.archivo] EXCEPT !.bloque_inicial = t.lista[1]]]
  BY <1>2 DEF Fijar
<1>6. /\ fcbs' \in [Nombres -> Fcbs \cup {NULL}]
      /\ \A g \in Nombres : fcbs[g] # NULL => fcbs'[g] # NULL
  <2>1. [fcbs[t.archivo] EXCEPT !.bloque_inicial = t.lista[1]] \in Fcbs
    BY <1>3, <1>4, FcbDeExistente DEF Tipos, Fcbs
  <2>2. [fcbs[t.archivo] EXCEPT !.bloque_inicial = t.lista[1]] # NULL
    BY <2>1, FcbNoEsNull
  <2> QED BY <1>5, <2>1, <2>2 DEF Tipos, TypeOK
<1> DEFINE nuevo == [t EXCEPT !.pc = "RESPONDER"]
<1>7. Sigue(h, nuevo)
  BY <1>2 DEF Fijar
<1>8. /\ nuevo \in Hilados /\ nuevo.op = t.op /\ nuevo.archivo = t.archivo
      /\ nuevo.pc = "RESPONDER" /\ nuevo.rama = t.rama /\ nuevo.bloque = t.bloque
  BY DEF Hilados
<1> HIDE DEF nuevo
<1>9. Local(nuevo)
  BY <1>2, <1>8 DEF Local
<1>10. fcbs'[t.archivo] # NULL
  BY <1>3, <1>6 DEF Existe
<1>11. /\ tabla_fat' \in [Bloques -> Bloques \cup {EOF_FS}] /\ filesystem' \in {"VIVO", "CAIDO"}
       /\ reinicios' \in 0..MaxReinicios /\ pedidos' \in 0..MaxPedidos /\ historia' \in Historias
  BY <1>1 DEF Tipos, TypeOK, contadores
<1> QED BY <1>3, <1>6, <1>7, <1>8, <1>9, <1>10, <1>11, TiposDeSigue

LEMMA TiposDeReducir ==
  ASSUME Tipos, NEW h \in Hilos, Reducir(h)
  PROVE  Tipos'
<1>1. /\ hilo[h] # Libre /\ hilo[h].pc = "REDUCIR"
      /\ UNCHANGED <<contadores, historia>>
  BY Zenon, SirveNoLibre DEF Reducir
<1>2. PICK t \in Hilados : t = hilo[h] /\ Local(t)
  BY PedidoDeHilo
<1>3. t.bloque \in Bloques /\ t.cant \in Nat
  BY <1>1, <1>2 DEF Local, Hilados
<1>4. \/ /\ t.cant > 0 /\ tabla_fat' = [tabla_fat EXCEPT ![t.bloque] = 0]
         /\ IF t.unico THEN Caer ELSE Sigue(h, [t EXCEPT !.cant = @ - 1]) /\ Vive
      \/ /\ tabla_fat' = [tabla_fat EXCEPT ![t.bloque] = EOF_FS]
         /\ Sigue(h, [t EXCEPT !.pc = "RESPONDER"]) /\ Vive
  BY <1>2, Zenon DEF Reducir
<1>5. tabla_fat' \in [Bloques -> Bloques \cup {EOF_FS}]
  BY <1>3, <1>4, CeroEsBloque DEF Tipos, TypeOK
<1>6. ASSUME t.cant > 0, Sigue(h, [t EXCEPT !.cant = @ - 1]), Vive
      PROVE  Tipos'
  <2> DEFINE nuevo == [t EXCEPT !.cant = @ - 1]
  <2>1. /\ nuevo \in Hilados /\ nuevo.op = t.op /\ nuevo.archivo = t.archivo
        /\ nuevo.pc = "REDUCIR" /\ nuevo.rama = t.rama /\ nuevo.bloque = t.bloque
    BY <1>1, <1>2, <1>3, <1>6 DEF Hilados
  <2>2. Sigue(h, nuevo)
    BY <1>6
  <2> HIDE DEF nuevo
  <2>3. Local(nuevo)
    BY <1>3, <2>1 DEF Local
  <2> QED BY <1>1, <1>2, <1>5, <1>6, <2>1, <2>2, <2>3, TiposDePaso
<1>7. ASSUME Sigue(h, [t EXCEPT !.pc = "RESPONDER"]), Vive
      PROVE  Tipos'
  <2> DEFINE nuevo == [t EXCEPT !.pc = "RESPONDER"]
  <2>1. /\ nuevo \in Hilados /\ nuevo.op = t.op /\ nuevo.archivo = t.archivo
        /\ nuevo.pc = "RESPONDER" /\ nuevo.rama = t.rama /\ nuevo.bloque = t.bloque
    BY DEF Hilados
  <2>2. Sigue(h, nuevo)
    BY <1>7
  <2> HIDE DEF nuevo
  <2>3. Local(nuevo)
    BY <1>3, <2>1 DEF Local
  <2> QED BY <1>1, <1>2, <1>5, <1>7, <2>1, <2>2, <2>3, TiposDePaso
<1>8. Caer => Tipos'
  BY <1>1, <1>5, TiposDePaso
<1> QED BY <1>4, <1>6, <1>7, <1>8

LEMMA TiposDeResponder ==
  ASSUME Tipos, NEW h \in Hilos, Responder(h)
  PROVE  Tipos'
<1>1. /\ hilo[h] # Libre /\ UNCHANGED <<tabla_fat, contadores, historia>>
      /\ (Sigue(h, Libre) /\ Vive) \/ Caer
  BY Zenon, SirveNoLibre DEF Responder
<1> QED BY <1>1, TiposDePaso DEF Tipos, TypeOK

LEMMA TiposDeDesplazar ==
  ASSUME Tipos, NEW h \in Hilos, Desplazar(h)
  PROVE  Tipos'
<1>1. /\ hilo[h] # Libre /\ hilo[h].pc = "DESPLAZAR"
      /\ UNCHANGED <<tabla_fat, contadores, historia>>
  BY Zenon, SirveNoLibre DEF Desplazar
<1>2. PICK t \in Hilados : t = hilo[h] /\ Local(t)
  BY PedidoDeHilo
<1>3. t.bloque \in Bloques /\ t.cant \in Nat \ {0}
  BY <1>1, <1>2 DEF Local, Hilados
<1>4. PICK b \in Bloques \cup {EOF_FS} : b = tabla_fat[t.bloque]
  BY <1>3 DEF Tipos, TypeOK
<1>5. PICK n \in Nat : n = t.cant - 1
  BY <1>3
<1>6. PICK pc : pc = IF t.cant = 1 THEN "EN_MEMORIA" ELSE "DESPLAZAR"
  OBVIOUS
<1> DEFINE nuevo == [t EXCEPT !.bloque = b, !.cant = n, !.pc = pc]
<1>7. IF t.cant > 1 /\ b \notin Bloques THEN Caer ELSE Sigue(h, nuevo) /\ Vive
  BY <1>2, <1>4, <1>5, <1>6, Zenon DEF Desplazar
<1>8. /\ nuevo \in Hilados /\ nuevo.op = t.op /\ nuevo.archivo = t.archivo
      /\ nuevo.pc = pc /\ nuevo.rama = t.rama /\ nuevo.bloque = b /\ nuevo.cant = n
  BY <1>6 DEF Hilados
<1> HIDE DEF nuevo
<1>9. t.cant = 1 \/ b \in Bloques => Local(nuevo)
  BY <1>3, <1>5, <1>6, <1>8 DEF Local
<1>10. CASE t.cant > 1 /\ b \notin Bloques
  BY <1>1, <1>7, <1>10, TiposDePaso DEF Tipos, TypeOK
<1>11. CASE ~(t.cant > 1 /\ b \notin Bloques)
  <2>1. t.cant = 1 \/ b \in Bloques
    BY <1>3, <1>11
  <2> QED BY <1>1, <1>2, <1>7, <1>8, <1>9, <1>11, <2>1, TiposDePaso DEF Tipos, TypeOK
<1> QED BY <1>10, <1>11

LEMMA TiposDeEscribir ==
  ASSUME Tipos, NEW h \in Hilos, Escribir(h)
  PROVE  Tipos'
<1>1. /\ hilo[h] # Libre /\ UNCHANGED <<tabla_fat, contadores, historia>>
      /\ (Sigue(h, Libre) /\ Vive) \/ Caer
  BY Zenon, SirveNoLibre DEF Escribir
<1> QED BY <1>1, TiposDePaso DEF Tipos, TypeOK

LEMMA TiposDeReiniciar ==
  ASSUME Tipos, Reiniciar
  PROVE  Tipos'
<1>1. /\ hilo' = [h \in Hilos |-> Libre] /\ fcbs' = [f \in Nombres |-> NULL]
      /\ filesystem' = "VIVO" /\ pedidos' = pedidos /\ historia' = SinHistoria
      /\ tabla_fat' = [tabla_fat EXCEPT ![0] = EOF_FS]
      /\ reinicios < MaxReinicios /\ reinicios' = reinicios + 1
  BY DEF Reiniciar
<1>2. tabla_fat' \in [Bloques -> Bloques \cup {EOF_FS}]
  BY <1>1 DEF Tipos, TypeOK
<1>3. reinicios' \in 0..MaxReinicios /\ pedidos' \in 0..MaxPedidos /\ historia' \in Historias
  BY <1>1, ConstantesFat DEF Tipos, TypeOK, Historias, SinHistoria
<1> QED BY <1>1, <1>2, <1>3, TiposDeCaer

LEMMA TiposDeNada ==
  ASSUME Tipos, UNCHANGED vars
  PROVE  Tipos'
<1>1. TypeOK' /\ Sirven'
  BY DEF Tipos, TypeOK, Sirven, Trunca, Escribe, Existe, vars, contadores
<1>2. \A h \in Hilos : Local(hilo[h])'
  BY DEF Tipos, Local, vars
<1> QED BY <1>1, <1>2 DEF Tipos

LEMMA TiposSeConservan ==
  ASSUME Tipos, [Next]_vars
  PROVE  Tipos'
<1>1. ASSUME NEW f \in Nombres, CrearFcb(f) PROVE Tipos'
  BY <1>1, TiposDeCrearFcb
<1>2. ASSUME NEW h \in Hilos, NEW f \in Nombres, NEW n \in Tamanios, Truncar(h, f, n) PROVE Tipos'
  BY <1>2, TiposDeTruncar
<1>3. ASSUME NEW h \in Hilos, NEW f \in Nombres, NEW n \in Punteros, BuscarBloque(h, f, n) PROVE Tipos'
  BY <1>3, TiposDeBuscarBloque
<1>4. ASSUME NEW h \in Hilos, Hilo(h) PROVE Tipos'
  <2>1. CASE Elegir(h) BY <2>1, TiposDeElegir
  <2>2. CASE Secuencia(h) BY <2>2, TiposDeSecuencia
  <2>3. CASE Buscar(h) BY <2>3, TiposDeBuscar
  <2>4. CASE Enlazar(h) BY <2>4, TiposDeEnlazar
  <2>5. CASE Fijar(h) BY <2>5, TiposDeFijar
  <2>6. CASE Reducir(h) BY <2>6, TiposDeReducir
  <2>7. CASE Responder(h) BY <2>7, TiposDeResponder
  <2>8. CASE Desplazar(h) BY <2>8, TiposDeDesplazar
  <2>9. CASE Escribir(h) BY <2>9, TiposDeEscribir
  <2> QED BY <1>4, <2>1, <2>2, <2>3, <2>4, <2>5, <2>6, <2>7, <2>8, <2>9 DEF Hilo
<1>5. CASE Reiniciar
  BY <1>5, TiposDeReiniciar
<1>6. CASE UNCHANGED vars
  BY <1>6, TiposDeNada
<1> QED BY <1>1, <1>2, <1>3, <1>4, <1>5, <1>6 DEF Next

-------------------------------------------------------------------------------
(* How the chains change with the table.                                    *)

Tablas == [Bloques -> Bloques \cup {EOF_FS}]

LEMMA BloquesNoSonMarcas ==
  ASSUME NEW x \in Bloques
  PROVE  x \in Nat /\ x # EOF_FS /\ x # Basura
BY ConstantesFat DEF Bloques, EOF_FS, Basura

(* A chain as a function, and its last block.                               *)
LEMMA CadenaComoFuncion ==
  ASSUME NEW c \in Seq(Bloques)
  PROVE  /\ Len(c) \in Nat /\ c \in [1..Len(c) -> Bloques]
         /\ c # <<>> => Len(c) \in 1..Len(c) /\ c[Len(c)] \in Bloques
<1>1. PICK n \in Nat : n = Len(c) /\ c \in [1..n -> Bloques] /\ (c # <<>> => n # 0)
  BY LenProperties, EmptySeq
<1> QED BY <1>1

(* One block more at the end of a chain.                                    *)
LEMMA EnlazadaAlargada ==
  ASSUME NEW T \in Tablas, NEW c \in Seq(Bloques), NEW b, Enlazada(T, c, b),
         NEW x \in Bloques \ {0}, \A k \in 1..Len(c) : c[k] # x,
         NEW y \in {0, EOF_FS}
  PROVE  Enlazada([T EXCEPT ![c[Len(c)]] = x, ![x] = y], Append(c, x), b)
<1> DEFINE T2 == [T EXCEPT ![c[Len(c)]] = x, ![x] = y]
<1>1. PICK n \in Nat \ {0} : n = Len(c) /\ c \in [1..n -> Bloques]
  BY CadenaComoFuncion DEF Enlazada
<1>2. PICK d \in Seq(Bloques) : d = Append(c, x)
  BY AppendProperties
<1>3. /\ Len(d) = n + 1 /\ d[n + 1] = x /\ d # <<>>
      /\ \A k \in 1..n : d[k] = c[k]
  BY <1>1, <1>2, AppendProperties
<1>4. /\ c[1] = b /\ \A k \in 1..n : c[k] # 0 /\ c[k] # x
      /\ \A j, k \in 1..n : c[j] = c[k] => j = k
      /\ \A k \in 1..n-1 : T[c[k]] = c[k + 1]
  BY <1>1 DEF Enlazada
<1>5. T2[x] = y
  BY DEF Tablas
<1>6. ASSUME NEW z \in Bloques, z # x, z # c[n]
      PROVE  T2[z] = T[z]
  BY <1>1, <1>6 DEF Tablas
<1>7. T2[c[n]] = x
  BY <1>1, <1>4 DEF Tablas
<1> HIDE DEF T2
<1>8. d[1] = b /\ \A k \in 1..n+1 : d[k] # 0
  BY <1>3, <1>4
<1>9. ASSUME NEW j \in 1..n+1, NEW k \in 1..n+1, d[j] = d[k]
      PROVE  j = k
  BY <1>3, <1>4, <1>9
<1>10. ASSUME NEW k \in 1..n
       PROVE  T2[d[k]] = d[k + 1]
  <2>1. CASE k = n
    BY <1>3, <1>7, <2>1
  <2>2. CASE k # n
    <3>1. k \in 1..n-1 /\ k + 1 \in 1..n /\ n \in 1..n
      BY <2>2
    <3>2. c[k] \in Bloques /\ c[k] # x /\ c[k] # c[n]
      BY <1>1, <1>4, <2>2, <3>1
    <3>3. T2[c[k]] = c[k + 1]
      BY <1>4, <1>6, <3>1, <3>2
    <3> QED BY <1>3, <3>1, <3>3
  <2> QED BY <2>1, <2>2
<1>11. Enlazada(T2, d, b)
  <2>1. 1..(n + 1) - 1 = 1..n
    OBVIOUS
  <2> QED BY <1>3, <1>5, <1>8, <1>9, <1>10, <2>1 DEF Enlazada
<1> QED BY <1>2, <1>11 DEF T2

(* Tables that agree on the blocks of a chain link it alike.                *)
LEMMA EnlazadaIgual ==
  ASSUME NEW T, NEW U, NEW c \in Seq(Bloques), NEW b,
         \A k \in 1..Len(c) : U[c[k]] = T[c[k]]
  PROVE  /\ Enlazada(T, c, b) => Enlazada(U, c, b)
         /\ \A n : Cubre(T, c, n) => Cubre(U, c, n)
<1>1. PICK n \in Nat : n = Len(c) /\ (c # <<>> => n \in 1..n)
  BY CadenaComoFuncion
<1>2. c # <<>> => U[c[Len(c)]] = T[c[Len(c)]]
  BY <1>1
<1>3. \A k \in 1..n-1 : k \in 1..n
  BY <1>1
<1>4. Enlazada(T, c, b) => Enlazada(U, c, b)
  BY <1>1, <1>2, <1>3 DEF Enlazada
<1>5. \A m : Cubre(T, c, m) => Cubre(U, c, m)
  BY <1>2 DEF Cubre
<1> QED BY <1>4, <1>5

LEMMA CadenasIguales ==
  ASSUME NEW T, NEW U, NEW cad, Cadenas(T, cad),
         \A f \in Nombres : \A k \in 1..Len(cad[f]) : U[cad[f][k]] = T[cad[f][k]]
  PROVE  /\ Cadenas(U, cad)
         /\ \A f \in Nombres : \A n : Cubre(T, cad[f], n) => Cubre(U, cad[f], n)
<1>1. \A f \in Nombres : cad[f] \in Seq(Bloques)
  BY DEF Cadenas
<1>2. ASSUME NEW f \in Nombres
      PROVE  /\ \A b : Enlazada(T, cad[f], b) => Enlazada(U, cad[f], b)
             /\ \A n : Cubre(T, cad[f], n) => Cubre(U, cad[f], n)
  BY <1>1, EnlazadaIgual
<1> QED BY <1>2 DEF Cadenas

(* A file takes the block x, which ends its chain with y.                   *)
Alarga(T, U, cad, nuevas, f, x, y) ==
  /\ T \in Tablas /\ Cadenas(T, cad) /\ f \in Nombres /\ cad[f] # <<>>
  /\ x \in Bloques \ {0} /\ Ajeno(x, cad) /\ y \in {0, EOF_FS}
  /\ U = [T EXCEPT ![cad[f][Len(cad[f])]] = x, ![x] = y]
  /\ nuevas = [cad EXCEPT ![f] = Append(cad[f], x)]

LEMMA CadenasAlargadas ==
  ASSUME NEW T, NEW U, NEW cad, NEW nuevas, NEW f, NEW x, NEW y, Alarga(T, U, cad, nuevas, f, x, y)
  PROVE  /\ U \in Tablas /\ Cadenas(U, nuevas)
         /\ \A g \in Nombres \ {f} : /\ nuevas[g] = cad[g]
                                     /\ \A n : Cubre(T, cad[g], n) => Cubre(U, cad[g], n)
         /\ \A z \in Bloques : Ajeno(z, cad) /\ z # x => Ajeno(z, nuevas) /\ U[z] = T[z]
<1> SUFFICES
      ASSUME T \in Tablas, Cadenas(T, cad), f \in Nombres, cad[f] # <<>>,
             x \in Bloques \ {0}, Ajeno(x, cad), y \in {0, EOF_FS},
             U = [T EXCEPT ![cad[f][Len(cad[f])]] = x, ![x] = y],
             nuevas = [cad EXCEPT ![f] = Append(cad[f], x)]
      PROVE  /\ U \in Tablas /\ Cadenas(U, nuevas)
             /\ \A g \in Nombres \ {f} : /\ nuevas[g] = cad[g]
                                         /\ \A n : Cubre(T, cad[g], n) => Cubre(U, cad[g], n)
             /\ \A z \in Bloques : Ajeno(z, cad) /\ z # x => Ajeno(z, nuevas) /\ U[z] = T[z]
  BY Zenon DEF Alarga
<1>1. cad \in [Nombres -> Seq(Bloques)]
  BY DEF Cadenas
<1>2. PICK c \in Seq(Bloques) : c = cad[f] /\ c # <<>>
  BY <1>1
<1>3. PICK n \in Nat \ {0} : n = Len(c) /\ c \in [1..n -> Bloques]
  <2>1. Len(c) \in Nat /\ c \in [1..Len(c) -> Bloques] /\ Len(c) \in 1..Len(c)
    BY <1>2, CadenaComoFuncion, Zenon
  <2> QED BY <2>1
<1>4. PICK d \in Seq(Bloques) : d = Append(c, x)
  BY AppendProperties
<1>5. Len(d) = n + 1 /\ d[n + 1] = x /\ \A k \in 1..n : d[k] = c[k]
  BY <1>3, <1>4, AppendProperties
<1>6. /\ nuevas \in [Nombres -> Seq(Bloques)] /\ nuevas[f] = d
      /\ \A g \in Nombres \ {f} : nuevas[g] = cad[g]
  BY <1>1, <1>2, <1>4
<1>7. U = [T EXCEPT ![c[n]] = x, ![x] = y] /\ c[n] \in Bloques
  BY <1>2, <1>3
<1>8. U \in Tablas
  BY <1>7, CeroEsBloque DEF Tablas
<1>9. \A z \in Bloques : z # x /\ z # c[n] => U[z] = T[z]
  BY <1>7 DEF Tablas
<1>10. \A k \in 1..n : c[k] # x
  BY <1>2, <1>3 DEF Ajeno
<1>11. ASSUME NEW g \in Nombres \ {f}
       PROVE  \A k \in 1..Len(cad[g]) : U[cad[g][k]] = T[cad[g][k]] /\ cad[g][k] # x
  <2>1. PICK e \in Seq(Bloques) : e = cad[g]
    BY <1>1
  <2>2. e \in [1..Len(e) -> Bloques]
    BY CadenaComoFuncion
  <2>3. \A k \in 1..Len(e) : e[k] # x
    BY <2>1 DEF Ajeno
  <2>4. \A k \in 1..Len(e) : e[k] # c[n]
    <3>1. n \in 1..Len(c)
      BY <1>3
    <3> QED BY <1>2, <2>1, <3>1 DEF Cadenas
  <2> QED BY <1>9, <2>1, <2>2, <2>3, <2>4
<1>12. ASSUME NEW g \in Nombres \ {f}
       PROVE  /\ \A b : Enlazada(T, cad[g], b) => Enlazada(U, cad[g], b)
              /\ \A m : Cubre(T, cad[g], m) => Cubre(U, cad[g], m)
  <2>1. cad[g] \in Seq(Bloques)
    BY <1>1
  <2>2. \A k \in 1..Len(cad[g]) : U[cad[g][k]] = T[cad[g][k]]
    BY <1>11, Zenon
  <2>3. ASSUME NEW b, Enlazada(T, cad[g], b)
        PROVE  Enlazada(U, cad[g], b)
    BY <2>1, <2>2, <2>3, EnlazadaIgual, Zenon
  <2>4. ASSUME NEW m, Cubre(T, cad[g], m)
        PROVE  Cubre(U, cad[g], m)
    BY <2>1, <2>2, <2>4, EnlazadaIgual, Zenon
  <2> QED BY <2>3, <2>4, Zenon
<1>13. ConBloques(f) /\ Enlazada(T, c, fcbs[f].bloque_inicial)
  BY <1>2 DEF Cadenas
<1>14. Enlazada(U, d, fcbs[f].bloque_inicial)
  <2>1. ASSUME NEW b, Enlazada(T, c, b)
        PROVE  Enlazada(U, d, b)
    <3>1. \A k \in 1..Len(c) : c[k] # x
      BY <1>3, <1>10
    <3>2. Enlazada([T EXCEPT ![c[Len(c)]] = x, ![x] = y], Append(c, x), b)
      BY <2>1, <3>1, EnlazadaAlargada
    <3> QED BY <3>2, <1>3, <1>4, <1>7
  <2> QED BY <1>13, <2>1
<1>15. ASSUME NEW g \in Nombres \ {f}, NEW j \in 1..Len(d), NEW k \in 1..Len(cad[g])
       PROVE  d[j] # cad[g][k]
  <2>1. CASE j = n + 1
    BY <1>5, <1>11, <2>1
  <2>2. CASE j # n + 1
    <3>1. j \in 1..n /\ d[j] = c[j]
      BY <1>5, <2>2
    <3> QED BY <3>1, <1>2, <1>3 DEF Cadenas
  <2> QED BY <2>1, <2>2
<1>16. Cadenas(U, nuevas)
  <2>1. ASSUME NEW g \in Nombres
        PROVE  IF ConBloques(g) THEN Enlazada(U, nuevas[g], fcbs[g].bloque_inicial)
               ELSE nuevas[g] = <<>>
    <3>1. CASE g = f
      BY <3>1, <1>6, <1>13, <1>14
    <3>2. CASE g # f
      <4>1. nuevas[g] = cad[g]
        BY <3>2, <1>6
      <4> QED BY <3>2, <4>1, <1>12 DEF Cadenas
    <3> QED BY <3>1, <3>2
  <2>2. ASSUME NEW g \in Nombres, NEW h \in Nombres, g # h,
               NEW j \in 1..Len(nuevas[g]), NEW k \in 1..Len(nuevas[h])
        PROVE  nuevas[g][j] # nuevas[h][k]
    <3>1. CASE g = f
      <4>1. h \in Nombres \ {f} /\ nuevas[g] = d /\ nuevas[h] = cad[h]
        BY <3>1, <2>2, <1>6
      <4> QED BY <4>1, <2>2, <1>15
    <3>2. CASE h = f
      <4>1. g \in Nombres \ {f} /\ nuevas[h] = d /\ nuevas[g] = cad[g]
        BY <3>2, <2>2, <1>6
      <4>2. d[k] # cad[g][j]
        BY <4>1, <2>2, <1>15
      <4> QED BY <4>1, <4>2
    <3>3. CASE g # f /\ h # f
      BY <3>3, <2>2, <1>6 DEF Cadenas
    <3> QED BY <3>1, <3>2, <3>3
  <2> QED BY <1>6, <2>1, <2>2 DEF Cadenas
<1>17. ASSUME NEW z \in Bloques, Ajeno(z, cad), z # x
       PROVE  Ajeno(z, nuevas) /\ U[z] = T[z]
  <2>1. ASSUME NEW g \in Nombres, NEW k \in 1..Len(nuevas[g])
        PROVE  nuevas[g][k] # z
    <3>1. CASE g = f
      <4>1. k \in 1..n+1 /\ nuevas[g][k] = d[k]
        BY <1>5, <1>6, <3>1
      <4>2. CASE k = n + 1
        BY <4>1, <4>2, <1>5, <1>17
      <4>3. CASE k # n + 1
        <5>1. k \in 1..n
          BY <4>1, <4>3
        <5> QED BY <4>1, <5>1, <1>2, <1>3, <1>5, <1>17 DEF Ajeno
      <4> QED BY <4>2, <4>3
    <3>2. CASE g # f
      BY <3>2, <1>6, <1>17 DEF Ajeno
    <3> QED BY <3>1, <3>2
  <2>2. z # c[n]
    <3>1. n \in 1..Len(c)
      BY <1>3
    <3> QED BY <3>1, <1>2, <1>17 DEF Ajeno
  <2> QED BY <2>1, <2>2, <1>9, <1>17 DEF Ajeno
<1> QED BY <1>6, <1>8, <1>12, <1>16, <1>17

(* The last block u of a file is written: its chain still ends there.       *)
Reescribe(T, U, cad, f, u) ==
  /\ Cadenas(T, cad) /\ f \in Nombres /\ cad[f] # <<>> /\ u = cad[f][Len(cad[f])]
  /\ U[u] \in {0, EOF_FS} /\ \A z \in Bloques : z # u => U[z] = T[z]

LEMMA CadenasReescritas ==
  ASSUME NEW T, NEW U, NEW cad, NEW f, NEW u, Reescribe(T, U, cad, f, u)
  PROVE  /\ Cadenas(U, cad) /\ u # 0
         /\ \A g \in Nombres \ {f} : \A n : Cubre(T, cad[g], n) => Cubre(U, cad[g], n)
<1>0. /\ Cadenas(T, cad) /\ f \in Nombres /\ cad[f] # <<>> /\ u = cad[f][Len(cad[f])]
      /\ U[u] \in {0, EOF_FS} /\ \A z \in Bloques : z # u => U[z] = T[z]
  BY DEF Reescribe
<1>1. PICK c \in Seq(Bloques) : c = cad[f] /\ c # <<>>
  BY <1>0 DEF Cadenas
<1>2. PICK l \in Nat : l = Len(c) /\ l \in 1..l /\ c \in [1..l -> Bloques] /\ c[l] \in Bloques
  BY <1>1, CadenaComoFuncion
<1>3. u = c[l]
  BY <1>0, <1>1, <1>2
<1>4. \A z \in Bloques : z # u => U[z] = T[z]
  BY <1>0
<1>5. ConBloques(f) /\ Enlazada(T, c, fcbs[f].bloque_inicial)
  BY <1>0, <1>1 DEF Cadenas
<1>6. u # 0
  BY <1>2, <1>3, <1>5 DEF Enlazada
<1>7. ASSUME NEW g \in Nombres \ {f}
      PROVE  /\ \A b : Enlazada(T, cad[g], b) => Enlazada(U, cad[g], b)
             /\ \A n : Cubre(T, cad[g], n) => Cubre(U, cad[g], n)
  <2>1. PICK e \in Seq(Bloques) : e = cad[g]
    BY <1>0 DEF Cadenas
  <2>2. \A k \in 1..Len(e) : e[k] \in Bloques
    BY CadenaComoFuncion
  <2>3. \A k \in 1..Len(e) : e[k] # c[l]
    BY <1>0, <1>1, <1>2, <2>1 DEF Cadenas
  <2>4. \A k \in 1..Len(e) : U[e[k]] = T[e[k]]
    BY <1>3, <1>4, <2>2, <2>3
  <2> QED BY <2>1, <2>4, EnlazadaIgual
<1>8. Enlazada(U, c, fcbs[f].bloque_inicial)
  <2>1. U[c[l]] \in {0, EOF_FS}
    BY <1>0, <1>3
  <2>2. ASSUME NEW k \in 1..l-1
        PROVE  U[c[k]] = c[k + 1]
    <3>1. k \in 1..l /\ k # l
      OBVIOUS
    <3>2. c[k] # c[l]
      BY <1>2, <1>5, <3>1 DEF Enlazada
    <3>3. c[k] \in Bloques
      BY <1>2, <3>1
    <3> QED BY <1>2, <1>3, <1>4, <1>5, <3>2, <3>3 DEF Enlazada
  <2> QED BY <1>2, <1>5, <2>1, <2>2 DEF Enlazada
<1>9. ASSUME NEW g \in Nombres
      PROVE  IF ConBloques(g) THEN Enlazada(U, cad[g], fcbs[g].bloque_inicial)
             ELSE cad[g] = <<>>
  <2>1. CASE g = f
    BY <2>1, <1>1, <1>5, <1>8
  <2>2. CASE g # f
    BY <2>2, <1>0, <1>7 DEF Cadenas
  <2> QED BY <2>1, <2>2
<1>10. Cadenas(U, cad)
  BY <1>0, <1>9 DEF Cadenas
<1> QED BY <1>6, <1>7, <1>10

-------------------------------------------------------------------------------
(* The steps that leave the chains as they are.                             *)

(* d begins with the blocks of c.                                           *)
Prolonga(c, d) == Len(c) <= Len(d) /\ \A k \in 1..Len(c) : d[k] = c[k]

(* In a step the files keep the blocks they have data in.                   *)
Continua(cad, nuevas) ==
  \A f \in Nombres : Prolonga(cad[f], nuevas[f]) \/ ConDatos(f) = 0 \/ fcbs'[f] = NULL

LEMMA ProlongaASiMisma ==
  ASSUME NEW T, NEW cad, Cadenas(T, cad), NEW f \in Nombres
  PROVE  Prolonga(cad[f], cad[f])
<1>1. cad[f] \in Seq(Bloques)
  BY DEF Cadenas
<1>2. PICK n \in Nat : n = Len(cad[f])
  BY <1>1
<1> QED BY <1>2 DEF Prolonga

(* A free block is in no chain: each of them ends in EOF.                   *)
LEMMA NingunoLibre ==
  ASSUME Tipos, NEW cad, Sanas(cad), NEW x \in Bloques, tabla_fat[x] = 0,
         \A g \in Nombres : Truncando(g) => \E n : Cubre(tabla_fat, cad[g], n)
  PROVE  Ajeno(x, cad) /\ x # 0
<1>1. Cadenas(tabla_fat, cad) /\ tabla_fat[0] = EOF_FS /\ Enteras(cad)
  BY DEF Sanas
<1>2. ASSUME NEW g \in Nombres, NEW k \in 1..Len(cad[g])
      PROVE  cad[g][k] # x
  <2>1. PICK c \in Seq(Bloques) : c = cad[g]
    BY <1>1 DEF Cadenas
  <2>2. PICK n \in Nat : n = Len(c) /\ c \in [1..n -> Bloques]
    BY CadenaComoFuncion
  <2>3. k \in 1..n /\ c # <<>>
    BY <1>2, <2>1, <2>2
  <2>4. ConBloques(g) /\ Enlazada(tabla_fat, c, fcbs[g].bloque_inicial)
    BY <1>1, <2>1, <2>3 DEF Cadenas
  <2>5. tabla_fat[c[n]] = EOF_FS
    <3>1. PICK m : Cubre(tabla_fat, c, m)
      BY <1>1, <2>1, <2>4 DEF Enteras, ConBloques
    <3> QED BY <3>1, <2>2, <2>3 DEF Cubre
  <2>6. CASE k = n
    BY <2>1, <2>5, <2>6 DEF EOF_FS
  <2>7. CASE k # n
    <3>1. k \in 1..n-1 /\ k + 1 \in 1..n
      BY <2>3, <2>7
    <3>2. tabla_fat[c[k]] = c[k + 1] /\ c[k + 1] # 0
      BY <2>2, <2>4, <3>1 DEF Enlazada
    <3> QED BY <2>1, <3>2
  <2> QED BY <2>6, <2>7
<1>3. x # 0
  BY <1>1 DEF EOF_FS
<1> QED BY <1>2, <1>3 DEF Ajeno

(* After a fall or a restart there are no files.                            *)
LEMMA SanasDeCaer ==
  ASSUME NEW cad, hilo' = [t \in Hilos |-> Libre], fcbs' = [f \in Nombres |-> NULL],
         tabla_fat'[0] = EOF_FS
  PROVE  \E nuevas : Sanas(nuevas)' /\ Continua(cad, nuevas)
<1>1. PICK nuevas : nuevas = [f \in Nombres |-> <<>>]
  OBVIOUS
<1>2. \A h \in Hilos : hilo'[h].op = "LIBRE"
  BY LibreEsHilado
<1>3. \A f \in Nombres : fcbs'[f] = NULL /\ nuevas[f] = <<>> /\ Len(nuevas[f]) = 0
  BY <1>1
<1>4. nuevas \in [Nombres -> Seq(Bloques)]
  BY <1>1
<1>5. Cadenas(tabla_fat, nuevas)'
  <2>1. \A f \in Nombres : ~ConBloques(f)'
    BY <1>3 DEF ConBloques, Existe
  <2>2. \A f, g \in Nombres : f # g =>
          \A j \in 1..Len(nuevas[f]), k \in 1..Len(nuevas[g]) : nuevas[f][j] # nuevas[g][k]
    BY <1>3
  <2> QED BY <1>3, <1>4, <2>1, <2>2 DEF Cadenas
<1>6. Enteras(nuevas)'
  BY <1>3 DEF Enteras, Existe
<1>7. Truncaciones(nuevas)' /\ Escrituras(nuevas)'
  BY <1>2 DEF Truncaciones, Escrituras, Trunca, Escribe
<1>8. Continua(cad, nuevas)
  BY <1>3 DEF Continua
<1> QED BY <1>5, <1>6, <1>7, <1>8 DEF Sanas

(* A step of the only truncation there is, of the file f.                   *)
LEMMA PasoDeTruncacion ==
  ASSUME Tipos, NEW cad, Sanas(cad), NEW h \in Hilos, Trunca(h),
         NEW f, f = hilo[h].archivo,
         NEW nuevo \in Hilados, nuevo.op = "F_TRUNCATE", nuevo.archivo = f,
         nuevo.arg = hilo[h].arg, Sigue(h, nuevo), historia' = historia,
         \A g \in Nombres : /\ fcbs'[g] # NULL => fcbs[g] # NULL
                            /\ fcbs[g] # NULL => fcbs'[g].tamanio = fcbs[g].tamanio,
         NEW nuevas, Cadenas(tabla_fat, nuevas)', tabla_fat'[0] = EOF_FS,
         \A g \in Nombres \ {f} :
           /\ nuevas[g] = cad[g]
           /\ \A n : Cubre(tabla_fat, cad[g], n) => Cubre(tabla_fat, cad[g], n)',
         nuevo.pc \in {"ELEGIR", "SECUENCIA", "BUSCAR", "ENLAZAR", "FIJAR", "REDUCIR",
                       "RESPONDER"},
         Avance(tabla_fat, nuevo, nuevas[f], nuevas)'
  PROVE  Sanas(nuevas)'
<1>1. /\ hilo' = [hilo EXCEPT ![h] = nuevo] /\ hilo'[h] = nuevo
      /\ \A g \in Hilos \ {h} : hilo'[g] = hilo[g]
  BY DEF Sigue, Tipos, TypeOK
<1>2. \A g \in Hilos : hilo'[g].op = hilo[g].op /\ hilo'[g].archivo = hilo[g].archivo
  BY <1>1 DEF Trunca
<1>3. \A g \in Nombres : Truncando(g)' <=> Truncando(g)
  BY <1>2 DEF Truncando
<1>4. f \in Nombres /\ fcbs[f] # NULL /\ Truncando(f)
  <2>1. hilo[h] # Libre
    BY LibreEsHilado DEF Trunca
  <2> QED BY <2>1, PedidoDeHilo DEF Existe, Truncando, Trunca
<1>5. \A g \in Hilos : hilo[g].op = "F_TRUNCATE" => g = h
  BY DEF Sanas, Truncaciones, Trunca
<1>6. Enteras(nuevas)'
  <2>1. ASSUME NEW g \in Nombres, fcbs'[g] # NULL, ~Truncando(g)'
        PROVE  Cubre(tabla_fat, nuevas[g], fcbs[g].tamanio)'
    <3>1. g # f /\ Existe(g) /\ ~Truncando(g)
      BY <1>3, <1>4, <2>1 DEF Existe
    <3>2. Cubre(tabla_fat, cad[g], fcbs[g].tamanio)
      BY <3>1 DEF Sanas, Enteras
    <3>3. PICK n : n = fcbs[g].tamanio
      OBVIOUS
    <3>4. Cubre(tabla_fat, nuevas[g], n)'
      BY <3>1, <3>2, <3>3
    <3>5. fcbs'[g].tamanio = n
      BY <3>1, <3>3 DEF Existe
    <3> QED BY <3>4, <3>5 DEF Cubre
  <2> QED BY <2>1 DEF Enteras, Existe
<1>7. Truncaciones(nuevas)'
  <2>1. \A g \in Hilos : hilo'[g].op = "F_TRUNCATE" => g = h
    BY <1>2, <1>5
  <2>2. fcbs'[nuevo.archivo].tamanio = nuevo.arg
    BY <1>4 DEF Sanas, Truncaciones
  <2>3. Avance(tabla_fat, hilo[h], nuevas[hilo[h].archivo], nuevas)'
    BY <1>1
  <2> QED BY <1>1, <2>1, <2>2, <2>3 DEF Truncaciones, Trunca
<1>8. Escrituras(nuevas)'
  <2>1. ASSUME NEW g \in Hilos, hilo'[g].op = "F_WRITE", hilo'[g].archivo \notin historia'.archivos
        PROVE  ~Truncando(hilo[g].archivo)' /\ Camina(hilo[g], nuevas[hilo[g].archivo])'
    <3>1. g # h /\ hilo'[g] = hilo[g] /\ Escribe(g)
      BY <1>1, <2>1 DEF Trunca, Escribe
    <3>2. ~Truncando(hilo[g].archivo) /\ Camina(hilo[g], cad[hilo[g].archivo])
      BY <2>1, <3>1 DEF Sanas, Escrituras
    <3>3. hilo[g].archivo \in Nombres
      <4>1. hilo[g] # Libre
        BY <3>1, LibreEsHilado DEF Escribe
      <4> QED BY <4>1, PedidoDeHilo
    <3>4. hilo[g].archivo # f
      BY <1>4, <3>2
    <3>5. nuevas[hilo[g].archivo] = cad[hilo[g].archivo]
      BY <3>3, <3>4
    <3> QED BY <1>3, <3>1, <3>2, <3>3, <3>5 DEF Camina
  <2> QED BY <2>1 DEF Escrituras, Escribe
<1> QED BY <1>6, <1>7, <1>8 DEF Sanas

(* A step of the truncation that touches neither the FAT nor the FCBs.      *)
LEMMA PasoSinTocar ==
  ASSUME Tipos, NEW cad, Sanas(cad), NEW h \in Hilos, Trunca(h),
         NEW nuevo \in Hilados, nuevo.op = "F_TRUNCATE", nuevo.archivo = hilo[h].archivo,
         nuevo.arg = hilo[h].arg, Sigue(h, nuevo), Vive, UNCHANGED <<tabla_fat, historia>>,
         nuevo.pc \in {"ELEGIR", "SECUENCIA", "BUSCAR", "ENLAZAR", "FIJAR", "REDUCIR",
                       "RESPONDER"},
         Avance(tabla_fat, nuevo, cad[nuevo.archivo], cad)
  PROVE  \E nuevas : Sanas(nuevas)' /\ Continua(cad, nuevas)
<1>1. fcbs' = fcbs /\ tabla_fat' = tabla_fat /\ historia' = historia
  BY DEF Vive
<1>2. Cadenas(tabla_fat, cad) /\ tabla_fat[0] = EOF_FS
  BY DEF Sanas
<1>3. Cadenas(tabla_fat, cad)'
  BY <1>1, <1>2 DEF Cadenas, ConBloques, Existe
<1>4. PICK f : f = nuevo.archivo
  OBVIOUS
<1>5. Avance(tabla_fat, nuevo, cad[f], cad)'
  BY <1>1, <1>4
<1>6. \A g \in Nombres : \A n : Cubre(tabla_fat, cad[g], n) => Cubre(tabla_fat, cad[g], n)'
  BY <1>1
<1>7. Sanas(cad)'
  BY <1>1, <1>2, <1>3, <1>4, <1>5, <1>6, PasoDeTruncacion
<1>8. Continua(cad, cad)
  BY <1>2, ProlongaASiMisma DEF Continua
<1> QED BY <1>7, <1>8

(* A step of a write, or its end: the FAT and the FCBs are as they were.    *)
LEMMA PasoDeEscritura ==
  ASSUME Tipos, NEW cad, Sanas(cad), NEW h \in Hilos, ~Trunca(h),
         NEW nuevo, nuevo.op \in {"LIBRE", "F_WRITE"}, Sigue(h, nuevo), Vive,
         UNCHANGED tabla_fat, historia.archivos \subseteq historia'.archivos,
         nuevo.op = "F_WRITE" /\ nuevo.archivo \notin historia'.archivos =>
           ~Truncando(nuevo.archivo) /\ Camina(nuevo, cad[nuevo.archivo])
  PROVE  \E nuevas : Sanas(nuevas)' /\ Continua(cad, nuevas)
<1>1. /\ hilo'[h] = nuevo /\ \A g \in Hilos \ {h} : hilo'[g] = hilo[g]
      /\ fcbs' = fcbs /\ tabla_fat' = tabla_fat
  BY DEF Sigue, Vive, Tipos, TypeOK
<1>2. \A g \in Hilos : Trunca(g)' => g # h /\ Trunca(g)
  BY <1>1 DEF Trunca
<1>3. \A f : Truncando(f)' <=> Truncando(f)
  BY <1>1 DEF Truncando, Trunca
<1>4. Cadenas(tabla_fat, cad) /\ tabla_fat[0] = EOF_FS /\ Enteras(cad)
  BY DEF Sanas
<1>5. Cadenas(tabla_fat, cad)'
  BY <1>1, <1>4 DEF Cadenas, ConBloques, Existe
<1>6. Enteras(cad)'
  BY <1>1, <1>3, <1>4 DEF Enteras, Existe
<1>7. Truncaciones(cad)'
  BY <1>1, <1>2 DEF Sanas, Truncaciones, Trunca
<1>8. Escrituras(cad)'
  <2>1. ASSUME NEW g \in Hilos, hilo'[g].op = "F_WRITE", hilo'[g].archivo \notin historia'.archivos
        PROVE  ~Truncando(hilo[g].archivo)' /\ Camina(hilo[g], cad[hilo[g].archivo])'
    <3>1. CASE g = h
      BY <1>1, <1>3, <2>1, <3>1
    <3>2. CASE g # h
      <4>1. hilo'[g] = hilo[g] /\ hilo[g].archivo \notin historia.archivos
        BY <1>1, <2>1, <3>2
      <4> QED BY <1>3, <2>1, <4>1 DEF Sanas, Escrituras, Escribe
    <3> QED BY <3>1, <3>2
  <2> QED BY <2>1 DEF Escrituras, Escribe
<1>9. Continua(cad, cad)
  BY <1>4, ProlongaASiMisma DEF Continua
<1> QED BY <1>1, <1>4, <1>5, <1>6, <1>7, <1>8, <1>9 DEF Sanas

LEMMA SanasDeNada ==
  ASSUME Tipos, NEW cad, Sanas(cad), UNCHANGED <<tabla_fat, fcbs, hilo, historia>>
  PROVE  \E nuevas : Sanas(nuevas)' /\ Continua(cad, nuevas)
<1>1. Sanas(cad)'
  BY DEF Sanas, Cadenas, ConBloques, Existe, Enteras, Truncando, Truncaciones, Trunca,
         Escrituras, Escribe
<1>2. Continua(cad, cad)
  BY ProlongaASiMisma DEF Continua, Sanas
<1> QED BY <1>1, <1>2

LEMMA SanasDeCrearFcb ==
  ASSUME Tipos, NEW cad, Sanas(cad), NEW f \in Nombres, CrearFcb(f)
  PROVE  \E nuevas : Sanas(nuevas)' /\ Continua(cad, nuevas)
<1>1. /\ fcbs[f] = NULL /\ fcbs' = [fcbs EXCEPT ![f] = [tamanio |-> 0, bloque_inicial |-> Basura]]
      /\ UNCHANGED <<tabla_fat, hilo, historia>>
  BY DEF CrearFcb, Existe
<1>2. /\ fcbs'[f].tamanio = 0 /\ fcbs'[f].bloque_inicial = Basura
      /\ \A g \in Nombres \ {f} : fcbs'[g] = fcbs[g]
  BY <1>1 DEF Tipos, TypeOK
<1>3. ~ConBloques(f) /\ ~ConBloques(f)'
  BY <1>1, <1>2, BloquesNoSonMarcas DEF ConBloques, Existe
<1>4. /\ Cadenas(tabla_fat, cad) /\ tabla_fat[0] = EOF_FS /\ Enteras(cad)
      /\ Truncaciones(cad) /\ Escrituras(cad)
  BY DEF Sanas
<1>5. cad[f] = <<>>
  BY <1>3, <1>4 DEF Cadenas
<1>6. Cadenas(tabla_fat, cad)'
  <2>1. \A g \in Nombres \ {f} : ConBloques(g)' <=> ConBloques(g)
    BY <1>2 DEF ConBloques, Existe
  <2>2. ASSUME NEW g \in Nombres
        PROVE  IF ConBloques(g)' THEN Enlazada(tabla_fat', cad[g], fcbs'[g].bloque_inicial)
               ELSE cad[g] = <<>>
    <3>1. CASE g = f
      BY <3>1, <1>3, <1>5
    <3>2. CASE g # f
      BY <3>2, <2>1, <1>1, <1>2, <1>4 DEF Cadenas
    <3> QED BY <3>1, <3>2
  <2> QED BY <2>2, <1>4 DEF Cadenas
<1>7. \A g : Truncando(g)' <=> Truncando(g)
  BY <1>1 DEF Truncando
<1>8. Enteras(cad)'
  <2>1. ASSUME NEW g \in Nombres, fcbs'[g] # NULL, ~Truncando(g)'
        PROVE  Cubre(tabla_fat, cad[g], fcbs[g].tamanio)'
    <3>1. CASE g = f
      <4>1. 0 \div TAM_BLOQUE = 0
        BY ConstantesFat
      <4> QED BY <3>1, <4>1, <1>2, <1>5 DEF Cubre
    <3>2. CASE g # f
      BY <3>2, <2>1, <1>1, <1>2, <1>4, <1>7 DEF Enteras, Existe
    <3> QED BY <3>1, <3>2
  <2> QED BY <2>1 DEF Enteras, Existe
<1>9. \A h \in Hilos : Trunca(h) => hilo[h].archivo \in Nombres \ {f}
  <2>1. \A h \in Hilos : Trunca(h) => hilo[h] # Libre
    BY LibreEsHilado DEF Trunca
  <2> QED BY <1>1, <2>1, PedidoDeHilo DEF Existe
<1>10. Truncaciones(cad)'
  BY <1>1, <1>2, <1>4, <1>9 DEF Truncaciones, Trunca
<1>11. Escrituras(cad)'
  BY <1>1, <1>4, <1>7 DEF Escrituras, Escribe
<1>12. Continua(cad, cad)
  BY <1>4, ProlongaASiMisma DEF Continua
<1> QED BY <1>1, <1>4, <1>6, <1>8, <1>10, <1>11, <1>12 DEF Sanas

(* A truncation starts alone, or nothing is promised any more.              *)
LEMMA SanasDeTruncar ==
  ASSUME Tipos, NEW cad, Sanas(cad), NEW h \in Hilos, NEW f \in Nombres, NEW n \in Tamanios,
         Truncar(h, f, n), Limpio'
  PROVE  \E nuevas : Sanas(nuevas)' /\ Continua(cad, nuevas)
<1>1. /\ hilo[h] = Libre /\ fcbs[f] # NULL /\ UNCHANGED tabla_fat
      /\ historia' = Mezcla(h, "F_TRUNCATE", f)
  BY DEF Truncar, Pide, Existe
<1>2. n \in Nat
  BY ConstantesFat
<1>3. PICK v \in Nat : v = fcbs[f].tamanio
  BY <1>1, FcbDeExistente DEF Tipos, Existe
<1>4. PICK nuevo : nuevo = [Libre EXCEPT !.op = "F_TRUNCATE", !.archivo = f, !.arg = n,
                                         !.viejo = v, !.pc = "ELEGIR"]
  OBVIOUS
<1>5. /\ nuevo.op = "F_TRUNCATE" /\ nuevo.archivo = f /\ nuevo.arg = n /\ nuevo.viejo = v
      /\ nuevo.pc = "ELEGIR"
  BY <1>4 DEF Libre
<1>6. Sigue(h, nuevo)
  BY <1>3, <1>4, Zenon DEF Truncar
<1>7. hilo'[h] = nuevo /\ \A g \in Hilos \ {h} : hilo'[g] = hilo[g]
  BY <1>6 DEF Sigue, Tipos, TypeOK
<1>8. /\ fcbs'[f] # NULL /\ fcbs'[f].tamanio = n
      /\ fcbs'[f].bloque_inicial = fcbs[f].bloque_inicial
      /\ \A g \in Nombres \ {f} : fcbs'[g] = fcbs[g]
  <2>1. fcbs' = [fcbs EXCEPT ![f] = [fcbs[f] EXCEPT !.tamanio = n]] /\ fcbs[f] \in Fcbs
    BY <1>1, FcbDeExistente DEF Truncar, Tipos, Existe
  <2>2. PICK x \in Fcbs : x = [fcbs[f] EXCEPT !.tamanio = n]
    BY <1>2, <2>1 DEF Fcbs
  <2>3. x # NULL /\ x.tamanio = n /\ x.bloque_inicial = fcbs[f].bloque_inicial
    BY <2>1, <2>2, FcbNoEsNull DEF Fcbs
  <2> QED BY <2>1, <2>2, <2>3 DEF Tipos, TypeOK
<1>9. \A o \in Hilos \ {h} : hilo[o].op # "F_TRUNCATE"
  <2>1. SUFFICES ASSUME NEW o \in Hilos \ {h}, hilo[o].op = "F_TRUNCATE"
                 PROVE  FALSE
    OBVIOUS
  <2>2. hilo[o] # Libre
    BY <2>1, LibreEsHilado
  <2>3. historia'.encimadas
    BY <1>1, <2>1, <2>2, MezclaDa DEF Tipos
  <2> QED BY <2>3 DEF Limpio
<1>10. /\ \A g : ~Truncando(g)
       /\ \A g : Truncando(g)' <=> g = f
  BY <1>1, <1>5, <1>7, <1>9, LibreEsHilado DEF Truncando
<1>11. /\ Cadenas(tabla_fat, cad) /\ tabla_fat[0] = EOF_FS /\ Enteras(cad) /\ Escrituras(cad)
  BY DEF Sanas
<1>12. Cadenas(tabla_fat, cad)'
  <2>1. \A g \in Nombres : /\ ConBloques(g)' <=> ConBloques(g)
                           /\ ConBloques(g) => fcbs'[g].bloque_inicial = fcbs[g].bloque_inicial
    BY <1>1, <1>8 DEF ConBloques, Existe
  <2> QED BY <1>1, <1>11, <2>1 DEF Cadenas
<1>13. Enteras(cad)'
  BY <1>1, <1>8, <1>10, <1>11 DEF Enteras, Existe
<1>14. Truncaciones(cad)'
  <2>1. \A g \in Hilos : hilo'[g].op = "F_TRUNCATE" => g = h
    BY <1>7, <1>9
  <2>2. Cubre(tabla_fat, cad[f], v)
    BY <1>1, <1>3, <1>10, <1>11 DEF Enteras, Existe
  <2>3. Avance(tabla_fat, nuevo, cad[f], cad)
    BY <1>5, <2>2 DEF Avance, Elige
  <2> QED BY <1>1, <1>5, <1>7, <1>8, <2>1, <2>3 DEF Truncaciones, Trunca
<1>15. Escrituras(cad)'
  <2>1. ASSUME NEW g \in Hilos, hilo'[g].op = "F_WRITE", hilo'[g].archivo \notin historia'.archivos
        PROVE  ~Truncando(hilo[g].archivo)' /\ Camina(hilo[g], cad[hilo[g].archivo])'
    <3>1. g # h /\ hilo'[g] = hilo[g]
      BY <1>5, <1>7, <2>1
    <3>2. hilo[g] # Libre
      BY <2>1, <3>1, LibreEsHilado
    <3>3. CASE hilo[g].archivo = f
      <4>1. f \in historia'.archivos
        BY <1>1, <3>1, <3>2, <3>3, MezclaDa DEF Tipos
      <4> QED BY <2>1, <3>1, <3>3, <4>1
    <3>4. CASE hilo[g].archivo # f
      <4>1. historia.archivos \subseteq historia'.archivos
        BY <1>1, MezclaDa DEF Tipos
      <4>2. Camina(hilo[g], cad[hilo[g].archivo])
        BY <1>11, <2>1, <3>1, <4>1 DEF Escrituras, Escribe
      <4> QED BY <1>10, <3>1, <3>4, <4>2
    <3> QED BY <3>3, <3>4
  <2> QED BY <2>1 DEF Escrituras, Escribe
<1>16. Continua(cad, cad)
  BY <1>11, ProlongaASiMisma DEF Continua
<1> QED BY <1>1, <1>11, <1>12, <1>13, <1>14, <1>15, <1>16 DEF Sanas

(* A file that has blocks can be followed from the first one.               *)
LEMMA PrimeroDeCadena ==
  ASSUME NEW T, NEW cad, Cadenas(T, cad), NEW f \in Nombres, ConBloques(f)
  PROVE  /\ cad[f] \in Seq(Bloques) /\ cad[f] # <<>> /\ Len(cad[f]) \in Nat \ {0}
         /\ cad[f][1] = fcbs[f].bloque_inicial /\ Enlazada(T, cad[f], fcbs[f].bloque_inicial)
<1>1. PICK c \in Seq(Bloques) : c = cad[f]
  BY DEF Cadenas
<1>2. Enlazada(T, c, fcbs[f].bloque_inicial)
  BY <1>1 DEF Cadenas
<1>3. c # <<>> /\ c[1] = fcbs[f].bloque_inicial
  BY <1>2 DEF Enlazada
<1>4. Len(c) \in Nat \ {0}
  BY <1>3, EmptySeq
<1> QED BY <1>1, <1>2, <1>3, <1>4

(* The FAT of an entry of a chain that ends in EOF.                         *)
LEMMA SiguienteEnCadena ==
  ASSUME NEW T, NEW c \in Seq(Bloques), NEW b, Enlazada(T, c, b), NEW n, Cubre(T, c, n),
         NEW k \in 1..Len(c)
  PROVE  /\ k = Len(c) => T[c[k]] = EOF_FS
         /\ k # Len(c) => k \in 1..Len(c)-1 /\ k + 1 \in 1..Len(c) /\ T[c[k]] = c[k + 1]
                          /\ T[c[k]] \in Bloques
<1>1. PICK l \in Nat : l = Len(c) /\ c \in [1..l -> Bloques]
  BY CadenaComoFuncion
<1>2. k = l => T[c[k]] = EOF_FS
  BY <1>1 DEF Cubre, Enlazada
<1>3. ASSUME k # l
      PROVE  k \in 1..l-1 /\ k + 1 \in 1..l
  <2>1. k \in 1..l
    BY <1>1
  <2> QED BY <1>3, <2>1
<1>4. k # l => T[c[k]] = c[k + 1]
  BY <1>1, <1>3 DEF Enlazada
<1> QED BY <1>1, <1>2, <1>3, <1>4

LEMMA SanasDeBuscarBloque ==
  ASSUME Tipos, NEW cad, Sanas(cad), NEW h \in Hilos, NEW f \in Nombres, NEW n \in Punteros,
         BuscarBloque(h, f, n), Limpio'
  PROVE  \E nuevas : Sanas(nuevas)' /\ Continua(cad, nuevas)
<1>1. /\ hilo[h] = Libre /\ fcbs[f] # NULL /\ UNCHANGED tabla_fat
      /\ historia' = Mezcla(h, "F_WRITE", f)
  BY DEF BuscarBloque, Pide, Existe
<1>2. n \in Nat /\ TAM_BLOQUE \in Nat \ {0}
  BY ConstantesFat
<1>3. PICK s \in Nat : s = n \div TAM_BLOQUE
  BY <1>2
<1>4. PICK b \in Inicial(f) :
        IF b \notin Bloques
        THEN Caer
        ELSE /\ Sigue(h, [Libre EXCEPT !.op = "F_WRITE", !.archivo = f, !.arg = n,
                            !.bloque = b, !.cant = s,
                            !.pc = IF s = 0 THEN "EN_MEMORIA" ELSE "DESPLAZAR"])
             /\ Vive
  BY <1>3, Zenon DEF BuscarBloque
<1>5. CASE b \notin Bloques
  <2>1. tabla_fat[0] = EOF_FS
    BY DEF Sanas
  <2> QED BY <1>1, <1>4, <1>5, <2>1, SanasDeCaer DEF Caer
<1>6. CASE b \in Bloques
  <2>1. fcbs[f].bloque_inicial = Basura => f \in historia'.archivos
    BY <1>1, MezclaDa DEF Tipos
  <2>2. fcbs[f].bloque_inicial # Basura => ConBloques(f) /\ b = fcbs[f].bloque_inicial
    BY <1>1, <1>4, FcbDeExistente DEF Inicial, ConBloques, Tipos, Existe
  <2>3. f \notin historia'.archivos => cad[f][1] = b /\ Len(cad[f]) \in Nat \ {0}
    BY <2>1, <2>2, PrimeroDeCadena DEF Sanas
  <2>4. PICK nuevo : nuevo = [Libre EXCEPT !.op = "F_WRITE", !.archivo = f, !.arg = n,
                            !.bloque = b, !.cant = s,
                            !.pc = IF s = 0 THEN "EN_MEMORIA" ELSE "DESPLAZAR"]
    OBVIOUS
  <2>5. /\ nuevo.op = "F_WRITE" /\ nuevo.archivo = f /\ nuevo.arg = n /\ nuevo.bloque = b
        /\ nuevo.cant = s /\ nuevo.pc = IF s = 0 THEN "EN_MEMORIA" ELSE "DESPLAZAR"
    BY <2>4, Zenon DEF Libre
  <2>6. Sigue(h, nuevo) /\ Vive
    BY <1>4, <1>6, <2>4
  <2>7. historia.archivos \subseteq historia'.archivos
    BY <1>1, MezclaDa DEF Tipos
  <2>8. f \notin historia'.archivos => ~Truncando(f)
    <3>1. ASSUME NEW o \in Hilos, hilo[o].op = "F_TRUNCATE", hilo[o].archivo = f
          PROVE  f \in historia'.archivos
      <4>1. hilo[o] # Libre /\ o \in Hilos \ {h}
        BY <1>1, <3>1, LibreEsHilado
      <4> QED BY <1>1, <3>1, <4>1, MezclaDa DEF Tipos
    <3> QED BY <3>1 DEF Truncando
  <2>9. f \notin historia'.archivos => Camina(nuevo, cad[f])
    <3> SUFFICES ASSUME f \notin historia'.archivos
                 PROVE  Camina(nuevo, cad[f])
      OBVIOUS
    <3>1. CASE s = 0
      BY <1>3, <2>3, <2>5, <3>1 DEF Camina
    <3>2. CASE s # 0
      <4>1. s \in 1..s /\ s - s = 0 /\ 0 + 1 = 1 /\ 1 <= Len(cad[f])
        BY <2>3, <3>2
      <4>2. nuevo.pc = "DESPLAZAR" /\ nuevo.arg \div TAM_BLOQUE = s
        BY <1>3, <2>5, <3>2
      <4> QED BY <2>3, <2>5, <4>1, <4>2 DEF Camina
    <3> QED BY <3>1, <3>2
  <2>10. ~Trunca(h)
    BY <1>1, LibreEsHilado DEF Trunca
  <2> QED BY <1>1, <2>5, <2>6, <2>7, <2>8, <2>9, <2>10, PasoDeEscritura
<1> QED BY <1>5, <1>6

LEMMA SanasDeDesplazar ==
  ASSUME Tipos, NEW cad, Sanas(cad), NEW h \in Hilos, Desplazar(h)
  PROVE  \E nuevas : Sanas(nuevas)' /\ Continua(cad, nuevas)
<1>1. /\ hilo[h] # Libre /\ hilo[h].op = "F_WRITE" /\ hilo[h].pc = "DESPLAZAR"
      /\ UNCHANGED <<tabla_fat, contadores, historia>>
  BY Zenon, SirveNoLibre DEF Desplazar
<1>2. PICK t \in Hilados : t = hilo[h] /\ Local(t)
  BY PedidoDeHilo
<1>3. t.cant \in Nat \ {0} /\ t.arg \in Nat /\ t.archivo \in Nombres /\ Existe(t.archivo)
  <2>1. t.cant \in Nat /\ t.arg \in Nat
    BY DEF Hilados
  <2> QED BY <1>1, <1>2, <2>1, PedidoDeHilo DEF Local
<1>4. PICK b : b = tabla_fat[t.bloque]
  OBVIOUS
<1>5. PICK n \in Nat : n = t.cant - 1
  BY <1>3
<1>6. PICK nuevo : nuevo = [t EXCEPT !.bloque = b, !.cant = n,
                              !.pc = IF t.cant = 1 THEN "EN_MEMORIA" ELSE "DESPLAZAR"]
  OBVIOUS
<1>7. IF t.cant > 1 /\ b \notin Bloques THEN Caer ELSE Sigue(h, nuevo) /\ Vive
  BY <1>2, <1>4, <1>5, <1>6, Zenon DEF Desplazar
<1>8. /\ nuevo.op = t.op /\ nuevo.archivo = t.archivo /\ nuevo.arg = t.arg /\ nuevo.bloque = b
      /\ nuevo.cant = n /\ nuevo.pc = IF t.cant = 1 THEN "EN_MEMORIA" ELSE "DESPLAZAR"
  BY <1>6 DEF Hilados
<1>9. CASE Caer
  <2>1. tabla_fat[0] = EOF_FS
    BY DEF Sanas
  <2> QED BY <1>1, <1>9, <2>1, SanasDeCaer DEF Caer
<1>10. CASE Sigue(h, nuevo) /\ Vive /\ ~(t.cant > 1 /\ b \notin Bloques)
  <2>1. ASSUME t.archivo \notin historia.archivos
        PROVE  ~Truncando(t.archivo) /\ Camina(nuevo, cad[t.archivo])
    <3>1. ~Truncando(t.archivo) /\ Camina(t, cad[t.archivo])
      BY <1>1, <1>2, <2>1 DEF Sanas, Escrituras, Escribe
    <3>2. PICK c \in Seq(Bloques) : c = cad[t.archivo]
      BY <1>3 DEF Sanas, Cadenas
    <3>3. PICK l \in Nat : l = Len(c) /\ c \in [1..l -> Bloques]
      BY CadenaComoFuncion
    <3>4. PICK s \in Nat : s = t.arg \div TAM_BLOQUE
      BY <1>3, CocienteEsNatural
    <3>5. /\ t.cant \in 1..s /\ (s - t.cant) + 1 <= l /\ t.bloque = c[(s - t.cant) + 1]
      BY <1>1, <1>2, <3>1, <3>2, <3>3, <3>4 DEF Camina
    <3>6. PICK k \in Nat : k = (s - t.cant) + 1 /\ k \in 1..l
      BY <3>5
    <3>7. ConBloques(t.archivo) /\ Enlazada(tabla_fat, c, fcbs[t.archivo].bloque_inicial)
      <4>1. c # <<>>
        BY <3>3, <3>6
      <4> QED BY <1>3, <3>2, <4>1 DEF Sanas, Cadenas
    <3>8. Cubre(tabla_fat, c, fcbs[t.archivo].tamanio)
      BY <1>3, <3>1, <3>2 DEF Sanas, Enteras
    <3>9. /\ k = l => b = EOF_FS
          /\ k # l => k + 1 \in 1..l /\ b = c[k + 1]
      <4>1. k \in 1..Len(c) /\ b = tabla_fat[c[k]]
        BY <1>4, <3>3, <3>5, <3>6
      <4>2. PICK x : Enlazada(tabla_fat, c, x)
        BY <3>7
      <4>3. PICK m : Cubre(tabla_fat, c, m)
        BY <3>8
      <4>4. PICK T : T = tabla_fat
        OBVIOUS
      <4>5. /\ k = Len(c) => T[c[k]] = EOF_FS
            /\ k # Len(c) => k + 1 \in 1..Len(c) /\ T[c[k]] = c[k + 1]
        BY <4>1, <4>2, <4>3, <4>4, SiguienteEnCadena
      <4> QED BY <4>1, <4>4, <4>5, <3>3
    <3>10. CASE t.cant = 1
      <4>1. k = s
        BY <3>4, <3>6, <3>10
      <4>2. s < l => b = c[s + 1]
        BY <3>9, <4>1
      <4>3. nuevo.pc = "EN_MEMORIA"
        BY <1>8, <3>10
      <4> QED BY <1>8, <3>1, <3>2, <3>3, <3>4, <4>2, <4>3 DEF Camina
    <3>11. CASE t.cant # 1
      <4>1. b \in Bloques
        BY <1>3, <1>10, <3>11
      <4>2. k # l /\ k + 1 \in 1..l /\ b = c[k + 1]
        BY <3>9, <4>1, BloquesNoSonMarcas
      <4>3. n \in 1..s /\ (s - n) + 1 = k + 1
        BY <1>3, <1>5, <3>4, <3>5, <3>6, <3>11
      <4>4. k + 1 <= l
        BY <4>2
      <4>5. nuevo.pc = "DESPLAZAR"
        BY <1>8, <3>11
      <4> QED BY <1>8, <3>1, <3>2, <3>3, <3>4, <4>2, <4>3, <4>4, <4>5 DEF Camina
    <3> QED BY <3>10, <3>11
  <2>2. ~Trunca(h) /\ nuevo.op = "F_WRITE"
    BY <1>1, <1>2, <1>8 DEF Trunca
  <2> QED BY <1>1, <1>8, <1>10, <2>1, <2>2, PasoDeEscritura
<1> QED BY <1>7, <1>9, <1>10

LEMMA SanasDeEscribir ==
  ASSUME Tipos, NEW cad, Sanas(cad), NEW h \in Hilos, Escribir(h)
  PROVE  \E nuevas : Sanas(nuevas)' /\ Continua(cad, nuevas)
<1>1. /\ hilo[h].op = "F_WRITE" /\ UNCHANGED <<tabla_fat, contadores, historia>>
      /\ (Sigue(h, Libre) /\ Vive) \/ Caer
  BY Zenon, SirveNoLibre DEF Escribir
<1>2. CASE Sigue(h, Libre) /\ Vive
  <2>1. PICK nuevo : nuevo = Libre
    OBVIOUS
  <2>2. nuevo.op = "LIBRE" /\ ~Trunca(h)
    BY <1>1, <2>1, LibreEsHilado DEF Trunca
  <2> QED BY <1>1, <1>2, <2>1, <2>2, PasoDeEscritura
<1>3. CASE Caer
  <2>1. tabla_fat[0] = EOF_FS
    BY DEF Sanas
  <2> QED BY <1>1, <1>3, <2>1, SanasDeCaer DEF Caer
<1> QED BY <1>1, <1>2, <1>3

(* The answer of a truncation: the file has all its blocks.                 *)
LEMMA SanasDeResponder ==
  ASSUME Tipos, NEW cad, Sanas(cad), NEW h \in Hilos, Responder(h)
  PROVE  \E nuevas : Sanas(nuevas)' /\ Continua(cad, nuevas)
<1>1. /\ hilo[h].op = "F_TRUNCATE" /\ hilo[h].pc = "RESPONDER"
      /\ UNCHANGED <<tabla_fat, contadores, historia>>
      /\ (Sigue(h, Libre) /\ Vive) \/ Caer
  BY Zenon, SirveNoLibre DEF Responder
<1>2. CASE Caer
  <2>1. tabla_fat[0] = EOF_FS
    BY DEF Sanas
  <2> QED BY <1>1, <1>2, <2>1, SanasDeCaer DEF Caer
<1>3. CASE Sigue(h, Libre) /\ Vive
  <2>1. /\ hilo'[h] = Libre /\ \A g \in Hilos \ {h} : hilo'[g] = hilo[g]
        /\ fcbs' = fcbs /\ tabla_fat' = tabla_fat /\ historia' = historia
    BY <1>1, <1>3 DEF Sigue, Vive, Tipos, TypeOK
  <2>2. PICK f : f = hilo[h].archivo
    OBVIOUS
  <2>3. \A g \in Hilos : hilo[g].op = "F_TRUNCATE" => g = h
    BY <1>1 DEF Sanas, Truncaciones, Trunca
  <2>4. \A g \in Hilos : hilo'[g].op # "F_TRUNCATE"
    BY <2>1, <2>3, LibreEsHilado
  <2>5. \A g : Truncando(g) => g = f
    BY <2>2, <2>3 DEF Truncando
  <2>6. Cadenas(tabla_fat, cad)'
    BY <2>1 DEF Sanas, Cadenas, ConBloques, Existe
  <2>7. fcbs[f].tamanio = hilo[h].arg /\ Cubre(tabla_fat, cad[f], hilo[h].arg)
    BY <1>1, <2>2 DEF Sanas, Truncaciones, Trunca, Avance
  <2>8. Enteras(cad)'
    <3>1. ASSUME NEW g \in Nombres, fcbs[g] # NULL
          PROVE  Cubre(tabla_fat, cad[g], fcbs[g].tamanio)
      <4>1. CASE g = f
        BY <2>7, <4>1
      <4>2. CASE g # f
        BY <2>5, <3>1, <4>2 DEF Sanas, Enteras, Existe
      <4> QED BY <4>1, <4>2
    <3> QED BY <2>1, <3>1 DEF Enteras, Existe
  <2>9. Truncaciones(cad)'
    BY <2>4 DEF Truncaciones, Trunca
  <2>10. Escrituras(cad)'
    <3>1. \A g : ~Truncando(g)'
      BY <2>4 DEF Truncando
    <3>2. ASSUME NEW g \in Hilos, hilo'[g].op = "F_WRITE", hilo'[g].archivo \notin historia'.archivos
          PROVE  Camina(hilo[g], cad[hilo[g].archivo])'
      <4>1. g # h /\ hilo'[g] = hilo[g]
        BY <2>1, <3>2, LibreEsHilado
      <4> QED BY <2>1, <3>2, <4>1 DEF Sanas, Escrituras, Escribe
    <3> QED BY <3>1, <3>2 DEF Escrituras, Escribe
  <2>11. Continua(cad, cad)
    BY ProlongaASiMisma DEF Continua, Sanas
  <2> QED BY <2>1, <2>6, <2>8, <2>9, <2>10, <2>11 DEF Sanas
<1> QED BY <1>1, <1>2, <1>3

(* obtener_secuencia_de_bloques_de_archivo has reached the k-th block.      *)
LEMMA SanasDeAlcanza ==
  ASSUME Tipos, NEW cad, Sanas(cad), NEW h \in Hilos, Trunca(h),
         NEW f, f = hilo[h].archivo, ConBloques(f), Cubre(tabla_fat, cad[f], hilo[h].viejo),
         NEW k \in 1..Len(cad[f]), NEW unico \in BOOLEAN,
         NEW rama \in {"MAS", "MENOS"}, NEW cant \in Nat \ {0},
         rama = "MAS" => cant = (hilo[h].arg \div TAM_BLOQUE) - (hilo[h].viejo \div TAM_BLOQUE),
         rama = "MENOS" => hilo[h].arg \div TAM_BLOQUE <= Len(cad[f]),
         hilo[h].lista = <<>>, NEW b, b = cad[f][k],
         Alcanza(h, b, unico, rama, cant), Vive, UNCHANGED <<tabla_fat, contadores, historia>>
  PROVE  \E nuevas : Sanas(nuevas)' /\ Continua(cad, nuevas)
<1>1. PICK t \in Hilados : t = hilo[h] /\ t.lista = <<>>
  BY PedidoDeHilo
<1>2. t.op = "F_TRUNCATE" /\ t.archivo = f /\ f \in Nombres
  <2>1. hilo[h] # Libre
    BY LibreEsHilado DEF Trunca
  <2> QED BY <1>1, <2>1, PedidoDeHilo DEF Trunca
<1>3. PICK c \in Seq(Bloques) : c = cad[f]
  BY <1>2 DEF Sanas, Cadenas
<1>4. PICK l \in Nat : l = Len(c) /\ c \in [1..l -> Bloques]
  BY CadenaComoFuncion
<1>5. k \in 1..l /\ b \in Bloques /\ b = c[k] /\ c # <<>>
  BY <1>3, <1>4
<1>6. PICK T : T = tabla_fat
  OBVIOUS
<1>7. PICK x : Enlazada(T, c, x)
  BY <1>2, <1>3, <1>6, PrimeroDeCadena DEF Sanas
<1>8. Cubre(T, c, t.viejo)
  BY <1>1, <1>3, <1>6
<1>9. /\ k = l => T[b] = EOF_FS
      /\ k # l => T[b] \in Bloques /\ k \in 1..l-1
  <2>1. k \in 1..Len(c)
    BY <1>3
  <2>2. PICK m : Cubre(T, c, m)
    BY <1>8
  <2>3. /\ k = Len(c) => T[c[k]] = EOF_FS
        /\ k # Len(c) => k \in 1..Len(c)-1 /\ T[c[k]] \in Bloques
    BY <1>7, <2>1, <2>2, SiguienteEnCadena
  <2> QED BY <1>4, <1>5, <2>3
<1>10. T[b] # EOF_FS <=> k # l
  BY <1>9, BloquesNoSonMarcas
<1>11. PICK pc : pc = IF k # l THEN "SECUENCIA"
                      ELSE IF rama = "MAS" THEN "BUSCAR" ELSE "REDUCIR"
  OBVIOUS
<1>12. PICK nuevo : nuevo = [t EXCEPT !.bloque = b, !.unico = unico, !.rama = rama, !.cant = cant,
                                      !.i = 0, !.pc = pc]
  OBVIOUS
<1>13. Sigue(h, nuevo)
  <2>1. pc = IF T[b] # EOF_FS THEN "SECUENCIA"
             ELSE IF rama = "MAS" THEN "BUSCAR" ELSE "REDUCIR"
    BY <1>10, <1>11
  <2> QED BY <1>1, <1>6, <1>12, <2>1, Zenon DEF Alcanza
<1>14. /\ nuevo.bloque = b /\ nuevo.rama = rama /\ nuevo.cant = cant /\ nuevo.i = 0
       /\ nuevo.lista = <<>> /\ nuevo.op = t.op /\ nuevo.archivo = f /\ nuevo.pc = pc
       /\ nuevo.arg = t.arg /\ nuevo.viejo = t.viejo
  BY <1>1, <1>2, <1>12 DEF Hilados
<1>15. pc \in {"SECUENCIA", "BUSCAR", "REDUCIR"}
  BY <1>11
<1>16. nuevo \in Hilados
  <2>1. ASSUME pc = "SECUENCIA" PROVE nuevo \in Hilados
    BY <1>1, <1>5, <1>12, <2>1 DEF Hilados
  <2>2. ASSUME pc = "BUSCAR" PROVE nuevo \in Hilados
    BY <1>1, <1>5, <1>12, <2>2 DEF Hilados
  <2>3. ASSUME pc = "REDUCIR" PROVE nuevo \in Hilados
    BY <1>1, <1>5, <1>12, <2>3 DEF Hilados
  <2> QED BY <1>15, <2>1, <2>2, <2>3
<1>17. /\ rama = "MAS" => cant = (nuevo.arg \div TAM_BLOQUE) - (nuevo.viejo \div TAM_BLOQUE)
       /\ rama = "MENOS" => nuevo.arg \div TAM_BLOQUE <= Len(c)
  BY <1>1, <1>3, <1>14
<1>18. rama = "MAS" => Crece(nuevo, c)
  BY <1>5, <1>14, <1>17 DEF Crece
<1>19. Avance(T, nuevo, c, cad)
  <2>1. CASE pc = "SECUENCIA"
    <3>1. k \in 1..l-1
      BY <1>9, <1>11, <2>1
    <3> QED BY <1>4, <1>5, <1>8, <1>14, <1>17, <1>18, <2>1, <3>1 DEF Avance, Recorre
  <2>2. CASE pc = "BUSCAR"
    <3>1. k = l /\ rama = "MAS"
      BY <1>11, <2>2
    <3>2. Distintos(<<>>) /\ \A j \in 1..Len(<<>>) : FALSE
      BY DEF Distintos
    <3> QED BY <1>4, <1>5, <1>8, <1>14, <1>18, <2>2, <3>1, <3>2 DEF Avance, Busca
  <2>3. CASE pc = "REDUCIR"
    <3>1. k = l /\ rama = "MENOS"
      BY <1>11, <2>3
    <3> QED BY <1>4, <1>5, <1>14, <1>17, <2>3, <3>1 DEF Avance, Reduce
  <2> QED BY <1>15, <2>1, <2>2, <2>3
<1> QED BY <1>1, <1>2, <1>3, <1>6, <1>13, <1>14, <1>15, <1>16, <1>19, PasoSinTocar DEF Trunca

LEMMA SanasDeElegir ==
  ASSUME Tipos, NEW cad, Sanas(cad), NEW h \in Hilos, Elegir(h)
  PROVE  \E nuevas : Sanas(nuevas)' /\ Continua(cad, nuevas)
<1>1. /\ hilo[h] # Libre /\ hilo[h].op = "F_TRUNCATE" /\ hilo[h].pc = "ELEGIR"
      /\ UNCHANGED <<tabla_fat, contadores, historia>>
  BY Zenon, SirveNoLibre DEF Elegir
<1>2. PICK t \in Hilados : t = hilo[h] /\ Local(t)
  BY PedidoDeHilo
<1>3. PICK f \in Nombres : f = t.archivo /\ Existe(f)
  BY <1>1, <1>2, PedidoDeHilo
<1>4. t.arg \in Nat /\ t.viejo \in Nat /\ t.lista = <<>> /\ t.i = 0 /\ t.op = "F_TRUNCATE"
  BY <1>1, <1>2 DEF Hilados, Local
<1>5. fcbs[f].tamanio = t.arg /\ Cubre(tabla_fat, cad[f], t.viejo)
  BY <1>1, <1>2, <1>3 DEF Sanas, Truncaciones, Trunca, Avance, Elige
<1>6. PICK n \in Nat : n = t.arg \div TAM_BLOQUE
  BY <1>4, CocienteEsNatural
<1>7. PICK v \in Nat : v = t.viejo \div TAM_BLOQUE
  BY <1>4, CocienteEsNatural
<1>8. \/ /\ t.arg > t.viejo /\ t.viejo = 0 /\ n > 0
         /\ Sigue(h, [t EXCEPT !.rama = "CERO", !.cant = n, !.pc = "BUSCAR"]) /\ Vive
      \/ Caer
      \/ /\ ~(t.arg > t.viejo /\ t.viejo = 0) /\ n # v
         /\ \E b \in Inicial(f) :
              IF b \notin Bloques
              THEN Caer
              ELSE /\ IF t.arg > t.viejo THEN Alcanza(h, b, TRUE, "MAS", n - v)
                                         ELSE Alcanza(h, b, TRUE, "MENOS", v - n)
                   /\ Vive
      \/ /\ ~(t.arg > t.viejo /\ t.viejo = 0) /\ n = v
         /\ Sigue(h, [t EXCEPT !.pc = "RESPONDER"]) /\ Vive
  BY <1>2, <1>3, <1>5, <1>6, <1>7, Zenon DEF Elegir
<1>9. Trunca(h) /\ hilo[h].archivo = f /\ hilo[h].arg = t.arg
  BY <1>1, <1>2, <1>3 DEF Trunca
<1>10. PICK c \in Seq(Bloques) : c = cad[f]
  BY DEF Sanas, Cadenas
<1>11. PICK l \in Nat : l = Len(c) /\ v <= l /\ (t.viejo > 0 => c # <<>>)
  BY <1>5, <1>7, <1>10 DEF Cubre
<1>12. ASSUME t.viejo = 0, n > 0,
              Sigue(h, [t EXCEPT !.rama = "CERO", !.cant = n, !.pc = "BUSCAR"]), Vive
       PROVE  \E nuevas : Sanas(nuevas)' /\ Continua(cad, nuevas)
  <2>1. PICK nuevo : nuevo = [t EXCEPT !.rama = "CERO", !.cant = n, !.pc = "BUSCAR"]
    OBVIOUS
  <2>2. /\ nuevo \in Hilados /\ nuevo.op = t.op /\ nuevo.archivo = f /\ nuevo.arg = t.arg
        /\ nuevo.viejo = t.viejo /\ nuevo.lista = t.lista /\ nuevo.pc = "BUSCAR"
        /\ nuevo.cant = n /\ nuevo.rama = "CERO"
    BY <1>3, <2>1 DEF Hilados
  <2>3. Crece(nuevo, c)
    BY <1>6, <1>12, <2>2 DEF Crece
  <2>4. Distintos(<<>>) /\ \A j \in 1..Len(<<>>) : FALSE
    BY DEF Distintos
  <2>5. Avance(tabla_fat, nuevo, c, cad)
    BY <1>4, <1>5, <1>10, <2>2, <2>3, <2>4 DEF Avance, Busca
  <2> QED BY <1>1, <1>4, <1>9, <1>10, <1>12, <2>1, <2>2, <2>5, PasoSinTocar
<1>13. ASSUME NEW b \in Bloques, b \in Inicial(f), ~(t.arg > t.viejo /\ t.viejo = 0), n # v, Vive,
              IF t.arg > t.viejo THEN Alcanza(h, b, TRUE, "MAS", n - v)
                                 ELSE Alcanza(h, b, TRUE, "MENOS", v - n)
       PROVE  \E nuevas : Sanas(nuevas)' /\ Continua(cad, nuevas)
  <2>1. t.viejo > 0
    <3>1. t.arg = t.viejo => n = v
      BY <1>6, <1>7
    <3> QED BY <1>4, <1>13, <3>1
  <2>2. c # <<>>
    BY <1>11, <2>1
  <2>3. ConBloques(f)
    BY <1>10, <2>2 DEF Sanas, Cadenas
  <2>4. b = fcbs[f].bloque_inicial
    BY <1>13, <2>3, BloquesNoSonMarcas DEF Inicial, ConBloques
  <2>5. b = cad[f][1] /\ 1 \in 1..Len(cad[f])
    BY <2>3, <2>4, PrimeroDeCadena DEF Sanas
  <2>6. hilo[h].lista = <<>> /\ Cubre(tabla_fat, cad[f], hilo[h].viejo)
    BY <1>2, <1>4, <1>5
  <2>7. CASE t.arg > t.viejo
    <3>1. n - v \in Nat \ {0}
      BY <1>4, <1>6, <1>7, <1>13, <2>7, CocienteMonotono
    <3>2. Alcanza(h, b, TRUE, "MAS", n - v) /\ "MAS" # "MENOS"
      BY <1>13, <2>7
    <3>3. PICK cant \in Nat \ {0} : cant = n - v
      BY <3>1
    <3>4. cant = (hilo[h].arg \div TAM_BLOQUE) - (hilo[h].viejo \div TAM_BLOQUE)
      BY <1>2, <1>6, <1>7, <3>3
    <3> QED BY <1>1, <1>9, <1>13, <2>3, <2>5, <2>6, <3>2, <3>3, <3>4, SanasDeAlcanza
  <2>8. CASE ~(t.arg > t.viejo)
    <3>1. v - n \in Nat \ {0} /\ n <= l
      <4>1. n <= v
        BY <1>4, <1>6, <1>7, <2>8, CocienteMonotono
      <4> QED BY <1>11, <1>13, <4>1
    <3>2. Alcanza(h, b, TRUE, "MENOS", v - n) /\ "MAS" # "MENOS"
      BY <1>13, <2>8
    <3>3. PICK cant \in Nat \ {0} : cant = v - n
      BY <3>1
    <3>4. hilo[h].arg \div TAM_BLOQUE <= Len(cad[f])
      BY <1>2, <1>6, <1>10, <1>11, <3>1
    <3> QED BY <1>1, <1>9, <1>13, <2>3, <2>5, <2>6, <3>2, <3>3, <3>4, SanasDeAlcanza
  <2> QED BY <2>7, <2>8
<1>14. ASSUME n = v, Sigue(h, [t EXCEPT !.pc = "RESPONDER"]), Vive,
              ~(t.arg > t.viejo /\ t.viejo = 0)
       PROVE  \E nuevas : Sanas(nuevas)' /\ Continua(cad, nuevas)
  <2>1. PICK nuevo : nuevo = [t EXCEPT !.pc = "RESPONDER"]
    OBVIOUS
  <2>2. /\ nuevo \in Hilados /\ nuevo.op = t.op /\ nuevo.archivo = f /\ nuevo.arg = t.arg
        /\ nuevo.pc = "RESPONDER"
    BY <1>3, <2>1 DEF Hilados
  <2>3. Cubre(tabla_fat, c, t.arg)
    <3>1. t.arg > 0 => c # <<>>
      BY <1>4, <1>11, <1>14
    <3> QED BY <1>5, <1>6, <1>7, <1>10, <1>14, <3>1 DEF Cubre
  <2>4. Avance(tabla_fat, nuevo, c, cad)
    BY <2>2, <2>3 DEF Avance
  <2> QED BY <1>1, <1>4, <1>9, <1>10, <1>14, <2>1, <2>2, <2>4, PasoSinTocar
<1>15. ASSUME Caer
       PROVE  \E nuevas : Sanas(nuevas)' /\ Continua(cad, nuevas)
  <2>1. tabla_fat[0] = EOF_FS
    BY DEF Sanas
  <2> QED BY <1>1, <1>15, <2>1, SanasDeCaer DEF Caer
<1> QED BY <1>8, <1>12, <1>13, <1>14, <1>15

LEMMA SanasDeSecuencia ==
  ASSUME Tipos, NEW cad, Sanas(cad), NEW h \in Hilos, Secuencia(h)
  PROVE  \E nuevas : Sanas(nuevas)' /\ Continua(cad, nuevas)
<1>1. /\ hilo[h] # Libre /\ hilo[h].op = "F_TRUNCATE" /\ hilo[h].pc = "SECUENCIA"
      /\ UNCHANGED <<tabla_fat, contadores, historia>>
  BY Zenon, SirveNoLibre DEF Secuencia
<1>2. PICK t \in Hilados : t = hilo[h] /\ Local(t)
  BY PedidoDeHilo
<1>3. /\ t.lista = <<>> /\ t.rama \in {"MAS", "MENOS"} /\ t.cant \in Nat \ {0}
      /\ t.arg \in Nat /\ t.viejo \in Nat
  <2>1. t.cant \in Nat /\ t.arg \in Nat /\ t.viejo \in Nat
    BY DEF Hilados
  <2> QED BY <1>1, <1>2, <2>1 DEF Local
<1>4. PICK f \in Nombres : f = t.archivo /\ Existe(f)
  BY <1>1, <1>2, PedidoDeHilo
<1>5. Recorre(tabla_fat, t, cad[f])
  BY <1>1, <1>2, <1>4 DEF Sanas, Truncaciones, Trunca, Avance
<1>6. PICK c \in Seq(Bloques) : c = cad[f]
  BY DEF Sanas, Cadenas
<1>7. PICK l \in Nat : l = Len(c) /\ c \in [1..l -> Bloques]
  BY CadenaComoFuncion
<1>8. PICK k \in 1..l-1 : c[k] = t.bloque
  BY <1>5, <1>6, <1>7 DEF Recorre
<1>9. k \in 1..l /\ k + 1 \in 1..l /\ k # l /\ c # <<>>
  <2>1. k \in 1..l /\ k + 1 \in 1..l /\ k # l /\ l # 0
    OBVIOUS
  <2>2. Len(<<>>) = 0
    OBVIOUS
  <2>3. c # <<>>
    BY <1>7, <2>1, <2>2, Zenon
  <2> QED BY <2>1, <2>3
<1>10. ConBloques(f)
  BY <1>6, <1>9 DEF Sanas, Cadenas
<1>11. tabla_fat[t.bloque] = c[k + 1] /\ c[k + 1] \in Bloques
  <2>1. Enlazada(tabla_fat, c, fcbs[f].bloque_inicial)
    BY <1>6, <1>10 DEF Sanas, Cadenas
  <2> QED BY <1>7, <1>8, <1>9, <2>1 DEF Enlazada
<1>12. PICK b : b = tabla_fat[t.bloque]
  OBVIOUS
<1>13. IF b \notin Bloques THEN Caer ELSE Alcanza(h, b, FALSE, t.rama, t.cant) /\ Vive
  BY <1>2, <1>12, Zenon DEF Secuencia
<1>14. Alcanza(h, b, FALSE, t.rama, t.cant) /\ Vive
  BY <1>11, <1>12, <1>13
<1>15. /\ t.rama = "MAS" => t.cant = (t.arg \div TAM_BLOQUE) - (t.viejo \div TAM_BLOQUE)
       /\ t.rama = "MENOS" => t.arg \div TAM_BLOQUE <= Len(cad[f])
       /\ Cubre(tabla_fat, cad[f], t.viejo)
  BY <1>5 DEF Recorre, Crece
<1>16. PICK j : j = k + 1 /\ j \in 1..Len(cad[f]) /\ b = cad[f][j]
  BY <1>6, <1>7, <1>9, <1>11, <1>12
<1> QED BY <1>1, <1>2, <1>3, <1>4, <1>10, <1>14, <1>15, <1>16, SanasDeAlcanza DEF Trunca

(* A block that is found free is in no chain, and had not been found before. *)
LEMMA SanasDeBuscar ==
  ASSUME Tipos, NEW cad, Sanas(cad), NEW h \in Hilos, Buscar(h)
  PROVE  \E nuevas : Sanas(nuevas)' /\ Continua(cad, nuevas)
<1>1. /\ hilo[h] # Libre /\ hilo[h].op = "F_TRUNCATE" /\ hilo[h].pc = "BUSCAR"
      /\ UNCHANGED <<tabla_fat, contadores, historia>>
  BY Zenon, SirveNoLibre DEF Buscar
<1>2. PICK t \in Hilados : t = hilo[h] /\ Local(t)
  BY PedidoDeHilo
<1>3. PICK i \in Bloques : i = t.i /\ i \in Nat
  BY <1>1, <1>2, ConstantesFat DEF Local, Hilados, Bloques
<1>4. PICK s \in Seq(Bloques) : s = t.lista
  BY DEF Hilados
<1>5. PICK m \in Nat : m = Len(s)
  OBVIOUS
<1>6. PICK f \in Nombres : f = t.archivo /\ Existe(f)
  BY <1>1, <1>2, PedidoDeHilo
<1>7. t.cant \in Nat /\ m < t.cant
  BY <1>1, <1>2, <1>4, <1>5 DEF Local, Hilados
<1>8. PICK T : T = tabla_fat
  OBVIOUS
<1>9. PICK c : c = cad[f]
  OBVIOUS
<1>10. /\ Cubre(T, c, t.viejo) /\ Crece(t, c) /\ (t.rama = "MAS" => t.bloque = c[Len(c)])
       /\ Distintos(s) /\ \A k \in 1..m : T[s[k]] = 0 /\ s[k] < i
  <2>1. Busca(tabla_fat, t, cad[f])
    BY <1>1, <1>2, <1>6 DEF Sanas, Truncaciones, Trunca, Avance
  <2> QED BY <1>3, <1>4, <1>5, <1>8, <1>9, <2>1 DEF Busca
<1>11. ASSUME NEW x \in Bloques, T[x] = 0
       PROVE  Ajeno(x, cad) /\ x # 0
  <2>1. \A g \in Nombres : Truncando(g) => g = f
    BY <1>1, <1>2, <1>6 DEF Sanas, Truncaciones, Trunca, Truncando
  <2> QED BY <1>8, <1>9, <1>10, <1>11, <2>1, NingunoLibre
<1>12. PICK lista \in Seq(Bloques) : lista = IF T[i] = 0 THEN Append(s, i) ELSE s
  BY <1>3, AppendProperties
<1>13. /\ Distintos(lista) /\ \A k \in 1..Len(lista) : T[lista[k]] = 0 /\ lista[k] < i + 1
       /\ Len(lista) \in {m, m + 1}
  <2>1. CASE T[i] = 0
    <3>1. /\ Len(lista) = m + 1 /\ lista[m + 1] = i
          /\ \A k \in 1..m : lista[k] = s[k]
      BY <1>5, <1>12, <2>1, AppendProperties
    <3>2. i # 0
      BY <1>11, <2>1
    <3>3. \A k \in 1..m : s[k] \in Bloques /\ s[k] \in Nat /\ s[k] # 0
      BY <1>5, <1>10, BloquesNoSonMarcas DEF Distintos
    <3>4. \A k \in 1..m+1 : k = m + 1 \/ k \in 1..m
      OBVIOUS
    <3>5. \A k \in 1..m+1 : lista[k] # 0 /\ T[lista[k]] = 0 /\ lista[k] < i + 1
      BY <1>3, <1>10, <2>1, <3>1, <3>2, <3>3, <3>4
    <3>6. \A j, k \in 1..m+1 : lista[j] = lista[k] => j = k
      <4>1. \A j, k \in 1..m : s[j] = s[k] => j = k
        BY <1>5, <1>10 DEF Distintos
      <4> QED BY <1>3, <1>10, <3>1, <3>3, <3>4, <4>1
    <3> QED BY <3>1, <3>5, <3>6 DEF Distintos
  <2>2. CASE T[i] # 0
    <3>1. \A k \in 1..m : s[k] \in Nat
      BY <1>5, BloquesNoSonMarcas
    <3> QED BY <1>3, <1>5, <1>10, <1>12, <2>2, <3>1
  <2> QED BY <2>1, <2>2
<1>14. PICK n \in Nat : n = Len(lista)
  OBVIOUS
<1>15. IF n < t.cant /\ i + 1 = CANT_BLOQUES
       THEN Caer
       ELSE /\ Sigue(h, IF n < t.cant
                        THEN [t EXCEPT !.lista = lista, !.i = i + 1]
                        ELSE [t EXCEPT !.lista = lista, !.i = 1, !.pc = "ENLAZAR"])
            /\ Vive
  BY <1>2, <1>3, <1>4, <1>8, <1>12, <1>14, Zenon DEF Buscar, MirarEntrada
<1>16. ASSUME Caer
       PROVE  \E nuevas : Sanas(nuevas)' /\ Continua(cad, nuevas)
  <2>1. tabla_fat[0] = EOF_FS
    BY DEF Sanas
  <2> QED BY <1>1, <1>16, <2>1, SanasDeCaer DEF Caer
<1>17. ASSUME n < t.cant, Sigue(h, [t EXCEPT !.lista = lista, !.i = i + 1]), Vive
       PROVE  \E nuevas : Sanas(nuevas)' /\ Continua(cad, nuevas)
  <2>1. PICK j \in Nat : j = i + 1
    BY <1>3
  <2>2. PICK nuevo : nuevo = [t EXCEPT !.lista = lista, !.i = j]
    OBVIOUS
  <2>3. /\ nuevo \in Hilados /\ nuevo.op = t.op /\ nuevo.archivo = f /\ nuevo.arg = t.arg
        /\ nuevo.viejo = t.viejo /\ nuevo.lista = lista /\ nuevo.pc = "BUSCAR" /\ nuevo.i = j
        /\ nuevo.cant = t.cant /\ nuevo.rama = t.rama /\ nuevo.bloque = t.bloque
    BY <1>1, <1>2, <1>6, <2>2 DEF Hilados
  <2>4. Crece(nuevo, c)
    BY <1>10, <2>3 DEF Crece
  <2>5. Avance(T, nuevo, c, cad)
    BY <1>10, <1>13, <2>1, <2>3, <2>4 DEF Avance, Busca
  <2>6. Sigue(h, nuevo)
    BY <1>17, <2>1, <2>2
  <2> QED BY <1>1, <1>2, <1>6, <1>8, <1>9, <1>17, <2>3, <2>5, <2>6, PasoSinTocar DEF Trunca
<1>18. ASSUME ~(n < t.cant), Sigue(h, [t EXCEPT !.lista = lista, !.i = 1, !.pc = "ENLAZAR"]), Vive
       PROVE  \E nuevas : Sanas(nuevas)' /\ Continua(cad, nuevas)
  <2>1. PICK nuevo : nuevo = [t EXCEPT !.lista = lista, !.i = 1, !.pc = "ENLAZAR"]
    OBVIOUS
  <2>2. /\ nuevo \in Hilados /\ nuevo.op = t.op /\ nuevo.archivo = f /\ nuevo.arg = t.arg
        /\ nuevo.viejo = t.viejo /\ nuevo.lista = lista /\ nuevo.pc = "ENLAZAR" /\ nuevo.i = 1
        /\ nuevo.cant = t.cant /\ nuevo.rama = t.rama /\ nuevo.bloque = t.bloque
    BY <1>2, <1>6, <2>1 DEF Hilados
  <2>3. Crece(nuevo, c)
    BY <1>10, <2>2 DEF Crece
  <2>4. n = t.cant /\ t.cant > 0
    BY <1>5, <1>7, <1>13, <1>14, <1>18
  <2>5. \A k \in 1..t.cant : lista[k] \in Bloques /\ T[lista[k]] = 0 /\ Ajeno(lista[k], cad)
    <3>1. \A k \in 1..n : lista[k] \in Bloques
      BY <1>14
    <3> QED BY <1>11, <1>13, <1>14, <2>4, <3>1
  <2>6. Enlaza(T, nuevo, c, cad)
    <3>1. 1 \in 1..t.cant /\ \A k \in 1 + 1..t.cant : k \in 1..t.cant
      BY <1>7, <2>4
    <3> QED BY <1>10, <1>13, <1>14, <2>2, <2>3, <2>4, <2>5, <3>1 DEF Enlaza
  <2>7. Avance(T, nuevo, c, cad)
    BY <2>2, <2>6 DEF Avance
  <2>8. Sigue(h, nuevo)
    BY <1>18, <2>1
  <2> QED BY <1>1, <1>2, <1>6, <1>8, <1>9, <1>18, <2>2, <2>7, <2>8, PasoSinTocar DEF Trunca
<1> QED BY <1>15, <1>16, <1>17, <1>18

-------------------------------------------------------------------------------
(* The steps that change the chains.                                        *)

(* The last block of a chain is written: it still ends there.               *)
LEMMA SanasDeReducir ==
  ASSUME Tipos, NEW cad, Sanas(cad), NEW h \in Hilos, Reducir(h)
  PROVE  \E nuevas : Sanas(nuevas)' /\ Continua(cad, nuevas)
<1>1. /\ hilo[h] # Libre /\ hilo[h].op = "F_TRUNCATE" /\ hilo[h].pc = "REDUCIR"
      /\ UNCHANGED <<contadores, historia>>
  BY Zenon, SirveNoLibre DEF Reducir
<1>2. PICK t \in Hilados : t = hilo[h] /\ Local(t)
  BY PedidoDeHilo
<1>3. t.bloque \in Bloques /\ t.cant \in Nat
  BY <1>1, <1>2 DEF Local, Hilados
<1>4. PICK f \in Nombres : f = t.archivo /\ Existe(f)
  BY <1>1, <1>2, PedidoDeHilo
<1>5. PICK c \in Seq(Bloques) : c = cad[f]
  BY DEF Sanas, Cadenas
<1>6. c # <<>> /\ t.bloque = c[Len(c)] /\ t.arg \div TAM_BLOQUE <= Len(c)
  BY <1>1, <1>2, <1>4, <1>5 DEF Sanas, Truncaciones, Trunca, Avance, Reduce
<1>7. PICK l \in Nat : l = Len(c) /\ l \in 1..l
  BY <1>6, CadenaComoFuncion
<1>8. PICK T \in Tablas : T = tabla_fat
  BY DEF Tipos, TypeOK, Tablas
<1>9. PICK y \in {0, EOF_FS} :
        /\ tabla_fat' = [T EXCEPT ![t.bloque] = y]
        /\ \/ /\ t.cant > 0
              /\ IF t.unico THEN Caer ELSE Sigue(h, [t EXCEPT !.cant = @ - 1]) /\ Vive
           \/ y = EOF_FS /\ Sigue(h, [t EXCEPT !.pc = "RESPONDER"]) /\ Vive
  BY <1>2, <1>8, Zenon DEF Reducir
<1>10. PICK U : U = tabla_fat'
  OBVIOUS
<1>11. /\ Cadenas(U, cad) /\ t.bloque # 0
       /\ U[t.bloque] = y /\ \A x \in Bloques : x # t.bloque => U[x] = T[x]
       /\ \A g \in Nombres \ {f} : \A n : Cubre(T, cad[g], n) => Cubre(U, cad[g], n)
  <2>1. U[t.bloque] = y /\ \A x \in Bloques : x # t.bloque => U[x] = T[x]
    BY <1>3, <1>9, <1>10 DEF Tablas
  <2>2. Cadenas(T, cad) /\ cad[f] # <<>>
    BY <1>5, <1>6, <1>8 DEF Sanas
  <2>3. t.bloque = cad[f][Len(cad[f])] /\ U[t.bloque] \in {0, EOF_FS}
    BY <1>5, <1>6, <2>1
  <2>4. PICK u : u = t.bloque
    OBVIOUS
  <2>5. /\ Cadenas(U, cad) /\ u # 0
        /\ \A g \in Nombres \ {f} : \A n : Cubre(T, cad[g], n) => Cubre(U, cad[g], n)
    <3>1. Reescribe(T, U, cad, f, u)
      BY <2>1, <2>2, <2>3, <2>4 DEF Reescribe
    <3> QED BY <3>1, CadenasReescritas
  <2> QED BY <2>1, <2>4, <2>5
<1>12. tabla_fat'[0] = EOF_FS
  BY <1>8, <1>10, <1>11, CeroEsBloque DEF Sanas
<1>13. ASSUME Vive
       PROVE  /\ fcbs' = fcbs /\ Cadenas(tabla_fat, cad)'
              /\ \A g \in Nombres \ {f} :
                   \A n : Cubre(tabla_fat, cad[g], n) => Cubre(tabla_fat, cad[g], n)'
  <2>1. fcbs' = fcbs /\ \A g \in Nombres : ConBloques(g)' <=> ConBloques(g)
    BY <1>13 DEF Vive, ConBloques, Existe
  <2>2. Cadenas(tabla_fat, cad)'
    BY <1>10, <1>11, <2>1 DEF Cadenas
  <2> QED BY <1>8, <1>10, <1>11, <2>1, <2>2
<1>14. Continua(cad, cad)
  BY ProlongaASiMisma DEF Continua, Sanas
<1>15. ASSUME Caer
       PROVE  \E nuevas : Sanas(nuevas)' /\ Continua(cad, nuevas)
  BY <1>12, <1>15, SanasDeCaer DEF Caer
<1>16. ASSUME t.cant > 0, Sigue(h, [t EXCEPT !.cant = @ - 1]), Vive
       PROVE  \E nuevas : Sanas(nuevas)' /\ Continua(cad, nuevas)
  <2>1. PICK n \in Nat : n = t.cant - 1
    BY <1>3, <1>16
  <2>2. PICK nuevo : nuevo = [t EXCEPT !.cant = n]
    OBVIOUS
  <2>3. /\ nuevo \in Hilados /\ nuevo.op = t.op /\ nuevo.archivo = f /\ nuevo.arg = t.arg
        /\ nuevo.bloque = t.bloque /\ nuevo.pc = "REDUCIR"
    BY <1>1, <1>2, <1>4, <2>2 DEF Hilados
  <2>4. Sigue(h, nuevo)
    BY <1>16, <2>1, <2>2, Zenon
  <2>5. Avance(U, nuevo, c, cad)
    BY <1>6, <2>3 DEF Avance, Reduce
  <2>6. Avance(tabla_fat, nuevo, cad[f], cad)'
    BY <1>5, <1>10, <2>5
  <2>7. Sanas(cad)'
    BY <1>1, <1>2, <1>4, <1>12, <1>13, <1>16, <2>3, <2>4, <2>6, PasoDeTruncacion DEF Trunca
  <2> QED BY <1>14, <2>7
<1>17. ASSUME y = EOF_FS, Sigue(h, [t EXCEPT !.pc = "RESPONDER"]), Vive
       PROVE  \E nuevas : Sanas(nuevas)' /\ Continua(cad, nuevas)
  <2>1. PICK nuevo : nuevo = [t EXCEPT !.pc = "RESPONDER"]
    OBVIOUS
  <2>2. /\ nuevo \in Hilados /\ nuevo.op = t.op /\ nuevo.archivo = f /\ nuevo.arg = t.arg
        /\ nuevo.pc = "RESPONDER"
    BY <1>4, <2>1 DEF Hilados
  <2>3. Cubre(U, c, t.arg)
    BY <1>6, <1>7, <1>11, <1>17 DEF Cubre
  <2>4. Avance(U, nuevo, c, cad)
    BY <2>2, <2>3 DEF Avance
  <2>5. Avance(tabla_fat, nuevo, cad[f], cad)'
    BY <1>5, <1>10, <2>4
  <2>6. Sanas(cad)'
    BY <1>1, <1>2, <1>4, <1>12, <1>13, <1>17, <2>1, <2>2, <2>5, PasoDeTruncacion DEF Trunca
  <2> QED BY <1>14, <2>6
<1> QED BY <1>9, <1>15, <1>16, <1>17

(* The first blocks of a file that had none.                                *)
LEMMA SanasDeFijar ==
  ASSUME Tipos, NEW cad, Sanas(cad), NEW h \in Hilos, Fijar(h)
  PROVE  \E nuevas : Sanas(nuevas)' /\ Continua(cad, nuevas)
<1>1. /\ hilo[h] # Libre /\ hilo[h].op = "F_TRUNCATE" /\ hilo[h].pc = "FIJAR"
      /\ UNCHANGED <<tabla_fat, filesystem, contadores, historia>>
  BY Zenon, SirveNoLibre DEF Fijar
<1>2. PICK t \in Hilados : t = hilo[h] /\ Local(t)
  BY PedidoDeHilo
<1>3. PICK f \in Nombres : f = t.archivo /\ Existe(f)
  BY <1>1, <1>2, PedidoDeHilo
<1>4. PICK s \in Seq(Bloques) : s = t.lista
  BY DEF Hilados
<1>5. PICK T : T = tabla_fat
  OBVIOUS
<1>6. /\ t.viejo = 0 /\ Enlazada(T, s, s[1]) /\ Cubre(T, s, t.arg)
      /\ \A k \in 1..Len(s) : Ajeno(s[k], cad)
  <2>1. Fija(tabla_fat, t, cad[f], cad)
    BY <1>1, <1>2, <1>3 DEF Sanas, Truncaciones, Trunca, Avance
  <2> QED BY <1>4, <1>5, <2>1 DEF Fija
<1>7. s[1] \in Bloques
  BY <1>6, EmptySeq DEF Enlazada
<1>8. fcbs[f] \in Fcbs /\ fcbs' = [fcbs EXCEPT ![f] = [fcbs[f] EXCEPT !.bloque_inicial = s[1]]]
  BY <1>2, <1>3, <1>4, FcbDeExistente DEF Fijar, Tipos
<1>9. /\ fcbs'[f] # NULL /\ fcbs'[f].tamanio = fcbs[f].tamanio /\ fcbs'[f].bloque_inicial = s[1]
      /\ \A g \in Nombres \ {f} : fcbs'[g] = fcbs[g]
  <2>1. PICK x \in Fcbs : x = [fcbs[f] EXCEPT !.bloque_inicial = s[1]]
    BY <1>7, <1>8 DEF Fcbs
  <2>2. x # NULL /\ x.tamanio = fcbs[f].tamanio /\ x.bloque_inicial = s[1]
    BY <1>8, <2>1, FcbNoEsNull DEF Fcbs
  <2> QED BY <1>8, <2>1, <2>2 DEF Tipos, TypeOK
<1>10. PICK nuevas : nuevas = [cad EXCEPT ![f] = s]
  OBVIOUS
<1>11. /\ nuevas \in [Nombres -> Seq(Bloques)] /\ nuevas[f] = s
       /\ \A g \in Nombres \ {f} : nuevas[g] = cad[g]
  BY <1>10 DEF Sanas, Cadenas
<1>12. Cadenas(tabla_fat, nuevas)'
  <2>1. ConBloques(f)' /\ \A g \in Nombres \ {f} : ConBloques(g)' <=> ConBloques(g)
    BY <1>7, <1>9 DEF ConBloques, Existe
  <2>2. ASSUME NEW g \in Nombres
        PROVE  IF ConBloques(g)' THEN Enlazada(T, nuevas[g], fcbs'[g].bloque_inicial)
               ELSE nuevas[g] = <<>>
    <3>1. CASE g = f
      BY <3>1, <1>6, <1>9, <1>11, <2>1
    <3>2. CASE g # f
      BY <3>2, <1>5, <1>9, <1>11, <2>1 DEF Sanas, Cadenas
    <3> QED BY <3>1, <3>2
  <2>3. ASSUME NEW g \in Nombres \ {f}, NEW j \in 1..Len(s), NEW k \in 1..Len(cad[g])
        PROVE  s[j] # cad[g][k]
    BY <1>6 DEF Ajeno
  <2>4. ASSUME NEW g \in Nombres, NEW e \in Nombres, g # e,
               NEW j \in 1..Len(nuevas[g]), NEW k \in 1..Len(nuevas[e])
        PROVE  nuevas[g][j] # nuevas[e][k]
    <3>1. CASE g = f
      <4>1. e \in Nombres \ {f} /\ nuevas[g] = s /\ nuevas[e] = cad[e]
        BY <3>1, <2>4, <1>11
      <4> QED BY <4>1, <2>3, <2>4
    <3>2. CASE e = f
      <4>1. g \in Nombres \ {f} /\ nuevas[e] = s /\ nuevas[g] = cad[g]
        BY <3>2, <2>4, <1>11
      <4>2. s[k] # cad[g][j]
        BY <4>1, <2>3, <2>4
      <4> QED BY <4>1, <4>2
    <3>3. CASE g # f /\ e # f
      BY <3>3, <2>4, <1>11 DEF Sanas, Cadenas
    <3> QED BY <3>1, <3>2, <3>3
  <2>5. tabla_fat' = T
    BY <1>1, <1>5
  <2> QED BY <1>11, <2>2, <2>4, <2>5 DEF Cadenas
<1>13. PICK nuevo : nuevo = [t EXCEPT !.pc = "RESPONDER"]
  OBVIOUS
<1>14. /\ nuevo \in Hilados /\ nuevo.op = t.op /\ nuevo.archivo = f /\ nuevo.arg = t.arg
       /\ nuevo.pc = "RESPONDER"
  BY <1>3, <1>13 DEF Hilados
<1>15. Sigue(h, nuevo)
  BY <1>2, <1>13 DEF Fijar
<1>16. Avance(tabla_fat, nuevo, nuevas[f], nuevas)'
  <2>1. Avance(T, nuevo, s, nuevas)
    BY <1>6, <1>14 DEF Avance
  <2> QED BY <1>1, <1>5, <1>11, <2>1
<1>17. Sanas(nuevas)'
  <2>1. tabla_fat'[0] = EOF_FS
    BY <1>1 DEF Sanas
  <2>2. \A g \in Nombres : /\ fcbs'[g] # NULL => fcbs[g] # NULL
                           /\ fcbs[g] # NULL => fcbs'[g].tamanio = fcbs[g].tamanio
    BY <1>3, <1>9 DEF Existe
  <2>3. \A g \in Nombres \ {f} :
          /\ nuevas[g] = cad[g]
          /\ \A n : Cubre(tabla_fat, cad[g], n) => Cubre(tabla_fat, cad[g], n)'
    BY <1>1, <1>11
  <2> QED BY <1>1, <1>2, <1>3, <1>12, <1>14, <1>15, <1>16, <2>1, <2>2, <2>3, PasoDeTruncacion DEF Trunca
<1>18. ConDatos(f) = 0
  <2>1. \A g \in Hilos : Trunca(g) => g = h
    BY <1>1 DEF Sanas, Truncaciones, Trunca
  <2>2. fcbs[f].tamanio = t.arg /\ t.arg \in Nat
    BY <1>1, <1>2, <1>3 DEF Sanas, Truncaciones, Trunca, Hilados
  <2>3. PICK tamanios : tamanios = {fcbs[f].tamanio} \cup
          {hilo[g].viejo : g \in {e \in Hilos : hilo[e].op = "F_TRUNCATE" /\ hilo[e].archivo = f}}
    OBVIOUS
  <2>4. tamanios = {t.arg, 0}
    BY <1>1, <1>2, <1>3, <1>6, <2>1, <2>2, <2>3 DEF Trunca
  <2>5. ConDatos(f) = (CHOOSE n \in tamanios : \A m \in tamanios : n <= m) \div TAM_BLOQUE
    BY <2>3, Zenon DEF ConDatos
  <2>6. (CHOOSE n \in tamanios : \A m \in tamanios : n <= m) = 0
    BY <2>2, <2>4
  <2>7. 0 \div TAM_BLOQUE = 0
    BY ConstantesFat
  <2> QED BY <2>5, <2>6, <2>7
<1>19. Continua(cad, nuevas)
  <2>1. Cadenas(T, cad)
    BY <1>5 DEF Sanas
  <2> QED BY <1>11, <1>18, <2>1, ProlongaASiMisma DEF Continua
<1> QED BY <1>17, <1>19

(* A truncation links the i-th of the new blocks.                           *)
LEMMA SanasDeEnlazar ==
  ASSUME Tipos, NEW cad, Sanas(cad), NEW h \in Hilos, Enlazar(h)
  PROVE  \E nuevas : Sanas(nuevas)' /\ Continua(cad, nuevas)
<1>1. /\ hilo[h] # Libre /\ hilo[h].op = "F_TRUNCATE" /\ hilo[h].pc = "ENLAZAR"
      /\ UNCHANGED <<fcbs, filesystem, contadores, historia>>
  BY Zenon, SirveNoLibre DEF Enlazar
<1>2. PICK t \in Hilados : t = hilo[h] /\ Local(t)
  BY PedidoDeHilo
<1>3. PICK f \in Nombres : f = t.archivo /\ Existe(f)
  BY <1>1, <1>2, PedidoDeHilo
<1>4. PICK s \in Seq(Bloques) : s = t.lista
  BY DEF Hilados
<1>5. PICK c \in Seq(Bloques) : c = cad[f]
  BY DEF Sanas, Cadenas
<1>6. PICK T \in Tablas : T = tabla_fat
  BY DEF Tipos, TypeOK, Tablas
<1>7. PICK n \in Nat : n = Len(s) /\ s \in [1..n -> Bloques]
  BY CadenaComoFuncion
<1>8. PICK l \in Nat : l = Len(c) /\ (c # <<>> => l \in 1..l /\ c[l] \in Bloques)
  BY CadenaComoFuncion
<1>9. /\ t.arg \in Nat /\ t.viejo \in Nat /\ t.op = "F_TRUNCATE" /\ t.pc = "ENLAZAR"
      /\ t.bloque \in Bloques /\ t.i \in Nat
  BY <1>1, <1>2 DEF Hilados, Local
<1>10. PICK i \in 1..n : i = t.i
  BY <1>2, <1>4, <1>7, <1>9 DEF Local
<1>11. Enlaza(T, t, c, cad)
  BY <1>1, <1>2, <1>3, <1>5, <1>6 DEF Sanas, Truncaciones, Trunca, Avance
<1>12. PICK v \in Nat : v = t.viejo \div TAM_BLOQUE
  BY <1>9, CocienteEsNatural
<1>13. PICK a \in Nat : a = t.arg \div TAM_BLOQUE
  BY <1>9, CocienteEsNatural
<1>14. /\ Crece(t, c) /\ t.cant = n
       /\ \A k \in 1..n : s[k] \in Bloques \ {0}
       /\ \A j, k \in 1..n : s[j] = s[k] => j = k
       /\ \A k \in i..n : T[s[k]] = 0
       /\ \A k \in i+1..n : Ajeno(s[k], cad)
  <2>1. \A k \in 1..n : s[k] \in Bloques
    BY <1>7
  <2> QED BY <1>4, <1>7, <1>10, <1>11, <2>1 DEF Enlaza, Distintos
<1>15. \/ t.rama = "CERO" /\ t.viejo = 0 /\ n = a
       \/ t.rama = "MAS" /\ c # <<>> /\ n = a - v
  BY <1>12, <1>13, <1>14 DEF Crece
<1>16. PICK y \in Bloques \cup {EOF_FS} : y = IF i = n THEN EOF_FS ELSE s[i + 1]
  <2>1. i # n => i + 1 \in 1..n
    OBVIOUS
  <2>2. i # n => s[i + 1] \in Bloques
    BY <1>7, <2>1
  <2> QED BY <2>2
<1>17. PICK U : /\ U = tabla_fat'
                /\ U = IF t.rama = "MAS" /\ i = 1 /\ t.bloque # s[1]
                       THEN [T EXCEPT ![s[i]] = y, ![t.bloque] = s[1]]
                       ELSE [T EXCEPT ![s[i]] = y]
  <2>1. y = IF t.i = Len(s) THEN EOF_FS ELSE s[t.i + 1]
    BY <1>7, <1>10, <1>16
  <2> QED BY <1>2, <1>4, <1>6, <1>10, <2>1, Zenon DEF Enlazar
<1>18. PICK pc : pc = IF i # n THEN "ENLAZAR"
                      ELSE IF t.rama = "CERO" THEN "FIJAR" ELSE "RESPONDER"
  OBVIOUS
<1>19. PICK j \in Nat : j = i + 1
  OBVIOUS
<1>20. PICK nuevo : nuevo = [t EXCEPT !.i = j, !.pc = pc]
  OBVIOUS
<1>21. Sigue(h, nuevo)
  <2>1. pc = IF ~(t.i = Len(s)) THEN "ENLAZAR"
             ELSE IF t.rama = "CERO" THEN "FIJAR" ELSE "RESPONDER"
    BY <1>7, <1>10, <1>18
  <2>2. j = t.i + 1
    BY <1>10, <1>19
  <2> QED BY <1>2, <1>4, <1>20, <2>1, <2>2, Zenon DEF Enlazar
<1>22. /\ nuevo.op = t.op /\ nuevo.archivo = f /\ nuevo.arg = t.arg /\ nuevo.viejo = t.viejo
       /\ nuevo.cant = t.cant /\ nuevo.rama = t.rama /\ nuevo.lista = s /\ nuevo.i = j
       /\ nuevo.pc = pc /\ nuevo.bloque = t.bloque
  BY <1>3, <1>4, <1>20 DEF Hilados
<1>23. pc \in {"ENLAZAR", "FIJAR", "RESPONDER"}
  BY <1>18
<1>24. nuevo \in Hilados
  <2>1. ASSUME pc = "ENLAZAR" PROVE nuevo \in Hilados
    BY <1>20, <2>1 DEF Hilados
  <2>2. ASSUME pc = "FIJAR" PROVE nuevo \in Hilados
    BY <1>20, <2>2 DEF Hilados
  <2>3. ASSUME pc = "RESPONDER" PROVE nuevo \in Hilados
    BY <1>20, <2>3 DEF Hilados
  <2> QED BY <1>23, <2>1, <2>2, <2>3
<1>25. ASSUME NEW nuevas, Cadenas(U, nuevas), U[0] = EOF_FS, Prolonga(c, nuevas[f]),
              \A g \in Nombres \ {f} : /\ nuevas[g] = cad[g]
                                       /\ \A m : Cubre(T, cad[g], m) => Cubre(U, cad[g], m),
              Avance(U, nuevo, nuevas[f], nuevas)
       PROVE  \E otras : Sanas(otras)' /\ Continua(cad, otras)
  <2>1. fcbs' = fcbs /\ \A g \in Nombres : ConBloques(g)' <=> ConBloques(g)
    BY <1>1 DEF ConBloques, Existe
  <2>2. Cadenas(tabla_fat, nuevas)'
    BY <1>17, <1>25, <2>1 DEF Cadenas
  <2>3. Avance(tabla_fat, nuevo, nuevas[f], nuevas)' /\ tabla_fat'[0] = EOF_FS
    BY <1>17, <1>25
  <2>4. \A g \in Nombres \ {f} :
          /\ nuevas[g] = cad[g]
          /\ \A m : Cubre(tabla_fat, cad[g], m) => Cubre(tabla_fat, cad[g], m)'
    BY <1>6, <1>17, <1>25
  <2>5. Sanas(nuevas)'
    BY <1>1, <1>2, <1>3, <1>9, <1>21, <1>22, <1>23, <1>24, <2>1, <2>2, <2>3, <2>4,
       PasoDeTruncacion DEF Trunca
  <2>6. Continua(cad, nuevas)
    <3>1. Cadenas(T, cad)
      BY <1>6 DEF Sanas
    <3> QED BY <1>5, <1>25, <3>1, ProlongaASiMisma DEF Continua
  <2> QED BY <2>5, <2>6
<1>26. ASSUME t.rama = "CERO"
       PROVE  \E otras : Sanas(otras)' /\ Continua(cad, otras)
  <2>1. /\ t.viejo = 0 /\ n = a /\ Cubre(T, c, t.viejo)
        /\ i > 1 => \A k \in 1..i - 1 : T[s[k]] = s[k + 1]
        /\ \A k \in 1..i : Ajeno(s[k], cad)
    <3>1. CASE i = 1
      BY <1>4, <1>10, <1>11, <1>15, <1>26, <3>1 DEF Enlaza
    <3>2. CASE i > 1
      BY <1>4, <1>10, <1>11, <1>15, <1>26, <3>2 DEF Enlaza
    <3> QED BY <3>1, <3>2
  <2>2. U = [T EXCEPT ![s[i]] = y] /\ s[i] \in Bloques \ {0}
    BY <1>14, <1>17, <1>26
  <2>3. U[s[i]] = y /\ \A z \in Bloques : z # s[i] => U[z] = T[z]
    BY <2>2 DEF Tablas
  <2>4. \A k \in 1..n : Ajeno(s[k], cad)
    <3>1. \A k \in 1..n : k \in 1..i \/ k \in i+1..n
      OBVIOUS
    <3> QED BY <1>14, <2>1, <3>1
  <2>5. \A k \in 1..n : k # i => U[s[k]] = T[s[k]]
    BY <1>14, <2>3
  <2>6. /\ Cadenas(U, cad)
        /\ \A g \in Nombres : \A m : Cubre(T, cad[g], m) => Cubre(U, cad[g], m)
    <3>1. ASSUME NEW g \in Nombres, NEW k \in 1..Len(cad[g])
          PROVE  U[cad[g][k]] = T[cad[g][k]]
      <4>1. PICK e \in Seq(Bloques) : e = cad[g]
        BY DEF Sanas, Cadenas
      <4>2. cad[g][k] \in Bloques
        BY <3>1, <4>1, CadenaComoFuncion
      <4>3. cad[g][k] # s[i]
        BY <2>1, <3>1 DEF Ajeno
      <4> QED BY <2>3, <4>2, <4>3
    <3>2. Cadenas(T, cad)
      BY <1>6 DEF Sanas
    <3> QED BY <3>1, <3>2, CadenasIguales
  <2>7. U[0] = EOF_FS
    BY <1>6, <2>2, <2>3, CeroEsBloque DEF Sanas
  <2>8. Prolonga(c, cad[f])
    BY <1>5, <1>6, ProlongaASiMisma DEF Sanas
  <2>9. Cubre(U, c, t.viejo)
    BY <1>5, <2>1, <2>6
  <2>10. \A k \in 1..n : k < i => U[s[k]] = s[k + 1]
    <3>1. ASSUME NEW k \in 1..n, k < i
          PROVE  U[s[k]] = s[k + 1]
      <4>1. i > 1 /\ k \in 1..i - 1 /\ k # i
        BY <3>1
      <4> QED BY <2>1, <2>5, <4>1
    <3> QED BY <3>1
  <2>11. Avance(U, nuevo, c, cad)
    <3>1. CASE i # n
      <4>1. y = s[i + 1] /\ pc = "ENLAZAR" /\ i + 1 \in 1..n
        BY <1>16, <1>18, <3>1
      <4>2. Crece(nuevo, c)
        BY <1>14, <1>22 DEF Crece
      <4>3. Distintos(s)
        BY <1>4, <1>11 DEF Enlaza
      <4>4. \A k \in j..n : U[s[k]] = 0
        <5>1. \A k \in j..n : k \in 1..n /\ k # i /\ k \in i..n
          BY <1>19
        <5> QED BY <1>14, <2>5, <5>1
      <4>5. \A k \in j+1..n : Ajeno(s[k], cad)
        <5>1. \A k \in j+1..n : k \in 1..n
          BY <1>19
        <5> QED BY <2>4, <5>1
      <4>6. \A k \in 1..j-1 : U[s[k]] = s[k + 1]
        <5>1. \A k \in 1..j-1 : k \in 1..n /\ (k = i \/ k < i)
          BY <1>19
        <5> QED BY <2>3, <2>10, <4>1, <5>1
      <4>7. \A k \in 1..j : Ajeno(s[k], cad)
        <5>1. \A k \in 1..j : k \in 1..n
          BY <1>19, <4>1
        <5> QED BY <2>4, <5>1
      <4>8. j > 1 /\ j \in 1..n
        BY <1>19, <4>1
      <4>9. Enlaza(U, nuevo, c, cad)
        BY <1>7, <1>14, <1>22, <1>26, <2>9, <4>2, <4>3, <4>4, <4>5, <4>6, <4>7, <4>8 DEF Enlaza
      <4> QED BY <1>22, <4>1, <4>9 DEF Avance
    <3>2. CASE i = n
      <4>1. y = EOF_FS /\ pc = "FIJAR"
        BY <1>16, <1>18, <1>26, <3>2
      <4>2. s # <<>>
        <5>1. n # 0 /\ Len(<<>>) = 0
          OBVIOUS
        <5> QED BY <1>7, <5>1, Zenon
      <4>3. \A k \in 1..n-1 : U[s[k]] = s[k + 1]
        <5>1. \A k \in 1..n-1 : k \in 1..n /\ k < i
          BY <3>2
        <5> QED BY <2>10, <5>1
      <4>4. U[s[n]] = EOF_FS
        BY <2>3, <3>2, <4>1
      <4>5. Enlazada(U, s, s[1])
        BY <1>7, <1>14, <4>2, <4>3, <4>4 DEF Enlazada
      <4>6. Cubre(U, s, t.arg)
        BY <1>7, <1>13, <2>1, <4>2, <4>4 DEF Cubre
      <4>7. Fija(U, nuevo, c, cad)
        BY <1>7, <1>22, <1>26, <2>1, <2>4, <2>9, <4>5, <4>6 DEF Fija
      <4> QED BY <1>22, <4>1, <4>7 DEF Avance
    <3> QED BY <3>1, <3>2
  <2> QED BY <1>5, <1>25, <2>6, <2>7, <2>8, <2>11
<1>27. ASSUME t.rama = "MAS", i = 1
       PROVE  \E otras : Sanas(otras)' /\ Continua(cad, otras)
  <2>1. /\ n = a - v /\ c # <<>> /\ v <= l /\ t.bloque = c[l] /\ Ajeno(s[1], cad)
        /\ l \in 1..l /\ T[c[l]] = EOF_FS
    <3>1. Cubre(T, c, t.viejo) /\ Ajeno(s[1], cad) /\ t.bloque = c[Len(c)]
      BY <1>4, <1>10, <1>11, <1>27 DEF Enlaza
    <3>2. n = a - v /\ c # <<>>
      BY <1>15, <1>27
    <3> QED BY <1>8, <1>12, <3>1, <3>2 DEF Cubre
  <2>2. t.bloque # s[1]
    BY <1>5, <1>8, <2>1 DEF Ajeno
  <2>3. PICK x \in Bloques \ {0} : x = s[1]
    BY <1>14, <1>27
  <2>4. U = [T EXCEPT ![x] = y, ![c[l]] = x]
    BY <1>17, <1>27, <2>1, <2>2, <2>3
  <2>5. PICK W : W = [T EXCEPT ![cad[f][Len(cad[f])]] = x, ![x] = IF n = 1 THEN EOF_FS ELSE 0]
    OBVIOUS
  <2>6. PICK z \in {0, EOF_FS} : z = IF n = 1 THEN EOF_FS ELSE 0
    OBVIOUS
  <2>7. W = [T EXCEPT ![c[l]] = x, ![x] = z]
    BY <1>5, <1>8, <2>5, <2>6
  <2>8. PICK d \in Seq(Bloques) : d = Append(c, x)
    BY AppendProperties
  <2>9. PICK nuevas : nuevas = [cad EXCEPT ![f] = Append(cad[f], x)]
    OBVIOUS
  <2>10. nuevas[f] = d
    BY <1>5, <2>8, <2>9 DEF Sanas, Cadenas
  <2>11. Len(d) = l + 1 /\ d[l + 1] = x /\ d # <<>> /\ \A k \in 1..l : d[k] = c[k]
    BY <1>8, <2>8, AppendProperties
  <2>12. Prolonga(c, d)
    BY <1>8, <2>11 DEF Prolonga
  <2>13. /\ W \in Tablas /\ Cadenas(W, nuevas)
         /\ \A g \in Nombres \ {f} : /\ nuevas[g] = cad[g]
                                     /\ \A m : Cubre(T, cad[g], m) => Cubre(W, cad[g], m)
         /\ \A b \in Bloques : Ajeno(b, cad) /\ b # x => Ajeno(b, nuevas) /\ W[b] = T[b]
    <3>1. Cadenas(T, cad) /\ cad[f] # <<>> /\ Ajeno(x, cad)
      BY <1>5, <1>6, <2>1, <2>3 DEF Sanas
    <3>2. W = [T EXCEPT ![cad[f][Len(cad[f])]] = x, ![x] = z]
      BY <2>5, <2>6
    <3>3. Alarga(T, W, cad, nuevas, f, x, z)
      BY <2>9, <3>1, <3>2 DEF Alarga
    <3> QED BY <3>3, CadenasAlargadas
  <2>14. W[0] = EOF_FS /\ W[x] = z
    <3>1. ConBloques(f) /\ Enlazada(T, c, fcbs[f].bloque_inicial)
      BY <1>5, <1>6, <2>1 DEF Sanas, Cadenas
    <3>2. c[l] # 0 /\ c[l] # x
      BY <1>8, <2>1, <2>2, <2>3, <3>1 DEF Enlazada
    <3> QED BY <1>6, <2>3, <2>7, <3>2, CeroEsBloque DEF Sanas, Tablas
  <2>15. CASE n = 1
    <3>1. y = EOF_FS /\ z = EOF_FS /\ pc = "RESPONDER"
      BY <1>16, <1>18, <1>27, <2>6, <2>15
    <3>2. U = W
      BY <2>2, <2>3, <2>1, <2>4, <2>7, <3>1 DEF Tablas
    <3>3. Cubre(W, d, t.arg)
      <4>1. a <= l + 1 /\ W[d[l + 1]] = EOF_FS
        BY <2>1, <2>11, <2>14, <2>15, <3>1
      <4> QED BY <1>13, <2>11, <4>1 DEF Cubre
    <3>4. Avance(U, nuevo, d, nuevas)
      BY <1>22, <3>1, <3>2, <3>3 DEF Avance
    <3> QED BY <1>25, <2>10, <2>12, <2>13, <2>14, <3>2, <3>4
  <2>16. CASE n # 1
    <3>1. z = 0 /\ pc = "ENLAZAR" /\ j = 2 /\ 2 \in 1..n /\ 2 \in i+1..n
      BY <1>18, <1>19, <1>27, <2>6, <2>16
    <3>2. PICK w \in Bloques \ {0} : w = s[2] /\ w = y /\ w # x
      <4>1. y = s[2] /\ s[2] # s[1]
        BY <1>14, <1>16, <1>27, <2>16, <3>1
      <4> QED BY <1>14, <2>3, <3>1, <4>1
    <3>3. Ajeno(w, cad) /\ T[w] = 0
      BY <1>14, <1>27, <3>1, <3>2
    <3>4. Ajeno(w, nuevas) /\ W[w] = 0
      BY <2>13, <3>2, <3>3
    <3>5. PICK e \in Seq(Bloques) : e = Append(d, w)
      BY AppendProperties
    <3>6. PICK otras : otras = [nuevas EXCEPT ![f] = Append(nuevas[f], w)]
      OBVIOUS
    <3>7. otras[f] = e
      BY <2>10, <2>13, <3>5, <3>6 DEF Cadenas
    <3>8. Len(e) = l + 2 /\ e[l + 2] = w /\ e # <<>> /\ \A k \in 1..l : e[k] = c[k]
      <4>1. Len(e) = (l + 1) + 1 /\ e[(l + 1) + 1] = w /\ \A k \in 1..l+1 : e[k] = d[k]
        BY <1>8, <2>11, <3>5, AppendProperties
      <4>2. (l + 1) + 1 = l + 2 /\ \A k \in 1..l : k \in 1..l+1
        OBVIOUS
      <4>3. e # <<>>
        BY <3>5
      <4> QED BY <2>11, <4>1, <4>2, <4>3
    <3>9. U = [W EXCEPT ![x] = w, ![w] = 0]
      BY <2>1, <2>2, <2>3, <2>4, <2>7, <3>1, <3>2, <3>4 DEF Tablas
    <3>10. U = [W EXCEPT ![nuevas[f][Len(nuevas[f])]] = w, ![w] = 0]
      BY <2>10, <2>11, <3>9
    <3>11. /\ U \in Tablas /\ Cadenas(U, otras)
           /\ \A g \in Nombres \ {f} : /\ otras[g] = nuevas[g]
                                       /\ \A m : Cubre(W, nuevas[g], m) => Cubre(U, nuevas[g], m)
           /\ \A b \in Bloques : Ajeno(b, nuevas) /\ b # w => Ajeno(b, otras) /\ U[b] = W[b]
      <4>1. nuevas[f] # <<>>
        BY <2>10, <2>11
      <4>2. Alarga(W, U, nuevas, otras, f, w, 0)
        BY <2>13, <3>4, <3>6, <3>10, <4>1 DEF Alarga
      <4> QED BY <4>2, CadenasAlargadas
    <3>12. U[0] = EOF_FS /\ U[w] = 0
      BY <2>13, <2>14, <2>3, <3>2, <3>9, CeroEsBloque DEF Tablas
    <3>13. \A k \in 3..n : Ajeno(s[k], otras) /\ U[s[k]] = 0
      <4>1. ASSUME NEW k \in 3..n
            PROVE  Ajeno(s[k], otras) /\ U[s[k]] = 0
        <5>1. 1 \in 1..n /\ k \in 1..n /\ k # 1 /\ k # 2 /\ k \in i+1..n /\ k \in i..n
          BY <1>27
        <5>2. s[k] \in Bloques /\ s[k] # x /\ s[k] # w /\ T[s[k]] = 0 /\ Ajeno(s[k], cad)
          BY <1>14, <2>3, <3>1, <3>2, <5>1
        <5>3. Ajeno(s[k], nuevas) /\ W[s[k]] = 0
          BY <2>13, <5>2
        <5> QED BY <3>11, <5>2, <5>3
      <4> QED BY <4>1
    <3>14. Enlaza(U, nuevo, e, otras)
      <4>1. Distintos(s)
        BY <1>4, <1>11 DEF Enlaza
      <4>2. Crece(nuevo, e)
        BY <1>14, <1>22, <1>27, <3>8 DEF Crece
      <4>3. \A k \in j..n : U[s[k]] = 0
        <5>1. \A k \in 2..n : k = 2 \/ k \in 3..n
          OBVIOUS
        <5> QED BY <3>1, <3>2, <3>12, <3>13, <5>1
      <4>4. \A k \in j+1..n : Ajeno(s[k], otras)
        <5>1. j + 1 = 3
          BY <3>1
        <5> QED BY <3>13, <5>1
      <4>5. v + j <= Len(e) /\ e[Len(e)] = s[j] /\ j > 1 /\ j \in 1..n
        BY <2>1, <3>1, <3>2, <3>8
      <4> QED BY <1>7, <1>12, <1>14, <1>22, <1>27, <4>1, <4>2, <4>3, <4>4, <4>5 DEF Enlaza
    <3>15. Avance(U, nuevo, e, otras)
      BY <1>22, <3>1, <3>14 DEF Avance
    <3>16. Prolonga(c, e)
      BY <1>8, <3>8 DEF Prolonga
    <3>17. \A g \in Nombres \ {f} : /\ otras[g] = cad[g]
                                    /\ \A m : Cubre(T, cad[g], m) => Cubre(U, cad[g], m)
      BY <2>13, <3>11
    <3> QED BY <1>25, <3>7, <3>11, <3>12, <3>15, <3>16, <3>17
  <2> QED BY <2>15, <2>16
<1>28. ASSUME t.rama = "MAS", i > 1
       PROVE  \E otras : Sanas(otras)' /\ Continua(cad, otras)
  <2>1. /\ n = a - v /\ c # <<>> /\ v + i <= l /\ c[l] = s[i] /\ l \in 1..l
    <3>1. (t.viejo \div TAM_BLOQUE) + t.i <= Len(c) /\ c[Len(c)] = t.lista[t.i]
      BY <1>10, <1>11, <1>28 DEF Enlaza
    <3>2. n = a - v /\ c # <<>>
      BY <1>15, <1>28
    <3> QED BY <1>4, <1>8, <1>10, <1>12, <3>1, <3>2
  <2>2. U = [T EXCEPT ![c[l]] = y] /\ c[l] \in Bloques \ {0}
    BY <1>14, <1>17, <1>28, <2>1
  <2>3. U[c[l]] = y /\ \A z \in Bloques : z # c[l] => U[z] = T[z]
    BY <2>2 DEF Tablas
  <2>4. Cadenas(T, cad) /\ cad[f] = c /\ cad[f] # <<>> /\ T[0] = EOF_FS
    BY <1>5, <1>6, <2>1 DEF Sanas
  <2>5. U[0] = EOF_FS
    BY <2>2, <2>3, <2>4, CeroEsBloque
  <2>6. CASE i = n
    <3>1. y = EOF_FS /\ pc = "RESPONDER"
      BY <1>16, <1>18, <1>28, <2>6
    <3>2. PICK u : u = cad[f][Len(cad[f])] /\ u = c[l]
      BY <1>8, <2>4
    <3>3. Reescribe(T, U, cad, f, u)
      BY <2>3, <2>4, <3>1, <3>2 DEF Reescribe
    <3>4. /\ Cadenas(U, cad)
          /\ \A g \in Nombres \ {f} : \A m : Cubre(T, cad[g], m) => Cubre(U, cad[g], m)
      BY <3>3, CadenasReescritas
    <3>5. Prolonga(c, cad[f])
      BY <2>4, ProlongaASiMisma
    <3>6. Cubre(U, c, t.arg)
      <4>1. a <= l
        BY <2>1, <2>6
      <4> QED BY <1>8, <1>13, <2>1, <2>3, <3>1, <4>1 DEF Cubre
    <3>7. Avance(U, nuevo, c, cad)
      BY <1>22, <3>1, <3>6 DEF Avance
    <3> QED BY <1>25, <2>4, <2>5, <3>4, <3>5, <3>7
  <2>7. CASE i # n
    <3>1. pc = "ENLAZAR" /\ j = i + 1 /\ j \in 1..n /\ j \in i+1..n /\ j \in i..n
      BY <1>18, <1>19, <2>7
    <3>2. PICK w \in Bloques \ {0} : w = s[j] /\ w = y /\ w # c[l]
      <4>1. y = s[j] /\ s[j] # s[i]
        BY <1>14, <1>16, <2>7, <3>1
      <4> QED BY <1>14, <2>1, <3>1, <4>1
    <3>3. Ajeno(w, cad) /\ T[w] = 0
      <4>1. Ajeno(s[j], cad) /\ T[s[j]] = 0
        BY <1>14, <3>1
      <4> QED BY <3>2, <4>1
    <3>4. U = [T EXCEPT ![cad[f][Len(cad[f])]] = w, ![w] = 0]
      <4>1. U = [T EXCEPT ![c[l]] = w, ![w] = 0]
        BY <2>2, <3>2, <3>3 DEF Tablas
      <4> QED BY <1>8, <2>4, <4>1
    <3>5. PICK d \in Seq(Bloques) : d = Append(c, w)
      BY AppendProperties
    <3>6. PICK nuevas : nuevas = [cad EXCEPT ![f] = Append(cad[f], w)]
      OBVIOUS
    <3>7. nuevas[f] = d
      BY <2>4, <3>5, <3>6 DEF Cadenas
    <3>8. Len(d) = l + 1 /\ d[l + 1] = w /\ d # <<>> /\ \A k \in 1..l : d[k] = c[k]
      BY <1>8, <3>5, AppendProperties
    <3>9. Prolonga(c, d)
      BY <1>8, <3>8 DEF Prolonga
    <3>10. /\ U \in Tablas /\ Cadenas(U, nuevas)
           /\ \A g \in Nombres \ {f} : /\ nuevas[g] = cad[g]
                                       /\ \A m : Cubre(T, cad[g], m) => Cubre(U, cad[g], m)
           /\ \A b \in Bloques : Ajeno(b, cad) /\ b # w => Ajeno(b, nuevas) /\ U[b] = T[b]
      <4>1. Alarga(T, U, cad, nuevas, f, w, 0)
        BY <2>4, <3>3, <3>4, <3>6 DEF Alarga
      <4> QED BY <4>1, CadenasAlargadas
    <3>11. U[w] = 0
      BY <2>3, <3>2, <3>3
    <3>12. \A k \in j+1..n : Ajeno(s[k], nuevas) /\ U[s[k]] = 0
      <4>1. ASSUME NEW k \in j+1..n
            PROVE  Ajeno(s[k], nuevas) /\ U[s[k]] = 0
        <5>1. k \in 1..n /\ k # j /\ k \in i+1..n /\ k \in i..n
          BY <3>1
        <5>2. s[k] \in Bloques /\ s[k] # w /\ T[s[k]] = 0 /\ Ajeno(s[k], cad)
          BY <1>14, <3>1, <3>2, <5>1
        <5> QED BY <3>10, <5>2
      <4> QED BY <4>1
    <3>13. Enlaza(U, nuevo, d, nuevas)
      <4>1. Distintos(s)
        BY <1>4, <1>11 DEF Enlaza
      <4>2. Crece(nuevo, d)
        BY <1>14, <1>22, <1>28, <3>8 DEF Crece
      <4>3. \A k \in j..n : U[s[k]] = 0
        <5>1. \A k \in j..n : k = j \/ k \in j+1..n
          OBVIOUS
        <5> QED BY <3>2, <3>11, <3>12, <5>1
      <4>4. \A k \in j+1..n : Ajeno(s[k], nuevas)
        BY <3>12
      <4>5. v + j <= Len(d) /\ d[Len(d)] = s[j] /\ j > 1 /\ j \in 1..n
        BY <2>1, <3>1, <3>2, <3>8
      <4> QED BY <1>7, <1>12, <1>14, <1>22, <1>28, <4>1, <4>2, <4>3, <4>4, <4>5 DEF Enlaza
    <3>14. Avance(U, nuevo, d, nuevas)
      BY <1>22, <3>1, <3>13 DEF Avance
    <3> QED BY <1>25, <2>5, <3>7, <3>9, <3>10, <3>14
  <2> QED BY <2>6, <2>7
<1>29. i = 1 \/ i > 1
  OBVIOUS
<1> QED BY <1>15, <1>26, <1>27, <1>28, <1>29

-------------------------------------------------------------------------------
(* The invariant is kept.                                                   *)

LEMMA SanasDeReiniciar ==
  ASSUME Tipos, Reiniciar, NEW cad
  PROVE  \E nuevas : Sanas(nuevas)' /\ Continua(cad, nuevas)
<1>1. /\ fcbs' = [f \in Nombres |-> NULL] /\ hilo' = [h \in Hilos |-> Libre]
      /\ tabla_fat' = [tabla_fat EXCEPT ![0] = EOF_FS]
  BY DEF Reiniciar
<1>2. tabla_fat'[0] = EOF_FS
  BY <1>1, CeroEsBloque DEF Tipos, TypeOK
<1> QED BY <1>1, <1>2, SanasDeCaer

LEMMA SanasDeInit ==
  ASSUME Init
  PROVE  \E cad : Sanas(cad)
<1>1. PICK cad : cad = [f \in Nombres |-> <<>>]
  OBVIOUS
<1>2. \A h \in Hilos : hilo[h].op = "LIBRE"
  BY LibreEsHilado DEF Init
<1>3. \A f \in Nombres : fcbs[f] = NULL /\ cad[f] = <<>> /\ Len(cad[f]) = 0
  BY <1>1 DEF Init
<1>4. cad \in [Nombres -> Seq(Bloques)]
  BY <1>1
<1>5. Cadenas(tabla_fat, cad)
  <2>1. \A f \in Nombres : ~ConBloques(f)
    BY <1>3 DEF ConBloques, Existe
  <2>2. \A f, g \in Nombres : f # g =>
          \A j \in 1..Len(cad[f]), k \in 1..Len(cad[g]) : cad[f][j] # cad[g][k]
    BY <1>3
  <2> QED BY <1>3, <1>4, <2>1, <2>2 DEF Cadenas
<1>6. Enteras(cad)
  BY <1>3 DEF Enteras, Existe
<1>7. Truncaciones(cad) /\ Escrituras(cad)
  BY <1>2 DEF Truncaciones, Escrituras, Trunca, Escribe
<1>8. tabla_fat[0] = EOF_FS
  BY CeroEsBloque DEF Init
<1> QED BY <1>5, <1>6, <1>7, <1>8 DEF Sanas

(* That two truncations have run together is not forgotten until a restart. *)
LEMMA LimpioAntes ==
  ASSUME Tipos, [Next]_vars, Limpio'
  PROVE  Limpio \/ Reiniciar
<1>1. ASSUME NEW h, NEW op, NEW f \in Nombres, historia' = Mezcla(h, op, f)
      PROVE  Limpio
  BY <1>1, MezclaDa DEF Tipos, Limpio
<1>2. ASSUME NEW f \in Nombres, CrearFcb(f) PROVE historia' = historia
  BY <1>2 DEF CrearFcb
<1>3. ASSUME NEW h \in Hilos, NEW f \in Nombres, NEW n, Truncar(h, f, n) \/ BuscarBloque(h, f, n)
      PROVE  Limpio
  <2>1. historia' = Mezcla(h, "F_TRUNCATE", f) \/ historia' = Mezcla(h, "F_WRITE", f)
    BY <1>3, Zenon DEF Truncar, BuscarBloque, Pide
  <2> QED BY <1>1, <2>1
<1>4. ASSUME NEW h \in Hilos, Hilo(h) PROVE historia' = historia
  BY <1>4, Zenon DEF Hilo, Elegir, Secuencia, Buscar, Enlazar, Fijar, Reducir, Responder, Desplazar,
                     Escribir
<1>5. UNCHANGED vars => historia' = historia
  BY DEF vars
<1> QED BY <1>2, <1>3, <1>4, <1>5 DEF Next, Limpio

LEMMA SanasSeConservan ==
  ASSUME Tipos, [Next]_vars, NEW cad, Sanas(cad), Limpio'
  PROVE  \E nuevas : Sanas(nuevas)' /\ Continua(cad, nuevas)
<1> DEFINE Meta == \E nuevas : Sanas(nuevas)' /\ Continua(cad, nuevas)
<1>1. ASSUME NEW f \in Nombres, CrearFcb(f) PROVE Meta
  BY <1>1, SanasDeCrearFcb
<1>2. ASSUME NEW h \in Hilos, NEW f \in Nombres, NEW n \in Tamanios, Truncar(h, f, n) PROVE Meta
  BY <1>2, SanasDeTruncar
<1>3. ASSUME NEW h \in Hilos, NEW f \in Nombres, NEW n \in Punteros, BuscarBloque(h, f, n) PROVE Meta
  BY <1>3, SanasDeBuscarBloque
<1>4. ASSUME NEW h \in Hilos, Hilo(h) PROVE Meta
  <2>1. CASE Elegir(h) BY <2>1, SanasDeElegir
  <2>2. CASE Secuencia(h) BY <2>2, SanasDeSecuencia
  <2>3. CASE Buscar(h) BY <2>3, SanasDeBuscar
  <2>4. CASE Enlazar(h) BY <2>4, SanasDeEnlazar
  <2>5. CASE Fijar(h) BY <2>5, SanasDeFijar
  <2>6. CASE Reducir(h) BY <2>6, SanasDeReducir
  <2>7. CASE Responder(h) BY <2>7, SanasDeResponder
  <2>8. CASE Desplazar(h) BY <2>8, SanasDeDesplazar
  <2>9. CASE Escribir(h) BY <2>9, SanasDeEscribir
  <2> QED BY <1>4, <2>1, <2>2, <2>3, <2>4, <2>5, <2>6, <2>7, <2>8, <2>9 DEF Hilo
<1>5. CASE Reiniciar
  BY <1>5, SanasDeReiniciar
<1>6. CASE UNCHANGED vars
  BY <1>6, SanasDeNada DEF vars
<1> QED BY <1>1, <1>2, <1>3, <1>4, <1>5, <1>6 DEF Next

LEMMA InvSeConserva ==
  ASSUME Inv, [Next]_vars
  PROVE  Inv'
<1>1. Tipos /\ Tipos'
  BY TiposSeConservan DEF Inv
<1>2. ASSUME Limpio'
      PROVE  \E nuevas : Sanas(nuevas)'
  <2>1. CASE Reiniciar
    BY <1>1, <2>1, SanasDeReiniciar
  <2>2. CASE ~Reiniciar
    <3>1. PICK cad : Sanas(cad)
      BY <1>1, <1>2, <2>2, LimpioAntes DEF Inv
    <3> QED BY <1>1, <1>2, <3>1, SanasSeConservan
  <2> QED BY <2>1, <2>2
<1> QED BY <1>1, <1>2 DEF Inv

LEMMA InvAlInicio ==
  ASSUME Init
  PROVE  Inv
BY TiposDeInit, SanasDeInit DEF Inv

-------------------------------------------------------------------------------
(* What the invariant says of the chains, as the functions find them.       *)

(* The chain of a file is the sequence that is linked for it.               *)
Encontrada == \A cad : Cadenas(tabla_fat, cad) => \A f \in Nombres : Cadena(f) = cad[f]

(* The data of a file are in its chain.                                     *)
Cabe ==
  \A cad : Tipos /\ Sanas(cad) =>
    \A f \in Nombres : Existe(f) => ConDatos(f) \in Nat /\ ConDatos(f) <= Len(cad[f])

LEMMA SiempreEncontrada ==
  ASSUME TypeOK
  PROVE  Encontrada
BY CadenaEs DEF Encontrada

(* The smaller of one or two sizes.                                         *)
LEMMA MenorTamanio ==
  ASSUME NEW a \in Nat, NEW v \in Nat, NEW S, S = {a, v}
  PROVE  /\ (CHOOSE n \in S : \A m \in S : n <= m) \in S
         /\ \A k \in S : (CHOOSE n \in S : \A m \in S : n <= m) <= k
<1>1. \E n \in S : \A m \in S : n <= m
  <2>1. CASE a <= v
    BY <2>1
  <2>2. CASE v <= a
    BY <2>2
  <2> QED BY <2>1, <2>2
<1>2. PICK x : x = CHOOSE n \in S : \A m \in S : n <= m
  OBVIOUS
<1>3. x \in S /\ \A m \in S : x <= m
  BY <1>1, <1>2, Zenon
<1> QED BY <1>2, <1>3

LEMMA DatosEnCadena ==
  ASSUME Tipos, NEW cad, Sanas(cad), NEW f \in Nombres, Existe(f)
  PROVE  ConDatos(f) \in Nat /\ ConDatos(f) <= Len(cad[f])
<1>1. PICK S : S = {fcbs[f].tamanio} \cup
        {hilo[h].viejo : h \in {t \in Hilos : hilo[t].op = "F_TRUNCATE" /\ hilo[t].archivo = f}}
  OBVIOUS
<1>2. PICK x : x = CHOOSE n \in S : \A m \in S : n <= m
  OBVIOUS
<1>3. ConDatos(f) = x \div TAM_BLOQUE
  BY <1>1, <1>2, Zenon DEF ConDatos
<1>4. PICK s \in Nat : s = fcbs[f].tamanio
  BY FcbDeExistente DEF Tipos
<1>5. PICK l \in Nat : l = Len(cad[f])
  <2>1. cad[f] \in Seq(Bloques)
    BY DEF Sanas, Cadenas
  <2> QED BY <2>1
<1>6. CASE ~Truncando(f)
  <2>1. S = {s, s}
    BY <1>1, <1>4, <1>6 DEF Truncando
  <2>2. x = s
    BY <1>2, <2>1, MenorTamanio
  <2>3. s \div TAM_BLOQUE \in Nat
    BY CocienteEsNatural
  <2>4. s \div TAM_BLOQUE <= Len(cad[f])
    BY <1>4, <1>6 DEF Sanas, Enteras, Cubre
  <2> QED BY <1>3, <2>2, <2>3, <2>4
<1>7. CASE Truncando(f)
  <2>1. PICK h \in Hilos : hilo[h].op = "F_TRUNCATE" /\ hilo[h].archivo = f
    BY <1>7 DEF Truncando
  <2>2. PICK t \in Hilados : t = hilo[h]
    BY PedidoDeHilo
  <2>3. \A g \in Hilos : hilo[g].op = "F_TRUNCATE" => g = h
    BY <2>1 DEF Sanas, Truncaciones, Trunca
  <2>4. t.arg = s /\ t.arg \in Nat /\ t.viejo \in Nat
    BY <1>4, <2>1, <2>2 DEF Sanas, Truncaciones, Trunca, Hilados
  <2>5. S = {t.arg, t.viejo}
    BY <1>1, <1>4, <2>1, <2>2, <2>3, <2>4
  <2>6. x \in Nat /\ x <= t.arg /\ x <= t.viejo
    BY <1>2, <2>4, <2>5, MenorTamanio
  <2>7. x \div TAM_BLOQUE <= t.arg \div TAM_BLOQUE /\ x \div TAM_BLOQUE <= t.viejo \div TAM_BLOQUE
    BY <2>4, <2>6, CocienteMonotono
  <2>8. PICK q, a, v \in Nat : /\ q = x \div TAM_BLOQUE /\ a = t.arg \div TAM_BLOQUE
                               /\ v = t.viejo \div TAM_BLOQUE
    BY <2>4, <2>6, CocienteEsNatural
  <2>9. a <= l \/ v <= l
    <3>1. /\ Avance(tabla_fat, t, cad[f], cad)
          /\ t.pc \in {"ELEGIR", "SECUENCIA", "BUSCAR", "ENLAZAR", "FIJAR", "REDUCIR", "RESPONDER"}
      BY <2>1, <2>2 DEF Sanas, Truncaciones, Trunca
    <3>2. CASE t.pc \in {"ELEGIR", "SECUENCIA", "BUSCAR", "FIJAR"}
      BY <1>5, <2>8, <3>1, <3>2 DEF Avance, Elige, Recorre, Busca, Fija, Cubre
    <3>3. CASE t.pc \in {"REDUCIR", "RESPONDER"}
      BY <1>5, <2>8, <3>1, <3>3 DEF Avance, Reduce, Cubre
    <3>4. CASE t.pc = "ENLAZAR"
      <4>1. /\ t.i \in Nat
            /\ Cubre(tabla_fat, cad[f], t.viejo) \/ (t.viejo \div TAM_BLOQUE) + t.i <= Len(cad[f])
        BY <2>2, <3>1, <3>4 DEF Avance, Enlaza, Hilados
      <4> QED BY <1>5, <2>8, <4>1 DEF Cubre
    <3> QED BY <3>1, <3>2, <3>3, <3>4
  <2>10. q <= a /\ q <= v
    BY <2>7, <2>8
  <2> QED BY <1>3, <1>5, <2>8, <2>9, <2>10
<1> QED BY <1>6, <1>7

LEMMA SiempreCabe == Cabe
BY DatosEnCadena DEF Cabe

LEMMA SanasSonCadenas ==
  ASSUME Inv
  PROVE  CadenasSanas
<1>1. SUFFICES ASSUME Limpio, NEW f \in Nombres, EnPaz(f)
               PROVE  LET c == Cadena(f)
                      IN  /\ Len(c) >= fcbs[f].tamanio \div TAM_BLOQUE
                          /\ IsInjective(c) /\ 0 \notin ToSet(c)
                          /\ c # <<>> => tabla_fat[Last(c)] = EOF_FS
                          /\ \A g \in Nombres \ {f} : ToSet(c) \cap ToSet(Cadena(g)) = {}
  BY DEF CadenasSanas, Limpio
<1>2. Tipos /\ Existe(f) /\ ~Truncando(f) /\ Limpio
  BY <1>1 DEF Inv, EnPaz
<1>3. PICK cad : Sanas(cad)
  BY <1>2 DEF Inv
<1>4. \A g \in Nombres : Cadena(g) = cad[g] /\ cad[g] \in Seq(Bloques)
  <2>1. Cadenas(tabla_fat, cad) /\ TypeOK
    BY <1>2, <1>3 DEF Sanas, Tipos
  <2>2. \A g \in Nombres : cad[g] \in Seq(Bloques)
    BY <2>1 DEF Cadenas
  <2> QED BY <2>1, <2>2, CadenaEs
<1>5. PICK c \in Seq(Bloques) : c = Cadena(f) /\ c = cad[f]
  BY <1>4
<1>6. PICK l \in Nat : l = Len(c) /\ c \in [1..l -> Bloques] /\ (c # <<>> => l \in 1..l)
  BY CadenaComoFuncion
<1>7. PICK s \in Nat : s = fcbs[f].tamanio
  BY <1>2, FcbDeExistente DEF Tipos
<1>8. Cubre(tabla_fat, c, s)
  BY <1>2, <1>3, <1>5, <1>7 DEF Sanas, Enteras
<1>9. Len(c) >= s \div TAM_BLOQUE
  BY <1>6, <1>7, <1>8, CocienteEsNatural DEF Cubre
<1>10. c # <<>> => tabla_fat[Last(c)] = EOF_FS
  BY <1>8 DEF Cubre, Last
<1>11. /\ \A k \in 1..l : c[k] # 0
       /\ \A j, k \in 1..l : c[j] = c[k] => j = k
  <2>1. CASE c = <<>>
    BY <1>6, <2>1
  <2>2. CASE c # <<>>
    <3>1. Enlazada(tabla_fat, c, fcbs[f].bloque_inicial)
      BY <1>3, <1>5, <2>2 DEF Sanas, Cadenas
    <3> QED BY <1>6, <3>1 DEF Enlazada
  <2> QED BY <2>1, <2>2
<1>12. IsInjective(c) /\ 0 \notin ToSet(c)
  <2>1. DOMAIN c = 1..l
    BY <1>6
  <2>2. IsInjective(c)
    BY <1>11, <2>1 DEF IsInjective
  <2> QED BY <1>6, <1>11, <2>1, <2>2 DEF ToSet
<1>13. ASSUME NEW g \in Nombres \ {f}
       PROVE  ToSet(c) \cap ToSet(Cadena(g)) = {}
  <2>1. PICK d \in Seq(Bloques) : d = Cadena(g) /\ d = cad[g]
    BY <1>4
  <2>2. DOMAIN c = 1..Len(c) /\ DOMAIN d = 1..Len(d)
    OBVIOUS
  <2>3. \A j \in 1..Len(c), k \in 1..Len(d) : c[j] # d[k]
    BY <1>3, <1>5, <2>1 DEF Sanas, Cadenas
  <2> QED BY <2>1, <2>2, <2>3 DEF ToSet
<1> QED BY <1>5, <1>7, <1>9, <1>10, <1>12, <1>13

LEMMA CaminaALoSuyo ==
  ASSUME Inv
  PROVE  EscribeEnLoSuyo
<1>1. SUFFICES ASSUME Limpio, NEW h \in Hilos, NEW f, f = hilo[h].archivo,
                      hilo[h].pc = "EN_MEMORIA", EnPaz(f), f \notin historia.archivos,
                      hilo[h].arg \div TAM_BLOQUE < fcbs[f].tamanio \div TAM_BLOQUE
               PROVE  /\ Len(Cadena(f)) > hilo[h].arg \div TAM_BLOQUE
                      /\ hilo[h].bloque = Cadena(f)[hilo[h].arg \div TAM_BLOQUE + 1]
  BY DEF EscribeEnLoSuyo, Limpio
<1>2. Tipos /\ Existe(f) /\ ~Truncando(f) /\ f \notin historia.archivos
  BY <1>1 DEF Inv, EnPaz
<1>3. PICK t \in Hilados : t = hilo[h] /\ t.arg \in Nat /\ t.pc = "EN_MEMORIA"
  BY <1>1, <1>2, PedidoDeHilo DEF Hilados
<1>4. hilo[h] # Libre /\ f \in Nombres
  <2>1. hilo[h] # Libre
    BY <1>1 DEF Libre
  <2> QED BY <1>1, <1>2, <2>1, PedidoDeHilo
<1>5. PICK cad : Sanas(cad)
  BY <1>1 DEF Inv
<1>6. Escribe(h)
  <2>1. hilo[h].op \in {"F_TRUNCATE", "F_WRITE"}
    BY <1>2, <1>4, PedidoDeHilo
  <2>2. hilo[h].op # "F_TRUNCATE"
    BY <1>1, <1>5 DEF Sanas, Truncaciones, Trunca
  <2> QED BY <2>1, <2>2 DEF Escribe
<1>7. PICK c \in Seq(Bloques) : c = cad[f] /\ c = Cadena(f)
  <2>1. Cadenas(tabla_fat, cad) /\ TypeOK
    BY <1>2, <1>5 DEF Sanas, Tipos
  <2>2. Cadena(f) = cad[f]
    BY <1>4, <2>1, CadenaEs
  <2>3. cad[f] \in Seq(Bloques)
    BY <1>4, <2>1 DEF Cadenas
  <2> QED BY <2>2, <2>3
<1>8. PICK l \in Nat : l = Len(c)
  OBVIOUS
<1>9. PICK a \in Nat : a = t.arg \div TAM_BLOQUE
  BY <1>3, CocienteEsNatural
<1>10. PICK s \in Nat : s = fcbs[f].tamanio \div TAM_BLOQUE
  BY <1>2, <1>4, FcbDeExistente, CocienteEsNatural DEF Tipos
<1>11. s <= l
  BY <1>2, <1>4, <1>5, <1>7, <1>8, <1>10 DEF Sanas, Enteras, Cubre
<1>12. a < l => t.bloque = c[a + 1]
  <2>1. Camina(t, c)
    BY <1>1, <1>2, <1>3, <1>5, <1>6, <1>7 DEF Sanas, Escrituras
  <2> QED BY <1>3, <1>8, <1>9, <2>1 DEF Camina
<1>13. a < s
  BY <1>1, <1>3, <1>9, <1>10
<1>14. a < l /\ t.bloque = c[a + 1]
  BY <1>11, <1>12, <1>13
<1> QED BY <1>3, <1>7, <1>8, <1>9, <1>14

(* The blocks that a file has data in before and after a step.              *)
LEMMA DatosDelPaso ==
  ASSUME Inv, [Next]_vars, Encontrada, Encontrada', Cabe, Cabe',
         NEW f \in Nombres, Existe(f), Existe(f)', Limpio'
  PROVE  LET n == IF ConDatos(f) < ConDatos(f)' THEN ConDatos(f) ELSE ConDatos(f)'
         IN  SubSeq(Cadena(f), 1, n) = SubSeq(Cadena(f)', 1, n)
<1>1. Tipos /\ Tipos' /\ Limpio'
  BY InvSeConserva DEF Inv
<1>2. fcbs'[f] # NULL /\ ~Reiniciar
  BY DEF Existe, Reiniciar
<1>3. PICK cad : Sanas(cad)
  BY <1>1, <1>2, LimpioAntes DEF Inv
<1>4. PICK nuevas : Sanas(nuevas)' /\ Continua(cad, nuevas)
  BY <1>1, <1>3, SanasSeConservan
<1>5. PICK c \in Seq(Bloques) : c = cad[f] /\ c = Cadena(f)
  BY <1>3 DEF Encontrada, Sanas, Cadenas
<1>6. PICK d \in Seq(Bloques) : d = nuevas[f] /\ d = Cadena(f)'
  <2>1. Cadenas(tabla_fat, nuevas)'
    BY <1>4 DEF Sanas
  <2>2. Cadena(f)' = nuevas[f]
    BY <2>1 DEF Encontrada
  <2>3. nuevas[f] \in Seq(Bloques)
    BY <2>1 DEF Cadenas
  <2> QED BY <2>2, <2>3
<1>7. PICK l, m \in Nat : l = Len(c) /\ m = Len(d)
  OBVIOUS
<1>8. PICK x \in Nat : x = ConDatos(f) /\ x <= l
  BY <1>1, <1>3, <1>5, <1>7 DEF Cabe
<1>9. PICK y \in Nat : y = ConDatos(f)'
  BY <1>1, <1>4 DEF Cabe
<1>10. x = 0 \/ Prolonga(c, d)
  BY <1>2, <1>4, <1>5, <1>6, <1>8 DEF Continua
<1>11. PICK n \in Nat : n = IF x < y THEN x ELSE y
  OBVIOUS
<1>12. \A k \in 1..n : c[k] = d[k]
  <2>1. CASE x = 0
    <3>1. n = 0
      BY <1>11, <2>1
    <3> QED BY <3>1
  <2>2. CASE Prolonga(c, d)
    <3>1. \A k \in 1..l : d[k] = c[k]
      BY <1>7, <2>2 DEF Prolonga
    <3>2. \A k \in 1..n : k \in 1..l
      BY <1>8, <1>11
    <3> QED BY <3>1, <3>2
  <2> QED BY <1>10, <2>1, <2>2
<1>13. SubSeq(c, 1, n) = SubSeq(d, 1, n)
  <2>1. n <= l /\ n <= m
    <3>1. x = 0 \/ l <= m
      BY <1>7, <1>10 DEF Prolonga
    <3> QED BY <1>8, <1>11, <3>1
  <2>2. ASSUME NEW s \in Seq(Bloques), n <= Len(s)
        PROVE  /\ SubSeq(s, 1, n) \in Seq(Bloques) /\ Len(SubSeq(s, 1, n)) = n
               /\ \A k \in 1..n : SubSeq(s, 1, n)[k] = s[k]
    <3>1. \A k \in 1..n : s[k] \in Bloques
      BY <2>2
    <3>2. /\ SubSeq(s, 1, n) \in Seq(Bloques)
          /\ Len(SubSeq(s, 1, n)) = IF 1 <= n THEN n - 1 + 1 ELSE 0
          /\ \A k \in 1..n-1+1 : SubSeq(s, 1, n)[k] = s[1+k-1]
      <4>1. 1 \in Int /\ n \in Int
        OBVIOUS
      <4> QED BY <3>1, <4>1, SubSeqProperties
    <3>3. (IF 1 <= n THEN n - 1 + 1 ELSE 0) = n /\ 1..n-1+1 = 1..n /\ \A k \in 1..n : 1+k-1 = k
      OBVIOUS
    <3>4. \A k \in 1..n : SubSeq(s, 1, n)[k] = s[k]
      BY <3>2, <3>3
    <3> QED BY <3>2, <3>3, <3>4
  <2>3. n <= Len(c) /\ n <= Len(d)
    BY <1>7, <2>1
  <2>4. PICK u, w \in Seq(Bloques) :
          /\ u = SubSeq(c, 1, n) /\ Len(u) = n /\ \A k \in 1..n : u[k] = c[k]
          /\ w = SubSeq(d, 1, n) /\ Len(w) = n /\ \A k \in 1..n : w[k] = d[k]
    BY <2>2, <2>3
  <2>5. Len(u) = Len(w) /\ \A k \in 1..Len(u) : u[k] = w[k]
    BY <1>12, <2>4
  <2> QED BY <2>4, <2>5, SeqEqual
<1> QED BY <1>5, <1>6, <1>8, <1>9, <1>11, <1>13

-------------------------------------------------------------------------------
(* The inductive invariant holds in every reachable state.                  *)
THEOREM InvariantesDeFat == Spec => []Inv
<1>1. Inv /\ [Next]_vars => Inv'
  BY InvSeConserva
<1> QED BY <1>1, InvAlInicio, PTL DEF Spec

(* The FAT, the FCBs and the locals of the threads hold what their types    *)
(* say.                                                                     *)
THEOREM TiposDeFat == Spec => []TypeOK
<1>1. Inv => TypeOK
  BY DEF Inv, Tipos
<1> QED BY <1>1, InvariantesDeFat, PTL

(* As long as no two truncations have run at the same time since the last   *)
(* restart, a file that is not being truncated has a chain in the FAT that  *)
(* ends, with the blocks of its size and no block twice, and that shares    *)
(* none with any other file: what atender_f_truncate_de_kernel leaves.      *)
THEOREM CadenasSiempreSanas == Spec => []CadenasSanas
BY InvariantesDeFat, SanasSonCadenas, PTL

(* What Memoria sends back for an F_WRITE lands in the block of the         *)
(* position, if it is in a whole block of a file that nobody truncates, and *)
(* no two truncations have run at the same time:                            *)
(* obtener_el_nro_bloque_segun_el_la_posicion_del_seek, modificar_bloque.   *)
THEOREM EscribeSiempreEnLoSuyo == Spec => []EscribeEnLoSuyo
BY InvariantesDeFat, CaminaALoSuyo, PTL

(* As long as no two truncations have run at the same time, no step of a    *)
(* thread moves or cuts off the data that a file keeps, while it grows or   *)
(* shrinks or while others are truncated and written.                       *)
THEOREM DatosSiempreQuietos == Spec => DatosQuietos
<1>1. Inv /\ Encontrada /\ Encontrada' /\ Cabe /\ Cabe' /\ [Next]_vars =>
        [~historia'.encimadas =>
           \A f \in Nombres : Existe(f) /\ Existe(f)' =>
             LET n == IF ConDatos(f) < ConDatos(f)' THEN ConDatos(f) ELSE ConDatos(f)'
             IN  SubSeq(Cadena(f), 1, n) = SubSeq(Cadena(f)', 1, n)]_vars
  BY DatosDelPaso DEF Limpio
<1>2. TypeOK => Encontrada
  BY SiempreEncontrada
<1>3. Cabe
  BY SiempreCabe
<1> QED BY <1>1, <1>2, <1>3, InvariantesDeFat, TiposDeFat, PTL DEF Spec, DatosQuietos
===============================================================================
