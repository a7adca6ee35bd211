---------------------------- MODULE Memoria_proofs ----------------------------
(***************************************************************************)
(* Theorems about Memoria, for any number of processes, pages, frames and  *)
(* blocks of swap and under both algorithms: a page in memory has its      *)
(* frame to itself, no frame is lost, there is always a victim, the swap   *)
(* of a process is its own, and what is read from swap is still the page's.*)
(***************************************************************************)
EXTENDS Memoria, Listas_proofs, FiniteSetTheorems

-------------------------------------------------------------------------------
(* The inductive invariant.                                                 *)

(* Memoria has the table of the processes that the Kernel has created and   *)
(* not ended, and a process is created once.                                *)
Creados ==
  /\ \A p \in Procesos :
       /\ p \in procesos => Len(tabla_paginas[p]) = Paginas[p]
                            /\ (estado[p] # "NEW" \/ creando = p)
       /\ p \notin procesos => tabla_paginas[p] = <<>> /\ estado[p] \in {"NEW", "EXIT"}
  /\ creando # NULL => creando \in procesos /\ estado[creando] = "NEW"

(* The bit modificado is never set, so that no page is sent to swap.        *)
NuncaModificada ==
  \A p \in Procesos : \A i \in DOMAIN tabla_paginas[p] : ~tabla_paginas[p][i].modificado

(* One creation at a time: its request, its answer or the semaphore.        *)
UnaCreacion ==
  /\ sem_control_swap_asign > 0 => creando # NULL
  /\ \A k \in DOMAIN a_fs : a_fs[k].op = "ASIGNAR" =>
       /\ a_fs[k].proceso = creando /\ sem_control_swap_asign = 0
       /\ \A j \in DOMAIN a_fs : a_fs[j].op = "ASIGNAR" => j = k
       /\ \A j \in DOMAIN a_memoria : a_memoria[j].op # "ASIGNADAS"
  /\ \A k \in DOMAIN a_memoria : a_memoria[k].op = "ASIGNADAS" =>
       /\ a_memoria[k].proceso = creando /\ sem_control_swap_asign = 0
       /\ \A j \in DOMAIN a_memoria : a_memoria[j].op = "ASIGNADAS" => j = k

(* A page on its way from swap is that of the page fault in course, and has *)
(* its frame already.                                                       *)
EnVuelo(m) ==
  /\ page_fault = m.proceso /\ cargada = NULL /\ m.pagina \in 1..Paginas[m.proceso]
  /\ m.proceso \in procesos =>
       LET pagina == tabla_paginas[m.proceso][m.pagina] IN
       /\ ~pagina.presente /\ pagina.nro_marco \in Marcos
       /\ marcos[pagina.nro_marco] = [libre |-> FALSE, info_new |-> <<m.proceso, m.pagina>>]

(* One page fault at a time: a request, an answer or the page loaded.       *)
UnFallo ==
  /\ \A k \in DOMAIN a_fs : a_fs[k].op = "LECTURA" =>
       /\ EnVuelo(a_fs[k])
       /\ \A j \in DOMAIN a_fs : a_fs[j].op = "LECTURA" => j = k
       /\ \A j \in DOMAIN a_memoria : a_memoria[j].op # "PAGINA"
  /\ \A k \in DOMAIN a_memoria : a_memoria[k].op = "PAGINA" =>
       /\ EnVuelo(a_memoria[k])
       /\ \A j \in DOMAIN a_memoria : a_memoria[j].op = "PAGINA" => j = k
  /\ cargada # NULL => page_fault = cargada

(* Who waits for a page does nothing else, and the page is not in memory;   *)
(* who has an address to use is in EXEC.                                    *)
EsperaPagina ==
  /\ traduccion # NULL => estado[traduccion.proceso] = "EXEC"
  /\ page_fault # NULL =>
       estado[page_fault] \in {"PAGE_FAULT", "EXIT"} /\ fallos[page_fault] = NULL
  /\ \A p \in Procesos : fallos[p] # NULL =>
       /\ estado[p] \in {"PAGE_FAULT", "EXIT"} /\ fallos[p] \in 1..Paginas[p]
       /\ p \in procesos => ~tabla_paginas[p][fallos[p]].presente

PaginasDeTodos == UNION {{p} \X (1..Paginas[p]) : p \in Procesos}

(* A used frame has an order, and is the frame of the page it is for.       *)
Ocupados ==
  /\ \A p \in procesos : \A i \in DOMAIN tabla_paginas[p] :
       tabla_paginas[p][i].presente => tabla_paginas[p][i].nro_marco \in Marcos
  /\ \A f \in Marcos : ~marcos[f].libre =>
       LET p == marcos[f].info_new[1]  i == marcos[f].info_new[2] IN
       /\ f \in ToSet(orden) /\ marcos[f].info_new \in PaginasDeTodos
       /\ p \in procesos => tabla_paginas[p][i].nro_marco = f

SinSwap(p) == p = creando /\ sem_control_swap_asign = 0

(* The positions of a process are all there or none is yet, no two pages    *)
(* share one, and they are used blocks.                                     *)
PosicionesPropias ==
  \A p \in procesos : \A i \in DOMAIN tabla_paginas[p] :
    LET pos == tabla_paginas[p][i].pos_en_swap IN
    /\ pos = NULL <=> SinSwap(p)
    /\ pos # NULL =>
         /\ bitmapSWAP[pos]
         /\ \A q \in procesos : \A j \in DOMAIN tabla_paginas[q] :
              tabla_paginas[q][j].pos_en_swap = pos => q = p /\ j = i

Ajeno(b) ==
  \A p \in procesos : \A i \in DOMAIN tabla_paginas[p] : tabla_paginas[p][i].pos_en_swap # b

(* Blocks that a message frees or gives are used and nobody else's.         *)
BloquesEnCamino ==
  /\ \A k \in DOMAIN a_fs : a_fs[k].op = "LIBERAR" =>
       \A b \in a_fs[k].bloques :
         /\ bitmapSWAP[b] /\ Ajeno(b)
         /\ \A j \in DOMAIN a_fs : a_fs[j].op = "LIBERAR" /\ b \in a_fs[j].bloques => j = k
  /\ \A k \in DOMAIN a_memoria : a_memoria[k].op = "ASIGNADAS" =>
       LET lista == a_memoria[k].bloques IN
       /\ IsInjective(lista)
       /\ \A b \in ToSet(lista) :
            /\ bitmapSWAP[b] /\ Ajeno(b)
            /\ \A j \in DOMAIN a_fs : a_fs[j].op = "LIBERAR" => b \notin a_fs[j].bloques

Tablas == Creados /\ NuncaModificada
Marco == Ocupados /\ MarcosExclusivos /\ SinMarcosPerdidos
Swap == PosicionesPropias /\ BloquesEnCamino /\ LecturaAntesDeLiberar

Inv == TypeOK /\ Tablas /\ UnaCreacion /\ UnFallo /\ EsperaPagina /\ Marco /\ Swap

-------------------------------------------------------------------------------
(* Lists: of frames and of messages.                                        *)

(* A frame that is put at the end leaves the others where they were.        *)
LEMMA MarcoAlFinal ==
  ASSUME NEW S, NEW s \in Seq(S), NEW f \in S
  PROVE  /\ Append(RemoveFirst(s, f), f) \in Seq(S)
         /\ ToSet(s) \cup {f} \subseteq ToSet(Append(RemoveFirst(s, f), f))
<1> DEFINE r == RemoveFirst(s, f)
<1>1. Len(s) \in Nat /\ DOMAIN s = 1..Len(s)
  BY LenProperties
<1>2. r \in Seq(S) /\ ToSet(s) \subseteq ToSet(r) \cup {f}
  <2>1. CASE f \notin ToSet(s)
    BY <2>1, QuitarPrimero
  <2>2. CASE f \in ToSet(s)
    <3>1. PICK k \in 1..Len(s) : s[k] = f /\ r = RemoveAt(s, k)
      BY <2>2, QuitarPrimero
    <3> HIDE DEF r
    <3>2. /\ r \in Seq(S) /\ DOMAIN r = 1..(Len(s) - 1)
          /\ \A i \in 1..(Len(s) - 1) : r[i] = IF i < k THEN s[i] ELSE s[i + 1]
      BY <3>1, ListaSinLugar
    <3>3. ASSUME NEW e \in ToSet(s), e # f PROVE e \in ToSet(r)
      <4>1. PICK i \in 1..Len(s) : s[i] = e /\ i # k
        BY <1>1, <3>1, <3>3 DEF ToSet
      <4>2. CASE i < k
        BY <1>1, <3>2, <4>1, <4>2 DEF ToSet
      <4>3. CASE i > k
        <5>1. i - 1 \in 1..(Len(s) - 1) /\ r[i - 1] = s[i]
          BY <1>1, <3>2, <4>1, <4>3
        <5> QED
          BY <3>2, <4>1, <5>1 DEF ToSet
      <4> QED
        BY <4>1, <4>2, <4>3
    <3> QED
      BY <3>2, <3>3
  <2> QED
    BY <2>1, <2>2
<1> HIDE DEF r
<1>3. Append(r, f) \in Seq(S) /\ ToSet(Append(r, f)) = ToSet(r) \cup {f}
  BY <1>2, ListaConAppend
<1> QED
  BY <1>2, <1>3 DEF r

(* How many elements of Q there are up to each number.                      *)
LEMMA CuentaHasta ==
  ASSUME NEW n \in Nat, NEW Q \in SUBSET (1..n)
  PROVE  /\ Cardinality(Q) \in Nat
         /\ \E h \in [0..n -> Nat] :
              /\ \A k \in 0..n : h[k] = Cardinality({j \in Q : j <= k})
              /\ h[0] = 0 /\ h[n] = Cardinality(Q)
              /\ \A k \in 1..n : h[k] = IF k \in Q THEN h[k - 1] + 1 ELSE h[k - 1]
              /\ \A j \in 0..n, k \in 0..n : j <= k => h[j] <= h[k]
<1>1. IsFiniteSet(Q) /\ Cardinality(Q) \in Nat
  <2>1. IsFiniteSet(1..n)
    BY FS_Interval
  <2> QED
    BY <2>1, FS_Subset, FS_CardinalityType
<1>0. \A x \in Q : x \in Int /\ 1 <= x /\ x <= n
  OBVIOUS
<1> DEFINE H(k) == {j \in Q : j <= k}
           h == [k \in 0..n |-> Cardinality(H(k))]
<1>2. ASSUME NEW k \in 0..n PROVE IsFiniteSet(H(k)) /\ Cardinality(H(k)) \in Nat
  <2>1. H(k) \in SUBSET Q
    OBVIOUS
  <2> HIDE DEF H
  <2> QED
    BY <1>1, <2>1, FS_Subset, FS_CardinalityType
<1>3. h \in [0..n -> Nat] /\ \A k \in 0..n : h[k] = Cardinality(H(k))
  <2> HIDE DEF H
  <2> QED
    BY <1>2
<1>4. h[0] = 0
  <2>1. H(0) = {}
    <3>1. \A x \in Q : ~(x <= 0)
      BY <1>0
    <3> QED
      BY <3>1, Zenon
  <2>2. 0 \in 0..n
    OBVIOUS
  <2> HIDE DEF H, h
  <2> QED
    BY <1>3, <2>1, <2>2, FS_EmptySet
<1>5. h[n] = Cardinality(Q)
  <2>1. H(n) = Q
    <3>1. \A x \in Q : x <= n
      BY <1>0
    <3> QED
      BY <3>1, Zenon
  <2>2. n \in 0..n
    OBVIOUS
  <2> HIDE DEF H, h
  <2> QED
    BY <1>3, <2>1, <2>2
<1>6. ASSUME NEW k \in 1..n PROVE h[k] = IF k \in Q THEN h[k - 1] + 1 ELSE h[k - 1]
  <2>1. k - 1 \in 0..n /\ k \in 0..n
    OBVIOUS
  <2>2. IF k \in Q THEN H(k) = H(k - 1) \cup {k} ELSE H(k) = H(k - 1)
    <3>1. ASSUME NEW j \in Q PROVE j <= k <=> j <= k - 1 \/ j = k
      OBVIOUS
    <3> QED
      BY <3>1
  <2>3. k \notin H(k - 1)
    OBVIOUS
  <2>4. IsFiniteSet(H(k - 1))
    BY <1>2, <2>1
  <2> HIDE DEF H, h
  <2>5. Cardinality(H(k - 1) \cup {k}) = Cardinality(H(k - 1)) + 1
    BY <2>3, <2>4, FS_AddElement
  <2> QED
    BY <1>3, <2>1, <2>2, <2>5
<1>7. ASSUME NEW j \in 0..n, NEW k \in 0..n, j <= k PROVE h[j] <= h[k]
  <2>1. \A x \in Q : x <= j => x <= k
    BY <1>0, <1>7
  <2>2. H(j) \in SUBSET H(k)
    BY <2>1, Zenon
  <2>3. IsFiniteSet(H(k))
    BY <1>2
  <2> HIDE DEF H, h
  <2> QED
    BY <1>3, <2>2, <2>3, FS_Subset
<1> HIDE DEF h
<1> QED
  BY <1>1, <1>3, <1>4, <1>5, <1>6, <1>7

(* What is left of a list without some elements is a list with the others.  *)
LEMMA QuedanLosOtros ==
  ASSUME NEW S, NEW s \in Seq(S), NEW M
  PROVE  /\ Sin(s, M) \in Seq(S)
         /\ ToSet(s) \ M \subseteq ToSet(Sin(s, M))
<1>1. PICK n \in Nat : n = Len(s) /\ DOMAIN s = 1..n
  BY LenProperties
<1>2. PICK Q \in SUBSET (1..n) : Q = {k \in DOMAIN s : s[k] \notin M}
  BY <1>1
<1>0. \A x \in Q : x \in 1..n /\ x \in Int /\ x - 1 \in 0..n /\ x \in 0..n
  OBVIOUS
<1>3. PICK c \in Nat : c = Cardinality(Q)
  BY CuentaHasta
<1>4. PICK h \in [0..n -> Nat] :
        /\ \A k \in 0..n : h[k] = Cardinality({j \in Q : j <= k})
        /\ h[0] = 0 /\ h[n] = c
        /\ \A k \in 1..n : h[k] = IF k \in Q THEN h[k - 1] + 1 ELSE h[k - 1]
        /\ \A j \in 0..n, k \in 0..n : j <= k => h[j] <= h[k]
  <2>1. \E h \in [0..n -> Nat] :
          /\ \A k \in 0..n : h[k] = Cardinality({j \in Q : j <= k})
          /\ h[0] = 0 /\ h[n] = Cardinality(Q)
          /\ \A k \in 1..n : h[k] = IF k \in Q THEN h[k - 1] + 1 ELSE h[k - 1]
          /\ \A j \in 0..n, k \in 0..n : j <= k => h[j] <= h[k]
    BY CuentaHasta
  <2> QED
    BY <1>3, <2>1, Zenon
<1>h. /\ h[0] = 0 /\ h[n] = c /\ \A k \in 0..n : h[k] \in Int
      /\ \A k \in 1..n : h[k] = IF k \in Q THEN h[k - 1] + 1 ELSE h[k - 1]
      /\ \A j \in 0..n, k \in 0..n : j <= k => h[j] <= h[k]
  <2>1. \A k \in 0..n : h[k] \in Int
    OBVIOUS
  <2> QED
    BY <1>4, <2>1, Zenon
<1>5. ASSUME NEW m \in 1..c PROVE \E k \in Q : h[k] = m
  <2> DEFINE N == {k \in 0..n : h[k] >= m}
  <2>1. N # {} /\ N \subseteq Nat
    BY <1>h
  <2>2. PICK k \in N : \A j \in N : k <= j
    <3> HIDE DEF N
    <3> QED
      BY <2>1, HayMinimo
  <2>3. k \in 1..n /\ h[k] >= m /\ k - 1 \in 0..n
    BY <1>h
  <2>4. ~(h[k - 1] >= m)
    BY <2>2, <2>3
  <2> QED
    BY <1>h, <2>3, <2>4
<1>6. ASSUME NEW j \in Q, NEW k \in Q, h[j] = h[k] PROVE j = k
  <2>1. \A x \in Q, y \in Q : x < y => h[x] <= h[y - 1] /\ h[y] = h[y - 1] + 1
    <3> SUFFICES ASSUME NEW x \in Q, NEW y \in Q, x < y
                 PROVE  h[x] <= h[y - 1] /\ h[y] = h[y - 1] + 1
      OBVIOUS
    <3>1. x \in 0..n /\ y - 1 \in 0..n /\ y \in 1..n /\ x <= y - 1
      BY <1>0
    <3> QED
      BY <1>h, <3>1
  <2>2. \A x \in Q : h[x] \in Nat /\ h[x - 1] \in Nat /\ x \in Int
    BY <1>0, <1>h
  <2> QED
    BY <1>6, <2>1, <2>2
<1>7. ASSUME NEW k \in Q PROVE h[k] \in 1..c
  <2>1. h[k] >= 1 /\ h[k] <= h[n] /\ h[k] \in Int
    <3>1. h[k] = h[k - 1] + 1 /\ h[0] <= h[k - 1] /\ h[k] <= h[n]
      BY <1>0, <1>h
    <3> QED
      BY <1>0, <1>h, <3>1
  <2> QED
    BY <1>h, <2>1
<1> DEFINE El(m) == CHOOSE k \in Q : Cardinality({j \in Q : j <= k}) = m
           e == [m \in 1..c |-> El(m)]
<1>8. Sin(s, M) = [m \in 1..c |-> s[El(m)]]
  <2> DEFINE D == {k \in DOMAIN s : s[k] \notin M}
  <2>1. Sin(s, M) = [m \in 1..Cardinality(D) |->
                       s[CHOOSE k \in D : Cardinality({j \in D : j <= k}) = m]]
    BY DEF Sin
  <2>2. D = Q
    BY <1>2
  <2> HIDE DEF D
  <2> QED
    BY <1>3, <2>1, <2>2, Zenon
<1>9. ASSUME NEW m \in 1..c PROVE e[m] \in Q /\ h[e[m]] = m
  <2>1. \E k \in Q : Cardinality({j \in Q : j <= k}) = m
    <3>1. \A k \in Q : h[k] = Cardinality({j \in Q : j <= k})
      BY <1>4
    <3> QED
      BY <1>5, <3>1
  <2>2. El(m) \in Q /\ Cardinality({j \in Q : j <= El(m)}) = m
    BY <2>1, Zenon
  <2>3. e[m] = El(m)
    OBVIOUS
  <2> HIDE DEF El, e
  <2>4. El(m) \in 0..n
    BY <1>0, <2>2
  <2> QED
    BY <1>4, <2>2, <2>3, <2>4
<1>10. Sin(s, M) = [m \in 1..c |-> s[e[m]]]
  BY <1>8, Zenon
<1> HIDE DEF e, El
<1>11. Sin(s, M) \in Seq(S)
  <2>1. \A k \in 1..n : s[k] \in S
    BY <1>1, ElementOfSeq
  <2>2. \A m \in 1..c : s[e[m]] \in S
    BY <1>9, <2>1
  <2> QED
    BY <1>10, <2>2, IsASeq
<1>12. ASSUME NEW x \in ToSet(s) \ M PROVE x \in ToSet(Sin(s, M))
  <2>1. PICK k \in Q : s[k] = x
    BY <1>1, <1>2 DEF ToSet
  <2>2. PICK m \in 1..c : m = h[k]
    BY <1>7
  <2>3. e[m] = k
    BY <1>6, <1>9, <2>2
  <2>4. DOMAIN Sin(s, M) = 1..c /\ Sin(s, M)[m] = x
    BY <1>10, <2>1, <2>3
  <2> QED
    BY <2>4 DEF ToSet
<1> QED
  BY <1>11, <1>12

(* The places of a queue of messages when one is added and when one leaves. *)
LEMMA MensajeNuevo ==
  ASSUME NEW S, NEW s \in Seq(S), NEW m \in S
  PROVE  /\ Append(s, m) \in Seq(S)
         /\ \A k \in DOMAIN Append(s, m) :
              \/ k \in DOMAIN s /\ Append(s, m)[k] = s[k]
              \/ k = Len(s) + 1 /\ Append(s, m)[k] = m
         /\ \A k \in DOMAIN s : k \in DOMAIN Append(s, m) /\ Append(s, m)[k] = s[k]
         /\ Len(s) + 1 \in DOMAIN Append(s, m) /\ Append(s, m)[Len(s) + 1] = m
         /\ DOMAIN s = 1..Len(s) /\ Len(s) \in Nat
<1> DEFINE t == Append(s, m)
<1>1. /\ Len(s) \in Nat /\ DOMAIN s = 1..Len(s) /\ t \in Seq(S) /\ DOMAIN t = 1..(Len(s) + 1)
      /\ (\A i \in 1..Len(s) : t[i] = s[i]) /\ t[Len(s) + 1] = m
  BY AppendProperties, LenProperties
<1> HIDE DEF t
<1>2. \A k \in DOMAIN t : \/ k \in DOMAIN s /\ t[k] = s[k]
                          \/ k = Len(s) + 1 /\ t[k] = m
  BY <1>1
<1> QED
  BY <1>1, <1>2 DEF t

LEMMA MensajeMenos ==
  ASSUME NEW S, NEW s \in Seq(S), s # <<>>
  PROVE  /\ Tail(s) \in Seq(S) /\ Head(s) = s[1] /\ Head(s) \in S
         /\ 1 \in DOMAIN s /\ \A k \in DOMAIN s : k \in Nat \ {0}
         /\ \A k \in DOMAIN Tail(s) : k \in Nat \ {0} /\ k + 1 \in DOMAIN s /\ Tail(s)[k] = s[k + 1]
         /\ \A k \in DOMAIN s : k # 1 => k - 1 \in DOMAIN Tail(s) /\ Tail(s)[k - 1] = s[k]
<1> DEFINE t == Tail(s)
<1>1. /\ t \in Seq(S) /\ Len(t) = Len(s) - 1 /\ Len(s) \in Nat /\ Len(s) # 0
      /\ DOMAIN t = 1..Len(t) /\ DOMAIN s = 1..Len(s)
      /\ \A i \in 1..Len(t) : t[i] = s[i + 1]
  BY HeadTailProperties, LenProperties, EmptySeq
<1>2. Head(s) = s[1] /\ Head(s) \in S /\ 1 \in DOMAIN s
  BY <1>1, ElementOfSeq
<1> HIDE DEF t
<1>3. ASSUME NEW k \in DOMAIN s, k # 1 PROVE k - 1 \in DOMAIN t /\ t[k - 1] = s[k]
  <2>1. k - 1 \in 1..Len(t) /\ (k - 1) + 1 = k
    BY <1>1, <1>3
  <2> QED
    BY <1>1, <2>1
<1> QED
  BY <1>1, <1>2, <1>3 DEF t

(* What each kind of message carries.                                       *)
LEMMA MensajesDeFs ==
  /\ \A m \in MensajesAFs :
       /\ m.op \in {"ASIGNAR", "LIBERAR", "GUARDAR", "LECTURA", "BLOQUE"}
       /\ m.op = "ASIGNAR" => m.proceso \in Procesos /\ m.cant \in Nat
       /\ m.op = "LIBERAR" => m.bloques \in SUBSET Bloques
       /\ m.op = "GUARDAR" => m.pos \in Bloques /\ m.contenido \in Contenidos
       /\ m.op = "LECTURA" => m.proceso \in Procesos /\ m.pagina \in Nat \ {0} /\ m.pos \in Bloques
       /\ m.op = "BLOQUE" => m.proceso \in Procesos
  /\ \A m \in MensajesAMemoria :
       /\ m.op \in {"ASIGNADAS", "PAGINA"} /\ m.proceso \in Procesos
       /\ m.op = "ASIGNADAS" => m.bloques \in Seq(Bloques)
       /\ m.op = "PAGINA" => m.pagina \in Nat \ {0} /\ m.contenido \in Contenidos
<1> HIDE DEF Contenidos, Bloques
<1>1. ASSUME NEW m \in MensajesAFs
      PROVE  /\ m.op \in {"ASIGNAR", "LIBERAR", "GUARDAR", "LECTURA", "BLOQUE"}
             /\ m.op = "ASIGNAR" => m.proceso \in Procesos /\ m.cant \in Nat
             /\ m.op = "LIBERAR" => m.bloques \in SUBSET Bloques
             /\ m.op = "GUARDAR" => m.pos \in Bloques /\ m.contenido \in Contenidos
             /\ m.op = "LECTURA" => m.proceso \in Procesos /\ m.pagina \in Nat \ {0}
                                    /\ m.pos \in Bloques
             /\ m.op = "BLOQUE" => m.proceso \in Procesos
  BY DEF MensajesAFs
<1>2. ASSUME NEW m \in MensajesAMemoria
      PROVE  /\ m.op \in {"ASIGNADAS", "PAGINA"} /\ m.proceso \in Procesos
             /\ m.op = "ASIGNADAS" => m.bloques \in Seq(Bloques)
             /\ m.op = "PAGINA" => m.pagina \in Nat \ {0} /\ m.contenido \in Contenidos
  BY DEF MensajesAMemoria
<1> QED
  BY <1>1, <1>2

(* swap_obtener_n_cantidad_de_bloques gives free blocks, each of them once. *)
LEMMA BloquesObtenidos ==
  ASSUME bitmapSWAP \in [Bloques -> BOOLEAN], NEW n \in Nat
  PROVE  /\ SwapObtener(n) \in Seq(Bloques) /\ IsInjective(SwapObtener(n))
         /\ \A b \in ToSet(SwapObtener(n)) : b \in Bloques /\ ~bitmapSWAP[b]
<1> USE DEF Bloques
<1> DEFINE C == CANT_BLOQUES_SWAP
<1>0. C \in Nat
  BY ConstantesMemoria
<1>1. ASSUME NEW i \in Nat, NEW k \in Nat, Corrida(i, k)
      PROVE  /\ Desde(i, k) \in Seq(Bloques) /\ IsInjective(Desde(i, k))
             /\ \A b \in ToSet(Desde(i, k)) : b \in Bloques /\ ~bitmapSWAP[b]
  <2> DEFINE d == Desde(i, k)
  <2>1. d = [j \in 1..k |-> i + j - 1]
    BY DEF Desde
  <2>2. \A j \in 1..k : i + j - 1 \in i..(i + k - 1) /\ i + j - 1 \in Bloques
    BY <1>0, <1>1 DEF Corrida
  <2>3. DOMAIN d = 1..k /\ \A j \in 1..k : d[j] = i + j - 1
    BY <2>1
  <2>4. d \in Seq(Bloques)
    <3>1. \A j \in 1..k : i + j - 1 \in Bloques
      BY <2>2
    <3> HIDE DEF d, Bloques
    <3> QED
      BY <2>1, <3>1, IsASeq
  <2> HIDE DEF d
  <2>5. IsInjective(d)
    BY <2>3 DEF IsInjective
  <2>6. \A b \in i..(i + k - 1) : ~bitmapSWAP[b]
    BY <1>1 DEF Corrida
  <2>7. \A b \in ToSet(d) : b \in Bloques /\ ~bitmapSWAP[b]
    BY <2>2, <2>3, <2>6 DEF ToSet
  <2> QED
    BY <2>4, <2>5, <2>7 DEF d
<1>2. CASE n > 0 /\ \E i \in Bloques : Corrida(i, n)
  <2> DEFINE N == {i \in Bloques : Corrida(i, n)}
  <2>1. N # {} /\ N \subseteq Nat
    BY <1>0, <1>2
  <2>2. PICK i \in N : \A j \in N : i <= j
    <3> HIDE DEF N
    <3> QED
      BY <2>1, HayMinimo
  <2>3. i \in Nat /\ i \in Bloques
    BY <1>0
  <2>4. \A j \in 0..i-1 : ~Corrida(j, n)
    <3>1. \A j \in 0..i-1 : j \in Bloques /\ ~(i <= j)
      BY <1>0, <2>3
    <3> QED
      BY <2>2, <3>1
  <2>5. \E k \in Bloques : Corrida(k, n) /\ \A j \in 0..k-1 : ~Corrida(j, n)
    BY <2>4
  <2> DEFINE e == CHOOSE k \in Bloques : Corrida(k, n) /\ \A j \in 0..k-1 : ~Corrida(j, n)
  <2>6. e \in Bloques /\ Corrida(e, n)
    BY <2>5, Zenon
  <2>7. SwapObtener(n) = Desde(e, n)
    BY <1>2, Zenon DEF SwapObtener
  <2> HIDE DEF e
  <2>8. e \in Nat
    BY <1>0, <2>6
  <2> QED
    BY <1>1, <2>6, <2>7, <2>8
<1>3. CASE ~(n > 0 /\ \E i \in Bloques : Corrida(i, n))
  <2> DEFINE N == {i \in 0..C : Corrida(i, C - i)}
  <2>1. C \in N
    BY <1>0 DEF Corrida
  <2>2. N # {} /\ N \subseteq Nat
    <3>1. 0..C \subseteq Nat
      BY <1>0
    <3> QED
      BY <2>1, <3>1, Zenon
  <2>3. PICK i \in N : \A j \in N : i <= j
    <3> HIDE DEF N
    <3> QED
      BY <2>2, HayMinimo
  <2>4. i > 0 => ~Corrida(i - 1, C - i + 1)
    <3>1. ASSUME i > 0, Corrida(i - 1, C - i + 1) PROVE FALSE
      <4>1. i - 1 \in 0..C /\ C - (i - 1) = C - i + 1 /\ ~(i <= i - 1)
        BY <1>0, <3>1
      <4> QED
        BY <2>3, <3>1, <4>1
    <3> QED
      BY <3>1
  <2>5. \E k \in 0..C : Corrida(k, C - k) /\ (k > 0 => ~Corrida(k - 1, C - k + 1))
    BY <2>4
  <2> DEFINE e == CHOOSE k \in 0..C : Corrida(k, C - k) /\ (k > 0 => ~Corrida(k - 1, C - k + 1))
  <2>6. e \in 0..C /\ Corrida(e, C - e)
    BY <2>5, Zenon
  <2>7. SwapObtener(n) = Desde(e, C - e)
    BY <1>3, Zenon DEF SwapObtener
  <2> HIDE DEF e
  <2>8. e \in Nat /\ C - e \in Nat
    BY <1>0, <2>6
  <2> QED
    BY <1>1, <2>6, <2>7, <2>8
<1> QED
  BY <1>2, <1>3

-------------------------------------------------------------------------------
(* One lemma for each step.                                                 *)

Activos == {"READY", "EXEC", "PAGE_FAULT", "ARCHIVO"}

(* What the Kernel does with the process p keeps it created.                *)
MovidaLegal(p) ==
  estado'[p] = estado[p] \/ (estado[p] \in Activos /\ estado'[p] \in Activos \cup {"EXIT"})

LEMMA CreadosQuedan ==
  ASSUME TypeOK, Creados, procesos' = procesos, creando' = creando,
         \A p \in Procesos : MovidaLegal(p),
         \A p \in Procesos : /\ Len(tabla_paginas'[p]) = Len(tabla_paginas[p])
                             /\ tabla_paginas[p] = <<>> => tabla_paginas'[p] = <<>>
  PROVE  Creados'
<1>1. \A p \in Procesos : /\ estado'[p] # "NEW" <=> estado[p] # "NEW"
                          /\ estado[p] \in {"NEW", "EXIT"} => estado'[p] = estado[p]
  BY DEF MovidaLegal, Activos, TypeOK, Estados
<1>2. creando # NULL => creando \in Procesos
  BY DEF TypeOK
<1> QED
  BY <1>1, <1>2 DEF Creados

(* The frames keep their pages if the pages keep their frames.              *)
LEMMA MarcosQuedan ==
  ASSUME Marco, UNCHANGED <<procesos, tabla_paginas, marcos>>,
         ToSet(orden) \subseteq ToSet(orden)',
         \A p \in Procesos, i \in Nat : EnCamino(p, i) => EnCamino(p, i)',
         TypeOK
  PROVE  Marco'
<1>1. MarcosExclusivos'
  BY DEF Marco, MarcosExclusivos
<1>2. Ocupados'
  BY DEF Marco, Ocupados
<1>3. SinMarcosPerdidos'
  <2>1. \A f \in Marcos : ~marcos[f].libre =>
          marcos[f].info_new[1] \in Procesos /\ marcos[f].info_new[2] \in Nat
    BY ConstantesMemoria DEF Marco, Ocupados, PaginasDeTodos
  <2> QED
    BY <2>1, Zenon DEF Marco, SinMarcosPerdidos
<1> QED
  BY <1>1, <1>2, <1>3 DEF Marco

(* The positions of the pages stay where they are.                          *)
MismasPosiciones ==
  /\ procesos' = procesos
  /\ \A p \in procesos :
       /\ DOMAIN tabla_paginas'[p] = DOMAIN tabla_paginas[p]
       /\ \A i \in DOMAIN tabla_paginas[p] :
            tabla_paginas'[p][i].pos_en_swap = tabla_paginas[p][i].pos_en_swap
  /\ \A p \in procesos : SinSwap(p)' <=> SinSwap(p)

LEMMA PosicionesQuedan ==
  ASSUME PosicionesPropias, MismasPosiciones, UNCHANGED bitmapSWAP
  PROVE  /\ PosicionesPropias'
         /\ \A b : Ajeno(b)' <=> Ajeno(b)
<1>1. PosicionesPropias'
  BY DEF PosicionesPropias, MismasPosiciones
<1>2. \A b : Ajeno(b)' <=> Ajeno(b)
  BY DEF Ajeno, MismasPosiciones
<1> QED
  BY <1>1, <1>2

LEMMA SwapQueda ==
  ASSUME Swap, MismasPosiciones, UNCHANGED <<bitmapSWAP, a_fs, a_memoria>>
  PROVE  Swap'
<1>1. PosicionesPropias' /\ \A b : Ajeno(b)' <=> Ajeno(b)
  BY PosicionesQuedan DEF Swap
<1>2. BloquesEnCamino'
  BY <1>1 DEF Swap, BloquesEnCamino
<1>3. LecturaAntesDeLiberar'
  BY DEF Swap, LecturaAntesDeLiberar
<1> QED
  BY <1>1, <1>2, <1>3 DEF Swap

(* Steps of the Kernel and of the CPU that leave the tables as they are.    *)
LEMMA PasoSinTablas ==
  ASSUME Inv, TypeOK', EsperaPagina',
         UNCHANGED <<procesos, tabla_paginas, marcos, hilos, canales, bitmapSWAP, page_fault>>,
         ToSet(orden) \subseteq ToSet(orden)',
         \A p \in Procesos : MovidaLegal(p)
  PROVE  Inv'
<1>1. UNCHANGED <<procesos, tabla_paginas, marcos, sem_control_swap_asign, creando, cargada,
                  a_fs, a_memoria, bitmapSWAP, page_fault>>
  BY DEF hilos, canales
<1>2. Tablas'
  <2>1. Creados'
    BY <1>1, CreadosQuedan DEF Inv, Tablas
  <2>2. NuncaModificada'
    BY <1>1 DEF Inv, Tablas, NuncaModificada
  <2> QED
    BY <2>1, <2>2 DEF Tablas
<1>3. UnaCreacion'
  BY <1>1 DEF Inv, UnaCreacion
<1>4. UnFallo'
  BY <1>1 DEF Inv, UnFallo, EnVuelo
<1>5. Marco'
  <2>1. \A p \in Procesos, i \in Nat : EnCamino(p, i) => EnCamino(p, i)'
    BY <1>1 DEF EnCamino
  <2> QED
    BY <1>1, <2>1, MarcosQuedan DEF Inv
<1>6. Swap'
  <2>1. MismasPosiciones
    BY <1>1 DEF MismasPosiciones, SinSwap
  <2> QED
    BY <1>1, <2>1, SwapQueda DEF Inv
<1> QED
  BY <1>2, <1>3, <1>4, <1>5, <1>6 DEF Inv

(* A reference to a frame, under either algorithm.                          *)
LEMMA Referencia ==
  ASSUME TypeOK, NEW f \in Marcos, orden' = Referenciar(f)
  PROVE  orden' \in Seq(Marcos) /\ ToSet(orden) \subseteq ToSet(orden)'
<1>1. orden \in Seq(Marcos)
  BY DEF TypeOK
<1>2. AlFinal(f) \in Seq(Marcos) /\ ToSet(orden) \subseteq ToSet(AlFinal(f))
  BY <1>1, MarcoAlFinal DEF AlFinal
<1>3. orden' = AlFinal(f) \/ orden' = orden
  BY Zenon DEF Referenciar
<1> QED
  BY <1>1, <1>2, <1>3

LEMMA PasoCaer ==
  ASSUME Inv, Caer
  PROVE  Inv'
<1>1. /\ UNCHANGED <<ALGORITMO_REEMPLAZO, tablas, hilos, canales, filesystem, estado, pedidos>>
      /\ memoria' = "CAIDA"
  BY DEF Caer
<1>2. TypeOK'
  BY <1>1 DEF Inv, TypeOK, tablas, hilos, canales, filesystem, pedidos
<1>3. EsperaPagina'
  BY <1>1 DEF Inv, EsperaPagina, tablas, pedidos
<1> QED
  BY <1>1, <1>2, <1>3, PasoSinTablas DEF tablas, filesystem, pedidos, MovidaLegal

LEMMA PasoKernel ==
  ASSUME Inv, NEW p \in Procesos,
         Ejecutar(p) \/ Finalizar(p) \/ Desalojar(p, "READY") \/ Desalojar(p, "EXIT")
  PROVE  Inv'
<1>1. /\ UNCHANGED <<ALGORITMO_REEMPLAZO, tablas, hilos, canales, filesystem, pedidos, memoria>>
      /\ \E d \in Estados : estado' = [estado EXCEPT ![p] = d]
      /\ \/ estado[p] = "READY" /\ estado'[p] = "EXEC"
         \/ estado[p] = "EXEC" /\ estado'[p] \in {"READY", "EXIT"} /\ traduccion = NULL
         \/ estado[p] \in {"READY", "PAGE_FAULT", "ARCHIVO"} /\ estado'[p] = "EXIT"
  BY DEF Ejecutar, Finalizar, Desalojar, Inv, TypeOK, Estados
<1>2. estado' \in [Procesos -> Estados] /\ \A q \in Procesos \ {p} : estado'[q] = estado[q]
  BY <1>1 DEF Inv, TypeOK
<1>3. TypeOK'
  BY <1>1, <1>2 DEF Inv, TypeOK, tablas, hilos, canales, filesystem, pedidos
<1>4. \A q \in Procesos : MovidaLegal(q)
  BY <1>1, <1>2 DEF MovidaLegal, Activos
<1>5. EsperaPagina'
  <2>1. page_fault # NULL => page_fault \in Procesos
    BY DEF Inv, TypeOK
  <2>2. \A q \in Procesos : estado[q] \in {"PAGE_FAULT", "EXIT"} => estado'[q] \in {"PAGE_FAULT", "EXIT"}
    BY <1>1, <1>2
  <2>3. \A q \in Procesos : traduccion # NULL /\ estado[q] = "EXEC" => estado'[q] = "EXEC"
    BY <1>1, <1>2
  <2>4. traduccion # NULL => traduccion.proceso \in Procesos
    BY DEF Inv, TypeOK
  <2> QED
    BY <1>1, <2>1, <2>2, <2>3, <2>4 DEF Inv, EsperaPagina, tablas, pedidos
<1> QED
  BY <1>1, <1>3, <1>4, <1>5, PasoSinTablas DEF tablas, filesystem, pedidos

LEMMA PasoConsultarPagina ==
  ASSUME Inv, NEW p \in Procesos, NEW i \in DOMAIN tabla_paginas[p], ConsultarPagina(p, i)
  PROVE  Inv'
<1>1. /\ UNCHANGED <<ALGORITMO_REEMPLAZO, procesos, tabla_paginas, marcos, espacio_usuario, hilos,
                     canales, filesystem, page_fault, memoria>>
      /\ estado[p] = "EXEC"
  BY DEF ConsultarPagina
<1>2. /\ p \in procesos /\ i \in 1..Paginas[p] /\ tabla_paginas[p] \in Seq(Pagina)
      /\ tabla_paginas[p][i] \in Pagina
  <2>1. p \in procesos /\ Len(tabla_paginas[p]) = Paginas[p] /\ tabla_paginas[p] \in Seq(Pagina)
    BY <1>1 DEF Inv, Tablas, Creados, TypeOK
  <2> QED
    BY <2>1, LenProperties, ElementOfSeq
<1>3. \/ /\ tabla_paginas[p][i].presente /\ UNCHANGED <<estado, fallos>>
         /\ traduccion' = [proceso |-> p, pagina |-> i, nro_marco |-> tabla_paginas[p][i].nro_marco]
         /\ orden' = Referenciar(tabla_paginas[p][i].nro_marco)
      \/ /\ ~tabla_paginas[p][i].presente /\ UNCHANGED <<orden, traduccion>>
         /\ estado' = [estado EXCEPT ![p] = "PAGE_FAULT"]
         /\ fallos' = [fallos EXCEPT ![p] = i]
  BY DEF ConsultarPagina
<1>4. CASE tabla_paginas[p][i].presente
  <2> DEFINE f == tabla_paginas[p][i].nro_marco
  <2>1. f \in Marcos
    BY <1>2, <1>4 DEF Inv, Marco, Ocupados
  <2>2. orden' \in Seq(Marcos) /\ ToSet(orden) \subseteq ToSet(orden)'
    BY <1>3, <1>4, <2>1, Referencia DEF Inv
  <2>3. TypeOK'
    BY <1>1, <1>2, <1>3, <1>4, <2>1, <2>2 DEF Inv, TypeOK, hilos, canales, filesystem
  <2>4. EsperaPagina'
    <3>1. /\ UNCHANGED <<procesos, tabla_paginas, page_fault, estado, fallos>>
          /\ traduccion'.proceso = p
      BY <1>1, <1>3, <1>4
    <3> QED
      BY <1>1, <3>1 DEF Inv, EsperaPagina
  <2> QED
    BY <1>1, <1>3, <1>4, <2>2, <2>3, <2>4, PasoSinTablas DEF filesystem, MovidaLegal
<1>5. CASE ~tabla_paginas[p][i].presente
  <2>1. /\ estado' \in [Procesos -> Estados] /\ estado'[p] = "PAGE_FAULT"
        /\ \A q \in Procesos \ {p} : estado'[q] = estado[q]
        /\ fallos' \in [Procesos -> Nat \cup {NULL}] /\ fallos'[p] = i
        /\ \A q \in Procesos \ {p} : fallos'[q] = fallos[q]
    <3>1. estado \in [Procesos -> Estados] /\ fallos \in [Procesos -> Nat \cup {NULL}]
          /\ i \in Nat /\ "PAGE_FAULT" \in Estados
      BY <1>2, ConstantesMemoria DEF Inv, TypeOK, Estados
    <3> QED
      BY <1>3, <1>5, <3>1
  <2>2. TypeOK'
    BY <1>1, <1>3, <1>5, <2>1 DEF Inv, TypeOK, hilos, canales, filesystem
  <2>3. EsperaPagina'
    <3>1. page_fault # p
      BY <1>1, ConstantesMemoria DEF Inv, EsperaPagina
    <3>2. page_fault # NULL => page_fault \in Procesos
      BY DEF Inv, TypeOK
    <3>3. traduccion = NULL
      BY DEF ConsultarPagina
    <3> QED
      BY <1>1, <1>2, <1>3, <1>5, <2>1, <3>1, <3>2, <3>3 DEF Inv, EsperaPagina
  <2> QED
    BY <1>1, <1>3, <1>5, <2>1, <2>2, <2>3, PasoSinTablas DEF filesystem, MovidaLegal, Activos
<1> QED
  BY <1>4, <1>5

LEMMA PasoAcceder ==
  ASSUME Inv, Leer \/ Escribir
  PROVE  Inv'
<1>1. /\ UNCHANGED <<ALGORITMO_REEMPLAZO, procesos, tabla_paginas, marcos, hilos, canales,
                     filesystem, estado, fallos, page_fault, memoria>>
      /\ traduccion # NULL /\ traduccion' = NULL
      /\ orden' = Referenciar(traduccion.nro_marco)
  BY DEF Leer, Escribir
<1>2. /\ traduccion.proceso \in Procesos /\ traduccion.nro_marco \in Marcos
      /\ traduccion.pagina \in 1..Paginas[traduccion.proceso]
  BY <1>1 DEF Inv, TypeOK
<1>3. espacio_usuario' \in [Marcos -> Contenidos]
  <2>1. <<traduccion.proceso, traduccion.pagina>> \in Contenidos
    BY <1>2 DEF Contenidos
  <2>2. \/ espacio_usuario' = espacio_usuario
        \/ espacio_usuario' = [espacio_usuario EXCEPT ![traduccion.nro_marco] =
                                 <<traduccion.proceso, traduccion.pagina>>]
    BY DEF Leer, Escribir
  <2> QED
    BY <1>2, <2>1, <2>2 DEF Inv, TypeOK
<1>4. orden' \in Seq(Marcos) /\ ToSet(orden) \subseteq ToSet(orden)'
  BY <1>1, <1>2, Referencia DEF Inv
<1>5. TypeOK'
  BY <1>1, <1>3, <1>4 DEF Inv, TypeOK, hilos, canales, filesystem
<1>6. EsperaPagina'
  BY <1>1 DEF Inv, EsperaPagina
<1> QED
  BY <1>1, <1>4, <1>5, <1>6, PasoSinTablas DEF filesystem, MovidaLegal

LEMMA PasoFWrite ==
  ASSUME Inv, FWrite
  PROVE  Inv'
<1>1. /\ UNCHANGED <<ALGORITMO_REEMPLAZO, tablas, hilos, canales, bitmapSWAP, bloques, fallos,
                     page_fault, memoria>>
      /\ traduccion # NULL /\ traduccion' = NULL
      /\ estado' = [estado EXCEPT ![traduccion.proceso] = "ARCHIVO"]
      /\ escrituras' = escrituras \cup
           {[proceso |-> traduccion.proceso, nro_marco |-> traduccion.nro_marco]}
  BY DEF FWrite
<1>2. /\ traduccion.proceso \in Procesos /\ traduccion.nro_marco \in Marcos
      /\ estado[traduccion.proceso] = "EXEC"
  BY <1>1 DEF Inv, TypeOK, EsperaPagina
<1>3. /\ estado' \in [Procesos -> Estados] /\ estado'[traduccion.proceso] = "ARCHIVO"
      /\ \A q \in Procesos : q # traduccion.proceso => estado'[q] = estado[q]
  BY <1>1, <1>2 DEF Inv, TypeOK, Estados
<1>4. TypeOK'
  <2>1. escrituras' \subseteq [proceso : Procesos, nro_marco : Marcos]
    BY <1>1, <1>2 DEF Inv, TypeOK
  <2> QED
    BY <1>1, <1>3, <2>1 DEF Inv, TypeOK, tablas, hilos, canales
<1>5. EsperaPagina'
  <2>1. page_fault # NULL => page_fault \in Procesos /\ page_fault # traduccion.proceso
    BY <1>2 DEF Inv, TypeOK, EsperaPagina
  <2> QED
    BY <1>1, <1>2, <1>3, <2>1 DEF Inv, EsperaPagina, tablas
<1> QED
  BY <1>1, <1>2, <1>3, <1>4, <1>5, PasoSinTablas DEF tablas, MovidaLegal, Activos

(* The semaphore is taken by the Kernel's thread.                           *)
LEMMA PasoConfirmar ==
  ASSUME Inv, ConfirmarCreacion
  PROVE  Inv'
<1>1. /\ UNCHANGED <<ALGORITMO_REEMPLAZO, procesos, tabla_paginas, marcos, orden, espacio_usuario,
                     cargada, a_fs, a_memoria, filesystem, pedidos, memoria>>
      /\ creando # NULL /\ sem_control_swap_asign > 0 /\ creando' = NULL
      /\ sem_control_swap_asign' = sem_control_swap_asign - 1
      /\ estado' = [estado EXCEPT ![creando] = "READY"]
  BY DEF ConfirmarCreacion, HiloKernel, tablas, canales
<1>2. PICK p \in Procesos : p = creando
  BY <1>1 DEF Inv, TypeOK
<1>3. /\ estado' \in [Procesos -> Estados] /\ estado'[p] = "READY" /\ estado[p] = "NEW"
      /\ \A q \in Procesos \ {p} : estado'[q] = estado[q]
      /\ p \in procesos /\ sem_control_swap_asign = 1 /\ sem_control_swap_asign' = 0
  BY <1>1, <1>2 DEF Inv, TypeOK, Estados, Tablas, Creados
<1>4. TypeOK'
  BY <1>1, <1>2, <1>3 DEF Inv, TypeOK, filesystem, pedidos
<1>5. Tablas'
  <2>1. Creados'
    BY <1>1, <1>2, <1>3 DEF Inv, Tablas, Creados
  <2>2. NuncaModificada'
    BY <1>1 DEF Inv, Tablas, NuncaModificada
  <2> QED
    BY <2>1, <2>2 DEF Tablas
<1>6. UnaCreacion'
  BY <1>1, <1>3 DEF Inv, UnaCreacion
<1>7. UnFallo'
  BY <1>1 DEF Inv, UnFallo, EnVuelo, pedidos
<1>8. EsperaPagina'
  <2>1. page_fault # NULL => page_fault \in Procesos
    BY DEF Inv, TypeOK
  <2>2. traduccion # NULL => traduccion.proceso \in Procesos
    BY DEF Inv, TypeOK
  <2> QED
    BY <1>1, <1>3, <2>1, <2>2 DEF Inv, EsperaPagina, pedidos
<1>9. Marco'
  <2>1. \A q \in Procesos, i \in Nat : EnCamino(q, i) => EnCamino(q, i)'
    BY <1>1 DEF EnCamino
  <2> QED
    BY <1>1, <2>1, MarcosQuedan DEF Inv
<1>10. Swap'
  <2>1. \A q \in procesos : SinSwap(q)' <=> SinSwap(q)
    BY <1>1, <1>3, ConstantesMemoria DEF SinSwap, Inv, TypeOK
  <2>2. MismasPosiciones
    BY <1>1, <2>1 DEF MismasPosiciones
  <2> QED
    BY <1>1, <2>2, SwapQueda DEF Inv, filesystem
<1> QED
  BY <1>4, <1>5, <1>6, <1>7, <1>8, <1>9, <1>10 DEF Inv

-------------------------------------------------------------------------------
(* The FileSystem takes the first message.                                  *)
LEMMA PrimerMensaje ==
  ASSUME Inv, a_fs # <<>>, a_fs' = Tail(a_fs)
  PROVE  /\ a_fs' \in Seq(MensajesAFs) /\ Head(a_fs) = a_fs[1] /\ Head(a_fs) \in MensajesAFs
         /\ 1 \in DOMAIN a_fs /\ \A k \in DOMAIN a_fs : k \in Nat \ {0}
         /\ \A k \in DOMAIN a_fs' : k \in Nat \ {0} /\ k + 1 \in DOMAIN a_fs /\ a_fs'[k] = a_fs[k + 1]
         /\ \A k \in DOMAIN a_fs : k # 1 => k - 1 \in DOMAIN a_fs' /\ a_fs'[k - 1] = a_fs[k]
<1>1. a_fs \in Seq(MensajesAFs)
  BY DEF Inv, TypeOK
<1> QED
  BY <1>1, MensajeMenos

(* A message is taken and not answered: nothing else moves but bitmapSWAP.  *)
LEMMA PasoSinRespuesta ==
  ASSUME Inv, TypeOK', EsperaPagina',
         a_fs # <<>>, a_fs' = Tail(a_fs), Head(a_fs).op \notin {"ASIGNAR", "LECTURA"},
         UNCHANGED <<procesos, tabla_paginas, marcos, orden, hilos, a_memoria, page_fault>>,
         \A p \in Procesos : MovidaLegal(p),
         \/ UNCHANGED bitmapSWAP
         \/ Head(a_fs).op = "LIBERAR" /\ SetearComoLibres(Head(a_fs).bloques)
  PROVE  Inv'
<1>1. UNCHANGED <<procesos, tabla_paginas, marcos, orden, sem_control_swap_asign, creando, cargada,
                  a_memoria, page_fault>>
  BY DEF hilos
<1>2. /\ Head(a_fs) = a_fs[1] /\ 1 \in DOMAIN a_fs /\ \A k \in DOMAIN a_fs : k \in Nat \ {0}
      /\ \A k \in DOMAIN a_fs' : k \in Nat \ {0} /\ k + 1 \in DOMAIN a_fs /\ a_fs'[k] = a_fs[k + 1]
      /\ \A k \in DOMAIN a_fs : k # 1 => k - 1 \in DOMAIN a_fs' /\ a_fs'[k - 1] = a_fs[k]
  BY PrimerMensaje
<1>3. Tablas'
  <2>1. Creados'
    BY <1>1, CreadosQuedan DEF Inv, Tablas
  <2>2. NuncaModificada'
    BY <1>1 DEF Inv, Tablas, NuncaModificada
  <2> QED
    BY <2>1, <2>2 DEF Tablas
<1>4. UnaCreacion'
  <2>1. \A j \in DOMAIN a_fs', k \in DOMAIN a_fs' : j + 1 = k + 1 => j = k
    BY <1>2
  <2> QED
    BY <1>1, <1>2, <2>1 DEF Inv, UnaCreacion
<1>5. UnFallo'
  <2>1. \A j \in DOMAIN a_fs', k \in DOMAIN a_fs' : j + 1 = k + 1 => j = k
    BY <1>2
  <2> QED
    BY <1>1, <1>2, <2>1 DEF Inv, UnFallo, EnVuelo
<1>6. Marco'
  <2>1. ASSUME NEW p \in Procesos, NEW i \in Nat, EnCamino(p, i) PROVE EnCamino(p, i)'
    <3>1. PICK m \in ToSet(a_fs) \cup ToSet(a_memoria) :
            m.op \in {"LECTURA", "PAGINA"} /\ m.proceso = p /\ m.pagina = i
      BY <2>1 DEF EnCamino
    <3>2. CASE m \in ToSet(a_fs)
      <4>1. PICK k \in DOMAIN a_fs : a_fs[k] = m
        BY <3>2 DEF ToSet
      <4>2. Head(a_fs).op # "PAGINA"
        <5>1. a_fs \in Seq(MensajesAFs)
          BY DEF Inv, TypeOK
        <5> QED
          BY <1>2, <5>1, PrimerMensaje, MensajesDeFs
      <4>3. k # 1
        BY <1>2, <3>1, <4>1, <4>2
      <4>4. m \in ToSet(a_fs')
        BY <1>2, <4>1, <4>3 DEF ToSet
      <4> QED
        BY <3>1, <4>4 DEF EnCamino
    <3>3. CASE m \in ToSet(a_memoria)
      BY <1>1, <3>1, <3>3 DEF EnCamino
    <3> QED
      BY <3>2, <3>3
  <2> QED
    BY <1>1, <2>1, MarcosQuedan DEF Inv
<1>7. Swap'
  <2>1. PICK libres : /\ libres \subseteq Bloques
                      /\ \A b \in libres : Head(a_fs).op = "LIBERAR" /\ b \in Head(a_fs).bloques
                      /\ \A b \in Bloques : bitmapSWAP[b] /\ b \notin libres => bitmapSWAP'[b]
    <3>1. CASE UNCHANGED bitmapSWAP
      <4>1. \A b \in Bloques : bitmapSWAP[b] /\ b \notin {} => bitmapSWAP'[b]
        BY <3>1, Zenon
      <4>2. PICK nada : nada = {}
        OBVIOUS
      <4>3. nada \subseteq Bloques
            /\ \A b \in nada : Head(a_fs).op = "LIBERAR" /\ b \in Head(a_fs).bloques
        BY <4>2, Zenon
      <4> QED
        BY <4>1, <4>2, <4>3, Zenon
    <3>2. CASE Head(a_fs).op = "LIBERAR" /\ SetearComoLibres(Head(a_fs).bloques)
      <4>1. Head(a_fs).bloques \subseteq Bloques
        BY <3>2, PrimerMensaje, MensajesDeFs
      <4>2. \A b \in Bloques : bitmapSWAP[b] /\ b \notin Head(a_fs).bloques => bitmapSWAP'[b]
        BY <3>2, Zenon DEF SetearComoLibres
      <4> QED
        BY <3>2, <4>1, <4>2, Zenon
    <3> QED
      BY <3>1, <3>2
  <2>2. \A b \in libres : /\ Ajeno(b)
                          /\ \A k \in DOMAIN a_fs : a_fs[k].op = "LIBERAR" /\ b \in a_fs[k].bloques => k = 1
                          /\ \A k \in DOMAIN a_memoria : a_memoria[k].op = "ASIGNADAS" =>
                               b \notin ToSet(a_memoria[k].bloques)
    <3>1. \A b \in libres : a_fs[1].op = "LIBERAR" /\ b \in a_fs[1].bloques
      BY <1>2, <2>1
    <3> QED
      BY <1>2, <3>1 DEF Inv, Swap, BloquesEnCamino
  <2>3. \A b \in Bloques : bitmapSWAP[b] /\ b \notin libres => bitmapSWAP'[b]
    BY <2>1, Zenon
  <2>4. \A p \in procesos : SinSwap(p)' <=> SinSwap(p)
    BY <1>1 DEF SinSwap
  <2>5. ASSUME NEW p \in procesos, NEW i \in DOMAIN tabla_paginas[p],
               tabla_paginas[p][i].pos_en_swap # NULL
        PROVE  tabla_paginas[p][i].pos_en_swap \in Bloques \ libres
    <3>1. tabla_paginas[p][i].pos_en_swap \in Bloques
      <4>1. tabla_paginas[p] \in Seq(Pagina)
        BY DEF Inv, TypeOK
      <4>2. tabla_paginas[p][i] \in Pagina
        BY <4>1, ElementOfSeq, LenProperties
      <4> QED
        BY <2>5, <4>2 DEF Pagina
    <3> QED
      BY <2>2, <3>1 DEF Ajeno
  <2>6. PosicionesPropias'
    <3>1. \A p \in procesos : \A i \in DOMAIN tabla_paginas[p] :
            tabla_paginas[p][i].pos_en_swap # NULL /\ bitmapSWAP[tabla_paginas[p][i].pos_en_swap]
            => bitmapSWAP'[tabla_paginas[p][i].pos_en_swap]
      BY <2>3, <2>5
    <3> QED
      BY <1>1, <2>4, <3>1 DEF Inv, Swap, PosicionesPropias
  <2>7. \A b : Ajeno(b)' <=> Ajeno(b)
    BY <1>1 DEF Ajeno
  <2>8. BloquesEnCamino'
    <3>1. ASSUME NEW k \in DOMAIN a_fs', a_fs'[k].op = "LIBERAR", NEW b \in a_fs'[k].bloques
          PROVE  /\ bitmapSWAP'[b] /\ Ajeno(b)
                 /\ \A j \in DOMAIN a_fs' : a_fs'[j].op = "LIBERAR" /\ b \in a_fs'[j].bloques => j = k
      <4>1. /\ k + 1 \in DOMAIN a_fs /\ a_fs'[k] = a_fs[k + 1] /\ k + 1 # 1 /\ k \in Nat
            /\ a_fs[k + 1].op = "LIBERAR" /\ b \in a_fs[k + 1].bloques
        BY <1>2, <3>1
      <4>2. /\ bitmapSWAP[b] /\ Ajeno(b)
            /\ \A j \in DOMAIN a_fs : a_fs[j].op = "LIBERAR" /\ b \in a_fs[j].bloques => j = k + 1
        BY <4>1 DEF Inv, Swap, BloquesEnCamino
      <4>3. b \in Bloques
        <5>1. a_fs[k + 1] \in MensajesAFs
          BY <4>1, ElementOfSeq, LenProperties DEF Inv, TypeOK
        <5> QED
          BY <4>1, <5>1, MensajesDeFs
      <4>4. b \notin libres
        BY <2>2, <4>1
      <4>5. \A j \in DOMAIN a_fs' : j + 1 = k + 1 => j = k
        BY <1>2, <4>1
      <4> QED
        BY <1>2, <2>3, <4>2, <4>3, <4>4, <4>5
    <3>2. ASSUME NEW k \in DOMAIN a_memoria, a_memoria[k].op = "ASIGNADAS"
          PROVE  /\ IsInjective(a_memoria[k].bloques)
                 /\ \A b \in ToSet(a_memoria[k].bloques) :
                      /\ bitmapSWAP'[b] /\ Ajeno(b)
                      /\ \A j \in DOMAIN a_fs' : a_fs'[j].op = "LIBERAR" => b \notin a_fs'[j].bloques
      <4>1. /\ IsInjective(a_memoria[k].bloques)
            /\ \A b \in ToSet(a_memoria[k].bloques) :
                 /\ bitmapSWAP[b] /\ Ajeno(b)
                 /\ \A j \in DOMAIN a_fs : a_fs[j].op = "LIBERAR" => b \notin a_fs[j].bloques
        BY <3>2 DEF Inv, Swap, BloquesEnCamino
      <4>2. a_memoria[k].bloques \in Seq(Bloques)
        <5>1. a_memoria[k] \in MensajesAMemoria
          BY ElementOfSeq, LenProperties DEF Inv, TypeOK
        <5> QED
          BY <3>2, <5>1, MensajesDeFs
      <4>3. \A b \in ToSet(a_memoria[k].bloques) : b \in Bloques
        BY <4>2, ElementOfSeq, LenProperties DEF ToSet
      <4> QED
        BY <1>2, <2>2, <2>3, <3>2, <4>1, <4>3
    <3> QED
      BY <1>1, <2>7, <3>1, <3>2 DEF BloquesEnCamino
  <2>9. LecturaAntesDeLiberar'
    <3> SUFFICES ASSUME NEW k \in DOMAIN a_fs', a_fs'[k].op = "LECTURA"
                 PROVE  /\ a_fs'[k].pos \in Bloques /\ bitmapSWAP'[a_fs'[k].pos]
                        /\ \A j \in 1..k-1 : a_fs'[j].op = "LIBERAR" => a_fs'[k].pos \notin a_fs'[j].bloques
      BY DEF LecturaAntesDeLiberar
    <3>1. k \in Nat \ {0} /\ k + 1 \in DOMAIN a_fs /\ a_fs'[k] = a_fs[k + 1] /\ 1 \in 1..(k + 1) - 1
      BY <1>2
    <3>2. /\ a_fs[k + 1].pos \in Bloques /\ bitmapSWAP[a_fs[k + 1].pos]
          /\ \A j \in 1..(k + 1) - 1 : a_fs[j].op = "LIBERAR" => a_fs[k + 1].pos \notin a_fs[j].bloques
      BY <3>1 DEF Inv, Swap, LecturaAntesDeLiberar
    <3>3. a_fs[k + 1].pos \notin libres
      BY <1>2, <2>1, <3>1, <3>2
    <3>4. \A j \in 1..k-1 : j + 1 \in 1..(k + 1) - 1 /\ a_fs'[j] = a_fs[j + 1]
      <4>1. a_fs' \in Seq(MensajesAFs)
        BY PrimerMensaje
      <4>2. \A j \in 1..k-1 : j \in DOMAIN a_fs'
        BY <3>1, <4>1, LenProperties
      <4>3. \A j \in 1..k-1 : a_fs'[j] = a_fs[j + 1]
        BY <1>2, <4>2
      <4>4. \A j \in 1..k-1 : j + 1 \in 1..(k + 1) - 1
        BY <3>1
      <4> QED
        BY <4>3, <4>4
    <3>5. \A j \in 1..k-1 : a_fs'[j].op = "LIBERAR" => a_fs'[k].pos \notin a_fs'[j].bloques
      BY <3>1, <3>2, <3>4
    <3> QED
      BY <2>3, <3>1, <3>2, <3>3, <3>5, Zenon
  <2> QED
    BY <2>6, <2>8, <2>9 DEF Swap
<1> QED
  BY <1>3, <1>4, <1>5, <1>6, <1>7 DEF Inv

LEMMA PasoCambiarSwap ==
  ASSUME Inv, FsCambiarSwap
  PROVE  Inv'
<1>1. /\ a_fs # <<>> /\ a_fs' = Tail(a_fs)
      /\ UNCHANGED <<ALGORITMO_REEMPLAZO, tablas, hilos, a_memoria, escrituras, estado, pedidos, memoria>>
      /\ \/ /\ Head(a_fs).op = "LIBERAR" /\ SetearComoLibres(Head(a_fs).bloques)
            /\ UNCHANGED bloques
         \/ /\ Head(a_fs).op = "GUARDAR" /\ UNCHANGED bitmapSWAP
            /\ ModificarBloque(Head(a_fs).pos, Head(a_fs).contenido)
  BY DEF FsCambiarSwap, FsAtiende
<1>2. a_fs' \in Seq(MensajesAFs) /\ Head(a_fs) \in MensajesAFs
  BY <1>1, PrimerMensaje
<1>3. bitmapSWAP' \in [Bloques -> BOOLEAN]
  <2>1. CASE UNCHANGED bitmapSWAP
    BY <2>1 DEF Inv, TypeOK
  <2>2. CASE SetearComoLibres(Head(a_fs).bloques)
    BY <2>2, Zenon DEF SetearComoLibres
  <2> QED
    BY <1>1, <2>1, <2>2
<1>4. bloques' \in [Bloques -> Contenidos]
  <2>1. CASE UNCHANGED bloques
    BY <2>1 DEF Inv, TypeOK
  <2>2. CASE Head(a_fs).op = "GUARDAR" /\ ModificarBloque(Head(a_fs).pos, Head(a_fs).contenido)
    BY <1>2, <2>2, MensajesDeFs DEF ModificarBloque, Inv, TypeOK
  <2> QED
    BY <1>1, <2>1, <2>2
<1>5. TypeOK'
  BY <1>1, <1>2, <1>3, <1>4 DEF Inv, TypeOK, tablas, hilos, pedidos
<1>6. EsperaPagina'
  BY <1>1 DEF Inv, EsperaPagina, tablas, pedidos
<1>7. Head(a_fs).op \notin {"ASIGNAR", "LECTURA"}
  BY <1>1
<1>8. UNCHANGED <<procesos, tabla_paginas, marcos, orden, hilos, a_memoria, page_fault>>
  BY <1>1 DEF tablas, pedidos
<1>9. \A p \in Procesos : MovidaLegal(p)
  BY <1>1 DEF MovidaLegal
<1> QED
  BY <1>1, <1>5, <1>6, <1>7, <1>8, <1>9, PasoSinRespuesta

(* Whoever is woken was waiting for it, and is in READY.                    *)
LEMMA Despierta ==
  ASSUME Inv, NEW p \in Procesos, NEW espera \in Activos, espera # "EXEC", Despertar(p, espera),
         espera = "PAGE_FAULT" => page_fault = p
  PROVE  /\ estado' \in [Procesos -> Estados]
         /\ \A q \in Procesos : MovidaLegal(q)
         /\ \A q \in Procesos : estado[q] = "EXEC" => estado'[q] = "EXEC"
         /\ \A q \in Procesos : q # page_fault /\ estado[q] \in {"PAGE_FAULT", "EXIT"} =>
              estado'[q] = estado[q]
         /\ espera # "PAGE_FAULT" => \A q \in Procesos :
              estado[q] \in {"PAGE_FAULT", "EXIT"} => estado'[q] = estado[q]
<1>1. estado' = [estado EXCEPT ![p] = IF estado[p] = espera THEN "READY" ELSE estado[p]]
  BY DEF Despertar
<1>2. estado \in [Procesos -> Estados] /\ "READY" \in Estados /\ "READY" \in Activos
  BY DEF Inv, TypeOK, Estados, Activos
<1>3. /\ estado' \in [Procesos -> Estados]
      /\ \A q \in Procesos : q # p => estado'[q] = estado[q]
      /\ estado'[p] = IF estado[p] = espera THEN "READY" ELSE estado[p]
  BY <1>1, <1>2
<1>4. espera \notin {"EXIT", "EXEC"}
  BY DEF Activos
<1>5. \A q \in Procesos : MovidaLegal(q)
  BY <1>2, <1>3 DEF MovidaLegal
<1>6. estado[p] # espera => estado'[p] = estado[p]
  BY <1>3
<1> QED
  BY <1>3, <1>4, <1>5, <1>6

LEMMA PasoEscribirBloque ==
  ASSUME Inv, FsEscribirBloque
  PROVE  Inv'
<1>1. /\ a_fs # <<>> /\ a_fs' = Tail(a_fs) /\ Head(a_fs).op = "BLOQUE"
      /\ UNCHANGED <<ALGORITMO_REEMPLAZO, tablas, hilos, a_memoria, filesystem, pedidos, memoria>>
      /\ Despertar(Head(a_fs).proceso, "ARCHIVO")
  BY DEF FsEscribirBloque, FsAtiende
<1>2. a_fs' \in Seq(MensajesAFs) /\ Head(a_fs) \in MensajesAFs
  BY <1>1, PrimerMensaje
<1>3. Head(a_fs).proceso \in Procesos
  BY <1>1, <1>2, MensajesDeFs
<1>4. /\ estado' \in [Procesos -> Estados]
      /\ \A q \in Procesos : MovidaLegal(q)
      /\ \A q \in Procesos : estado[q] = "EXEC" => estado'[q] = "EXEC"
      /\ \A q \in Procesos : estado[q] \in {"PAGE_FAULT", "EXIT"} => estado'[q] = estado[q]
  BY <1>1, <1>3, Despierta DEF Activos
<1>5. TypeOK'
  BY <1>1, <1>2, <1>4 DEF Inv, TypeOK, tablas, hilos, filesystem, pedidos
<1>6. EsperaPagina'
  <2>1. page_fault # NULL => page_fault \in Procesos
    BY DEF Inv, TypeOK
  <2>2. traduccion # NULL => traduccion.proceso \in Procesos
    BY DEF Inv, TypeOK
  <2> QED
    BY <1>1, <1>4, <2>1, <2>2 DEF Inv, EsperaPagina, tablas, pedidos
<1>7. Head(a_fs).op \notin {"ASIGNAR", "LECTURA"}
  BY <1>1
<1>8. UNCHANGED <<procesos, tabla_paginas, marcos, orden, hilos, a_memoria, page_fault>>
      /\ UNCHANGED bitmapSWAP
  BY <1>1 DEF tablas, pedidos, filesystem
<1> QED
  BY <1>1, <1>4, <1>5, <1>6, <1>7, <1>8, PasoSinRespuesta

(* A page is read: what was asked becomes an answer.                        *)
LEMMA PasoLeerSwap ==
  ASSUME Inv, FsLeerSwap
  PROVE  Inv'
<1>1. PICK m \in MensajesAFs : m = Head(a_fs) /\ a_fs # <<>> /\ a_fs' = Tail(a_fs)
  BY PrimerMensaje DEF FsLeerSwap, FsAtiende
<1>2. PICK r : r = BloqueAMemoria(m.proceso, m.pagina, ObtenerBloque(m.pos))
  OBVIOUS
<1>3. /\ m.op = "LECTURA" /\ a_memoria' = Append(a_memoria, r)
      /\ UNCHANGED <<ALGORITMO_REEMPLAZO, procesos, tabla_paginas, marcos, orden, espacio_usuario,
                     sem_control_swap_asign, creando, cargada, bitmapSWAP, bloques, escrituras,
                     estado, fallos, page_fault, traduccion, memoria>>
  BY <1>1, <1>2 DEF FsLeerSwap, FsAtiende, tablas, hilos, filesystem, pedidos
<1>4. m.proceso \in Procesos /\ m.pagina \in Nat \ {0} /\ m.pos \in Bloques
  BY <1>3, MensajesDeFs
<1>5. /\ r \in MensajesAMemoria /\ r.op = "PAGINA" /\ r.proceso = m.proceso
      /\ r.pagina = m.pagina
  <2>1. bloques[m.pos] \in Contenidos
    BY <1>4 DEF Inv, TypeOK
  <2>2. r = [op |-> "PAGINA", proceso |-> m.proceso, pagina |-> m.pagina, contenido |-> bloques[m.pos]]
    BY <1>2 DEF BloqueAMemoria, ObtenerBloque
  <2> QED
    BY <1>4, <2>1, <2>2 DEF MensajesAMemoria
<1>6. /\ a_fs' \in Seq(MensajesAFs) /\ m = a_fs[1]
      /\ 1 \in DOMAIN a_fs /\ \A k \in DOMAIN a_fs : k \in Nat \ {0}
      /\ \A k \in DOMAIN a_fs' : k \in Nat \ {0} /\ k + 1 \in DOMAIN a_fs /\ a_fs'[k] = a_fs[k + 1]
      /\ \A k \in DOMAIN a_fs : k # 1 => k - 1 \in DOMAIN a_fs' /\ a_fs'[k - 1] = a_fs[k]
  BY <1>1, PrimerMensaje
<1>7. /\ a_memoria' \in Seq(MensajesAMemoria)
      /\ \A k \in DOMAIN a_memoria' : \/ k \in DOMAIN a_memoria /\ a_memoria'[k] = a_memoria[k]
                                      \/ k = Len(a_memoria) + 1 /\ a_memoria'[k] = r
      /\ \A k \in DOMAIN a_memoria : k \in DOMAIN a_memoria' /\ a_memoria'[k] = a_memoria[k]
      /\ Len(a_memoria) + 1 \in DOMAIN a_memoria' /\ a_memoria'[Len(a_memoria) + 1] = r
  <2>1. a_memoria \in Seq(MensajesAMemoria)
    BY DEF Inv, TypeOK
  <2> QED
    BY <1>3, <1>5, <2>1, MensajeNuevo
<1>8. TypeOK'
  BY <1>3, <1>6, <1>7 DEF Inv, TypeOK
<1>9. Tablas'
  <2>1. Creados'
    BY <1>3 DEF Inv, Tablas, Creados
  <2>2. NuncaModificada'
    BY <1>3 DEF Inv, Tablas, NuncaModificada
  <2> QED
    BY <2>1, <2>2 DEF Tablas
<1>10. \A j \in DOMAIN a_fs', k \in DOMAIN a_fs' : j + 1 = k + 1 => j = k
  BY <1>6
<1>11. UnaCreacion'
  BY <1>3, <1>5, <1>6, <1>7, <1>10 DEF Inv, UnaCreacion
<1>12. /\ \A j \in DOMAIN a_fs' : a_fs'[j].op # "LECTURA"
       /\ \A j \in DOMAIN a_memoria : a_memoria[j].op # "PAGINA"
       /\ EnVuelo(m)
  <2>1. a_fs[1].op = "LECTURA"
    BY <1>3, <1>6
  <2>2. \A j \in DOMAIN a_fs' : j + 1 # 1
    BY <1>6
  <2> QED
    BY <1>6, <2>1, <2>2 DEF Inv, UnFallo
<1>13. UnFallo'
  <2>1. EnVuelo(r)'
    BY <1>3, <1>5, <1>12 DEF EnVuelo
  <2>2. \A j \in DOMAIN a_memoria' : a_memoria'[j].op = "PAGINA" => j = Len(a_memoria) + 1 /\ a_memoria'[j] = r
    BY <1>7, <1>12
  <2>3. \A j \in DOMAIN a_memoria' : a_memoria'[j].op = "PAGINA" => EnVuelo(a_memoria[j])'
    BY <2>1, <2>2 DEF EnVuelo
  <2>4. cargada' # NULL => page_fault' = cargada'
    BY <1>3 DEF Inv, UnFallo
  <2> QED
    BY <1>12, <2>2, <2>3, <2>4 DEF UnFallo
<1>14. EsperaPagina'
  BY <1>3 DEF Inv, EsperaPagina
<1>15. Marco'
  <2>1. ASSUME NEW p \in Procesos, NEW i \in Nat, EnCamino(p, i) PROVE EnCamino(p, i)'
    <3>1. PICK n \in ToSet(a_fs) \cup ToSet(a_memoria) :
            n.op \in {"LECTURA", "PAGINA"} /\ n.proceso = p /\ n.pagina = i
      BY <2>1 DEF EnCamino
    <3>2. CASE n \in ToSet(a_memoria)
      <4>1. n \in ToSet(a_memoria')
        BY <1>7, <3>2 DEF ToSet
      <4> QED
        BY <3>1, <4>1 DEF EnCamino
    <3>3. CASE n \in ToSet(a_fs)
      <4>1. PICK k \in DOMAIN a_fs : a_fs[k] = n
        BY <3>3 DEF ToSet
      <4>2. CASE k = 1
        <5>1. r \in ToSet(a_memoria')
          BY <1>7 DEF ToSet
        <5> QED
          BY <1>5, <1>6, <3>1, <4>1, <4>2, <5>1 DEF EnCamino
      <4>3. CASE k # 1
        <5>1. n \in ToSet(a_fs')
          BY <1>6, <4>1, <4>3 DEF ToSet
        <5> QED
          BY <3>1, <5>1 DEF EnCamino
      <4> QED
        BY <4>2, <4>3
    <3> QED
      BY <3>1, <3>2, <3>3
  <2> QED
    BY <1>3, <2>1, MarcosQuedan DEF Inv
<1>16. Swap'
  <2>1. MismasPosiciones
    BY <1>3 DEF MismasPosiciones, SinSwap
  <2>2. PosicionesPropias' /\ \A b : Ajeno(b)' <=> Ajeno(b)
    BY <1>3, <2>1, PosicionesQuedan DEF Inv, Swap
  <2>3. BloquesEnCamino'
    <3>1. ASSUME NEW k \in DOMAIN a_fs', a_fs'[k].op = "LIBERAR", NEW b \in a_fs'[k].bloques
          PROVE  /\ bitmapSWAP'[b] /\ Ajeno(b)
                 /\ \A j \in DOMAIN a_fs' : a_fs'[j].op = "LIBERAR" /\ b \in a_fs'[j].bloques => j = k
      BY <1>3, <1>6, <1>10, <3>1 DEF Inv, Swap, BloquesEnCamino
    <3>2. ASSUME NEW k \in DOMAIN a_memoria', a_memoria'[k].op = "ASIGNADAS"
          PROVE  /\ IsInjective(a_memoria'[k].bloques)
                 /\ \A b \in ToSet(a_memoria'[k].bloques) :
                      /\ bitmapSWAP'[b] /\ Ajeno(b)
                      /\ \A j \in DOMAIN a_fs' : a_fs'[j].op = "LIBERAR" => b \notin a_fs'[j].bloques
      <4>1. k \in DOMAIN a_memoria /\ a_memoria'[k] = a_memoria[k]
        BY <1>5, <1>7, <3>2
      <4> QED
        BY <1>3, <1>6, <3>2, <4>1 DEF Inv, Swap, BloquesEnCamino
    <3> QED
      BY <2>2, <3>1, <3>2 DEF BloquesEnCamino
  <2>4. LecturaAntesDeLiberar'
    BY <1>12 DEF LecturaAntesDeLiberar
  <2> QED
    BY <2>2, <2>3, <2>4 DEF Swap
<1> QED
  BY <1>8, <1>9, <1>11, <1>13, <1>14, <1>15, <1>16 DEF Inv

(* Blocks are given: free until now, so that nobody has them.               *)
LEMMA PasoFsAsignar ==
  ASSUME Inv, FsAsignar
  PROVE  Inv'
<1>1. PICK m \in MensajesAFs : m = Head(a_fs) /\ a_fs # <<>> /\ a_fs' = Tail(a_fs)
  BY PrimerMensaje DEF FsAsignar, FsAtiende
<1>2. PICK lista : lista = SwapObtener(m.cant)
  OBVIOUS
<1>3. PICK r : r = ListaDeBloques(m.proceso, lista)
  OBVIOUS
<1>4. /\ m.op = "ASIGNAR" /\ a_memoria' = Append(a_memoria, r)
      /\ UNCHANGED <<ALGORITMO_REEMPLAZO, procesos, tabla_paginas, marcos, orden, espacio_usuario,
                     sem_control_swap_asign, creando, cargada, bloques, escrituras,
                     estado, fallos, page_fault, traduccion, memoria>>
      /\ bitmapSWAP' = [b \in Bloques |-> bitmapSWAP[b] \/ b \in ToSet(lista)]
  BY <1>1, <1>2, <1>3 DEF FsAsignar, FsAtiende, tablas, hilos, pedidos
<1>5. /\ lista \in Seq(Bloques) /\ IsInjective(lista)
      /\ \A b \in ToSet(lista) : b \in Bloques /\ ~bitmapSWAP[b]
  <2>1. m.cant \in Nat
    BY <1>4, MensajesDeFs
  <2>2. bitmapSWAP \in [Bloques -> BOOLEAN]
    BY DEF Inv, TypeOK
  <2> QED
    BY <1>2, <2>1, <2>2, BloquesObtenidos
<1>6. /\ r \in MensajesAMemoria /\ r.op = "ASIGNADAS" /\ r.proceso = m.proceso
      /\ r.bloques = lista
  <2>1. m.proceso \in Procesos
    BY <1>4, MensajesDeFs
  <2>2. r = [op |-> "ASIGNADAS", proceso |-> m.proceso, bloques |-> lista]
    BY <1>3 DEF ListaDeBloques
  <2> QED
    BY <1>5, <2>1, <2>2 DEF MensajesAMemoria
<1>7. /\ a_fs' \in Seq(MensajesAFs) /\ m = a_fs[1]
      /\ 1 \in DOMAIN a_fs /\ \A k \in DOMAIN a_fs : k \in Nat \ {0}
      /\ \A k \in DOMAIN a_fs' : k \in Nat \ {0} /\ k + 1 \in DOMAIN a_fs /\ a_fs'[k] = a_fs[k + 1]
      /\ \A k \in DOMAIN a_fs : k # 1 => k - 1 \in DOMAIN a_fs' /\ a_fs'[k - 1] = a_fs[k]
  BY <1>1, PrimerMensaje
<1>8. /\ a_memoria' \in Seq(MensajesAMemoria)
      /\ \A k \in DOMAIN a_memoria' : \/ k \in DOMAIN a_memoria /\ a_memoria'[k] = a_memoria[k]
                                      \/ k = Len(a_memoria) + 1 /\ a_memoria'[k] = r
      /\ \A k \in DOMAIN a_memoria : k \in DOMAIN a_memoria' /\ a_memoria'[k] = a_memoria[k]
  <2>1. a_memoria \in Seq(MensajesAMemoria)
    BY DEF Inv, TypeOK
  <2> QED
    BY <1>4, <1>6, <2>1, MensajeNuevo
<1>9. /\ bitmapSWAP' \in [Bloques -> BOOLEAN]
      /\ \A b \in Bloques : bitmapSWAP[b] => bitmapSWAP'[b]
      /\ \A b \in ToSet(lista) : bitmapSWAP'[b]
  <2>1. bitmapSWAP' \in [Bloques -> BOOLEAN]
    BY <1>4, Zenon
  <2>2. \A b \in Bloques : bitmapSWAP[b] => bitmapSWAP'[b]
    BY <1>4, Zenon
  <2>3. \A b \in ToSet(lista) : bitmapSWAP'[b]
    BY <1>4, <1>5, Zenon
  <2> QED
    BY <2>1, <2>2, <2>3
<1>10. TypeOK'
  BY <1>4, <1>7, <1>8, <1>9 DEF Inv, TypeOK
<1>11. Tablas'
  <2>1. Creados'
    BY <1>4 DEF Inv, Tablas, Creados
  <2>2. NuncaModificada'
    BY <1>4 DEF Inv, Tablas, NuncaModificada
  <2> QED
    BY <2>1, <2>2 DEF Tablas
<1>12. \A j \in DOMAIN a_fs', k \in DOMAIN a_fs' : j + 1 = k + 1 => j = k
  BY <1>7
<1>13. /\ \A j \in DOMAIN a_fs' : a_fs'[j].op # "ASIGNAR"
       /\ \A j \in DOMAIN a_memoria : a_memoria[j].op # "ASIGNADAS"
       /\ m.proceso = creando /\ sem_control_swap_asign = 0
  <2>1. a_fs[1].op = "ASIGNAR"
    BY <1>4, <1>7
  <2>2. \A j \in DOMAIN a_fs' : j + 1 # 1
    BY <1>7
  <2> QED
    BY <1>7, <2>1, <2>2 DEF Inv, UnaCreacion
<1>14. UnaCreacion'
  <2>1. sem_control_swap_asign' = 0 /\ creando' = m.proceso
    BY <1>4, <1>13
  <2>2. \A j \in DOMAIN a_memoria' : a_memoria'[j].op = "ASIGNADAS" =>
          j = Len(a_memoria) + 1 /\ a_memoria'[j] = r
    BY <1>8, <1>13
  <2> QED
    BY <1>6, <1>13, <2>1, <2>2 DEF UnaCreacion
<1>15. UnFallo'
  <2>1. \A k \in DOMAIN a_memoria' : a_memoria'[k].op = "PAGINA" =>
          k \in DOMAIN a_memoria /\ a_memoria'[k] = a_memoria[k]
    BY <1>6, <1>8
  <2>2. ASSUME NEW k \in DOMAIN a_fs', a_fs'[k].op = "LECTURA"
        PROVE  /\ EnVuelo(a_fs[k])'
               /\ \A j \in DOMAIN a_fs' : a_fs'[j].op = "LECTURA" => j = k
               /\ \A j \in DOMAIN a_memoria' : a_memoria'[j].op # "PAGINA"
    <3>1. k + 1 \in DOMAIN a_fs /\ a_fs'[k] = a_fs[k + 1] /\ a_fs[k + 1].op = "LECTURA"
      BY <1>7, <2>2
    <3>2. /\ EnVuelo(a_fs[k + 1])
          /\ \A j \in DOMAIN a_fs : a_fs[j].op = "LECTURA" => j = k + 1
          /\ \A j \in DOMAIN a_memoria : a_memoria[j].op # "PAGINA"
      BY <3>1 DEF Inv, UnFallo
    <3>3. EnVuelo(a_fs[k])'
      BY <1>4, <3>1, <3>2 DEF EnVuelo
    <3>4. \A j \in DOMAIN a_fs' : a_fs'[j].op = "LECTURA" => j = k
      BY <1>7, <1>12, <3>2
    <3> QED
      BY <2>1, <3>2, <3>3, <3>4
  <2>3. ASSUME NEW k \in DOMAIN a_memoria', a_memoria'[k].op = "PAGINA"
        PROVE  /\ EnVuelo(a_memoria[k])'
               /\ \A j \in DOMAIN a_memoria' : a_memoria'[j].op = "PAGINA" => j = k
    <3>1. k \in DOMAIN a_memoria /\ a_memoria'[k] = a_memoria[k]
      BY <2>1, <2>3
    <3>2. /\ EnVuelo(a_memoria[k])
          /\ \A j \in DOMAIN a_memoria : a_memoria[j].op = "PAGINA" => j = k
      BY <2>3, <3>1 DEF Inv, UnFallo
    <3>3. EnVuelo(a_memoria[k])'
      BY <1>4, <3>1, <3>2 DEF EnVuelo
    <3> QED
      BY <2>1, <3>2, <3>3
  <2>4. cargada' # NULL => page_fault' = cargada'
    BY <1>4 DEF Inv, UnFallo
  <2> QED
    BY <2>2, <2>3, <2>4 DEF UnFallo
<1>16. EsperaPagina'
  BY <1>4 DEF Inv, EsperaPagina
<1>17. Marco'
  <2>1. ASSUME NEW p \in Procesos, NEW i \in Nat, EnCamino(p, i) PROVE EnCamino(p, i)'
    <3>1. PICK n \in ToSet(a_fs) \cup ToSet(a_memoria) :
            n.op \in {"LECTURA", "PAGINA"} /\ n.proceso = p /\ n.pagina = i
      BY <2>1 DEF EnCamino
    <3>2. n \in ToSet(a_memoria) => n \in ToSet(a_memoria')
      BY <1>8 DEF ToSet
    <3>3. n \in ToSet(a_fs) => n \in ToSet(a_fs')
      <4>1. ASSUME NEW k \in DOMAIN a_fs, a_fs[k] = n PROVE n \in ToSet(a_fs')
        <5>1. k # 1
          BY <1>4, <1>7, <3>1, <4>1
        <5> QED
          BY <1>7, <4>1, <5>1 DEF ToSet
      <4> QED
        BY <4>1 DEF ToSet
    <3> QED
      BY <3>1, <3>2, <3>3 DEF EnCamino
  <2> QED
    BY <1>4, <2>1, MarcosQuedan DEF Inv
<1>18. Swap'
  <2>1. \A b : Ajeno(b)' <=> Ajeno(b)
    BY <1>4 DEF Ajeno
  <2>2. ASSUME NEW p \in procesos, NEW i \in DOMAIN tabla_paginas[p],
               tabla_paginas[p][i].pos_en_swap # NULL
        PROVE  /\ tabla_paginas[p][i].pos_en_swap \in Bloques
               /\ bitmapSWAP[tabla_paginas[p][i].pos_en_swap]
    <3>1. tabla_paginas[p] \in Seq(Pagina)
      BY DEF Inv, TypeOK
    <3>2. tabla_paginas[p][i] \in Pagina
      BY <3>1, ElementOfSeq, LenProperties
    <3> QED
      BY <2>2, <3>2 DEF Pagina, Inv, Swap, PosicionesPropias
  <2>3. PosicionesPropias'
    <3>1. \A p \in procesos : \A i \in DOMAIN tabla_paginas[p] :
            tabla_paginas[p][i].pos_en_swap # NULL => bitmapSWAP'[tabla_paginas[p][i].pos_en_swap]
      BY <1>9, <2>2
    <3>2. \A p \in procesos : SinSwap(p)' <=> SinSwap(p)
      BY <1>4 DEF SinSwap
    <3> QED
      BY <1>4, <3>1, <3>2 DEF Inv, Swap, PosicionesPropias
  <2>4. \A b \in ToSet(lista) : Ajeno(b)
    <3> SUFFICES ASSUME NEW b \in ToSet(lista), NEW p \in procesos, NEW i \in DOMAIN tabla_paginas[p]
                 PROVE  tabla_paginas[p][i].pos_en_swap # b
      BY DEF Ajeno
    <3>1. b # NULL /\ ~bitmapSWAP[b]
      BY <1>5, ConstantesMemoria DEF Bloques
    <3> QED
      BY <2>2, <3>1
  <2>5. \A k \in DOMAIN a_fs : a_fs[k].op = "LIBERAR" =>
          \A b \in a_fs[k].bloques : b \in Bloques /\ bitmapSWAP[b]
    <3>1. \A k \in DOMAIN a_fs : a_fs[k] \in MensajesAFs
      BY ElementOfSeq, LenProperties DEF Inv, TypeOK
    <3> QED
      BY <3>1, MensajesDeFs DEF Inv, Swap, BloquesEnCamino
  <2>6. BloquesEnCamino'
    <3>1. ASSUME NEW k \in DOMAIN a_fs', a_fs'[k].op = "LIBERAR", NEW b \in a_fs'[k].bloques
          PROVE  /\ bitmapSWAP'[b] /\ Ajeno(b)
                 /\ \A j \in DOMAIN a_fs' : a_fs'[j].op = "LIBERAR" /\ b \in a_fs'[j].bloques => j = k
      <4>1. bitmapSWAP'[b]
        BY <1>7, <1>9, <2>5, <3>1
      <4> QED
        BY <1>7, <1>12, <3>1, <4>1 DEF Inv, Swap, BloquesEnCamino
    <3>2. ASSUME NEW k \in DOMAIN a_memoria', a_memoria'[k].op = "ASIGNADAS"
          PROVE  /\ IsInjective(a_memoria'[k].bloques)
                 /\ \A b \in ToSet(a_memoria'[k].bloques) :
                      /\ bitmapSWAP'[b] /\ Ajeno(b)
                      /\ \A j \in DOMAIN a_fs' : a_fs'[j].op = "LIBERAR" => b \notin a_fs'[j].bloques
      <4>1. a_memoria'[k].bloques = lista
        BY <1>6, <1>8, <1>13, <3>2
      <4>2. \A b \in ToSet(lista) : \A j \in DOMAIN a_fs' :
              a_fs'[j].op = "LIBERAR" => b \notin a_fs'[j].bloques
        BY <1>5, <1>7, <2>5
      <4> QED
        BY <1>5, <1>9, <2>4, <4>1, <4>2
    <3> QED
      BY <2>1, <3>1, <3>2 DEF BloquesEnCamino
  <2>7. LecturaAntesDeLiberar'
    <3> SUFFICES ASSUME NEW k \in DOMAIN a_fs', a_fs'[k].op = "LECTURA"
                 PROVE  /\ a_fs'[k].pos \in Bloques /\ bitmapSWAP'[a_fs'[k].pos]
                        /\ \A j \in 1..k-1 : a_fs'[j].op = "LIBERAR" => a_fs'[k].pos \notin a_fs'[j].bloques
      BY DEF LecturaAntesDeLiberar
    <3>1. k \in Nat \ {0} /\ k + 1 \in DOMAIN a_fs /\ a_fs'[k] = a_fs[k + 1]
      BY <1>7
    <3>2. /\ a_fs[k + 1].pos \in Bloques /\ bitmapSWAP[a_fs[k + 1].pos]
          /\ \A j \in 1..(k + 1) - 1 : a_fs[j].op = "LIBERAR" => a_fs[k + 1].pos \notin a_fs[j].bloques
      BY <3>1 DEF Inv, Swap, LecturaAntesDeLiberar
    <3>3. \A j \in 1..k-1 : j + 1 \in 1..(k + 1) - 1 /\ a_fs'[j] = a_fs[j + 1]
      <4>1. \A j \in 1..k-1 : j \in DOMAIN a_fs'
        BY <1>7, <3>1, LenProperties
      <4>2. \A j \in 1..k-1 : a_fs'[j] = a_fs[j + 1]
        BY <1>7, <4>1
      <4>3. \A j \in 1..k-1 : j + 1 \in 1..(k + 1) - 1
        BY <3>1
      <4> QED
        BY <4>2, <4>3
    <3>4. \A j \in 1..k-1 : a_fs'[j].op = "LIBERAR" => a_fs'[k].pos \notin a_fs'[j].bloques
      BY <3>1, <3>2, <3>3
    <3>5. bitmapSWAP'[a_fs'[k].pos]
      BY <1>9, <3>1, <3>2
    <3> QED
      BY <3>1, <3>2, <3>4, <3>5
  <2> QED
    BY <2>3, <2>6, <2>7 DEF Swap
<1> QED
  BY <1>10, <1>11, <1>14, <1>15, <1>16, <1>17, <1>18 DEF Inv

-------------------------------------------------------------------------------
(* A page on its way is that of the page fault in course.                   *)
LEMMA EnCaminoEsFallo ==
  ASSUME Inv, NEW p, NEW i, EnCamino(p, i)
  PROVE  /\ page_fault = p /\ cargada = NULL /\ p \in Procesos /\ i \in 1..Paginas[p]
         /\ p \in procesos =>
              /\ ~tabla_paginas[p][i].presente /\ tabla_paginas[p][i].nro_marco \in Marcos
              /\ marcos[tabla_paginas[p][i].nro_marco] = [libre |-> FALSE, info_new |-> <<p, i>>]
<1>1. /\ \A k \in DOMAIN a_fs : a_fs[k] \in MensajesAFs
      /\ \A k \in DOMAIN a_memoria : a_memoria[k] \in MensajesAMemoria
  BY ElementOfSeq, LenProperties DEF Inv, TypeOK
<1>2. PICK m \in ToSet(a_fs) \cup ToSet(a_memoria) :
        m.op \in {"LECTURA", "PAGINA"} /\ m.proceso = p /\ m.pagina = i
  BY DEF EnCamino
<1>3. CASE m \in ToSet(a_fs)
  <2>1. PICK k \in DOMAIN a_fs : a_fs[k] = m
    BY <1>3 DEF ToSet
  <2>2. m.op = "LECTURA" /\ p \in Procesos
    BY <1>1, <1>2, <2>1, MensajesDeFs
  <2>3. EnVuelo(m)
    BY <2>1, <2>2 DEF Inv, UnFallo
  <2> QED
    BY <1>2, <2>2, <2>3 DEF EnVuelo
<1>4. CASE m \in ToSet(a_memoria)
  <2>1. PICK k \in DOMAIN a_memoria : a_memoria[k] = m
    BY <1>4 DEF ToSet
  <2>2. m.op = "PAGINA" /\ p \in Procesos
    BY <1>1, <1>2, <2>1, MensajesDeFs
  <2>3. EnVuelo(m)
    BY <2>1, <2>2 DEF Inv, UnFallo
  <2> QED
    BY <1>2, <2>2, <2>3 DEF EnVuelo
<1> QED
  BY <1>3, <1>4

(* A new message leaves the others where they were.                         *)
LEMMA UltimoMensaje ==
  ASSUME Inv, NEW m \in MensajesAFs, a_fs' = Append(a_fs, m)
  PROVE  /\ a_fs' \in Seq(MensajesAFs)
         /\ \A k \in DOMAIN a_fs : k \in DOMAIN a_fs' /\ a_fs'[k] = a_fs[k]
         /\ \A k \in DOMAIN a_fs' : \/ k \in DOMAIN a_fs /\ a_fs'[k] = a_fs[k]
                                    \/ k = Len(a_fs) + 1 /\ a_fs'[k] = m
         /\ Len(a_fs) + 1 \in DOMAIN a_fs' /\ a_fs'[Len(a_fs) + 1] = m
         /\ DOMAIN a_fs = 1..Len(a_fs) /\ Len(a_fs) \in Nat
         /\ ToSet(a_fs) \subseteq ToSet(a_fs')
<1>1. a_fs \in Seq(MensajesAFs)
  BY DEF Inv, TypeOK
<1>2. \A k \in DOMAIN a_fs : k \in DOMAIN a_fs' /\ a_fs'[k] = a_fs[k]
  BY <1>1, MensajeNuevo
<1>3. ToSet(a_fs) \subseteq ToSet(a_fs')
  BY <1>2 DEF ToSet
<1> QED
  BY <1>1, <1>3, MensajeNuevo

(* What is asked to be read stays before any order to free that comes.      *)
LEMMA LecturasQuedan ==
  ASSUME Inv, NEW m \in MensajesAFs, a_fs' = Append(a_fs, m), UNCHANGED bitmapSWAP,
         m.op = "LECTURA" =>
           /\ m.pos \in Bloques /\ bitmapSWAP[m.pos]
           /\ \A j \in DOMAIN a_fs : a_fs[j].op = "LIBERAR" => m.pos \notin a_fs[j].bloques
  PROVE  LecturaAntesDeLiberar'
<1>1. /\ \A k \in DOMAIN a_fs : a_fs'[k] = a_fs[k]
      /\ \A k \in DOMAIN a_fs' : \/ k \in DOMAIN a_fs /\ a_fs'[k] = a_fs[k]
                                 \/ k = Len(a_fs) + 1 /\ a_fs'[k] = m
      /\ DOMAIN a_fs = 1..Len(a_fs) /\ Len(a_fs) \in Nat
  BY UltimoMensaje
<1> SUFFICES ASSUME NEW k \in DOMAIN a_fs', a_fs'[k].op = "LECTURA"
             PROVE  /\ a_fs'[k].pos \in Bloques /\ bitmapSWAP'[a_fs'[k].pos]
                    /\ \A j \in 1..k-1 : a_fs'[j].op = "LIBERAR" => a_fs'[k].pos \notin a_fs'[j].bloques
  BY DEF LecturaAntesDeLiberar
<1>2. CASE k \in DOMAIN a_fs /\ a_fs'[k] = a_fs[k]
  <2>1. \A j \in 1..k-1 : j \in DOMAIN a_fs
    BY <1>1, <1>2
  <2>2. \A j \in 1..k-1 : a_fs'[j] = a_fs[j]
    BY <1>1, <2>1
  <2> QED
    BY <1>2, <2>2 DEF Inv, Swap, LecturaAntesDeLiberar
<1>3. CASE k = Len(a_fs) + 1 /\ a_fs'[k] = m
  <2>1. \A j \in 1..k-1 : j \in DOMAIN a_fs
    BY <1>1, <1>3
  <2>2. \A j \in 1..k-1 : a_fs'[j] = a_fs[j]
    BY <1>1, <2>1
  <2> QED
    BY <1>3, <2>1, <2>2
<1> QED
  BY <1>1, <1>2, <1>3

LEMMA PasoCopiarMarco ==
  ASSUME Inv, NEW e \in escrituras, CopiarMarco(e)
  PROVE  Inv'
<1>1. CASE Caer
  BY <1>1, PasoCaer
<1>2. CASE ~Caer
  <2>1. /\ a_fs' = Append(a_fs, MarcoAFs(e.proceso)) /\ escrituras' = escrituras \ {e}
        /\ UNCHANGED <<ALGORITMO_REEMPLAZO, procesos, tabla_paginas, marcos, orden, espacio_usuario,
                       sem_control_swap_asign, creando, cargada, a_memoria, bitmapSWAP, bloques,
                       estado, fallos, page_fault, traduccion, memoria>>
    BY <1>2 DEF CopiarMarco, tablas, hilos, pedidos
  <2>2. PICK m \in MensajesAFs : m = MarcoAFs(e.proceso) /\ m.op = "BLOQUE"
    <3>1. e.proceso \in Procesos
      BY DEF Inv, TypeOK
    <3>2. MarcoAFs(e.proceso) = [op |-> "BLOQUE", proceso |-> e.proceso]
      BY DEF MarcoAFs
    <3> QED
      BY <3>1, <3>2 DEF MensajesAFs
  <2>3. /\ a_fs' \in Seq(MensajesAFs)
        /\ \A k \in DOMAIN a_fs : k \in DOMAIN a_fs' /\ a_fs'[k] = a_fs[k]
        /\ \A k \in DOMAIN a_fs' : \/ k \in DOMAIN a_fs /\ a_fs'[k] = a_fs[k]
                                   \/ k = Len(a_fs) + 1 /\ a_fs'[k] = m
        /\ ToSet(a_fs) \subseteq ToSet(a_fs')
    BY <2>1, <2>2, UltimoMensaje
  <2>4. \A k \in DOMAIN a_fs' : a_fs'[k].op # "BLOQUE" => k \in DOMAIN a_fs /\ a_fs'[k] = a_fs[k]
    BY <2>2, <2>3
  <2>5. TypeOK'
    BY <2>1, <2>3 DEF Inv, TypeOK
  <2>6. Tablas'
    <3>1. Creados'
      BY <2>1 DEF Inv, Tablas, Creados
    <3>2. NuncaModificada'
      BY <2>1 DEF Inv, Tablas, NuncaModificada
    <3> QED
      BY <3>1, <3>2 DEF Tablas
  <2>7. UnaCreacion'
    BY <2>1, <2>4 DEF Inv, UnaCreacion
  <2>8. UnFallo'
    <3>1. ASSUME NEW k \in DOMAIN a_fs', a_fs'[k].op = "LECTURA"
          PROVE  /\ EnVuelo(a_fs[k])'
                 /\ \A j \in DOMAIN a_fs' : a_fs'[j].op = "LECTURA" => j = k
                 /\ \A j \in DOMAIN a_memoria' : a_memoria'[j].op # "PAGINA"
      BY <2>1, <2>4, <3>1 DEF Inv, UnFallo, EnVuelo
    <3>2. ASSUME NEW k \in DOMAIN a_memoria', a_memoria'[k].op = "PAGINA"
          PROVE  /\ EnVuelo(a_memoria[k])'
                 /\ \A j \in DOMAIN a_memoria' : a_memoria'[j].op = "PAGINA" => j = k
      BY <2>1, <3>2 DEF Inv, UnFallo, EnVuelo
    <3> QED
      BY <2>1, <3>1, <3>2 DEF Inv, UnFallo
  <2>9. EsperaPagina'
    BY <2>1 DEF Inv, EsperaPagina
  <2>10. Marco'
    <3>1. \A p \in Procesos, i \in Nat : EnCamino(p, i) => EnCamino(p, i)'
      BY <2>1, <2>3 DEF EnCamino
    <3> QED
      BY <2>1, <3>1, MarcosQuedan DEF Inv
  <2>11. Swap'
    <3>1. MismasPosiciones
      BY <2>1 DEF MismasPosiciones, SinSwap
    <3>2. PosicionesPropias' /\ \A b : Ajeno(b)' <=> Ajeno(b)
      BY <2>1, <3>1, PosicionesQuedan DEF Inv, Swap
    <3>3. BloquesEnCamino'
      BY <2>1, <2>4, <3>2 DEF Inv, Swap, BloquesEnCamino
    <3>4. LecturaAntesDeLiberar'
      BY <2>1, <2>2, LecturasQuedan
    <3> QED
      BY <3>2, <3>3, <3>4 DEF Swap
  <2> QED
    BY <2>5, <2>6, <2>7, <2>8, <2>9, <2>10, <2>11 DEF Inv
<1> QED
  BY <1>1, <1>2

(* iniciar_estructura_proceso: an empty table, and a request of blocks.     *)
LEMMA PasoIniciar ==
  ASSUME Inv, NEW p \in Procesos, IniciarEstructura(p)
  PROVE  Inv'
<1>1. /\ creando = NULL /\ estado[p] = "NEW"
      /\ procesos' = procesos \cup {p}
      /\ tabla_paginas' = [tabla_paginas EXCEPT ![p] = TablaNueva(p)]
      /\ a_fs' = Append(a_fs, PeticionDeBloques(p)) /\ creando' = p
      /\ UNCHANGED <<ALGORITMO_REEMPLAZO, marcos, orden, espacio_usuario, sem_control_swap_asign,
                     cargada, a_memoria, bitmapSWAP, bloques, escrituras, estado, fallos,
                     page_fault, traduccion, memoria>>
  BY DEF IniciarEstructura, HiloKernel, filesystem, pedidos
<1>2. p \notin procesos /\ p # NULL
  BY <1>1, ConstantesMemoria DEF Inv, Tablas, Creados
<1>3. /\ TablaNueva(p) \in Seq(Pagina) /\ Len(TablaNueva(p)) = Paginas[p]
      /\ \A i \in DOMAIN TablaNueva(p) : TablaNueva(p)[i] = PaginaNueva
  <2>1. PaginaNueva \in Pagina
    BY DEF PaginaNueva, Pagina
  <2>2. TablaNueva(p) = [i \in 1..Paginas[p] |-> PaginaNueva] /\ Paginas[p] \in Nat
    BY ConstantesMemoria DEF TablaNueva
  <2>3. TablaNueva(p) \in Seq(Pagina)
    <3> HIDE DEF PaginaNueva, Pagina
    <3> QED
      BY <2>1, <2>2, IsASeq
  <2>4. DOMAIN TablaNueva(p) = 1..Paginas[p]
    BY <2>2
  <2>5. Len(TablaNueva(p)) = Paginas[p]
    BY <2>2, <2>3, <2>4, LenProperties
  <2> QED
    BY <2>2, <2>3, <2>5
<1>4. /\ tabla_paginas' \in [Procesos -> Seq(Pagina)] /\ tabla_paginas'[p] = TablaNueva(p)
      /\ \A q \in Procesos \ {p} : tabla_paginas'[q] = tabla_paginas[q]
  BY <1>1, <1>3 DEF Inv, TypeOK
<1>5. \A i \in DOMAIN tabla_paginas'[p] :
        /\ ~tabla_paginas'[p][i].presente /\ ~tabla_paginas'[p][i].modificado
        /\ tabla_paginas'[p][i].pos_en_swap = NULL
  BY <1>3, <1>4 DEF PaginaNueva
<1>6. PICK m \in MensajesAFs : m = PeticionDeBloques(p) /\ m.op = "ASIGNAR" /\ m.proceso = p
  <2>1. Paginas[p] \in Nat
    BY ConstantesMemoria
  <2>2. PeticionDeBloques(p) = [op |-> "ASIGNAR", proceso |-> p, cant |-> Paginas[p]]
    BY DEF PeticionDeBloques
  <2> QED
    BY <2>1, <2>2 DEF MensajesAFs
<1>7. /\ a_fs' \in Seq(MensajesAFs)
      /\ \A k \in DOMAIN a_fs : k \in DOMAIN a_fs' /\ a_fs'[k] = a_fs[k]
      /\ \A k \in DOMAIN a_fs' : \/ k \in DOMAIN a_fs /\ a_fs'[k] = a_fs[k]
                                 \/ k = Len(a_fs) + 1 /\ a_fs'[k] = m
      /\ ToSet(a_fs) \subseteq ToSet(a_fs')
  BY <1>1, <1>6, UltimoMensaje
<1>8. \A k \in DOMAIN a_fs' : a_fs'[k].op # "ASIGNAR" => k \in DOMAIN a_fs /\ a_fs'[k] = a_fs[k]
  BY <1>6, <1>7
<1>9. procesos \subseteq Procesos
  BY DEF Inv, TypeOK
<1>10. TypeOK'
  BY <1>1, <1>4, <1>7, <1>9 DEF Inv, TypeOK
<1>11. Tablas'
  <2>1. Creados'
    <3>1. \A q \in Procesos \ {p} : creando # q
      BY <1>1, ConstantesMemoria
    <3> QED
      BY <1>1, <1>2, <1>3, <1>4, <3>1 DEF Inv, Tablas, Creados
  <2>2. NuncaModificada'
    BY <1>4, <1>5 DEF Inv, Tablas, NuncaModificada
  <2> QED
    BY <2>1, <2>2 DEF Tablas
<1>12. /\ \A k \in DOMAIN a_fs : a_fs[k].op # "ASIGNAR"
       /\ \A k \in DOMAIN a_memoria : a_memoria[k].op # "ASIGNADAS"
       /\ sem_control_swap_asign = 0
  <2>1. \A k \in DOMAIN a_fs : a_fs[k].op = "ASIGNAR" => a_fs[k].proceso \in Procesos
    <3>1. \A k \in DOMAIN a_fs : a_fs[k] \in MensajesAFs
      BY ElementOfSeq, LenProperties DEF Inv, TypeOK
    <3> QED
      BY <3>1, MensajesDeFs
  <2>2. \A k \in DOMAIN a_memoria : a_memoria[k].proceso \in Procesos
    <3>1. \A k \in DOMAIN a_memoria : a_memoria[k] \in MensajesAMemoria
      BY ElementOfSeq, LenProperties DEF Inv, TypeOK
    <3> QED
      BY <3>1, MensajesDeFs
  <2>3. sem_control_swap_asign \in 0..1
    BY DEF Inv, TypeOK
  <2> QED
    BY <1>1, <2>1, <2>2, <2>3, ConstantesMemoria DEF Inv, UnaCreacion
<1>13. UnaCreacion'
  <2>1. \A k \in DOMAIN a_fs' : a_fs'[k].op = "ASIGNAR" => k = Len(a_fs) + 1 /\ a_fs'[k] = m
    BY <1>7, <1>12
  <2> QED
    BY <1>1, <1>6, <1>12, <2>1 DEF UnaCreacion
<1>14. page_fault # p
  BY <1>1, <1>2 DEF Inv, EsperaPagina
<1>15. UnFallo'
  <2>1. ASSUME NEW k \in DOMAIN a_fs', a_fs'[k].op = "LECTURA"
        PROVE  /\ EnVuelo(a_fs[k])'
               /\ \A j \in DOMAIN a_fs' : a_fs'[j].op = "LECTURA" => j = k
               /\ \A j \in DOMAIN a_memoria' : a_memoria'[j].op # "PAGINA"
    <3>1. k \in DOMAIN a_fs /\ a_fs'[k] = a_fs[k]
      BY <1>8, <2>1
    <3>2. EnVuelo(a_fs[k])
      BY <2>1, <3>1 DEF Inv, UnFallo
    <3>3. EnVuelo(a_fs[k])'
      BY <1>1, <1>4, <1>9, <1>14, <3>1, <3>2 DEF EnVuelo
    <3> QED
      BY <1>1, <1>8, <2>1, <3>1, <3>3 DEF Inv, UnFallo
  <2>2. ASSUME NEW k \in DOMAIN a_memoria', a_memoria'[k].op = "PAGINA"
        PROVE  /\ EnVuelo(a_memoria[k])'
               /\ \A j \in DOMAIN a_memoria' : a_memoria'[j].op = "PAGINA" => j = k
    <3>1. EnVuelo(a_memoria[k])
      BY <1>1, <2>2 DEF Inv, UnFallo
    <3>2. EnVuelo(a_memoria[k])'
      BY <1>1, <1>4, <1>9, <1>14, <3>1 DEF EnVuelo
    <3> QED
      BY <1>1, <2>2, <3>2 DEF Inv, UnFallo
  <2> QED
    BY <1>1, <2>1, <2>2 DEF Inv, UnFallo
<1>16. EsperaPagina'
  <2>1. fallos[p] = NULL
    BY <1>1 DEF Inv, EsperaPagina
  <2> QED
    BY <1>1, <1>4, <2>1 DEF Inv, EsperaPagina
<1>17. Marco'
  <2>1. ASSUME NEW f \in Marcos, ~marcos[f].libre
        PROVE  marcos[f].info_new[1] # p
    <3>1. CASE marcos[f].info_new[1] \in procesos
      BY <1>2, <3>1
    <3>2. CASE marcos[f].info_new[1] \notin procesos
      <4>1. EnCamino(marcos[f].info_new[1], marcos[f].info_new[2])
        BY <2>1, <3>2 DEF Inv, Marco, SinMarcosPerdidos
      <4> QED
        BY <1>14, <4>1, EnCaminoEsFallo
    <3> QED
      BY <3>1, <3>2
  <2>2. MarcosExclusivos'
    BY <1>1, <1>4, <1>5, <1>9 DEF Inv, Marco, MarcosExclusivos
  <2>3. Ocupados'
    BY <1>1, <1>4, <1>5, <1>9, <2>1 DEF Inv, Marco, Ocupados
  <2>4. SinMarcosPerdidos'
    <3>1. \A q, i : EnCamino(q, i) => EnCamino(q, i)'
      BY <1>1, <1>7 DEF EnCamino
    <3>2. ASSUME NEW f \in Marcos, ~marcos[f].libre,
                 NEW q, q = marcos[f].info_new[1], NEW i, i = marcos[f].info_new[2]
          PROVE  \/ /\ q \in procesos' /\ tabla_paginas'[q][i].presente
                    /\ tabla_paginas'[q][i].nro_marco = f
                 \/ EnCamino(q, i)'
      <4>1. \/ q \in procesos /\ tabla_paginas[q][i].presente /\ tabla_paginas[q][i].nro_marco = f
            \/ EnCamino(q, i)
        BY <3>2 DEF Inv, Marco, SinMarcosPerdidos
      <4>2. CASE EnCamino(q, i)
        <5>1. EnCamino(q, i)'
          BY <3>1, <4>2
        <5> QED
          BY <5>1
      <4>3. CASE q \in procesos /\ tabla_paginas[q][i].presente /\ tabla_paginas[q][i].nro_marco = f
        <5>1. q \in procesos' /\ tabla_paginas'[q] = tabla_paginas[q]
          BY <1>1, <1>2, <1>4, <1>9, <4>3
        <5> QED
          BY <4>3, <5>1
      <4> QED
        BY <4>1, <4>2, <4>3
    <3>3. ASSUME NEW f \in Marcos, ~marcos[f].libre
          PROVE  \/ /\ marcos[f].info_new[1] \in procesos'
                    /\ tabla_paginas'[marcos[f].info_new[1]][marcos[f].info_new[2]].presente
                    /\ tabla_paginas'[marcos[f].info_new[1]][marcos[f].info_new[2]].nro_marco = f
                 \/ \E n \in ToSet(a_fs') \cup ToSet(a_memoria') :
                      /\ n.op \in {"LECTURA", "PAGINA"} /\ n.proceso = marcos[f].info_new[1]
                      /\ n.pagina = marcos[f].info_new[2]
      BY <3>2, <3>3 DEF EnCamino
    <3>4. marcos' = marcos
      BY <1>1
    <3> QED
      BY <3>3, <3>4 DEF SinMarcosPerdidos, EnCamino
  <2> QED
    BY <2>2, <2>3, <2>4 DEF Marco
<1>18. Swap'
  <2>1. \A b : b # NULL => (Ajeno(b)' <=> Ajeno(b))
    BY <1>1, <1>2, <1>4, <1>5, <1>9 DEF Ajeno
  <2>2. PosicionesPropias'
    <3>1. SinSwap(p)' /\ \A q \in procesos : ~SinSwap(q) /\ ~SinSwap(q)'
      BY <1>1, <1>2, <1>9, <1>12, ConstantesMemoria DEF SinSwap
    <3>2. \A q \in procesos : tabla_paginas'[q] = tabla_paginas[q]
      BY <1>2, <1>4, <1>9
    <3> SUFFICES ASSUME NEW q \in procesos', NEW i \in DOMAIN tabla_paginas'[q]
                 PROVE  /\ tabla_paginas'[q][i].pos_en_swap = NULL <=> SinSwap(q)'
                        /\ tabla_paginas'[q][i].pos_en_swap # NULL =>
                             /\ bitmapSWAP'[tabla_paginas'[q][i].pos_en_swap]
                             /\ \A r \in procesos' : \A j \in DOMAIN tabla_paginas'[r] :
                                  tabla_paginas'[r][j].pos_en_swap = tabla_paginas'[q][i].pos_en_swap
                                  => r = q /\ j = i
      BY DEF PosicionesPropias
    <3>3. CASE q = p
      BY <1>5, <3>1, <3>3
    <3>4. CASE q # p
      <4>1. q \in procesos /\ tabla_paginas'[q] = tabla_paginas[q] /\ i \in DOMAIN tabla_paginas[q]
        BY <1>1, <3>2, <3>4
      <4>2. /\ tabla_paginas[q][i].pos_en_swap # NULL
            /\ bitmapSWAP[tabla_paginas[q][i].pos_en_swap]
            /\ \A r \in procesos : \A j \in DOMAIN tabla_paginas[r] :
                 tabla_paginas[r][j].pos_en_swap = tabla_paginas[q][i].pos_en_swap => r = q /\ j = i
        BY <3>1, <4>1 DEF Inv, Swap, PosicionesPropias
      <4>3. \A r \in procesos' : \A j \in DOMAIN tabla_paginas'[r] :
              tabla_paginas'[r][j].pos_en_swap = tabla_paginas[q][i].pos_en_swap => r = q /\ j = i
        BY <1>1, <1>5, <3>2, <4>2
      <4> QED
        BY <1>1, <3>1, <4>1, <4>2, <4>3
    <3> QED
      BY <3>3, <3>4
  <2>3. \A k \in DOMAIN a_fs : a_fs[k].op = "LIBERAR" => \A b \in a_fs[k].bloques : b # NULL
    <3>1. \A k \in DOMAIN a_fs : a_fs[k] \in MensajesAFs
      BY ElementOfSeq, LenProperties DEF Inv, TypeOK
    <3> QED
      BY <3>1, MensajesDeFs, ConstantesMemoria DEF Bloques
  <2>4. BloquesEnCamino'
    <3>1. ASSUME NEW k \in DOMAIN a_fs', a_fs'[k].op = "LIBERAR", NEW b \in a_fs'[k].bloques
          PROVE  /\ bitmapSWAP'[b] /\ Ajeno(b)'
                 /\ \A j \in DOMAIN a_fs' : a_fs'[j].op = "LIBERAR" /\ b \in a_fs'[j].bloques => j = k
      BY <1>1, <1>8, <2>1, <2>3, <3>1 DEF Inv, Swap, BloquesEnCamino
    <3> QED
      BY <1>1, <1>12, <3>1 DEF BloquesEnCamino
  <2>5. LecturaAntesDeLiberar'
    BY <1>1, <1>6, LecturasQuedan
  <2> QED
    BY <2>2, <2>4, <2>5 DEF Swap
<1> QED
  BY <1>10, <1>11, <1>13, <1>15, <1>16, <1>17, <1>18 DEF Inv

(* What SinMarcosPerdidos says of the frame f, with the page i of q in it.  *)
EnSuMarco(f, q, i) ==
  \/ q \in procesos /\ tabla_paginas[q][i].presente /\ tabla_paginas[q][i].nro_marco = f
  \/ EnCamino(q, i)

LEMMA MarcoPorMarco ==
  ASSUME \A f \in Marcos : ~marcos'[f].libre =>
           \E q, i : q = marcos'[f].info_new[1] /\ i = marcos'[f].info_new[2] /\ EnSuMarco(f, q, i)'
  PROVE  SinMarcosPerdidos'
<1>1. ASSUME NEW f \in Marcos, ~marcos'[f].libre
      PROVE  \/ /\ marcos'[f].info_new[1] \in procesos'
                /\ tabla_paginas'[marcos'[f].info_new[1]][marcos'[f].info_new[2]].presente
                /\ tabla_paginas'[marcos'[f].info_new[1]][marcos'[f].info_new[2]].nro_marco = f
             \/ \E n \in ToSet(a_fs') \cup ToSet(a_memoria') :
                  /\ n.op \in {"LECTURA", "PAGINA"} /\ n.proceso = marcos'[f].info_new[1]
                  /\ n.pagina = marcos'[f].info_new[2]
  <2>1. PICK q, i : q = marcos'[f].info_new[1] /\ i = marcos'[f].info_new[2] /\ EnSuMarco(f, q, i)'
    BY <1>1
  <2> QED
    BY <2>1 DEF EnSuMarco, EnCamino
<1> QED
  BY <1>1 DEF SinMarcosPerdidos, EnCamino

(* The page that a used frame is for.                                       *)
LEMMA PaginaDelMarco ==
  ASSUME Inv, NEW f \in Marcos, ~marcos[f].libre
  PROVE  \E q \in Procesos : \E i \in 1..Paginas[q] :
           /\ marcos[f].info_new = <<q, i>> /\ f \in ToSet(orden)
           /\ q \in procesos => tabla_paginas[q][i].nro_marco = f
           /\ EnSuMarco(f, q, i)
<1>1. marcos[f].info_new \in PaginasDeTodos
  BY DEF Inv, Marco, Ocupados
<1>2. PICK q \in Procesos : marcos[f].info_new \in {q} \X (1..Paginas[q])
  BY <1>1 DEF PaginasDeTodos
<1>3. PICK i \in 1..Paginas[q] : marcos[f].info_new = <<q, i>>
  BY <1>2
<1>4. marcos[f].info_new[1] = q /\ marcos[f].info_new[2] = i
  BY <1>3
<1>5. f \in ToSet(orden) /\ (q \in procesos => tabla_paginas[q][i].nro_marco = f)
  BY <1>4 DEF Inv, Marco, Ocupados
<1>6. EnSuMarco(f, q, i)
  BY <1>4 DEF Inv, Marco, SinMarcosPerdidos, EnSuMarco
<1> QED
  BY <1>3, <1>5, <1>6

(* A process that exists has an entry of its table for each of its pages.   *)
LEMMA TablaDe ==
  ASSUME Inv, NEW p \in procesos
  PROVE  /\ p \in Procesos /\ p # NULL
         /\ tabla_paginas[p] \in Seq(Pagina) /\ DOMAIN tabla_paginas[p] = 1..Paginas[p]
         /\ Len(tabla_paginas[p]) = Paginas[p] /\ Paginas[p] \in Nat
         /\ \A i \in 1..Paginas[p] : tabla_paginas[p][i] \in Pagina
<1>1. p \in Procesos /\ tabla_paginas[p] \in Seq(Pagina) /\ Len(tabla_paginas[p]) = Paginas[p]
  BY DEF Inv, TypeOK, Tablas, Creados
<1>2. DOMAIN tabla_paginas[p] = 1..Paginas[p] /\ \A i \in 1..Paginas[p] : tabla_paginas[p][i] \in Pagina
  BY <1>1, LenProperties, ElementOfSeq
<1> QED
  BY <1>1, <1>2, ConstantesMemoria

(* liberar_estructura_proceso: its frames and the order to free its swap.   *)
LEMMA PasoLiberar ==
  ASSUME Inv, NEW p \in Procesos, LiberarEstructura(p)
  PROVE  Inv'
<1>0. PICK M : M = MarcosDe(p)
  OBVIOUS
<1>1. /\ creando = NULL /\ estado[p] = "EXIT" /\ p \in procesos /\ procesos' = procesos \ {p}
      /\ a_fs' = Append(a_fs, OrdenDeLiberacion(p))
      /\ marcos' = [f \in Marcos |-> IF f \in M THEN MarcoLibre ELSE marcos[f]]
      /\ orden' = Sin(orden, M)
      /\ tabla_paginas' = [tabla_paginas EXCEPT ![p] = <<>>]
      /\ UNCHANGED <<ALGORITMO_REEMPLAZO, espacio_usuario, sem_control_swap_asign, creando, cargada,
                     a_memoria, bitmapSWAP, bloques, escrituras, estado, fallos, page_fault,
                     traduccion, memoria>>
  BY <1>0 DEF LiberarEstructura, EliminarProceso, HiloKernel, hilos, filesystem, pedidos
<1>2. p # NULL /\ DOMAIN tabla_paginas[p] = 1..Paginas[p]
      /\ \A i \in 1..Paginas[p] : tabla_paginas[p][i] \in Pagina
  BY <1>1, TablaDe
<1>3. \A i \in DOMAIN tabla_paginas[p] : /\ tabla_paginas[p][i].pos_en_swap \in Bloques
                                         /\ bitmapSWAP[tabla_paginas[p][i].pos_en_swap]
  <2>1. ~SinSwap(p)
    BY <1>1, <1>2 DEF SinSwap
  <2>2. \A i \in DOMAIN tabla_paginas[p] : tabla_paginas[p][i].pos_en_swap # NULL
                                           /\ bitmapSWAP[tabla_paginas[p][i].pos_en_swap]
    BY <1>1, <2>1 DEF Inv, Swap, PosicionesPropias
  <2> QED
    BY <1>2, <2>2 DEF Pagina
<1>4. PICK m \in MensajesAFs :
        /\ m = OrdenDeLiberacion(p) /\ m.op = "LIBERAR"
        /\ m.bloques = {tabla_paginas[p][i].pos_en_swap : i \in DOMAIN tabla_paginas[p]}
  <2>1. PICK B : B = {tabla_paginas[p][i].pos_en_swap : i \in DOMAIN tabla_paginas[p]}
    OBVIOUS
  <2>2. B \in SUBSET Bloques
    BY <1>3, <2>1
  <2>3. OrdenDeLiberacion(p) = [op |-> "LIBERAR", bloques |-> B]
    BY <2>1 DEF OrdenDeLiberacion
  <2>4. OrdenDeLiberacion(p) \in MensajesAFs
    BY <2>2, <2>3 DEF MensajesAFs
  <2> QED
    BY <2>1, <2>3, <2>4
<1>5. /\ tabla_paginas' \in [Procesos -> Seq(Pagina)] /\ tabla_paginas'[p] = <<>>
      /\ \A q \in Procesos \ {p} : tabla_paginas'[q] = tabla_paginas[q]
      /\ DOMAIN tabla_paginas'[p] = {} /\ Len(tabla_paginas'[p]) = 0
  <2>1. tabla_paginas \in [Procesos -> Seq(Pagina)] /\ <<>> \in Seq(Pagina)
    BY EmptySeq DEF Inv, TypeOK
  <2>2. /\ tabla_paginas' \in [Procesos -> Seq(Pagina)] /\ tabla_paginas'[p] = <<>>
        /\ \A q \in Procesos \ {p} : tabla_paginas'[q] = tabla_paginas[q]
    BY <1>1, <2>1
  <2> QED
    BY <2>2
<1>6. /\ \A f \in M : f \in Marcos /\ \E i \in DOMAIN tabla_paginas[p] :
           marcos[f] = [libre |-> FALSE, info_new |-> <<p, i>>]
      /\ \A i \in DOMAIN tabla_paginas[p] : tabla_paginas[p][i].presente => tabla_paginas[p][i].nro_marco \in M
  <2>1. \A i \in DOMAIN tabla_paginas[p] : tabla_paginas[p][i].presente => tabla_paginas[p][i].nro_marco \in M
    BY <1>0 DEF MarcosDe
  <2>2. ASSUME NEW f \in M
        PROVE  f \in Marcos /\ \E i \in DOMAIN tabla_paginas[p] :
                 marcos[f] = [libre |-> FALSE, info_new |-> <<p, i>>]
    <3>1. PICK i \in DOMAIN tabla_paginas[p] : tabla_paginas[p][i].presente /\ tabla_paginas[p][i].nro_marco = f
      BY <1>0 DEF MarcosDe
    <3> QED
      BY <1>1, <3>1 DEF Inv, Marco, Ocupados, MarcosExclusivos
  <2> QED
    BY <2>1, <2>2
<1>7. /\ marcos' \in [Marcos -> [libre : BOOLEAN, info_new : Contenidos]]
      /\ \A f \in Marcos : f \notin M => marcos'[f] = marcos[f]
      /\ \A f \in Marcos : ~marcos'[f].libre => f \notin M
  <2>1. MarcoLibre \in [libre : BOOLEAN, info_new : Contenidos] /\ MarcoLibre.libre
    BY DEF MarcoLibre, Contenidos, Vacio
  <2>2. marcos \in [Marcos -> [libre : BOOLEAN, info_new : Contenidos]]
    BY DEF Inv, TypeOK
  <2> HIDE DEF MarcoLibre
  <2> QED
    BY <1>1, <2>1, <2>2
<1>8. orden' \in Seq(Marcos) /\ ToSet(orden) \ M \subseteq ToSet(orden')
  BY <1>1, QuedanLosOtros DEF Inv, TypeOK
<1>9. /\ a_fs' \in Seq(MensajesAFs)
      /\ \A k \in DOMAIN a_fs : k \in DOMAIN a_fs' /\ a_fs'[k] = a_fs[k]
      /\ \A k \in DOMAIN a_fs' : \/ k \in DOMAIN a_fs /\ a_fs'[k] = a_fs[k]
                                 \/ k = Len(a_fs) + 1 /\ a_fs'[k] = m
      /\ ToSet(a_fs) \subseteq ToSet(a_fs')
  BY <1>1, <1>4, UltimoMensaje
<1>10. \A k \in DOMAIN a_fs' : a_fs'[k].op # "LIBERAR" => k \in DOMAIN a_fs /\ a_fs'[k] = a_fs[k]
  BY <1>4, <1>9
<1>11. procesos \subseteq Procesos
  BY DEF Inv, TypeOK
<1>12. TypeOK'
  BY <1>1, <1>5, <1>7, <1>8, <1>9, <1>11 DEF Inv, TypeOK
<1>13. Tablas'
  <2>1. Creados'
    BY <1>1, <1>5 DEF Inv, Tablas, Creados
  <2>2. NuncaModificada'
    BY <1>5 DEF Inv, Tablas, NuncaModificada
  <2> QED
    BY <2>1, <2>2 DEF Tablas
<1>14. UnaCreacion'
  BY <1>1, <1>10 DEF Inv, UnaCreacion
<1>15. \A f \in Marcos : \A q \in Procesos \ {p} : \A i :
         marcos[f] = [libre |-> FALSE, info_new |-> <<q, i>>] => f \notin M /\ marcos'[f] = marcos[f]
  <2>1. ASSUME NEW f \in Marcos, NEW q \in Procesos \ {p}, NEW i,
               marcos[f] = [libre |-> FALSE, info_new |-> <<q, i>>], f \in M PROVE FALSE
    <3>1. PICK j : marcos[f] = [libre |-> FALSE, info_new |-> <<p, j>>]
      BY <1>6, <2>1
    <3>2. <<p, j>> = <<q, i>>
      BY <2>1, <3>1
    <3> QED
      BY <3>2
  <2> QED
    BY <1>7, <2>1
<1>16. UnFallo'
  <2>1. ASSUME NEW n, EnVuelo(n), n.proceso \in Procesos PROVE EnVuelo(n)'
    <3>1. CASE n.proceso = p
      BY <1>1, <2>1, <3>1 DEF EnVuelo
    <3>2. CASE n.proceso # p
      BY <1>1, <1>5, <1>15, <2>1, <3>2 DEF EnVuelo
    <3> QED
      BY <3>1, <3>2
  <2>2. /\ \A k \in DOMAIN a_fs : a_fs[k].op = "LECTURA" => a_fs[k].proceso \in Procesos
        /\ \A k \in DOMAIN a_memoria : a_memoria[k].proceso \in Procesos
    <3>1. /\ \A k \in DOMAIN a_fs : a_fs[k] \in MensajesAFs
          /\ \A k \in DOMAIN a_memoria : a_memoria[k] \in MensajesAMemoria
      BY ElementOfSeq, LenProperties DEF Inv, TypeOK
    <3> QED
      BY <3>1, MensajesDeFs
  <2>3. ASSUME NEW k \in DOMAIN a_fs', a_fs'[k].op = "LECTURA"
        PROVE  /\ EnVuelo(a_fs[k])'
               /\ \A j \in DOMAIN a_fs' : a_fs'[j].op = "LECTURA" => j = k
               /\ \A j \in DOMAIN a_memoria' : a_memoria'[j].op # "PAGINA"
    <3>1. k \in DOMAIN a_fs /\ a_fs'[k] = a_fs[k]
      BY <1>10, <2>3
    <3>2. PICK n : n = a_fs[k]
      OBVIOUS
    <3>3. EnVuelo(n) /\ n.proceso \in Procesos
      BY <2>2, <2>3, <3>1, <3>2 DEF Inv, UnFallo
    <3>4. EnVuelo(n)'
      BY <2>1, <3>3
    <3>5. EnVuelo(a_fs[k])'
      BY <3>1, <3>2, <3>4 DEF EnVuelo
    <3> QED
      BY <1>1, <1>10, <2>3, <3>1, <3>5 DEF Inv, UnFallo
  <2>4. ASSUME NEW k \in DOMAIN a_memoria', a_memoria'[k].op = "PAGINA"
        PROVE  /\ EnVuelo(a_memoria[k])'
               /\ \A j \in DOMAIN a_memoria' : a_memoria'[j].op = "PAGINA" => j = k
    <3>1. PICK n : n = a_memoria[k]
      OBVIOUS
    <3>2. EnVuelo(n) /\ n.proceso \in Procesos
      BY <1>1, <2>2, <2>4, <3>1 DEF Inv, UnFallo
    <3>3. EnVuelo(n)'
      BY <2>1, <3>2
    <3>4. EnVuelo(a_memoria[k])'
      BY <1>1, <3>1, <3>3 DEF EnVuelo
    <3> QED
      BY <1>1, <2>4, <3>4 DEF Inv, UnFallo
  <2> QED
    BY <1>1, <2>3, <2>4 DEF Inv, UnFallo
<1>17. EsperaPagina'
  BY <1>1, <1>5, <1>11 DEF Inv, EsperaPagina
<1>18. Marco'
  <2>1. MarcosExclusivos'
    <3>1. ASSUME NEW q \in procesos', NEW i \in DOMAIN tabla_paginas'[q], tabla_paginas'[q][i].presente
          PROVE  marcos'[tabla_paginas'[q][i].nro_marco] = [libre |-> FALSE, info_new |-> <<q, i>>]
      <4>1. q \in procesos /\ q \in Procesos \ {p} /\ tabla_paginas'[q] = tabla_paginas[q]
        BY <1>1, <1>5, <1>11
      <4>2. /\ tabla_paginas[q][i].nro_marco \in Marcos
            /\ marcos[tabla_paginas[q][i].nro_marco] = [libre |-> FALSE, info_new |-> <<q, i>>]
        BY <3>1, <4>1 DEF Inv, Marco, Ocupados, MarcosExclusivos
      <4> QED
        BY <1>15, <4>1, <4>2
    <3> QED
      BY <3>1 DEF MarcosExclusivos
  <2>2. Ocupados'
    <3>1. \A q \in procesos' : q \in procesos /\ tabla_paginas'[q] = tabla_paginas[q]
      BY <1>1, <1>5, <1>11
    <3>2. \A f \in Marcos : ~marcos'[f].libre =>
            marcos'[f] = marcos[f] /\ (f \in ToSet(orden) => f \in ToSet(orden'))
      BY <1>7, <1>8
    <3> QED
      BY <3>1, <3>2 DEF Inv, Marco, Ocupados
  <2>3. SinMarcosPerdidos'
    <3>1. ASSUME NEW f \in Marcos, ~marcos'[f].libre
          PROVE  \E q, i : q = marcos'[f].info_new[1] /\ i = marcos'[f].info_new[2] /\ EnSuMarco(f, q, i)'
      <4>1. marcos'[f] = marcos[f] /\ f \notin M
        BY <1>7, <3>1
      <4>2. PICK q \in Procesos : \E i \in 1..Paginas[q] :
              marcos[f].info_new = <<q, i>> /\ EnSuMarco(f, q, i)
        BY <3>1, <4>1, PaginaDelMarco
      <4>3. PICK i \in 1..Paginas[q] : marcos[f].info_new = <<q, i>> /\ EnSuMarco(f, q, i)
        BY <4>2
      <4>4. EnCamino(q, i) => EnCamino(q, i)'
        BY <1>1, <1>9 DEF EnCamino
      <4>5. EnSuMarco(f, q, i)'
        <5>1. CASE EnCamino(q, i)
          <6>1. EnCamino(q, i)'
            BY <4>4, <5>1
          <6> QED
            BY <6>1 DEF EnSuMarco
        <5>2. CASE ~EnCamino(q, i)
          <6>1. q \in procesos /\ tabla_paginas[q][i].presente /\ tabla_paginas[q][i].nro_marco = f
            BY <4>3, <5>2 DEF EnSuMarco
          <6>2. q # p
            BY <1>2, <1>6, <4>1, <4>3, <6>1
          <6>3. q \in procesos' /\ tabla_paginas'[q] = tabla_paginas[q]
            BY <1>1, <1>5, <6>1, <6>2
          <6> QED
            BY <6>1, <6>3 DEF EnSuMarco
        <5> QED
          BY <5>1, <5>2
      <4>6. q = marcos'[f].info_new[1] /\ i = marcos'[f].info_new[2]
        BY <4>1, <4>3
      <4> QED
        BY <4>5, <4>6
    <3> QED
      BY <3>1, MarcoPorMarco
  <2> QED
    BY <2>1, <2>2, <2>3 DEF Marco
<1>19. Swap'
  <2>1. \A b : Ajeno(b) => Ajeno(b)'
    BY <1>1, <1>5, <1>11 DEF Ajeno
  <2>2. ASSUME NEW b \in m.bloques
        PROVE  /\ bitmapSWAP[b] /\ Ajeno(b)' /\ ~Ajeno(b)
    <3>1. PICK i \in DOMAIN tabla_paginas[p] : tabla_paginas[p][i].pos_en_swap = b
      BY <1>4
    <3>2. ~Ajeno(b) /\ bitmapSWAP[b]
      BY <1>1, <1>3, <3>1 DEF Ajeno
    <3>3. \A q \in procesos : \A j \in DOMAIN tabla_paginas[q] : tabla_paginas[q][j].pos_en_swap = b => q = p
      <4>1. b # NULL
        BY <1>3, <3>1, ConstantesMemoria DEF Bloques
      <4> QED
        BY <1>1, <3>1, <4>1 DEF Inv, Swap, PosicionesPropias
    <3>4. Ajeno(b)'
      BY <1>1, <1>5, <1>11, <3>3 DEF Ajeno
    <3> QED
      BY <3>2, <3>4
  <2>3. PosicionesPropias'
    <3>1. \A q \in procesos' : q \in procesos /\ tabla_paginas'[q] = tabla_paginas[q]
                               /\ (SinSwap(q)' <=> SinSwap(q))
      BY <1>1, <1>5, <1>11 DEF SinSwap
    <3> QED
      BY <1>1, <3>1 DEF Inv, Swap, PosicionesPropias
  <2>4. BloquesEnCamino'
    <3>1. ASSUME NEW k \in DOMAIN a_fs', a_fs'[k].op = "LIBERAR", NEW b \in a_fs'[k].bloques
          PROVE  /\ bitmapSWAP'[b] /\ Ajeno(b)'
                 /\ \A j \in DOMAIN a_fs' : a_fs'[j].op = "LIBERAR" /\ b \in a_fs'[j].bloques => j = k
      <4>1. CASE k \in DOMAIN a_fs /\ a_fs'[k] = a_fs[k]
        <5>1. /\ bitmapSWAP[b] /\ Ajeno(b)
              /\ \A j \in DOMAIN a_fs : a_fs[j].op = "LIBERAR" /\ b \in a_fs[j].bloques => j = k
          BY <3>1, <4>1 DEF Inv, Swap, BloquesEnCamino
        <5>2. b \notin m.bloques
          BY <2>2, <5>1
        <5>3. Ajeno(b)'
          BY <2>1, <5>1
        <5> QED
          BY <1>1, <1>9, <5>1, <5>2, <5>3
      <4>2. CASE k = Len(a_fs) + 1 /\ a_fs'[k] = m
        <5>1. bitmapSWAP[b] /\ Ajeno(b)' /\ ~Ajeno(b)
          BY <2>2, <3>1, <4>2
        <5>2. \A j \in DOMAIN a_fs : ~(a_fs[j].op = "LIBERAR" /\ b \in a_fs[j].bloques)
          BY <5>1 DEF Inv, Swap, BloquesEnCamino
        <5> QED
          BY <1>1, <1>9, <4>2, <5>1, <5>2
      <4> QED
        BY <1>9, <4>1, <4>2
    <3>2. ASSUME NEW k \in DOMAIN a_memoria, a_memoria[k].op = "ASIGNADAS"
          PROVE  /\ IsInjective(a_memoria[k].bloques)
                 /\ \A b \in ToSet(a_memoria[k].bloques) :
                      /\ bitmapSWAP'[b] /\ Ajeno(b)'
                      /\ \A j \in DOMAIN a_fs' : a_fs'[j].op = "LIBERAR" => b \notin a_fs'[j].bloques
      <4>1. /\ IsInjective(a_memoria[k].bloques)
            /\ \A b \in ToSet(a_memoria[k].bloques) :
                 /\ bitmapSWAP[b] /\ Ajeno(b)
                 /\ \A j \in DOMAIN a_fs : a_fs[j].op = "LIBERAR" => b \notin a_fs[j].bloques
        BY <3>2 DEF Inv, Swap, BloquesEnCamino
      <4> QED
        BY <1>1, <1>9, <2>1, <2>2, <4>1
    <3> QED
      BY <1>1, <3>1, <3>2 DEF BloquesEnCamino
  <2>5. LecturaAntesDeLiberar'
    BY <1>1, <1>4, LecturasQuedan
  <2> QED
    BY <2>3, <2>4, <2>5 DEF Swap
<1> QED
  BY <1>12, <1>13, <1>14, <1>16, <1>17, <1>18, <1>19 DEF Inv

-------------------------------------------------------------------------------
(* The FileSystem's thread of Memoria takes the first answer.               *)
LEMMA PrimeraRespuesta ==
  ASSUME Inv, a_memoria # <<>>, a_memoria' = Tail(a_memoria)
  PROVE  /\ a_memoria' \in Seq(MensajesAMemoria) /\ Head(a_memoria) = a_memoria[1]
         /\ Head(a_memoria) \in MensajesAMemoria /\ 1 \in DOMAIN a_memoria
         /\ \A k \in DOMAIN a_memoria' : /\ k \in Nat \ {0} /\ k + 1 \in DOMAIN a_memoria /\ k + 1 # 1
                                         /\ a_memoria'[k] = a_memoria[k + 1]
         /\ \A k \in DOMAIN a_memoria : k # 1 =>
              k - 1 \in DOMAIN a_memoria' /\ a_memoria'[k - 1] = a_memoria[k]
<1>1. a_memoria \in Seq(MensajesAMemoria)
  BY DEF Inv, TypeOK
<1>2. /\ a_memoria' \in Seq(MensajesAMemoria) /\ Head(a_memoria) = a_memoria[1]
      /\ Head(a_memoria) \in MensajesAMemoria /\ 1 \in DOMAIN a_memoria
      /\ \A k \in DOMAIN a_memoria' : k \in Nat \ {0} /\ k + 1 \in DOMAIN a_memoria
                                      /\ a_memoria'[k] = a_memoria[k + 1]
      /\ \A k \in DOMAIN a_memoria : k # 1 =>
           k - 1 \in DOMAIN a_memoria' /\ a_memoria'[k - 1] = a_memoria[k]
  BY <1>1, MensajeMenos
<1>3. \A k \in DOMAIN a_memoria' : k + 1 # 1
  BY <1>2
<1> QED
  BY <1>2, <1>3

(* The positions of the process that is being created.                      *)
LEMMA PasoAsignar ==
  ASSUME Inv, AsignarPosiciones
  PROVE  Inv'
<1>1. PICK m \in MensajesAMemoria : /\ m = Head(a_memoria) /\ a_memoria # <<>> /\ m = a_memoria[1]
                                    /\ m.op = "ASIGNADAS" /\ 1 \in DOMAIN a_memoria
  BY PrimeraRespuesta DEF AsignarPosiciones, Recibe
<1>2. PICK p \in Procesos : p = m.proceso
  BY MensajesDeFs
<1>3. PICK lista \in Seq(Bloques) : lista = m.bloques
  BY <1>1, MensajesDeFs
<1>4. /\ cargada = NULL /\ a_memoria' = Tail(a_memoria)
      /\ Len(lista) = Len(tabla_paginas[p])
      /\ tabla_paginas' = [tabla_paginas EXCEPT ![p] =
           [i \in DOMAIN tabla_paginas[p] |-> [tabla_paginas[p][i] EXCEPT !.pos_en_swap = lista[i]]]]
      /\ sem_control_swap_asign' = sem_control_swap_asign + 1
      /\ UNCHANGED <<ALGORITMO_REEMPLAZO, procesos, marcos, orden, espacio_usuario, creando, cargada,
                     a_fs, bitmapSWAP, bloques, escrituras, estado, fallos, page_fault, traduccion,
                     memoria>>
  BY <1>1, <1>2, <1>3 DEF AsignarPosiciones, CargarBloquesAsignados, Recibe, HiloFileSystem,
                          filesystem, pedidos
<1>5. /\ p = creando /\ p # NULL /\ p \in procesos /\ sem_control_swap_asign = 0
      /\ sem_control_swap_asign' = 1
      /\ \A k \in DOMAIN a_fs : a_fs[k].op # "ASIGNAR"
      /\ \A k \in DOMAIN a_memoria : a_memoria[k].op = "ASIGNADAS" => k = 1
  BY <1>1, <1>2, <1>4, ConstantesMemoria DEF Inv, UnaCreacion, Tablas, Creados
<1>6. /\ tabla_paginas[p] \in Seq(Pagina) /\ DOMAIN tabla_paginas[p] = 1..Paginas[p]
      /\ Len(tabla_paginas[p]) = Paginas[p] /\ Paginas[p] \in Nat
      /\ \A i \in 1..Paginas[p] : tabla_paginas[p][i] \in Pagina
  BY <1>5, TablaDe
<1>7. /\ DOMAIN lista = 1..Paginas[p]
      /\ \A i \in 1..Paginas[p] : lista[i] \in Bloques /\ lista[i] \in ToSet(lista) /\ lista[i] # NULL
  <2>1. DOMAIN lista = 1..Paginas[p] /\ \A i \in 1..Paginas[p] : lista[i] \in Bloques
    BY <1>4, <1>6, LenProperties, ElementOfSeq
  <2> QED
    BY <2>1, ConstantesMemoria DEF ToSet, Bloques
<1>8. PICK nueva \in Seq(Pagina) :
        /\ nueva = [i \in 1..Paginas[p] |-> [tabla_paginas[p][i] EXCEPT !.pos_en_swap = lista[i]]]
        /\ DOMAIN nueva = 1..Paginas[p] /\ Len(nueva) = Paginas[p]
        /\ \A i \in 1..Paginas[p] :
             /\ nueva[i].presente = tabla_paginas[p][i].presente
             /\ nueva[i].modificado = tabla_paginas[p][i].modificado
             /\ nueva[i].nro_marco = tabla_paginas[p][i].nro_marco
             /\ nueva[i].pos_en_swap = lista[i]
  <2> DEFINE E(i) == [tabla_paginas[p][i] EXCEPT !.pos_en_swap = lista[i]]
             N == [i \in 1..Paginas[p] |-> E(i)]
  <2>1. ASSUME NEW i \in 1..Paginas[p]
        PROVE  /\ E(i) \in Pagina
               /\ E(i).presente = tabla_paginas[p][i].presente
               /\ E(i).modificado = tabla_paginas[p][i].modificado
               /\ E(i).nro_marco = tabla_paginas[p][i].nro_marco
               /\ E(i).pos_en_swap = lista[i]
    BY <1>6, <1>7 DEF Pagina
  <2> HIDE DEF E
  <2>2. N \in Seq(Pagina)
    BY <1>6, <2>1, IsASeq
  <2>3. DOMAIN N = 1..Paginas[p] /\ \A i \in 1..Paginas[p] : N[i] = E(i)
    OBVIOUS
  <2> HIDE DEF N
  <2>4. Len(N) = Paginas[p]
    BY <1>6, <2>2, <2>3, LenProperties
  <2> QED
    BY <2>1, <2>2, <2>3, <2>4 DEF N, E
<1>9. /\ tabla_paginas' \in [Procesos -> Seq(Pagina)] /\ tabla_paginas'[p] = nueva
      /\ \A q \in Procesos \ {p} : tabla_paginas'[q] = tabla_paginas[q]
  <2>1. tabla_paginas' = [tabla_paginas EXCEPT ![p] = nueva]
    BY <1>4, <1>6, <1>8
  <2> QED
    BY <2>1 DEF Inv, TypeOK
<1>10. \A q \in procesos :
         /\ q \in Procesos /\ DOMAIN tabla_paginas'[q] = DOMAIN tabla_paginas[q]
         /\ Len(tabla_paginas'[q]) = Len(tabla_paginas[q])
         /\ \A i \in DOMAIN tabla_paginas[q] :
              /\ tabla_paginas'[q][i].presente = tabla_paginas[q][i].presente
              /\ tabla_paginas'[q][i].modificado = tabla_paginas[q][i].modificado
              /\ tabla_paginas'[q][i].nro_marco = tabla_paginas[q][i].nro_marco
              /\ q # p => tabla_paginas'[q][i].pos_en_swap = tabla_paginas[q][i].pos_en_swap
  <2> SUFFICES ASSUME NEW q \in procesos
               PROVE  /\ q \in Procesos /\ DOMAIN tabla_paginas'[q] = DOMAIN tabla_paginas[q]
                      /\ Len(tabla_paginas'[q]) = Len(tabla_paginas[q])
                      /\ \A i \in DOMAIN tabla_paginas[q] :
                           /\ tabla_paginas'[q][i].presente = tabla_paginas[q][i].presente
                           /\ tabla_paginas'[q][i].modificado = tabla_paginas[q][i].modificado
                           /\ tabla_paginas'[q][i].nro_marco = tabla_paginas[q][i].nro_marco
                           /\ q # p => tabla_paginas'[q][i].pos_en_swap = tabla_paginas[q][i].pos_en_swap
    OBVIOUS
  <2>1. q \in Procesos
    BY DEF Inv, TypeOK
  <2>2. CASE q = p
    <3>1. /\ tabla_paginas'[q] = nueva /\ DOMAIN tabla_paginas[q] = 1..Paginas[p]
          /\ Len(tabla_paginas[q]) = Paginas[p]
      BY <1>6, <1>9, <2>2
    <3>2. \A i \in DOMAIN tabla_paginas[q] :
            /\ nueva[i].presente = tabla_paginas[q][i].presente
            /\ nueva[i].modificado = tabla_paginas[q][i].modificado
            /\ nueva[i].nro_marco = tabla_paginas[q][i].nro_marco
      BY <1>8, <2>2, <3>1, Zenon
    <3>3. DOMAIN nueva = 1..Paginas[p] /\ Len(nueva) = Paginas[p]
      BY <1>8
    <3> QED
      BY <2>1, <2>2, <3>1, <3>2, <3>3
  <2>3. CASE q # p
    BY <1>9, <2>1, <2>3
  <2> QED
    BY <2>1, <2>2, <2>3
<1>11. /\ a_memoria' \in Seq(MensajesAMemoria)
       /\ \A k \in DOMAIN a_memoria' : /\ k \in Nat \ {0} /\ k + 1 \in DOMAIN a_memoria /\ k + 1 # 1
                                       /\ a_memoria'[k] = a_memoria[k + 1]
       /\ \A k \in DOMAIN a_memoria : k # 1 =>
            k - 1 \in DOMAIN a_memoria' /\ a_memoria'[k - 1] = a_memoria[k]
  BY <1>1, <1>4, PrimeraRespuesta
<1>12. TypeOK'
  BY <1>4, <1>5, <1>9, <1>11 DEF Inv, TypeOK
<1>13. Tablas'
  <2>1. Creados'
    <3>1. \A q \in Procesos : q \notin procesos => tabla_paginas'[q] = tabla_paginas[q]
      BY <1>5, <1>9
    <3> QED
      BY <1>4, <1>10, <3>1 DEF Inv, Tablas, Creados
  <2>2. NuncaModificada'
    <3>1. \A q \in Procesos : q # p => tabla_paginas'[q] = tabla_paginas[q]
      BY <1>9
    <3> QED
      BY <1>5, <1>10, <3>1 DEF Inv, Tablas, NuncaModificada
  <2> QED
    BY <2>1, <2>2 DEF Tablas
<1>14. UnaCreacion'
  <2>1. \A k \in DOMAIN a_memoria' : a_memoria'[k].op # "ASIGNADAS"
    BY <1>5, <1>11
  <2> QED
    BY <1>4, <1>5, <2>1 DEF UnaCreacion
<1>15. UnFallo'
  <2>1. ASSUME NEW n, EnVuelo(n) PROVE EnVuelo(n)'
    <3>1. CASE n.proceso \in procesos
      <4>1. n.pagina \in DOMAIN tabla_paginas[n.proceso]
        BY <2>1, <3>1, TablaDe DEF EnVuelo
      <4> QED
        BY <1>4, <1>10, <2>1, <3>1, <4>1 DEF EnVuelo
    <3>2. CASE n.proceso \notin procesos
      BY <1>4, <2>1, <3>2 DEF EnVuelo
    <3> QED
      BY <3>1, <3>2
  <2>2. ASSUME NEW k \in DOMAIN a_fs', a_fs'[k].op = "LECTURA"
        PROVE  /\ EnVuelo(a_fs[k])'
               /\ \A j \in DOMAIN a_fs' : a_fs'[j].op = "LECTURA" => j = k
               /\ \A j \in DOMAIN a_memoria' : a_memoria'[j].op # "PAGINA"
    <3>1. PICK n : n = a_fs[k]
      OBVIOUS
    <3>2. EnVuelo(n)
      BY <1>4, <2>2, <3>1 DEF Inv, UnFallo
    <3>3. EnVuelo(n)'
      BY <2>1, <3>2
    <3>4. EnVuelo(a_fs[k])'
      BY <1>4, <3>1, <3>3 DEF EnVuelo
    <3> QED
      BY <1>4, <1>11, <2>2, <3>4 DEF Inv, UnFallo
  <2>3. ASSUME NEW k \in DOMAIN a_memoria', a_memoria'[k].op = "PAGINA"
        PROVE  /\ EnVuelo(a_memoria[k])'
               /\ \A j \in DOMAIN a_memoria' : a_memoria'[j].op = "PAGINA" => j = k
    <3>1. PICK n : n = a_memoria[k + 1]
      OBVIOUS
    <3>2. k + 1 \in DOMAIN a_memoria /\ a_memoria'[k] = n /\ n.op = "PAGINA"
      BY <1>11, <2>3, <3>1
    <3>3. EnVuelo(n) /\ \A j \in DOMAIN a_memoria : a_memoria[j].op = "PAGINA" => j = k + 1
      BY <3>1, <3>2 DEF Inv, UnFallo
    <3>4. EnVuelo(n)'
      BY <2>1, <3>3
    <3>5. EnVuelo(a_memoria[k])'
      BY <3>2, <3>4 DEF EnVuelo
    <3>6. \A j \in DOMAIN a_memoria' : a_memoria'[j].op = "PAGINA" => j = k
      <4>1. \A j \in DOMAIN a_memoria' : a_memoria'[j].op = "PAGINA" => j + 1 = k + 1
        BY <1>11, <3>3
      <4>2. \A j \in DOMAIN a_memoria' : j + 1 = k + 1 => j = k
        BY <1>11, <2>3
      <4> QED
        BY <4>1, <4>2
    <3> QED
      BY <3>5, <3>6
  <2> QED
    BY <1>4, <2>2, <2>3 DEF Inv, UnFallo
<1>16. EsperaPagina'
  <2>1. ASSUME NEW q \in procesos, fallos[q] # NULL PROVE ~tabla_paginas'[q][fallos[q]].presente
    <3>1. q \in Procesos /\ fallos[q] \in DOMAIN tabla_paginas[q]
      BY <2>1, TablaDe DEF Inv, EsperaPagina
    <3> QED
      BY <1>10, <2>1, <3>1 DEF Inv, EsperaPagina
  <2> QED
    BY <1>4, <2>1 DEF Inv, EsperaPagina
<1>17. Marco'
  <2>1. MarcosExclusivos'
    BY <1>4, <1>10 DEF Inv, Marco, MarcosExclusivos
  <2>2. Ocupados'
    <3>1. ASSUME NEW f \in Marcos, ~marcos[f].libre, marcos[f].info_new[1] \in procesos
          PROVE  tabla_paginas'[marcos[f].info_new[1]][marcos[f].info_new[2]].nro_marco = f
      <4>1. PICK q \in Procesos : \E i \in 1..Paginas[q] :
              marcos[f].info_new = <<q, i>> /\ (q \in procesos => tabla_paginas[q][i].nro_marco = f)
        BY <3>1, PaginaDelMarco
      <4>2. PICK i \in 1..Paginas[q] :
              marcos[f].info_new = <<q, i>> /\ (q \in procesos => tabla_paginas[q][i].nro_marco = f)
        BY <4>1
      <4>3. q \in procesos /\ i \in DOMAIN tabla_paginas[q]
        BY <3>1, <4>2, TablaDe
      <4> QED
        BY <1>10, <4>2, <4>3
    <3>2. \A q \in procesos : \A i \in DOMAIN tabla_paginas'[q] :
            tabla_paginas'[q][i].presente => tabla_paginas'[q][i].nro_marco \in Marcos
      BY <1>10 DEF Inv, Marco, Ocupados
    <3> QED
      BY <1>4, <3>1, <3>2 DEF Inv, Marco, Ocupados
  <2>3. SinMarcosPerdidos'
    <3>1. ASSUME NEW f \in Marcos, ~marcos'[f].libre
          PROVE  \E q, i : q = marcos'[f].info_new[1] /\ i = marcos'[f].info_new[2] /\ EnSuMarco(f, q, i)'
      <4>1. PICK q \in Procesos : \E i \in 1..Paginas[q] :
              marcos[f].info_new = <<q, i>> /\ EnSuMarco(f, q, i)
        BY <1>4, <3>1, PaginaDelMarco
      <4>2. PICK i \in 1..Paginas[q] : marcos[f].info_new = <<q, i>> /\ EnSuMarco(f, q, i)
        BY <4>1
      <4>3. CASE EnCamino(q, i)
        <5>1. PICK n \in ToSet(a_fs) \cup ToSet(a_memoria) :
                n.op \in {"LECTURA", "PAGINA"} /\ n.proceso = q /\ n.pagina = i
          BY <4>3 DEF EnCamino
        <5>2. n \in ToSet(a_memoria) => n \in ToSet(a_memoria')
          <6>1. ASSUME NEW k \in DOMAIN a_memoria, a_memoria[k] = n PROVE n \in ToSet(a_memoria')
            <7>1. k # 1
              BY <1>1, <5>1, <6>1
            <7> QED
              BY <1>11, <6>1, <7>1 DEF ToSet
          <6> QED
            BY <6>1 DEF ToSet
        <5>3. EnCamino(q, i)'
          BY <1>4, <5>1, <5>2 DEF EnCamino
        <5> QED
          BY <1>4, <4>2, <5>3 DEF EnSuMarco
      <4>4. CASE ~EnCamino(q, i)
        <5>1. q \in procesos /\ tabla_paginas[q][i].presente /\ tabla_paginas[q][i].nro_marco = f
          BY <4>2, <4>4 DEF EnSuMarco
        <5>2. i \in DOMAIN tabla_paginas[q]
          BY <5>1, TablaDe
        <5>3. EnSuMarco(f, q, i)'
          BY <1>4, <1>10, <5>1, <5>2 DEF EnSuMarco
        <5> QED
          BY <1>4, <4>2, <5>3
      <4> QED
        BY <4>3, <4>4
    <3> QED
      BY <3>1, MarcoPorMarco
  <2> QED
    BY <2>1, <2>2, <2>3 DEF Marco
<1>18. Swap'
  <2>1. /\ IsInjective(lista)
        /\ \A b \in ToSet(lista) : /\ bitmapSWAP[b] /\ Ajeno(b)
                                   /\ \A j \in DOMAIN a_fs : a_fs[j].op = "LIBERAR" => b \notin a_fs[j].bloques
    BY <1>1, <1>3 DEF Inv, Swap, BloquesEnCamino
  <2>2. \A i \in DOMAIN tabla_paginas'[p] : tabla_paginas'[p][i].pos_en_swap = lista[i]
                                            /\ i \in 1..Paginas[p]
    BY <1>8, <1>9
  <2>3. \A i \in 1..Paginas[p], j \in 1..Paginas[p] : lista[i] = lista[j] => i = j
    BY <1>7, <2>1 DEF IsInjective
  <2>4. \A q \in procesos : ~SinSwap(q)' /\ (q # p => ~SinSwap(q))
    BY <1>4, <1>5 DEF SinSwap
  <2>5. \A q \in procesos : q # p => \A i \in DOMAIN tabla_paginas'[q] :
          /\ i \in DOMAIN tabla_paginas[q]
          /\ tabla_paginas'[q][i].pos_en_swap = tabla_paginas[q][i].pos_en_swap
          /\ tabla_paginas[q][i].pos_en_swap \notin ToSet(lista)
    BY <1>10, <2>1 DEF Ajeno
  <2>6. PosicionesPropias'
    <3>0. procesos' = procesos /\ bitmapSWAP' = bitmapSWAP
      BY <1>4
    <3> SUFFICES ASSUME NEW q \in procesos, NEW i \in DOMAIN tabla_paginas'[q]
                 PROVE  /\ tabla_paginas'[q][i].pos_en_swap # NULL
                        /\ bitmapSWAP[tabla_paginas'[q][i].pos_en_swap]
                        /\ \A r \in procesos : \A j \in DOMAIN tabla_paginas'[r] :
                             tabla_paginas'[r][j].pos_en_swap = tabla_paginas'[q][i].pos_en_swap
                             => r = q /\ j = i
      <4>1. \A q \in procesos' : q \in procesos /\ ~SinSwap(q)'
        BY <2>4, <3>0
      <4> QED
        BY <3>0, <4>1 DEF PosicionesPropias
    <3>1. CASE q = p
      BY <1>7, <2>1, <2>2, <2>3, <2>5, <3>1
    <3>2. CASE q # p
      <4>1. /\ tabla_paginas[q][i].pos_en_swap # NULL
            /\ bitmapSWAP[tabla_paginas[q][i].pos_en_swap]
            /\ \A r \in procesos : \A j \in DOMAIN tabla_paginas[r] :
                 tabla_paginas[r][j].pos_en_swap = tabla_paginas[q][i].pos_en_swap => r = q /\ j = i
        BY <2>4, <2>5, <3>2 DEF Inv, Swap, PosicionesPropias
      <4> QED
        BY <1>7, <2>2, <2>5, <3>2, <4>1
    <3> QED
      BY <3>1, <3>2
  <2>7. BloquesEnCamino'
    <3>1. ASSUME NEW k \in DOMAIN a_fs, a_fs[k].op = "LIBERAR", NEW b \in a_fs[k].bloques
          PROVE  Ajeno(b)'
      <4>1. Ajeno(b) /\ b \notin ToSet(lista)
        BY <2>1, <3>1 DEF Inv, Swap, BloquesEnCamino
      <4>2. \A i \in DOMAIN tabla_paginas'[p] : tabla_paginas'[p][i].pos_en_swap # b
        BY <1>7, <2>2, <4>1
      <4>3. \A q \in procesos : q # p => \A i \in DOMAIN tabla_paginas'[q] :
              tabla_paginas'[q][i].pos_en_swap # b
        BY <2>5, <4>1 DEF Ajeno
      <4>4. procesos' = procesos
        BY <1>4
      <4> QED
        BY <4>2, <4>3, <4>4 DEF Ajeno
    <3>2. \A k \in DOMAIN a_memoria' : a_memoria'[k].op # "ASIGNADAS"
      BY <1>5, <1>11
    <3>3. ASSUME NEW k \in DOMAIN a_fs', a_fs'[k].op = "LIBERAR", NEW b \in a_fs'[k].bloques
          PROVE  /\ bitmapSWAP'[b] /\ Ajeno(b)'
                 /\ \A j \in DOMAIN a_fs' : a_fs'[j].op = "LIBERAR" /\ b \in a_fs'[j].bloques => j = k
      BY <1>4, <3>1, <3>3 DEF Inv, Swap, BloquesEnCamino
    <3> QED
      BY <3>2, <3>3 DEF BloquesEnCamino
  <2>8. LecturaAntesDeLiberar'
    BY <1>4 DEF Inv, Swap, LecturaAntesDeLiberar
  <2> QED
    BY <2>6, <2>7, <2>8 DEF Swap
<1> QED
  BY <1>12, <1>13, <1>14, <1>15, <1>16, <1>17, <1>18 DEF Inv

(* What the messages in the queues are.                                     *)
LEMMA MensajesEnCola ==
  ASSUME Inv
  PROVE  /\ \A k \in DOMAIN a_fs : a_fs[k] \in MensajesAFs /\ a_fs[k].op # "PAGINA"
         /\ \A k \in DOMAIN a_memoria : a_memoria[k] \in MensajesAMemoria /\ a_memoria[k].op # "LECTURA"
<1>1. /\ \A k \in DOMAIN a_fs : a_fs[k] \in MensajesAFs
      /\ \A k \in DOMAIN a_memoria : a_memoria[k] \in MensajesAMemoria
  BY ElementOfSeq, LenProperties DEF Inv, TypeOK
<1>2. \A m \in MensajesAFs : m.op # "PAGINA"
  BY MensajesDeFs
<1>3. \A m \in MensajesAMemoria : m.op # "LECTURA"
  BY MensajesDeFs
<1> QED
  BY <1>1, <1>2, <1>3

(* One entry of one table changes.                                          *)
LEMMA UnaEntrada ==
  ASSUME NEW t \in [Procesos -> Seq(Pagina)], NEW p \in Procesos, NEW i \in DOMAIN t[p],
         NEW e \in Pagina, NEW u, u = [t EXCEPT ![p] = [t[p] EXCEPT ![i] = e]]
  PROVE  /\ u \in [Procesos -> Seq(Pagina)]
         /\ \A q \in Procesos : DOMAIN u[q] = DOMAIN t[q] /\ Len(u[q]) = Len(t[q])
         /\ \A q \in Procesos : q # p => u[q] = t[q]
         /\ u[p][i] = e
         /\ \A q \in Procesos : \A j \in DOMAIN t[q] : q # p \/ j # i => u[q][j] = t[q][j]
<1>1. PICK r : r = [t[p] EXCEPT ![i] = e]
  OBVIOUS
<1>2. t[p] \in Seq(Pagina) /\ DOMAIN t[p] = 1..Len(t[p]) /\ Len(t[p]) \in Nat
  BY LenProperties
<1>3. /\ r \in Seq(Pagina) /\ Len(r) = Len(t[p]) /\ DOMAIN r = DOMAIN t[p] /\ r[i] = e
      /\ \A j \in DOMAIN t[p] : j # i => r[j] = t[p][j]
  <2>1. r \in Seq(Pagina) /\ Len(r) = Len(t[p]) /\ \A j \in 1..Len(t[p]) : r[j] = IF j = i THEN e ELSE t[p][j]
    BY <1>1, <1>2, ExceptSeq
  <2>2. DOMAIN r = DOMAIN t[p]
    BY <1>2, <2>1, LenProperties
  <2> QED
    BY <1>2, <2>1, <2>2
<1>4. /\ u \in [Procesos -> Seq(Pagina)] /\ u[p] = r /\ \A q \in Procesos : q # p => u[q] = t[q]
  BY <1>1, <1>3
<1> QED
  BY <1>3, <1>4

(* The page comes from swap to the frame it was given.                      *)
LEMMA PasoLlegaPagina ==
  ASSUME Inv, LlegaPagina
  PROVE  Inv'
<1>1. PICK m \in MensajesAMemoria : /\ m = Head(a_memoria) /\ a_memoria # <<>> /\ m = a_memoria[1]
                                    /\ m.op = "PAGINA" /\ 1 \in DOMAIN a_memoria
  BY PrimeraRespuesta DEF LlegaPagina, Recibe
<1>2. PICK p \in Procesos, i \in Nat : p = m.proceso /\ i = m.pagina
  BY <1>1, MensajesDeFs
<1>3. PICK f : f = tabla_paginas[p][i].nro_marco
  OBVIOUS
<1>4. /\ p \in procesos /\ orden' = AlFinal(f) /\ cargada' = p /\ a_memoria' = Tail(a_memoria)
      /\ espacio_usuario' = [espacio_usuario EXCEPT ![f] = m.contenido]
      /\ tabla_paginas' = [tabla_paginas EXCEPT ![p] = [tabla_paginas[p] EXCEPT
                             ![i] = [tabla_paginas[p][i] EXCEPT !.presente = TRUE]]]
      /\ UNCHANGED <<ALGORITMO_REEMPLAZO, procesos, marcos, sem_control_swap_asign, creando, a_fs,
                     bitmapSWAP, bloques, escrituras, estado, fallos, page_fault, traduccion,
                     memoria>>
  BY <1>1, <1>2, <1>3 DEF LlegaPagina, filesystem, pedidos
<1>5. /\ page_fault = p /\ cargada = NULL /\ i \in 1..Paginas[p]
      /\ ~tabla_paginas[p][i].presente /\ f \in Marcos
      /\ marcos[f] = [libre |-> FALSE, info_new |-> <<p, i>>]
      /\ \A k \in DOMAIN a_memoria : a_memoria[k].op = "PAGINA" => k = 1
      /\ \A k \in DOMAIN a_fs : a_fs[k].op # "LECTURA"
  BY <1>1, <1>2, <1>3, <1>4 DEF Inv, UnFallo, EnVuelo
<1>6. p # NULL /\ DOMAIN tabla_paginas[p] = 1..Paginas[p] /\ tabla_paginas[p][i] \in Pagina
  BY <1>4, <1>5, TablaDe
<1>7. PICK e \in Pagina : /\ e = [tabla_paginas[p][i] EXCEPT !.presente = TRUE]
                          /\ e.presente /\ e.nro_marco = f
                          /\ e.modificado = tabla_paginas[p][i].modificado
                          /\ e.pos_en_swap = tabla_paginas[p][i].pos_en_swap
  <2>1. PICK e \in Pagina : e = [tabla_paginas[p][i] EXCEPT !.presente = TRUE]
    BY <1>6 DEF Pagina
  <2>2. /\ e.presente /\ e.nro_marco = tabla_paginas[p][i].nro_marco
        /\ e.modificado = tabla_paginas[p][i].modificado
        /\ e.pos_en_swap = tabla_paginas[p][i].pos_en_swap
    BY <1>6, <2>1 DEF Pagina
  <2> QED
    BY <1>3, <2>1, <2>2
<1>8. /\ tabla_paginas' \in [Procesos -> Seq(Pagina)]
      /\ \A q \in Procesos : /\ DOMAIN tabla_paginas'[q] = DOMAIN tabla_paginas[q]
                             /\ Len(tabla_paginas'[q]) = Len(tabla_paginas[q])
      /\ \A q \in Procesos : q # p => tabla_paginas'[q] = tabla_paginas[q]
      /\ tabla_paginas'[p][i] = e
      /\ \A q \in Procesos : \A j \in DOMAIN tabla_paginas[q] :
           q # p \/ j # i => tabla_paginas'[q][j] = tabla_paginas[q][j]
  <2>1. tabla_paginas \in [Procesos -> Seq(Pagina)] /\ i \in DOMAIN tabla_paginas[p]
    BY <1>5, <1>6 DEF Inv, TypeOK
  <2>2. tabla_paginas' = [tabla_paginas EXCEPT ![p] = [tabla_paginas[p] EXCEPT ![i] = e]]
    BY <1>4, <1>7
  <2> QED
    BY <2>1, <2>2, UnaEntrada
<1>9. procesos \subseteq Procesos
  BY DEF Inv, TypeOK
<1>10. \A q \in procesos : \A j \in DOMAIN tabla_paginas[q] :
         /\ tabla_paginas'[q][j].nro_marco = tabla_paginas[q][j].nro_marco
         /\ tabla_paginas'[q][j].modificado = tabla_paginas[q][j].modificado
         /\ tabla_paginas'[q][j].pos_en_swap = tabla_paginas[q][j].pos_en_swap
         /\ tabla_paginas[q][j].presente => tabla_paginas'[q][j].presente
         /\ tabla_paginas'[q][j].presente => tabla_paginas[q][j].presente \/ (q = p /\ j = i)
  <2> SUFFICES ASSUME NEW q \in procesos, NEW j \in DOMAIN tabla_paginas[q]
               PROVE  /\ tabla_paginas'[q][j].nro_marco = tabla_paginas[q][j].nro_marco
                      /\ tabla_paginas'[q][j].modificado = tabla_paginas[q][j].modificado
                      /\ tabla_paginas'[q][j].pos_en_swap = tabla_paginas[q][j].pos_en_swap
                      /\ tabla_paginas[q][j].presente => tabla_paginas'[q][j].presente
                      /\ tabla_paginas'[q][j].presente => tabla_paginas[q][j].presente \/ (q = p /\ j = i)
    OBVIOUS
  <2>1. CASE q = p /\ j = i
    BY <1>3, <1>7, <1>8, <2>1, Zenon
  <2>2. CASE ~(q = p /\ j = i)
    <3>1. tabla_paginas'[q][j] = tabla_paginas[q][j]
      BY <1>8, <1>9, <2>2
    <3> QED
      BY <3>1
  <2> QED
    BY <2>1, <2>2
<1>11. /\ a_memoria' \in Seq(MensajesAMemoria)
       /\ \A k \in DOMAIN a_memoria' : /\ k \in Nat \ {0} /\ k + 1 \in DOMAIN a_memoria /\ k + 1 # 1
                                       /\ a_memoria'[k] = a_memoria[k + 1]
  BY <1>1, <1>4, PrimeraRespuesta
<1>12. orden' \in Seq(Marcos) /\ ToSet(orden) \subseteq ToSet(orden')
  BY <1>4, <1>5, MarcoAlFinal DEF AlFinal, Inv, TypeOK
<1>13. TypeOK'
  <2>1. espacio_usuario' \in [Marcos -> Contenidos]
    <3>1. m.contenido \in Contenidos
      BY <1>1, MensajesDeFs
    <3> QED
      BY <1>4, <1>5, <3>1 DEF Inv, TypeOK
  <2> QED
    BY <1>4, <1>8, <1>11, <1>12, <2>1 DEF Inv, TypeOK
<1>14. Tablas'
  <2>1. Creados'
    <3>1. \A q \in Procesos : q \notin procesos => tabla_paginas'[q] = tabla_paginas[q]
      BY <1>4, <1>8
    <3> QED
      BY <1>4, <1>8, <3>1 DEF Inv, Tablas, Creados
  <2>2. NuncaModificada'
    <3>1. \A q \in Procesos : q # p => tabla_paginas'[q] = tabla_paginas[q]
      BY <1>8
    <3> QED
      BY <1>4, <1>8, <1>10, <3>1 DEF Inv, Tablas, NuncaModificada
  <2> QED
    BY <2>1, <2>2 DEF Tablas
<1>15. \A j \in DOMAIN a_memoria', k \in DOMAIN a_memoria' : j + 1 = k + 1 => j = k
  BY <1>11
<1>16. UnaCreacion'
  BY <1>4, <1>11, <1>15 DEF Inv, UnaCreacion
<1>17. UnFallo'
  <2>1. \A k \in DOMAIN a_memoria' : a_memoria'[k].op # "PAGINA"
    BY <1>5, <1>11
  <2> QED
    BY <1>4, <1>5, <2>1 DEF UnFallo
<1>18. EsperaPagina'
  <2>1. \A q \in Procesos : fallos[q] # NULL => tabla_paginas'[q] = tabla_paginas[q]
    BY <1>5, <1>6, <1>8 DEF Inv, EsperaPagina
  <2> QED
    BY <1>4, <2>1 DEF Inv, EsperaPagina
<1>19. Marco'
  <2>1. MarcosExclusivos'
    <3>1. ASSUME NEW q \in procesos', NEW j \in DOMAIN tabla_paginas'[q], tabla_paginas'[q][j].presente
          PROVE  marcos'[tabla_paginas'[q][j].nro_marco] = [libre |-> FALSE, info_new |-> <<q, j>>]
      <4>1. q \in procesos /\ j \in DOMAIN tabla_paginas[q] /\ marcos' = marcos
        BY <1>4, <1>8, <1>9
      <4>2. tabla_paginas'[q][j].nro_marco = tabla_paginas[q][j].nro_marco
        BY <1>10, <4>1
      <4>3. CASE q = p /\ j = i
        BY <1>3, <1>5, <4>1, <4>2, <4>3
      <4>4. CASE ~(q = p /\ j = i)
        <5>1. tabla_paginas[q][j].presente
          BY <1>10, <3>1, <4>1, <4>4
        <5> QED
          BY <4>1, <4>2, <5>1 DEF Inv, Marco, MarcosExclusivos
      <4> QED
        BY <4>3, <4>4
    <3> QED
      BY <3>1 DEF MarcosExclusivos
  <2>2. Ocupados'
    <3>1. ASSUME NEW g \in Marcos, ~marcos[g].libre, marcos[g].info_new[1] \in procesos
          PROVE  tabla_paginas'[marcos[g].info_new[1]][marcos[g].info_new[2]].nro_marco = g
      <4>1. PICK q \in Procesos : \E j \in 1..Paginas[q] :
              marcos[g].info_new = <<q, j>> /\ (q \in procesos => tabla_paginas[q][j].nro_marco = g)
        BY <3>1, PaginaDelMarco
      <4>2. PICK j \in 1..Paginas[q] :
              marcos[g].info_new = <<q, j>> /\ (q \in procesos => tabla_paginas[q][j].nro_marco = g)
        BY <4>1
      <4>3. q \in procesos /\ j \in DOMAIN tabla_paginas[q]
        BY <3>1, <4>2, TablaDe
      <4> QED
        BY <1>10, <4>2, <4>3
    <3>2. ASSUME NEW q \in procesos, NEW j \in DOMAIN tabla_paginas'[q], tabla_paginas'[q][j].presente
          PROVE  tabla_paginas'[q][j].nro_marco \in Marcos
      <4>1. j \in DOMAIN tabla_paginas[q]
        BY <1>8, <1>9
      <4>2. tabla_paginas'[q][j].nro_marco = tabla_paginas[q][j].nro_marco
            /\ (tabla_paginas[q][j].presente \/ (q = p /\ j = i))
        BY <1>10, <3>2, <4>1
      <4> QED
        BY <1>3, <1>5, <4>1, <4>2 DEF Inv, Marco, Ocupados
    <3>3. procesos' = procesos /\ marcos' = marcos
      BY <1>4
    <3> QED
      BY <1>12, <3>1, <3>2, <3>3 DEF Inv, Marco, Ocupados
  <2>3. SinMarcosPerdidos'
    <3>1. ASSUME NEW g \in Marcos, ~marcos'[g].libre
          PROVE  \E q, j : q = marcos'[g].info_new[1] /\ j = marcos'[g].info_new[2] /\ EnSuMarco(g, q, j)'
      <4>0. ~marcos[g].libre /\ marcos' = marcos
        BY <1>4, <3>1
      <4>1. PICK q \in Procesos : \E j \in 1..Paginas[q] :
              /\ marcos[g].info_new = <<q, j>> /\ EnSuMarco(g, q, j)
              /\ q \in procesos => tabla_paginas[q][j].nro_marco = g
        BY <4>0, PaginaDelMarco
      <4>2. PICK j \in 1..Paginas[q] :
              /\ marcos[g].info_new = <<q, j>> /\ EnSuMarco(g, q, j)
              /\ q \in procesos => tabla_paginas[q][j].nro_marco = g
        BY <4>1
      <4>3. EnCamino(q, j) => q = p /\ j = i
        <5>1. ASSUME NEW n \in ToSet(a_fs) \cup ToSet(a_memoria), n.op \in {"LECTURA", "PAGINA"}
              PROVE  n = m
          <6>1. n.op = "LECTURA" => n \notin ToSet(a_fs)
            BY <1>5 DEF ToSet
          <6>2. \A k \in DOMAIN a_memoria : a_memoria[k].op # "LECTURA"
            BY MensajesEnCola
          <6>3. \A k \in DOMAIN a_fs : a_fs[k].op # "PAGINA"
            BY MensajesEnCola
          <6>4. PICK k \in DOMAIN a_memoria : n = a_memoria[k]
            BY <5>1, <6>1, <6>3 DEF ToSet
          <6>5. n.op = "PAGINA"
            BY <5>1, <6>2, <6>4
          <6> QED
            BY <1>1, <1>5, <6>4, <6>5
        <5> QED
          BY <1>2, <5>1 DEF EnCamino
      <4>4. q \in procesos /\ tabla_paginas'[q][j].presente /\ tabla_paginas'[q][j].nro_marco = g
        <5>1. CASE q = p /\ j = i
          BY <1>3, <1>4, <1>7, <1>8, <4>2, <5>1
        <5>2. CASE ~(q = p /\ j = i)
          <6>1. q \in procesos /\ tabla_paginas[q][j].presente /\ tabla_paginas[q][j].nro_marco = g
            BY <4>2, <4>3, <5>2 DEF EnSuMarco
          <6>2. j \in DOMAIN tabla_paginas[q]
            BY <6>1, TablaDe
          <6> QED
            BY <1>10, <6>1, <6>2
        <5> QED
          BY <5>1, <5>2
      <4>5. EnSuMarco(g, q, j)'
        BY <1>4, <4>4 DEF EnSuMarco
      <4> QED
        BY <4>0, <4>2, <4>5
    <3> QED
      BY <3>1, MarcoPorMarco
  <2> QED
    BY <2>1, <2>2, <2>3 DEF Marco
<1>20. Swap'
  <2>1. MismasPosiciones
    BY <1>4, <1>8, <1>9, <1>10 DEF MismasPosiciones, SinSwap
  <2>2. PosicionesPropias' /\ \A b : Ajeno(b)' <=> Ajeno(b)
    BY <1>4, <2>1, PosicionesQuedan DEF Inv, Swap
  <2>3. BloquesEnCamino'
    BY <1>4, <1>11, <2>2 DEF Inv, Swap, BloquesEnCamino
  <2>4. LecturaAntesDeLiberar'
    BY <1>4 DEF Inv, Swap, LecturaAntesDeLiberar
  <2> QED
    BY <2>2, <2>3, <2>4 DEF Swap
<1> QED
  BY <1>13, <1>14, <1>16, <1>17, <1>18, <1>19, <1>20 DEF Inv

(* The Kernel is told: the page fault ends.                                 *)
LEMMA PasoResponder ==
  ASSUME Inv, ResponderPageFault
  PROVE  Inv'
<1>1. /\ cargada # NULL /\ cargada' = NULL /\ page_fault' = NULL
      /\ Despertar(cargada, "PAGE_FAULT")
      /\ UNCHANGED <<ALGORITMO_REEMPLAZO, procesos, tabla_paginas, marcos, orden, espacio_usuario,
                     sem_control_swap_asign, creando, a_fs, a_memoria, bitmapSWAP, bloques,
                     escrituras, fallos, traduccion, memoria>>
  BY DEF ResponderPageFault, HiloFileSystem, tablas, canales, filesystem
<1>2. PICK p \in Procesos : p = cargada /\ page_fault = p
  BY <1>1 DEF Inv, TypeOK, UnFallo
<1>3. /\ estado' \in [Procesos -> Estados]
      /\ \A q \in Procesos : MovidaLegal(q)
      /\ \A q \in Procesos : estado[q] = "EXEC" => estado'[q] = "EXEC"
      /\ \A q \in Procesos : q # page_fault /\ estado[q] \in {"PAGE_FAULT", "EXIT"} =>
           estado'[q] = estado[q]
  BY <1>1, <1>2, Despierta DEF Activos
<1>4. TypeOK'
  BY <1>1, <1>3 DEF Inv, TypeOK
<1>5. Tablas'
  <2>1. Creados'
    BY <1>1, <1>3, CreadosQuedan DEF Inv, Tablas
  <2>2. NuncaModificada'
    BY <1>1 DEF Inv, Tablas, NuncaModificada
  <2> QED
    BY <2>1, <2>2 DEF Tablas
<1>6. UnaCreacion'
  BY <1>1 DEF Inv, UnaCreacion
<1>7. /\ \A k \in DOMAIN a_fs : a_fs[k].op # "LECTURA"
      /\ \A k \in DOMAIN a_memoria : a_memoria[k].op # "PAGINA"
  BY <1>1 DEF Inv, UnFallo, EnVuelo
<1>8. UnFallo'
  BY <1>1, <1>7 DEF UnFallo
<1>9. EsperaPagina'
  <2>1. traduccion # NULL => traduccion.proceso \in Procesos
    BY DEF Inv, TypeOK
  <2>2. fallos[p] = NULL
    BY <1>1, <1>2 DEF Inv, EsperaPagina
  <2>3. \A q \in Procesos : fallos[q] # NULL => estado'[q] = estado[q]
    BY <1>2, <1>3, <2>2 DEF Inv, EsperaPagina
  <2> QED
    BY <1>1, <1>3, <2>1, <2>3 DEF Inv, EsperaPagina
<1>10. Marco'
  <2>1. \A q \in Procesos, i \in Nat : EnCamino(q, i) => EnCamino(q, i)'
    BY <1>1 DEF EnCamino
  <2> QED
    BY <1>1, <2>1, MarcosQuedan DEF Inv
<1>11. Swap'
  <2>1. MismasPosiciones
    BY <1>1 DEF MismasPosiciones, SinSwap
  <2> QED
    BY <1>1, <2>1, SwapQueda DEF Inv
<1> QED
  BY <1>4, <1>5, <1>6, <1>8, <1>9, <1>10, <1>11 DEF Inv

-------------------------------------------------------------------------------
(* A page fault.                                                            *)

(* While no page is on its way every used frame holds a page in memory.     *)
LEMMA SinFallo ==
  ASSUME Inv, page_fault = NULL
  PROVE  /\ \A k \in DOMAIN a_fs : a_fs[k].op # "LECTURA"
         /\ \A k \in DOMAIN a_memoria : a_memoria[k].op # "PAGINA"
         /\ cargada = NULL
         /\ \A f \in Marcos : ~marcos[f].libre =>
              \E q \in procesos : \E j \in DOMAIN tabla_paginas[q] :
                /\ marcos[f].info_new = <<q, j>> /\ f \in ToSet(orden)
                /\ tabla_paginas[q][j].presente /\ tabla_paginas[q][j].nro_marco = f
<1>1. /\ \A m \in MensajesAFs : m.op = "LECTURA" => m.proceso # NULL
      /\ \A m \in MensajesAMemoria : m.proceso # NULL
  BY MensajesDeFs, ConstantesMemoria
<1>2. \A k \in DOMAIN a_fs : a_fs[k].op # "LECTURA"
  BY <1>1, MensajesEnCola DEF Inv, UnFallo, EnVuelo
<1>3. \A k \in DOMAIN a_memoria : a_memoria[k].op # "PAGINA"
  BY <1>1, MensajesEnCola DEF Inv, UnFallo, EnVuelo
<1>4. cargada = NULL
  BY DEF Inv, UnFallo
<1>5. ASSUME NEW f \in Marcos, ~marcos[f].libre
      PROVE  \E q \in procesos : \E j \in DOMAIN tabla_paginas[q] :
               /\ marcos[f].info_new = <<q, j>> /\ f \in ToSet(orden)
               /\ tabla_paginas[q][j].presente /\ tabla_paginas[q][j].nro_marco = f
  <2>1. PICK q \in Procesos : \E j \in 1..Paginas[q] :
          marcos[f].info_new = <<q, j>> /\ f \in ToSet(orden) /\ EnSuMarco(f, q, j)
    BY <1>5, PaginaDelMarco
  <2>2. PICK j \in 1..Paginas[q] :
          marcos[f].info_new = <<q, j>> /\ f \in ToSet(orden) /\ EnSuMarco(f, q, j)
    BY <2>1
  <2>3. ~EnCamino(q, j)
    <3>1. q # NULL
      BY ConstantesMemoria
    <3> QED
      BY <3>1, EnCaminoEsFallo
  <2>4. q \in procesos /\ tabla_paginas[q][j].presente /\ tabla_paginas[q][j].nro_marco = f
    BY <2>2, <2>3 DEF EnSuMarco
  <2>5. j \in DOMAIN tabla_paginas[q]
    BY <2>4, TablaDe
  <2> QED
    BY <2>2, <2>4, <2>5
<1> QED
  BY <1>2, <1>3, <1>4, <1>5

(* The tables t are those of before without the page that was in f.         *)
SinPaginaEn(t, f) ==
  /\ t \in [Procesos -> Seq(Pagina)]
  /\ \A q \in Procesos : /\ DOMAIN t[q] = DOMAIN tabla_paginas[q]
                         /\ Len(t[q]) = Len(tabla_paginas[q])
                         /\ q \notin procesos => t[q] = tabla_paginas[q]
  /\ \A q \in procesos : \A j \in DOMAIN tabla_paginas[q] :
       /\ t[q][j].nro_marco = tabla_paginas[q][j].nro_marco
       /\ t[q][j].pos_en_swap = tabla_paginas[q][j].pos_en_swap
       /\ ~t[q][j].modificado
       /\ t[q][j].presente => tabla_paginas[q][j].presente /\ tabla_paginas[q][j].nro_marco # f
       /\ tabla_paginas[q][j].presente /\ tabla_paginas[q][j].nro_marco # f => t[q][j].presente

LEMMA MarcoElegidoLibre ==
  ASSUME Inv, HayLibre
  PROVE  PrimerLibre \in Marcos /\ SinPaginaEn(tabla_paginas, PrimerLibre)
<1> DEFINE N == {g \in Marcos : marcos[g].libre}
<1>1. \A g \in Marcos : g \in Nat /\ \A h \in 0..g-1 : h \in Marcos /\ ~(g <= h)
  BY ConstantesMemoria DEF Marcos
<1>2. N # {} /\ N \subseteq Nat
  BY <1>1 DEF HayLibre
<1>3. PICK g \in N : \A h \in N : g <= h
  <2> HIDE DEF N
  <2> QED
    BY <1>2, HayMinimo
<1>4. \A h \in 0..g-1 : ~marcos[h].libre
  BY <1>1, <1>3
<1>5. PICK f : f = PrimerLibre
  OBVIOUS
<1>6. f \in Marcos /\ marcos[f].libre
  BY <1>3, <1>4, <1>5, Zenon DEF PrimerLibre
<1>7. tabla_paginas \in [Procesos -> Seq(Pagina)]
  BY DEF Inv, TypeOK
<1>8. \A q \in procesos : \A j \in DOMAIN tabla_paginas[q] :
        /\ ~tabla_paginas[q][j].modificado
        /\ tabla_paginas[q][j].presente => tabla_paginas[q][j].nro_marco # f
  <2>1. ASSUME NEW q \in procesos, NEW j \in DOMAIN tabla_paginas[q], tabla_paginas[q][j].presente
        PROVE  tabla_paginas[q][j].nro_marco # f
    <3>1. marcos[tabla_paginas[q][j].nro_marco] = [libre |-> FALSE, info_new |-> <<q, j>>]
      BY <2>1 DEF Inv, Marco, MarcosExclusivos
    <3>2. marcos[tabla_paginas[q][j].nro_marco].libre = FALSE
      BY <3>1
    <3> QED
      BY <1>6, <3>2
  <2>2. \A q \in procesos : \A j \in DOMAIN tabla_paginas[q] : ~tabla_paginas[q][j].modificado
    BY DEF Inv, TypeOK, Tablas, NuncaModificada
  <2> QED
    BY <2>1, <2>2
<1>9. SinPaginaEn(tabla_paginas, f)
  BY <1>7, <1>8 DEF SinPaginaEn
<1> QED
  BY <1>5, <1>6, <1>9

(* The victim: its page leaves, and nothing of it goes to swap.             *)
LEMMA MarcoElegidoVictima ==
  ASSUME Inv, page_fault = NULL, ~HayLibre
  PROVE  /\ Victima \in Marcos /\ SinPaginaEn(Quitar(tabla_paginas, Victima), Victima)
         /\ Guardado(Victima) = <<>>
<1>1. PICK f : f = Victima
  OBVIOUS
<1>2. f \in Marcos
  <2>1. 0 \in Marcos
    BY ConstantesMemoria DEF Marcos
  <2>2. 0 \in ToSet(orden)
    BY <2>1, SinFallo DEF HayLibre
  <2>3. orden \in Seq(Marcos) /\ orden # <<>>
    <3>1. orden \in Seq(Marcos) /\ DOMAIN orden # {}
      BY <2>2 DEF Inv, TypeOK, ToSet
    <3> QED
      BY <3>1
  <2> QED
    BY <1>1, <2>3, MensajeMenos DEF Victima
<1>3. ~marcos[f].libre
  BY <1>2 DEF HayLibre
<1>4. PICK p \in procesos : \E i \in DOMAIN tabla_paginas[p] :
        /\ marcos[f].info_new = <<p, i>>
        /\ tabla_paginas[p][i].presente /\ tabla_paginas[p][i].nro_marco = f
  BY <1>2, <1>3, SinFallo
<1>5. PICK i \in DOMAIN tabla_paginas[p] :
        /\ marcos[f].info_new = <<p, i>>
        /\ tabla_paginas[p][i].presente /\ tabla_paginas[p][i].nro_marco = f
  BY <1>4
<1>6. /\ marcos[f].info_new[1] = p /\ marcos[f].info_new[2] = i
      /\ p \in Procesos /\ tabla_paginas[p][i] \in Pagina
      /\ tabla_paginas \in [Procesos -> Seq(Pagina)]
  BY <1>5, TablaDe DEF Inv, TypeOK
<1>7. \A q \in procesos : \A j \in DOMAIN tabla_paginas[q] :
        /\ q \in Procesos /\ ~tabla_paginas[q][j].modificado
        /\ tabla_paginas[q][j].presente /\ tabla_paginas[q][j].nro_marco = f => q = p /\ j = i
  <2>1. ASSUME NEW q \in procesos, NEW j \in DOMAIN tabla_paginas[q],
               tabla_paginas[q][j].presente, tabla_paginas[q][j].nro_marco = f
        PROVE  q = p /\ j = i
    <3>1. marcos[tabla_paginas[q][j].nro_marco] = [libre |-> FALSE, info_new |-> <<q, j>>]
      BY <2>1 DEF Inv, Marco, MarcosExclusivos
    <3>2. marcos[tabla_paginas[q][j].nro_marco].info_new = <<q, j>>
      BY <3>1
    <3> QED
      BY <1>6, <2>1, <3>2
  <2>2. \A q \in procesos : q \in Procesos
    BY DEF Inv, TypeOK
  <2> QED
    BY <2>1, <2>2 DEF Inv, Tablas, NuncaModificada
<1>8. Guardado(f) = <<>>
  BY <1>6, <1>7, Zenon DEF Guardado
<1>9. PICK e \in Pagina : e = [tabla_paginas[p][i] EXCEPT !.presente = FALSE]
  BY <1>6 DEF Pagina
<1>10. PICK u : u = [tabla_paginas EXCEPT ![p] = [tabla_paginas[p] EXCEPT ![i] = e]]
  OBVIOUS
<1>11. /\ u \in [Procesos -> Seq(Pagina)]
       /\ \A q \in Procesos : DOMAIN u[q] = DOMAIN tabla_paginas[q] /\ Len(u[q]) = Len(tabla_paginas[q])
       /\ \A q \in Procesos : q # p => u[q] = tabla_paginas[q]
       /\ u[p][i] = e
       /\ \A q \in Procesos : \A j \in DOMAIN tabla_paginas[q] :
            q # p \/ j # i => u[q][j] = tabla_paginas[q][j]
  BY <1>6, <1>10, UnaEntrada
<1>12. PICK d \in Pagina : d = [e EXCEPT !.modificado = FALSE]
  BY DEF Pagina
<1>13. PICK t : t = [u EXCEPT ![p] = [u[p] EXCEPT ![i] = d]]
  OBVIOUS
<1>14. /\ t \in [Procesos -> Seq(Pagina)]
       /\ \A q \in Procesos : DOMAIN t[q] = DOMAIN u[q] /\ Len(t[q]) = Len(u[q])
       /\ \A q \in Procesos : q # p => t[q] = u[q]
       /\ t[p][i] = d
       /\ \A q \in Procesos : \A j \in DOMAIN u[q] : q # p \/ j # i => t[q][j] = u[q][j]
  <2>1. i \in DOMAIN u[p]
    BY <1>6, <1>11
  <2> QED
    BY <1>6, <1>11, <1>13, <2>1, UnaEntrada
<1>15. Quitar(tabla_paginas, f) = t
  <2>1. Quitar(tabla_paginas, f) = [tabla_paginas EXCEPT ![p][i].presente = FALSE,
                                                         ![p][i].modificado = FALSE]
    BY <1>6 DEF Quitar
  <2>2. [u EXCEPT ![p][i].modificado = FALSE] = t
    BY <1>11, <1>12, <1>13
  <2>3. u = [tabla_paginas EXCEPT ![p][i].presente = FALSE]
    BY <1>9, <1>10
  <2> QED
    BY <2>1, <2>2, <2>3, Zenon
<1>16. /\ ~d.presente /\ ~d.modificado /\ d.nro_marco = tabla_paginas[p][i].nro_marco
       /\ d.pos_en_swap = tabla_paginas[p][i].pos_en_swap
  <2>1. /\ ~e.presente /\ e.nro_marco = tabla_paginas[p][i].nro_marco
        /\ e.pos_en_swap = tabla_paginas[p][i].pos_en_swap
    BY <1>6, <1>9 DEF Pagina
  <2> QED
    BY <1>12, <2>1 DEF Pagina
<1>17. SinPaginaEn(t, f)
  <2>1. ASSUME NEW q \in procesos, NEW j \in DOMAIN tabla_paginas[q]
        PROVE  /\ t[q][j].nro_marco = tabla_paginas[q][j].nro_marco
               /\ t[q][j].pos_en_swap = tabla_paginas[q][j].pos_en_swap
               /\ ~t[q][j].modificado
               /\ t[q][j].presente => tabla_paginas[q][j].presente /\ tabla_paginas[q][j].nro_marco # f
               /\ tabla_paginas[q][j].presente /\ tabla_paginas[q][j].nro_marco # f => t[q][j].presente
    <3>1. CASE q = p /\ j = i
      <4>1. t[q][j] = d
        BY <1>14, <3>1
      <4> QED
        BY <1>5, <1>16, <3>1, <4>1
    <3>2. CASE ~(q = p /\ j = i)
      <4>1. t[q][j] = tabla_paginas[q][j]
        BY <1>7, <1>11, <1>14, <3>2
      <4>2. ~tabla_paginas[q][j].modificado
            /\ (tabla_paginas[q][j].presente => tabla_paginas[q][j].nro_marco # f)
        BY <1>7, <3>2
      <4> QED
        BY <4>1, <4>2
    <3> QED
      BY <3>1, <3>2
  <2>2. \A q \in Procesos : /\ DOMAIN t[q] = DOMAIN tabla_paginas[q]
                            /\ Len(t[q]) = Len(tabla_paginas[q])
                            /\ q \notin procesos => t[q] = tabla_paginas[q]
    BY <1>11, <1>14
  <2> QED
    BY <1>14, <2>1, <2>2 DEF SinPaginaEn
<1> QED
  BY <1>1, <1>2, <1>8, <1>15, <1>17

(* The page i of p is given the frame f, and is asked to the FileSystem.    *)
LEMMA PaginaConMarco ==
  ASSUME Inv, NEW p \in Procesos, PageFault(p),
         NEW i, i = fallos[p], NEW f \in Marcos, NEW t, SinPaginaEn(t, f),
         Cargar(p, i, f, t, <<>>)
  PROVE  Inv'
<1>1. /\ creando = NULL /\ page_fault = NULL /\ page_fault' = p /\ i # NULL /\ p \in procesos
      /\ fallos' = [fallos EXCEPT ![p] = NULL]
      /\ UNCHANGED <<ALGORITMO_REEMPLAZO, procesos, espacio_usuario, sem_control_swap_asign, creando,
                     cargada, a_memoria, bitmapSWAP, bloques, escrituras, estado, traduccion, memoria>>
  BY DEF PageFault, HiloKernel, hilos, filesystem
<1>2. /\ i \in 1..Paginas[p] /\ ~tabla_paginas[p][i].presente /\ p # NULL
      /\ estado[p] \in {"PAGE_FAULT", "EXIT"} /\ i \in DOMAIN tabla_paginas[p]
  BY <1>1, TablaDe DEF Inv, EsperaPagina
<1>3. /\ t \in [Procesos -> Seq(Pagina)]
      /\ \A q \in Procesos : /\ DOMAIN t[q] = DOMAIN tabla_paginas[q]
                             /\ Len(t[q]) = Len(tabla_paginas[q])
                             /\ q \notin procesos => t[q] = tabla_paginas[q]
      /\ \A q \in procesos : \A j \in DOMAIN tabla_paginas[q] :
           /\ t[q][j].nro_marco = tabla_paginas[q][j].nro_marco
           /\ t[q][j].pos_en_swap = tabla_paginas[q][j].pos_en_swap
           /\ ~t[q][j].modificado
           /\ t[q][j].presente => tabla_paginas[q][j].presente /\ tabla_paginas[q][j].nro_marco # f
           /\ tabla_paginas[q][j].presente /\ tabla_paginas[q][j].nro_marco # f => t[q][j].presente
  BY DEF SinPaginaEn
<1>4. t[p][i] \in Pagina /\ i \in DOMAIN t[p]
  BY <1>2, <1>3, ElementOfSeq, LenProperties
<1>5. PICK pos : pos = t[p][i].pos_en_swap
  OBVIOUS
<1>6. /\ pos = tabla_paginas[p][i].pos_en_swap /\ pos \in Bloques /\ bitmapSWAP[pos] /\ ~Ajeno(pos)
  <2>1. pos = tabla_paginas[p][i].pos_en_swap
    BY <1>1, <1>2, <1>3, <1>5
  <2>2. ~SinSwap(p)
    BY <1>1, <1>2 DEF SinSwap
  <2>3. pos # NULL /\ bitmapSWAP[pos]
    BY <1>1, <1>2, <2>1, <2>2 DEF Inv, Swap, PosicionesPropias
  <2>4. pos \in Bloques
    BY <1>4, <1>5, <2>3 DEF Pagina
  <2> QED
    BY <1>1, <1>2, <2>1, <2>3, <2>4 DEF Ajeno
<1>7. PICK m \in MensajesAFs : /\ m = LecturaDeSwap(p, i, pos) /\ m.op = "LECTURA"
                               /\ m.proceso = p /\ m.pagina = i /\ m.pos = pos
  <2>1. LecturaDeSwap(p, i, pos) = [op |-> "LECTURA", proceso |-> p, pagina |-> i, pos |-> pos]
    BY DEF LecturaDeSwap
  <2>2. i \in Nat \ {0}
    BY <1>2, ConstantesMemoria
  <2> QED
    BY <1>6, <2>1, <2>2 DEF MensajesAFs
<1>8. a_fs' = Append(a_fs, m)
  <2>1. a_fs' = a_fs \o <<>> \o <<m>>
    BY <1>5, <1>7 DEF Cargar
  <2>2. a_fs \in Seq(MensajesAFs) /\ a_fs \o <<>> = a_fs
    BY ConcatEmptySeq DEF Inv, TypeOK
  <2>3. a_fs \o <<m>> = Append(a_fs, m)
    BY <2>2, AppendIsConcat
  <2> QED
    BY <2>1, <2>2, <2>3
<1>9. /\ a_fs' \in Seq(MensajesAFs)
      /\ \A k \in DOMAIN a_fs : k \in DOMAIN a_fs' /\ a_fs'[k] = a_fs[k]
      /\ \A k \in DOMAIN a_fs' : \/ k \in DOMAIN a_fs /\ a_fs'[k] = a_fs[k]
                                 \/ k = Len(a_fs) + 1 /\ a_fs'[k] = m
      /\ Len(a_fs) + 1 \in DOMAIN a_fs' /\ a_fs'[Len(a_fs) + 1] = m
  BY <1>8, UltimoMensaje
<1>10. \A k \in DOMAIN a_fs' : a_fs'[k].op # "LECTURA" => k \in DOMAIN a_fs /\ a_fs'[k] = a_fs[k]
  BY <1>7, <1>9
<1>11. PICK e \in Pagina : /\ e = [t[p][i] EXCEPT !.nro_marco = f] /\ e.nro_marco = f
                           /\ e.presente = t[p][i].presente /\ e.modificado = t[p][i].modificado
                           /\ e.pos_en_swap = t[p][i].pos_en_swap
  <2>1. PICK e \in Pagina : e = [t[p][i] EXCEPT !.nro_marco = f]
    BY <1>4 DEF Pagina
  <2>2. /\ e.nro_marco = f
        /\ e.presente = t[p][i].presente /\ e.modificado = t[p][i].modificado
        /\ e.pos_en_swap = t[p][i].pos_en_swap
    BY <1>4, <2>1 DEF Pagina
  <2> QED
    BY <2>1, <2>2
<1>12. /\ tabla_paginas' \in [Procesos -> Seq(Pagina)]
       /\ \A q \in Procesos : DOMAIN tabla_paginas'[q] = DOMAIN t[q] /\ Len(tabla_paginas'[q]) = Len(t[q])
       /\ \A q \in Procesos : q # p => tabla_paginas'[q] = t[q]
       /\ tabla_paginas'[p][i] = e
       /\ \A q \in Procesos : \A j \in DOMAIN t[q] : q # p \/ j # i => tabla_paginas'[q][j] = t[q][j]
  <2>1. tabla_paginas' = [t EXCEPT ![p] = [t[p] EXCEPT ![i] = e]]
    BY <1>11 DEF Cargar
  <2> QED
    BY <1>3, <1>4, <2>1, UnaEntrada
<1>13. procesos \subseteq Procesos /\ procesos' = procesos
  BY <1>1 DEF Inv, TypeOK
<1>14. \A q \in procesos : \A j \in DOMAIN tabla_paginas[q] :
         /\ tabla_paginas'[q][j].pos_en_swap = tabla_paginas[q][j].pos_en_swap
         /\ ~tabla_paginas'[q][j].modificado
         /\ tabla_paginas'[q][j].presente => tabla_paginas[q][j].presente /\ tabla_paginas[q][j].nro_marco # f
         /\ tabla_paginas[q][j].presente /\ tabla_paginas[q][j].nro_marco # f => tabla_paginas'[q][j].presente
         /\ tabla_paginas[q][j].presente => tabla_paginas'[q][j].nro_marco = tabla_paginas[q][j].nro_marco
  <2> SUFFICES ASSUME NEW q \in procesos, NEW j \in DOMAIN tabla_paginas[q]
               PROVE  /\ tabla_paginas'[q][j].pos_en_swap = tabla_paginas[q][j].pos_en_swap
                      /\ ~tabla_paginas'[q][j].modificado
                      /\ tabla_paginas'[q][j].presente =>
                           tabla_paginas[q][j].presente /\ tabla_paginas[q][j].nro_marco # f
                      /\ tabla_paginas[q][j].presente /\ tabla_paginas[q][j].nro_marco # f =>
                           tabla_paginas'[q][j].presente
                      /\ tabla_paginas[q][j].presente =>
                           tabla_paginas'[q][j].nro_marco = tabla_paginas[q][j].nro_marco
    OBVIOUS
  <2>1. CASE q = p /\ j = i
    <3>1. tabla_paginas'[q][j] = e
      BY <1>12, <2>1
    <3>2. /\ ~tabla_paginas[q][j].presente /\ ~t[q][j].presente /\ ~t[q][j].modificado
          /\ t[q][j].pos_en_swap = tabla_paginas[q][j].pos_en_swap
      BY <1>2, <1>3, <2>1
    <3>3. ~e.presente /\ ~e.modificado /\ e.pos_en_swap = tabla_paginas[q][j].pos_en_swap
      BY <1>11, <2>1, <3>2, Zenon
    <3> QED
      BY <3>1, <3>2, <3>3
  <2>2. CASE ~(q = p /\ j = i)
    <3>1. tabla_paginas'[q][j] = t[q][j]
      BY <1>3, <1>12, <1>13, <2>2
    <3>2. /\ t[q][j].pos_en_swap = tabla_paginas[q][j].pos_en_swap /\ ~t[q][j].modificado
          /\ t[q][j].presente => tabla_paginas[q][j].presente /\ tabla_paginas[q][j].nro_marco # f
          /\ tabla_paginas[q][j].presente /\ tabla_paginas[q][j].nro_marco # f => t[q][j].presente
          /\ t[q][j].nro_marco = tabla_paginas[q][j].nro_marco
      BY <1>3
    <3> QED
      BY <3>1, <3>2
  <2> QED
    BY <2>1, <2>2
<1>15. tabla_paginas'[p][i].nro_marco = f /\ ~tabla_paginas'[p][i].presente
  BY <1>1, <1>2, <1>11, <1>12, <1>14
<1>16. /\ marcos' \in [Marcos -> [libre : BOOLEAN, info_new : Contenidos]]
       /\ marcos'[f] = [libre |-> FALSE, info_new |-> <<p, i>>]
       /\ \A g \in Marcos : g # f => marcos'[g] = marcos[g]
  <2>1. <<p, i>> \in Contenidos
    BY <1>2 DEF Contenidos
  <2>2. marcos' = [marcos EXCEPT ![f] = [libre |-> FALSE, info_new |-> <<p, i>>]]
    BY DEF Cargar, OcuparMarco
  <2> QED
    BY <2>1, <2>2 DEF Inv, TypeOK
<1>17. orden' \in Seq(Marcos) /\ ToSet(orden) \cup {f} \subseteq ToSet(orden')
  BY MarcoAlFinal DEF AlFinal, Inv, TypeOK, Cargar
<1>18. /\ fallos' \in [Procesos -> Nat \cup {NULL}] /\ fallos'[p] = NULL
       /\ \A q \in Procesos : q # p => fallos'[q] = fallos[q]
  BY <1>1 DEF Inv, TypeOK
<1>19. /\ \A k \in DOMAIN a_fs : a_fs[k].op # "LECTURA"
       /\ \A k \in DOMAIN a_memoria : a_memoria[k].op # "PAGINA"
       /\ cargada = NULL
       /\ \A g \in Marcos : ~marcos[g].libre =>
            \E q \in procesos : \E j \in DOMAIN tabla_paginas[q] :
              /\ marcos[g].info_new = <<q, j>> /\ g \in ToSet(orden)
              /\ tabla_paginas[q][j].presente /\ tabla_paginas[q][j].nro_marco = g
  BY <1>1, SinFallo
<1>20. TypeOK'
  BY <1>1, <1>9, <1>12, <1>16, <1>17, <1>18 DEF Inv, TypeOK
<1>21. \A q \in Procesos : /\ DOMAIN tabla_paginas'[q] = DOMAIN tabla_paginas[q]
                           /\ Len(tabla_paginas'[q]) = Len(tabla_paginas[q])
                           /\ q \notin procesos => tabla_paginas'[q] = tabla_paginas[q]
  BY <1>1, <1>3, <1>12
<1>22. Tablas'
  <2>1. Creados'
    BY <1>1, <1>21 DEF Inv, Tablas, Creados
  <2>2. NuncaModificada'
    BY <1>14, <1>21 DEF Inv, Tablas, NuncaModificada
  <2> QED
    BY <2>1, <2>2 DEF Tablas
<1>23. UnaCreacion'
  <2>1. \A k \in DOMAIN a_fs' : a_fs'[k].op = "ASIGNAR" => k \in DOMAIN a_fs /\ a_fs'[k] = a_fs[k]
    BY <1>10
  <2> QED
    BY <1>1, <2>1 DEF Inv, UnaCreacion
<1>24. UnFallo'
  <2>1. EnVuelo(m)'
    BY <1>1, <1>2, <1>7, <1>15, <1>16, <1>19 DEF EnVuelo
  <2>2. \A k \in DOMAIN a_fs' : a_fs'[k].op = "LECTURA" => k = Len(a_fs) + 1 /\ a_fs'[k] = m
    BY <1>9, <1>19
  <2>3. \A k \in DOMAIN a_fs' : a_fs'[k].op = "LECTURA" => EnVuelo(a_fs[k])'
    BY <2>1, <2>2 DEF EnVuelo
  <2>4. cargada' # NULL => page_fault' = cargada'
    BY <1>1, <1>19
  <2>5. \A k \in DOMAIN a_memoria' : a_memoria'[k].op # "PAGINA"
    BY <1>1, <1>19
  <2> QED
    BY <2>2, <2>3, <2>4, <2>5 DEF UnFallo
<1>25. EsperaPagina'
  <2>1. ASSUME NEW q \in Procesos, fallos'[q] # NULL
        PROVE  /\ estado'[q] \in {"PAGE_FAULT", "EXIT"} /\ fallos'[q] \in 1..Paginas[q]
               /\ q \in procesos' => ~tabla_paginas'[q][fallos'[q]].presente
    <3>1. q # p /\ fallos'[q] = fallos[q]
      BY <1>18, <2>1
    <3>2. /\ estado[q] \in {"PAGE_FAULT", "EXIT"} /\ fallos[q] \in 1..Paginas[q]
          /\ q \in procesos => ~tabla_paginas[q][fallos[q]].presente
      BY <2>1, <3>1 DEF Inv, EsperaPagina
    <3>3. ASSUME q \in procesos PROVE ~tabla_paginas'[q][fallos[q]].presente
      <4>1. fallos[q] \in DOMAIN tabla_paginas[q]
        BY <3>2, <3>3, TablaDe
      <4> QED
        BY <1>14, <3>2, <3>3, <4>1
    <3> QED
      BY <1>1, <3>1, <3>2, <3>3
  <2>2. traduccion' # NULL => estado'[traduccion'.proceso] = "EXEC"
    BY <1>1 DEF Inv, EsperaPagina
  <2>3. estado'[p] \in {"PAGE_FAULT", "EXIT"} /\ page_fault' = p /\ fallos'[p] = NULL
    BY <1>1, <1>2, <1>18
  <2> QED
    BY <2>1, <2>2, <2>3 DEF EsperaPagina
<1>26. Marco'
  <2>1. MarcosExclusivos'
    <3>1. ASSUME NEW q \in procesos', NEW j \in DOMAIN tabla_paginas'[q], tabla_paginas'[q][j].presente
          PROVE  marcos'[tabla_paginas'[q][j].nro_marco] = [libre |-> FALSE, info_new |-> <<q, j>>]
      <4>1. q \in procesos /\ j \in DOMAIN tabla_paginas[q]
        BY <1>13, <1>21
      <4>2. /\ tabla_paginas[q][j].presente /\ tabla_paginas[q][j].nro_marco # f
            /\ tabla_paginas'[q][j].nro_marco = tabla_paginas[q][j].nro_marco
        BY <1>14, <3>1, <4>1
      <4>3. /\ tabla_paginas[q][j].nro_marco \in Marcos
            /\ marcos[tabla_paginas[q][j].nro_marco] = [libre |-> FALSE, info_new |-> <<q, j>>]
        BY <4>1, <4>2 DEF Inv, Marco, Ocupados, MarcosExclusivos
      <4> QED
        BY <1>16, <4>2, <4>3
    <3> QED
      BY <3>1 DEF MarcosExclusivos
  <2>2. ASSUME NEW g \in Marcos, ~marcos'[g].libre, g # f
        PROVE  \E q \in procesos : \E j \in DOMAIN tabla_paginas[q] :
                 /\ marcos'[g].info_new = <<q, j>> /\ g \in ToSet(orden')
                 /\ tabla_paginas'[q][j].presente /\ tabla_paginas'[q][j].nro_marco = g
    <3>1. marcos'[g] = marcos[g]
      BY <1>16, <2>2
    <3>2. PICK q \in procesos : \E j \in DOMAIN tabla_paginas[q] :
            /\ marcos[g].info_new = <<q, j>> /\ g \in ToSet(orden)
            /\ tabla_paginas[q][j].presente /\ tabla_paginas[q][j].nro_marco = g
      BY <1>19, <2>2, <3>1
    <3>3. PICK j \in DOMAIN tabla_paginas[q] :
            /\ marcos[g].info_new = <<q, j>> /\ g \in ToSet(orden)
            /\ tabla_paginas[q][j].presente /\ tabla_paginas[q][j].nro_marco = g
      BY <3>2
    <3>4. tabla_paginas'[q][j].presente /\ tabla_paginas'[q][j].nro_marco = g
      BY <1>14, <2>2, <3>3
    <3> QED
      BY <1>17, <3>1, <3>3, <3>4
  <2>3. marcos'[f].info_new[1] = p /\ marcos'[f].info_new[2] = i /\ marcos'[f].info_new \in PaginasDeTodos
    <3>1. <<p, i>> \in PaginasDeTodos
      BY <1>2 DEF PaginasDeTodos
    <3> QED
      BY <1>16, <3>1
  <2>4. Ocupados'
    <3>1. ASSUME NEW q \in procesos', NEW j \in DOMAIN tabla_paginas'[q], tabla_paginas'[q][j].presente
          PROVE  tabla_paginas'[q][j].nro_marco \in Marcos
      <4>1. q \in procesos /\ j \in DOMAIN tabla_paginas[q]
        BY <1>13, <1>21
      <4> QED
        BY <1>14, <3>1, <4>1 DEF Inv, Marco, Ocupados
    <3>2. ASSUME NEW g \in Marcos, ~marcos'[g].libre
          PROVE  /\ g \in ToSet(orden') /\ marcos'[g].info_new \in PaginasDeTodos
                 /\ marcos'[g].info_new[1] \in procesos' =>
                      tabla_paginas'[marcos'[g].info_new[1]][marcos'[g].info_new[2]].nro_marco = g
      <4>1. CASE g = f
        BY <1>15, <1>17, <2>3, <4>1
      <4>2. CASE g # f
        <5>1. marcos'[g] = marcos[g] /\ marcos[g].info_new \in PaginasDeTodos
          BY <1>16, <3>2, <4>2 DEF Inv, Marco, Ocupados
        <5> QED
          BY <2>2, <3>2, <4>2, <5>1
      <4> QED
        BY <4>1, <4>2
    <3> QED
      BY <3>1, <3>2 DEF Ocupados
  <2>5. SinMarcosPerdidos'
    <3>1. ASSUME NEW g \in Marcos, ~marcos'[g].libre
          PROVE  \E q, j : q = marcos'[g].info_new[1] /\ j = marcos'[g].info_new[2] /\ EnSuMarco(g, q, j)'
      <4>1. CASE g = f
        <5>1. m \in ToSet(a_fs')
          BY <1>9 DEF ToSet
        <5>2. EnCamino(p, i)'
          BY <1>7, <5>1 DEF EnCamino
        <5>3. EnSuMarco(g, p, i)'
          BY <5>2 DEF EnSuMarco
        <5> QED
          BY <2>3, <4>1, <5>3
      <4>2. CASE g # f
        <5>1. PICK q \in procesos : \E j \in DOMAIN tabla_paginas[q] :
                /\ marcos'[g].info_new = <<q, j>>
                /\ tabla_paginas'[q][j].presente /\ tabla_paginas'[q][j].nro_marco = g
          BY <2>2, <3>1, <4>2
        <5>2. PICK j \in DOMAIN tabla_paginas[q] :
                /\ marcos'[g].info_new = <<q, j>>
                /\ tabla_paginas'[q][j].presente /\ tabla_paginas'[q][j].nro_marco = g
          BY <5>1
        <5>3. EnSuMarco(g, q, j)'
          BY <1>13, <5>2 DEF EnSuMarco
        <5> QED
          BY <5>2, <5>3
      <4> QED
        BY <4>1, <4>2
    <3> QED
      BY <3>1, MarcoPorMarco
  <2> QED
    BY <2>1, <2>4, <2>5 DEF Marco
<1>27. Swap'
  <2>1. MismasPosiciones
    BY <1>1, <1>13, <1>14, <1>21 DEF MismasPosiciones, SinSwap
  <2>2. PosicionesPropias' /\ \A b : Ajeno(b)' <=> Ajeno(b)
    BY <1>1, <2>1, PosicionesQuedan DEF Inv, Swap
  <2>3. BloquesEnCamino'
    <3>1. \A k \in DOMAIN a_fs' : a_fs'[k].op = "LIBERAR" => k \in DOMAIN a_fs /\ a_fs'[k] = a_fs[k]
      BY <1>10
    <3> QED
      BY <1>1, <2>2, <3>1 DEF Inv, Swap, BloquesEnCamino
  <2>4. LecturaAntesDeLiberar'
    <3>1. \A k \in DOMAIN a_fs : a_fs[k].op = "LIBERAR" => pos \notin a_fs[k].bloques
      BY <1>6 DEF Inv, Swap, BloquesEnCamino
    <3> QED
      BY <1>1, <1>6, <1>7, <1>8, <3>1, LecturasQuedan
  <2> QED
    BY <2>2, <2>3, <2>4 DEF Swap
<1> QED
  BY <1>20, <1>22, <1>23, <1>24, <1>25, <1>26, <1>27 DEF Inv

LEMMA PasoPageFault ==
  ASSUME Inv, NEW p \in Procesos, PageFault(p)
  PROVE  Inv'
<1>1. PICK i : i = fallos[p]
  OBVIOUS
<1>2. page_fault = NULL
  BY DEF PageFault
<1>3. CASE HayLibre
  <2>1. PICK f \in Marcos : f = PrimerLibre
    BY <1>3, MarcoElegidoLibre
  <2>2. PICK t : t = tabla_paginas
    OBVIOUS
  <2>3. SinPaginaEn(t, f)
    BY <1>3, <2>1, <2>2, MarcoElegidoLibre
  <2>4. Cargar(p, i, f, t, <<>>)
    BY <1>1, <1>3, <2>1, <2>2 DEF PageFault
  <2> QED
    BY <1>1, <2>3, <2>4, PaginaConMarco
<1>4. CASE ~HayLibre
  <2>1. PICK f \in Marcos : f = Victima
    BY <1>2, <1>4, MarcoElegidoVictima
  <2>2. PICK t : t = Quitar(tabla_paginas, f)
    OBVIOUS
  <2>3. SinPaginaEn(t, f) /\ Guardado(f) = <<>>
    BY <1>2, <1>4, <2>1, <2>2, MarcoElegidoVictima
  <2>4. Cargar(p, i, f, t, <<>>)
    BY <1>1, <1>4, <2>1, <2>2, <2>3 DEF PageFault
  <2> QED
    BY <1>1, <2>3, <2>4, PaginaConMarco
<1> QED
  BY <1>3, <1>4

-------------------------------------------------------------------------------
LEMMA InicioInv ==
  ASSUME Init
  PROVE  Inv
<1>1. /\ procesos = {} /\ tabla_paginas = [p \in Procesos |-> <<>>]
      /\ marcos = [f \in Marcos |-> MarcoLibre] /\ orden = <<>>
      /\ espacio_usuario = [f \in Marcos |-> Vacio]
      /\ sem_control_swap_asign = 0 /\ creando = NULL /\ cargada = NULL
      /\ a_fs = <<>> /\ a_memoria = <<>>
      /\ bitmapSWAP = [b \in Bloques |-> FALSE] /\ bloques = [b \in Bloques |-> Vacio]
      /\ escrituras = {} /\ estado = [p \in Procesos |-> "NEW"]
      /\ fallos = [p \in Procesos |-> NULL] /\ page_fault = NULL /\ traduccion = NULL
      /\ memoria = "VIVA" /\ ALGORITMO_REEMPLAZO \in Algoritmos
  BY DEF Init
<1>2. /\ DOMAIN a_fs = {} /\ DOMAIN a_memoria = {}
      /\ \A f \in Marcos : marcos[f].libre
      /\ \A p \in Procesos : tabla_paginas[p] = <<>>
  BY <1>1 DEF MarcoLibre
<1>3. TypeOK
  <2>1. MarcoLibre \in [libre : BOOLEAN, info_new : Contenidos] /\ Vacio \in Contenidos
    BY DEF MarcoLibre, Contenidos, Vacio
  <2>2. <<>> \in Seq(Pagina) /\ <<>> \in Seq(Marcos) /\ <<>> \in Seq(MensajesAFs)
        /\ <<>> \in Seq(MensajesAMemoria)
    BY EmptySeq
  <2>3. tabla_paginas \in [Procesos -> Seq(Pagina)]
    BY <1>1, <2>2
  <2>4. /\ marcos \in [Marcos -> [libre : BOOLEAN, info_new : Contenidos]]
        /\ espacio_usuario \in [Marcos -> Contenidos] /\ bloques \in [Bloques -> Contenidos]
    <3> HIDE DEF MarcoLibre, Vacio, Contenidos
    <3> QED
      BY <1>1, <2>1
  <2> QED
    BY <1>1, <2>2, <2>3, <2>4 DEF TypeOK, Estados
<1>4. Tablas
  <2>1. \A p \in Procesos : DOMAIN tabla_paginas[p] = {}
    BY <1>2
  <2> QED
    BY <1>1, <1>2, <2>1 DEF Tablas, Creados, NuncaModificada
<1>5. UnaCreacion /\ UnFallo /\ EsperaPagina
  BY <1>1, <1>2 DEF UnaCreacion, UnFallo, EsperaPagina
<1>6. Marco
  BY <1>1, <1>2 DEF Marco, Ocupados, MarcosExclusivos, SinMarcosPerdidos
<1>7. Swap
  BY <1>1, <1>2 DEF Swap, PosicionesPropias, BloquesEnCamino, LecturaAntesDeLiberar
<1> QED
  BY <1>3, <1>4, <1>5, <1>6, <1>7 DEF Inv

LEMMA PasoInv ==
  ASSUME Inv, [Next]_vars
  PROVE  Inv'
<1>1. CASE UNCHANGED vars
  <2>1. UNCHANGED <<ALGORITMO_REEMPLAZO, procesos, tabla_paginas, marcos, orden, espacio_usuario,
                    hilos, canales, filesystem, estado, pedidos, memoria>>
    BY <1>1 DEF vars, tablas
  <2>2. TypeOK'
    BY <2>1 DEF Inv, TypeOK, hilos, canales, filesystem, pedidos
  <2>3. EsperaPagina'
    BY <2>1 DEF Inv, EsperaPagina, pedidos
  <2> QED
    BY <2>1, <2>2, <2>3, PasoSinTablas DEF filesystem, pedidos, MovidaLegal
<1>2. CASE Next
  <2>1. ASSUME NEW p \in Procesos, NEW i \in DOMAIN tabla_paginas[p], ConsultarPagina(p, i) PROVE Inv'
    BY <2>1, PasoConsultarPagina
  <2>2. ASSUME NEW p \in Procesos,
               \/ Ejecutar(p) \/ Finalizar(p) \/ Desalojar(p, "READY") \/ Desalojar(p, "EXIT")
               \/ IniciarEstructura(p) \/ LiberarEstructura(p) \/ PageFault(p)
               \/ PageFaultSinProceso(p) \/ ConsultarFuera(p)
        PROVE  Inv'
    <3>1. CASE Ejecutar(p) \/ Finalizar(p) \/ Desalojar(p, "READY") \/ Desalojar(p, "EXIT")
      BY <3>1, PasoKernel
    <3>2. CASE IniciarEstructura(p)
      BY <3>2, PasoIniciar
    <3>3. CASE LiberarEstructura(p)
      BY <3>3, PasoLiberar
    <3>4. CASE PageFault(p)
      BY <3>4, PasoPageFault
    <3>5. CASE PageFaultSinProceso(p) \/ ConsultarFuera(p)
      BY <3>5, PasoCaer DEF PageFaultSinProceso, ConsultarFuera
    <3> QED
      BY <2>2, <3>1, <3>2, <3>3, <3>4, <3>5
  <2>3. CASE ConfirmarCreacion
    BY <2>3, PasoConfirmar
  <2>4. CASE Leer \/ Escribir
    BY <2>4, PasoAcceder
  <2>5. CASE FWrite
    BY <2>5, PasoFWrite
  <2>6. CASE AsignarPosiciones
    BY <2>6, PasoAsignar
  <2>7. CASE NoCoincide \/ LlegaPaginaSinProceso
    BY <2>7, PasoCaer DEF NoCoincide, LlegaPaginaSinProceso
  <2>8. CASE LlegaPagina
    BY <2>8, PasoLlegaPagina
  <2>9. CASE ResponderPageFault
    BY <2>9, PasoResponder
  <2>10. CASE \E e \in escrituras : CopiarMarco(e)
    BY <2>10, PasoCopiarMarco
  <2>11. CASE FsAsignar
    BY <2>11, PasoFsAsignar
  <2>12. CASE FsCambiarSwap
    BY <2>12, PasoCambiarSwap
  <2>13. CASE FsLeerSwap
    BY <2>13, PasoLeerSwap
  <2>14. CASE FsEscribirBloque
    BY <2>14, PasoEscribirBloque
  <2> QED
    BY <1>2, <2>1, <2>2, <2>3, <2>4, <2>5, <2>6, <2>7, <2>8, <2>9, <2>10, <2>11, <2>12, <2>13, <2>14
       DEF Next, Acciones
<1> QED
  BY <1>1, <1>2

LEMMA InvSiempre == Spec => []Inv
<1>1. Init => Inv
  BY InicioInv
<1>2. Inv /\ [Next]_vars => Inv'
  BY PasoInv
<1> QED
  BY <1>1, <1>2, PTL DEF Spec

-------------------------------------------------------------------------------
(* The types of the tables, the frames, swap, the messages and the requests *)
(* (TypeOK), whatever is sent, killed or evicted.                           *)
THEOREM TiposDeMemoria == Spec => []TypeOK
<1>1. Inv => TypeOK
  BY DEF Inv
<1> QED
  BY <1>1, InvSiempre, PTL

(* A page in memory has its frame to itself: atender_pagefault_kernel gives *)
(* a frame that is free or that its page has left, and liberar_marco only   *)
(* frees those of the process that ends (MarcosExclusivos).                 *)
THEOREM MarcosSiempreExclusivos == Spec => []MarcosExclusivos
<1>1. Inv => MarcosExclusivos
  BY DEF Inv, Marco
<1> QED
  BY <1>1, InvSiempre, PTL

(* No frame is lost: a used one holds a page in memory of a process that    *)
(* exists or waits for one on its way from swap, also when the process is   *)
(* killed meanwhile (SinMarcosPerdidos).                                    *)
THEOREM NingunMarcoSePierde == Spec => []SinMarcosPerdidos
<1>1. Inv => SinMarcosPerdidos
  BY DEF Inv, Marco
<1> QED
  BY <1>1, InvSiempre, PTL

(* When no frame is free every one has an order, so that                    *)
(* elegir_victima_segun_algoritmo finds a victim, under FIFO and under LRU  *)
(* (VictimaElegible).                                                       *)
THEOREM SiempreHayVictima == Spec => []VictimaElegible
<1>1. Inv => VictimaElegible
  <2> SUFFICES ASSUME Inv, ~HayLibre PROVE ToSet(orden) = Marcos
    BY DEF VictimaElegible
  <2>1. \A f \in Marcos : f \in ToSet(orden)
    BY DEF Inv, Marco, Ocupados, HayLibre
  <2>2. \A k \in DOMAIN orden : orden[k] \in Marcos
    BY ElementOfSeq, LenProperties DEF Inv, TypeOK
  <2>3. ToSet(orden) \subseteq Marcos
    BY <2>2 DEF ToSet
  <2> QED
    BY <2>1, <2>3
<1> QED
  BY <1>1, InvSiempre, PTL

(* The swap of a process is its own: its positions are used blocks, no      *)
(* other process has one of them, no message on its way frees one, and they *)
(* are one for each page or none yet (SwapExclusivo).                       *)
THEOREM SwapSiempreExclusivo == Spec => []SwapExclusivo
<1>1. Inv => SwapExclusivo
  <2> SUFFICES ASSUME Inv, NEW p \in procesos
               PROVE  /\ \A q \in procesos \ {p} : Posiciones(p) \cap Posiciones(q) = {}
                      /\ \A b \in Posiciones(p) : bitmapSWAP[b] /\ b \notin PorLiberar
                      /\ Cardinality(Posiciones(p)) \in {0, Len(tabla_paginas[p])}
    BY DEF SwapExclusivo
  <2>1. /\ \A i \in DOMAIN tabla_paginas[p] :
             /\ tabla_paginas[p][i].pos_en_swap = NULL => SinSwap(p)
             /\ SinSwap(p) => tabla_paginas[p][i].pos_en_swap = NULL
             /\ tabla_paginas[p][i].pos_en_swap # NULL =>
                  /\ bitmapSWAP[tabla_paginas[p][i].pos_en_swap]
                  /\ \A q \in procesos : \A j \in DOMAIN tabla_paginas[q] :
                       tabla_paginas[q][j].pos_en_swap = tabla_paginas[p][i].pos_en_swap
                       => q = p /\ j = i
    BY DEF Inv, Swap, PosicionesPropias
  <2>2. ASSUME NEW b \in Posiciones(p)
        PROVE  /\ bitmapSWAP[b] /\ b \notin PorLiberar
               /\ \A q \in procesos \ {p} : b \notin Posiciones(q)
    <3>1. PICK i \in DOMAIN tabla_paginas[p] : b = tabla_paginas[p][i].pos_en_swap /\ b # NULL
      BY DEF Posiciones
    <3>2. bitmapSWAP[b] /\ \A q \in procesos \ {p} : b \notin Posiciones(q)
      BY <2>1, <3>1 DEF Posiciones
    <3>3. ~Ajeno(b)
      BY <3>1 DEF Ajeno
    <3>4. b \notin PorLiberar
      BY <3>3 DEF PorLiberar, ToSet, Inv, Swap, BloquesEnCamino
    <3> QED
      BY <3>2, <3>4
  <2>3. Cardinality(Posiciones(p)) \in {0, Len(tabla_paginas[p])}
    <3>1. CASE SinSwap(p)
      <4>1. Posiciones(p) = {}
        BY <2>1, <3>1 DEF Posiciones
      <4> QED
        BY <4>1, FS_EmptySet
    <3>2. CASE ~SinSwap(p)
      <4>1. DOMAIN tabla_paginas[p] = 1..Paginas[p] /\ Len(tabla_paginas[p]) = Paginas[p]
            /\ Paginas[p] \in Nat
        BY TablaDe
      <4> DEFINE g == [i \in 1..Paginas[p] |-> tabla_paginas[p][i].pos_en_swap]
      <4>2. g \in Bijection(1..Paginas[p], Posiciones(p))
        <5>1. \A i \in 1..Paginas[p] : g[i] = tabla_paginas[p][i].pos_en_swap /\ g[i] # NULL
          BY <2>1, <3>2, <4>1
        <5>2. g \in [1..Paginas[p] -> Posiciones(p)]
          BY <4>1, <5>1 DEF Posiciones
        <5>3. \A i \in 1..Paginas[p], j \in 1..Paginas[p] : g[i] = g[j] => i = j
          BY <2>1, <4>1, <5>1
        <5>4. \A b \in Posiciones(p) : \E i \in 1..Paginas[p] : g[i] = b
          BY <4>1, <5>1 DEF Posiciones
        <5> HIDE DEF g
        <5> QED
          BY <5>2, <5>3, <5>4 DEF Bijection, Injection, IsInjective, Surjection
      <4>3. IsFiniteSet(1..Paginas[p]) /\ Cardinality(1..Paginas[p]) = Paginas[p]
        BY <4>1, FS_Interval
      <4> HIDE DEF g
      <4>4. Cardinality(Posiciones(p)) = Paginas[p]
        BY <4>2, <4>3, FS_Bijection DEF ExistsBijection
      <4> QED
        BY <4>1, <4>4
    <3> QED
      BY <3>1, <3>2
  <2> QED
    BY <2>2, <2>3
<1> QED
  BY <1>1, InvSiempre, PTL

(* What the FileSystem is asked to read from swap is still the page's when  *)
(* it reads it, also when the process is killed between the page fault and  *)
(* its answer (LecturaAntesDeLiberar).                                      *)
THEOREM SeLeeAntesDeLiberar == Spec => []LecturaAntesDeLiberar
<1>1. Inv => LecturaAntesDeLiberar
  BY DEF Inv, Swap
<1> QED
  BY <1>1, InvSiempre, PTL
===============================================================================
