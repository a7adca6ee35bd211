--------------------------- MODULE Archivos_proofs ----------------------------
(***************************************************************************)
(* Theorems about Archivos, for any number of processes and of files and   *)
(* any bound: the locks of a file exclude each other, nobody sleeps in the *)
(* queue of a free file, a process waits for one thing at a time, and the  *)
(* FileSystem is only asked for what it has.                               *)
(***************************************************************************)
EXTENDS Archivos, Listas_proofs, FiniteSetTheorems

-------------------------------------------------------------------------------
(* The inductive invariant.                                                 *)

(* No PCB is twice in a queue nor in two of them; one that is in a queue is *)
(* in BLOCKED or dead, opened the file and waits for no answer.             *)
Espera ==
  /\ \A f \in Nombres : IsInjective(cola_block_procesos[f])
  /\ \A p \in Procesos, f \in Nombres : EnCola(f, p) =>
       /\ estado[p] \in {"BLOCKED", "EXIT"} /\ TieneEntrada(p, f)
       /\ \A g \in Nombres : EnCola(g, p) => g = f
       /\ estado[p] # "EXIT" => \A m \in pedidos : m.pcb # p
  /\ UnPedidoPorBloqueado

(* Already out of its queue, and with nothing else to wait for.             *)
Servido(p) ==
  /\ \A f \in Nombres : ~EnCola(f, p)
  /\ estado[p] # "EXIT" => \A m \in pedidos : m.pcb # p

(* Where the dispatch thread waits: opening a file for a process that is    *)
(* still in EXEC, or giving locks for reading to those that waited for one. *)
Despacho ==
  /\ despacho.op \in {"ABRIENDO", "CREANDO"} =>
       /\ despacho.pcb \in Procesos /\ despacho.archivo \in Nombres
       /\ despacho.modo \in Modos /\ estado[despacho.pcb] = "EXEC"
  /\ despacho.op \in {"DESPIERTA", "REPARTE", "SIGUE"} =>
       /\ despacho.pcb \in Procesos /\ despacho.archivo \in Nombres
       /\ TieneEntrada(despacho.pcb, despacho.archivo)
       /\ IF despacho.op = "REPARTE" /\ cola_block_procesos[despacho.archivo] # <<>>
          THEN despacho.pcb = Head(cola_block_procesos[despacho.archivo])
          ELSE Servido(despacho.pcb)
  /\ despacho.op = "DESPIERTA" => despacho.modo \in Modos
  /\ despacho.op \in {"REPARTE", "SIGUE"} \/ (despacho.op = "DESPIERTA" /\ despacho.modo = "R") =>
       lock_lectura[despacho.archivo].locked

(* The files of the Kernel are files of the FileSystem, but for the one     *)
(* that is being created.                                                   *)
Conocidos ==
  /\ \A m \in pedidos :
       /\ m.pcb = NULL <=> m.op \in {"ABRIR", "CREAR"}
       /\ m.op = "CREAR" => despacho.op = "CREANDO" /\ despacho.archivo = m.archivo
  /\ \A f \in lista_archivos_abiertos :
       f \in fcbs \/ (despacho.op = "CREANDO" /\ despacho.archivo = f)
  /\ \A p \in Procesos : \A i \in DOMAIN archivos_abiertos[p] :
       archivos_abiertos[p][i].archivo \in fcbs
  /\ FileSystemConoce

Inv == TypeOK /\ LocksExcluyentes /\ ColaConLock /\ Espera /\ Despacho /\ Conocidos

Abierto == [archivo : Nombres, modo : Modos, otorgado : BOOLEAN]

-------------------------------------------------------------------------------
(* obtener_archivo_pcb finds the entry, when there is one, and giving the   *)
(* lock touches that entry only.                                            *)
LEMMA PrimeraEntrada ==
  ASSUME NEW s \in Seq(Abierto), NEW f, \E i \in DOMAIN s : s[i].archivo = f
  PROVE  /\ Primera(s, f) \in 1..Len(s) /\ DOMAIN s = 1..Len(s)
         /\ s[Primera(s, f)] \in Abierto
         /\ s[Primera(s, f)].archivo = f
<1>1. Len(s) \in Nat /\ DOMAIN s = 1..Len(s)
  BY LenProperties
<1> DEFINE N == {i \in 1..Len(s) : s[i].archivo = f}
<1>2. N # {} /\ N \in SUBSET (1..Len(s))
  BY <1>1
<1>3. \E k \in N : \A j \in 1..(k - 1) : j \notin N
  <2> HIDE DEF N
  <2> QED
    BY <1>1, <1>2, HayPrimera
<1>4. \E k \in DOMAIN s : s[k].archivo = f /\ \A j \in 1..(k - 1) : s[j].archivo # f
  BY <1>1, <1>3
<1>5. /\ Primera(s, f) \in DOMAIN s /\ s[Primera(s, f)].archivo = f
  BY <1>4, Zenon DEF Primera
<1> QED
  BY <1>1, <1>5, ElementOfSeq

LEMMA OtorgarEntrada ==
  ASSUME NEW s \in Seq(Abierto), NEW f, \E i \in DOMAIN s : s[i].archivo = f
  PROVE  /\ Otorgado(s, f) \in Seq(Abierto) /\ DOMAIN Otorgado(s, f) = DOMAIN s
         /\ \A i \in DOMAIN s : Otorgado(s, f)[i].archivo = s[i].archivo
         /\ Primera(s, f) \in DOMAIN s
         /\ Otorgado(s, f)[Primera(s, f)].otorgado
         /\ Otorgado(s, f)[Primera(s, f)].archivo = f
<1> DEFINE k == Primera(s, f)
           e == [s[k] EXCEPT !.otorgado = TRUE]
<1>1. /\ k \in 1..Len(s) /\ DOMAIN s = 1..Len(s)
      /\ s[k] \in Abierto /\ s[k].archivo = f
  BY PrimeraEntrada
<1>2. e \in Abierto /\ e.otorgado /\ e.archivo = f
  BY <1>1 DEF Abierto
<1>3. Otorgado(s, f) = [s EXCEPT ![k] = e]
  BY Zenon DEF Otorgado
<1> HIDE DEF k, e
<1>4. /\ [s EXCEPT ![k] = e] \in Seq(Abierto)
      /\ \A j \in 1..Len(s) : [s EXCEPT ![k] = e][j] = IF j = k THEN e ELSE s[j]
  BY <1>1, <1>2, ExceptSeq
<1> QED
  BY <1>1, <1>2, <1>3, <1>4 DEF k

(* What every handler may use of a process in EXEC: it is in no queue, and  *)
(* nobody works for it.                                                     *)
LEMMA EnExecNoEspera ==
  ASSUME Inv, NEW p \in Procesos, estado[p] = "EXEC"
  PROVE  /\ \A f \in Nombres : ~EnCola(f, p)
         /\ \A m \in pedidos : m.pcb # p
<1>1. \A f \in Nombres : ~EnCola(f, p)
  BY DEF Inv, Espera
<1>2. ASSUME NEW m \in pedidos, m.pcb = p PROVE FALSE
  <2>1. m.pcb # NULL
    BY <1>2, ConstantesArchivos
  <2> QED
    BY <1>2, <2>1 DEF Inv, Espera, UnPedidoPorBloqueado
<1> QED
  BY <1>1, <1>2

-------------------------------------------------------------------------------
(* One lemma for each step.                                                 *)

LEMMA PasoEjecutar ==
  ASSUME Inv, NEW p \in Procesos, Ejecutar(p) \/ Reubicar(p) \/ Salir(p) \/ Finalizar(p)
  PROVE  Inv'
<1>1. /\ estado' \in [Procesos -> {"READY", "EXEC", "BLOCKED", "EXIT"}]
      /\ \A q \in Procesos \ {p} : estado'[q] = estado[q]
      /\ UNCHANGED <<archivos_abiertos, lista_archivos_abiertos, locks, despacho, filesystem, kernel>>
  BY DEF Ejecutar, Reubicar, Salir, Finalizar, Inv, TypeOK
<1>2. \/ estado'[p] = "EXIT"
      \/ estado'[p] \in {"READY", "EXEC"} /\ estado[p] \in {"READY", "EXEC"}
  BY DEF Ejecutar, Reubicar, Salir, Finalizar, Atrapa, Inv, TypeOK
<1>3. estado[p] = "EXEC" => despacho.op = "LIBRE"
  BY DEF Ejecutar, Reubicar, Salir, Finalizar, Atrapa, EnHandler
<1>4. TypeOK'
  BY <1>1 DEF Inv, TypeOK, locks, filesystem
<1>5. LocksExcluyentes' /\ ColaConLock'
  BY <1>1 DEF Inv, LocksExcluyentes, ColaConLock, locks
<1>6. Espera'
  <2>1. \A m \in pedidos : m.pcb # NULL => m.pcb \in Procesos
    BY DEF Inv, TypeOK, Peticiones
  <2>2. UnPedidoPorBloqueado'
    BY <1>1, <1>2, <2>1 DEF Inv, Espera, UnPedidoPorBloqueado, filesystem
  <2> QED
    BY <1>1, <1>2, <2>2 DEF Inv, Espera, EnCola, TieneEntrada, locks, filesystem
<1>7. Despacho'
  <2>1. \A q \in Procesos : Servido(q) => Servido(q)'
    BY <1>1, <1>2 DEF Servido, EnCola, locks, filesystem
  <2> QED
    BY <1>1, <1>2, <1>3, <2>1 DEF Inv, Despacho, TieneEntrada, locks
<1>8. Conocidos'
  BY <1>1 DEF Inv, Conocidos, FileSystemConoce, filesystem
<1> QED
  BY <1>4, <1>5, <1>6, <1>7, <1>8 DEF Inv

(* The lock is given to p, or p is put at the end of the queue.             *)
LEMMA PasoConceder ==
  ASSUME Inv, NEW p \in Procesos, NEW f \in Nombres, NEW m \in Modos,
         estado[p] = "EXEC", ConcederOBloquear(p, f, m),
         pedidos' \subseteq pedidos, fcbs \subseteq fcbs', f \in fcbs',
         fcbs' \subseteq Nombres, lista_archivos_abiertos' \subseteq fcbs',
         \A n \in pedidos' : n.op # "CREAR", kernel' = kernel
  PROVE  Inv'
<1> DEFINE e == [archivo |-> f, modo |-> m, otorgado |-> FALSE]
           s == archivos_abiertos[p]
           nuevas == Append(s, e)
           da == PuedeAbrir(f, m)
<1>1. s \in Seq(Abierto) /\ e \in Abierto
  BY DEF Inv, TypeOK, Abierto
<1>2. /\ nuevas \in Seq(Abierto) /\ DOMAIN nuevas = 1..(Len(s) + 1)
      /\ DOMAIN s = 1..Len(s) /\ Len(s) \in Nat
      /\ \A i \in 1..Len(s) : nuevas[i] = s[i]
      /\ nuevas[Len(s) + 1] = e
  BY <1>1, AppendProperties, LenProperties
<1>3. \E i \in DOMAIN nuevas : nuevas[i].archivo = f
  BY <1>2
<1>4. /\ Otorgado(nuevas, f) \in Seq(Abierto)
      /\ DOMAIN Otorgado(nuevas, f) = DOMAIN nuevas
      /\ \A i \in DOMAIN nuevas : Otorgado(nuevas, f)[i].archivo = nuevas[i].archivo
  <2> HIDE DEF nuevas, e, s
  <2> QED
    BY <1>2, <1>3, OtorgarEntrada
<1>5. PICK t \in Seq(Abierto) :
        /\ archivos_abiertos' = [archivos_abiertos EXCEPT ![p] = t]
        /\ DOMAIN t = 1..(Len(s) + 1)
        /\ \A i \in 1..Len(s) : t[i].archivo = s[i].archivo
        /\ t[Len(s) + 1].archivo = f
  <2>1. archivos_abiertos' = [archivos_abiertos EXCEPT ![p] =
          IF da THEN Otorgado(nuevas, f) ELSE nuevas]
    BY Zenon DEF ConcederOBloquear
  <2>2. e.archivo = f
    OBVIOUS
  <2> DEFINE t == IF da THEN Otorgado(nuevas, f) ELSE nuevas
  <2>3. archivos_abiertos' = [archivos_abiertos EXCEPT ![p] = t]
    BY <2>1
  <2> HIDE DEF nuevas, e, da, s
  <2>4. /\ t \in Seq(Abierto) /\ DOMAIN t = 1..(Len(s) + 1)
        /\ \A i \in 1..Len(s) : t[i].archivo = s[i].archivo
        /\ t[Len(s) + 1].archivo = f
    <3>1. Len(s) + 1 \in 1..(Len(s) + 1) /\ 1..Len(s) \subseteq 1..(Len(s) + 1)
      BY <1>2
    <3>2. CASE da
      BY <1>2, <1>4, <2>2, <3>1, <3>2
    <3>3. CASE ~da
      BY <1>2, <2>2, <3>1, <3>3
    <3> QED
      BY <3>2, <3>3
  <2> HIDE DEF t
  <2> QED
    BY <2>3, <2>4
<1> HIDE DEF nuevas, e
<1>6. /\ estado' = IF da THEN estado ELSE [estado EXCEPT ![p] = "BLOCKED"]
      /\ cola_block_procesos' = IF da THEN cola_block_procesos ELSE
           [cola_block_procesos EXCEPT ![f] = Append(cola_block_procesos[f], p)]
      /\ despacho' = Libre
  BY DEF ConcederOBloquear, Bloquear
<1>7. /\ archivos_abiertos \in [Procesos -> Seq(Abierto)]
      /\ archivos_abiertos' \in [Procesos -> Seq(Abierto)]
      /\ \A q \in Procesos, g \in Nombres : TieneEntrada(q, g) => TieneEntrada(q, g)'
      /\ TieneEntrada(p, f)'
  <2>1. archivos_abiertos \in [Procesos -> Seq(Abierto)]
    BY DEF Inv, TypeOK, Abierto
  <2>2. TieneEntrada(p, f)'
    BY <1>2, <1>5, <2>1 DEF TieneEntrada
  <2>3. ASSUME NEW q \in Procesos, NEW g \in Nombres, TieneEntrada(q, g)
        PROVE  TieneEntrada(q, g)'
    <3>1. CASE q = p
      BY <1>2, <1>5, <2>1, <2>3, <3>1 DEF TieneEntrada
    <3>2. CASE q # p
      BY <1>5, <2>1, <2>3, <3>2 DEF TieneEntrada
    <3> QED
      BY <3>1, <3>2
  <2> QED
    BY <1>5, <2>1, <2>2, <2>3
<1>8. /\ \A g \in Nombres : ~EnCola(g, p)
      /\ \A n \in pedidos : n.pcb # p
  BY EnExecNoEspera
<1>9. /\ cola_block_procesos' \in [Nombres -> Seq(Procesos)]
      /\ \A g \in Nombres \ {f} : cola_block_procesos'[g] = cola_block_procesos[g]
      /\ ToSet(cola_block_procesos'[f]) =
           ToSet(cola_block_procesos[f]) \cup (IF da THEN {} ELSE {p})
      /\ IsInjective(cola_block_procesos'[f])
  <2>1. /\ cola_block_procesos \in [Nombres -> Seq(Procesos)]
        /\ cola_block_procesos[f] \in Seq(Procesos)
        /\ IsInjective(cola_block_procesos[f]) /\ p \notin ToSet(cola_block_procesos[f])
    BY <1>8 DEF Inv, TypeOK, Espera, EnCola
  <2> DEFINE c == Append(cola_block_procesos[f], p)
  <2>2. /\ c \in Seq(Procesos) /\ IsInjective(c)
        /\ ToSet(c) = ToSet(cola_block_procesos[f]) \cup {p}
    BY <2>1, ListaConAppend
  <2>3. cola_block_procesos' = IF da THEN cola_block_procesos ELSE
           [cola_block_procesos EXCEPT ![f] = c]
    BY <1>6
  <2> HIDE DEF c, da
  <2> QED
    BY <2>1, <2>2, <2>3
<1>10. estado' \in [Procesos -> {"READY", "EXEC", "BLOCKED", "EXIT"}]
  BY <1>6 DEF Inv, TypeOK
<1>11. /\ lock_lectura' \in [Nombres -> [locked : BOOLEAN, cantidad : Int]]
       /\ lock_escritura' \in [Nombres -> BOOLEAN]
       /\ LocksExcluyentes'
       /\ \A g \in Nombres : lock_lectura[g].locked => lock_lectura'[g].locked
       /\ \A g \in Nombres : lock_escritura[g] => lock_escritura'[g]
       /\ ~da => lock_lectura[f].locked \/ lock_escritura[f]
  <2>1. /\ lock_lectura \in [Nombres -> [locked : BOOLEAN, cantidad : Int]]
        /\ lock_escritura \in [Nombres -> BOOLEAN]
    BY DEF Inv, TypeOK
  <2>2. /\ lock_lectura' = IF da /\ m = "R"
                     THEN [lock_lectura EXCEPT ![f] = ConLector(lock_lectura[f])] ELSE lock_lectura
        /\ lock_escritura' = IF da /\ m = "W"
                       THEN [lock_escritura EXCEPT ![f] = TRUE]
                       ELSE lock_escritura
    BY DEF ConcederOBloquear
  <2>3. /\ ConLector(lock_lectura[f]) \in [locked : BOOLEAN, cantidad : Int]
        /\ ConLector(lock_lectura[f]).locked
    BY <2>1 DEF ConLector
  <2>4. lock_lectura' \in [Nombres -> [locked : BOOLEAN, cantidad : Int]]
    BY <2>1, <2>2, <2>3
  <2>5. LocksExcluyentes'
    BY <2>1, <2>2, <2>3 DEF Inv, LocksExcluyentes, PuedeAbrir, Modos
  <2> QED
    BY <2>1, <2>2, <2>3, <2>4, <2>5 DEF PuedeAbrir, Modos
<1> HIDE DEF da
<1>12. TypeOK'
  <2>1. despacho' \in [op : Ops, pcb : Procesos \cup {NULL}, archivo : Nombres \cup {NULL},
                       modo : Modos \cup {NULL}]
    BY <1>6 DEF Libre, Ops
  <2>2. kernel' \in {"VIVO", "CAIDO"} /\ pedidos' \subseteq Peticiones
    BY DEF Inv, TypeOK
  <2> QED
    BY <1>7, <1>9, <1>10, <1>11, <2>1, <2>2 DEF TypeOK, Abierto
<1>13. ColaConLock'
  <2>1. ASSUME NEW g \in Nombres, cola_block_procesos'[g] # <<>>
        PROVE  lock_lectura'[g].locked \/ lock_escritura'[g]
    <3>1. CASE da
      BY <1>6, <1>11, <2>1, <3>1 DEF Inv, ColaConLock
    <3>2. CASE g # f
      BY <1>9, <1>11, <2>1, <3>2 DEF Inv, ColaConLock
    <3>3. CASE g = f /\ ~da
      BY <1>11, <3>3
    <3> QED
      BY <3>1, <3>2, <3>3
  <2> QED
    BY <2>1 DEF ColaConLock
<1>14. Espera'
  <2>1. \A g \in Nombres : IsInjective(cola_block_procesos'[g])
    BY <1>9 DEF Inv, Espera
  <2>2. ASSUME NEW q \in Procesos, NEW g \in Nombres, EnCola(g, q)'
        PROVE  /\ estado'[q] \in {"BLOCKED", "EXIT"} /\ TieneEntrada(q, g)'
               /\ \A h \in Nombres : EnCola(h, q)' => h = g
               /\ estado'[q] # "EXIT" => \A n \in pedidos' : n.pcb # q
    <3>1. CASE EnCola(g, q)
      <4>1. q # p
        BY <1>8, <3>1
      <4>2. \A h \in Nombres : EnCola(h, q)' => EnCola(h, q)
        BY <1>9, <4>1 DEF EnCola
      <4>3. estado'[q] = estado[q]
        BY <1>6, <4>1
      <4> QED
        BY <1>7, <3>1, <4>2, <4>3 DEF Inv, Espera
    <3>2. CASE ~EnCola(g, q)
      <4>1. q = p /\ g = f /\ ~da
        BY <1>9, <2>2, <3>2 DEF EnCola
      <4>2. \A h \in Nombres : EnCola(h, p)' => h = f
        BY <1>8, <1>9 DEF EnCola
      <4>3. estado'[p] = "BLOCKED"
        BY <1>6, <4>1 DEF Inv, TypeOK
      <4> QED
        BY <1>7, <1>8, <4>1, <4>2, <4>3
    <3> QED
      BY <3>1, <3>2
  <2>3. UnPedidoPorBloqueado'
    <3>1. ASSUME NEW n \in pedidos', n.pcb # NULL, estado'[n.pcb] # "EXIT"
          PROVE  estado'[n.pcb] = "BLOCKED" /\ \A o \in pedidos' : o.pcb = n.pcb => o = n
      <4>1. n \in pedidos /\ n.pcb # p
        BY <1>8, <3>1
      <4>2. estado'[n.pcb] = estado[n.pcb]
        BY <1>6, <4>1
      <4> QED
        BY <3>1, <4>1, <4>2 DEF Inv, Espera, UnPedidoPorBloqueado
    <3> QED
      BY <3>1 DEF UnPedidoPorBloqueado
  <2> QED
    BY <2>1, <2>2, <2>3 DEF Espera
<1>15. Despacho'
  BY <1>6 DEF Despacho, Libre
<1>16. Conocidos'
  <2>1. \A n \in pedidos' : n.pcb = NULL <=> n.op \in {"ABRIR", "CREAR"}
    BY DEF Inv, Conocidos
  <2>2. FileSystemConoce'
    BY DEF Inv, Conocidos, FileSystemConoce
  <2>3. ASSUME NEW q \in Procesos, NEW i \in DOMAIN archivos_abiertos'[q]
        PROVE  archivos_abiertos'[q][i].archivo \in fcbs'
    <3>1. CASE q = p
      <4>1. archivos_abiertos'[q] = t
        BY <1>5, <1>7, <3>1
      <4>2. \A j \in 1..Len(s) : s[j].archivo \in fcbs
        BY <1>2 DEF Inv, Conocidos
      <4>3. i \in 1..Len(s) \/ i = Len(s) + 1
        BY <1>2, <1>5, <2>3, <4>1
      <4> HIDE DEF s
      <4> QED
        BY <1>5, <4>1, <4>2, <4>3
    <3>2. CASE q # p
      BY <1>5, <2>3, <3>2 DEF Inv, Conocidos
    <3> QED
      BY <3>1, <3>2
  <2> QED
    BY <2>1, <2>2, <2>3 DEF Conocidos
<1> QED
  BY <1>11, <1>12, <1>13, <1>14, <1>15, <1>16 DEF Inv

LEMMA PasoFOpen ==
  ASSUME Inv, NEW p \in Procesos, NEW f \in Nombres, NEW m \in Modos, FOpen(p, f, m)
  PROVE  Inv'
<1>1. estado[p] = "EXEC" /\ despacho.op = "LIBRE"
  BY DEF FOpen, Atrapa, EnHandler
<1>2. CASE AbrirPrimeraVez(p, f, m)
  <2>1. /\ pedidos' = pedidos \cup {[op |-> "ABRIR", pcb |-> NULL, archivo |-> f]}
        /\ despacho' = [op |-> "ABRIENDO", pcb |-> p, archivo |-> f, modo |-> m]
        /\ UNCHANGED <<estado, archivos_abiertos, lista_archivos_abiertos, locks, fcbs, kernel>>
    BY <1>2 DEF AbrirPrimeraVez, Pedido, Atender
  <2>2. TypeOK'
    <3>1. pedidos' \subseteq Peticiones
      BY <2>1 DEF Inv, TypeOK, Peticiones
    <3>2. despacho' \in [op : Ops, pcb : Procesos \cup {NULL}, archivo : Nombres \cup {NULL},
                         modo : Modos \cup {NULL}]
      BY <2>1 DEF Ops
    <3> QED
      BY <2>1, <3>1, <3>2 DEF Inv, TypeOK, locks
  <2>3. LocksExcluyentes' /\ ColaConLock'
    BY <2>1 DEF Inv, LocksExcluyentes, ColaConLock, locks
  <2>4. Espera'
    <3>1. UnPedidoPorBloqueado'
      BY <2>1 DEF Inv, Espera, UnPedidoPorBloqueado
    <3>2. \A q \in Procesos : q # NULL
      BY ConstantesArchivos
    <3> QED
      BY <2>1, <3>1, <3>2 DEF Inv, Espera, EnCola, TieneEntrada, locks
  <2>5. Despacho'
    BY <1>1, <2>1 DEF Inv, Despacho, TieneEntrada
  <2>6. Conocidos'
    BY <1>1, <2>1 DEF Inv, Conocidos, FileSystemConoce
  <2> QED
    BY <2>2, <2>3, <2>4, <2>5, <2>6 DEF Inv
<1>3. CASE f \in lista_archivos_abiertos /\ ConcederOBloquear(p, f, m)
           /\ UNCHANGED <<lista_archivos_abiertos, filesystem, kernel>>
  <2>1. lista_archivos_abiertos \subseteq fcbs /\ fcbs \subseteq Nombres
    BY <1>1 DEF Inv, Conocidos, TypeOK
  <2>2. \A n \in pedidos : n.op # "CREAR"
    BY <1>1 DEF Inv, Conocidos
  <2> QED
    BY <1>1, <1>3, <2>1, <2>2, PasoConceder DEF filesystem
<1> QED
  BY <1>2, <1>3 DEF FOpen

LEMMA PasoRespuestaAbrir ==
  ASSUME Inv, RespuestaAbrir
  PROVE  Inv'
<1> DEFINE f == despacho.archivo
           p == despacho.pcb
           m == despacho.modo
           abrir == [op |-> "ABRIR", pcb |-> NULL, archivo |-> f]
           crear == [op |-> "CREAR", pcb |-> NULL, archivo |-> f]
<1>1. /\ despacho.op = "ABRIENDO" /\ abrir \in pedidos
      /\ lista_archivos_abiertos' = lista_archivos_abiertos \cup {f}
      /\ UNCHANGED <<fcbs, kernel>>
  BY DEF RespuestaAbrir, EnHandler, Pedido
<1>2. /\ p \in Procesos /\ f \in Nombres /\ m \in Modos /\ estado[p] = "EXEC"
  BY <1>1 DEF Inv, Despacho
<1>3. /\ lista_archivos_abiertos \subseteq fcbs /\ fcbs \subseteq Nombres
      /\ \A n \in pedidos : n.op # "CREAR"
  BY <1>1 DEF Inv, Conocidos, TypeOK
<1>4. CASE f \in fcbs
  <2>1. ConcederOBloquear(p, f, m) /\ pedidos' = pedidos \ {abrir}
    BY <1>4 DEF RespuestaAbrir, Pedido
  <2> HIDE DEF f, p, m, abrir
  <2> QED
    BY <1>1, <1>2, <1>3, <1>4, <2>1, PasoConceder
<1>5. CASE f \notin fcbs
  <2>1. /\ pedidos' = (pedidos \ {abrir}) \cup {crear}
        /\ despacho' = [despacho EXCEPT !.op = "CREANDO"]
        /\ UNCHANGED <<estado, archivos_abiertos, locks>>
    BY <1>5 DEF RespuestaAbrir, Pedido
  <2>2. crear \in Peticiones
    BY <1>2 DEF Peticiones
  <2>3. /\ despacho' \in [op : Ops, pcb : Procesos \cup {NULL}, archivo : Nombres \cup {NULL},
                          modo : Modos \cup {NULL}]
        /\ despacho'.op = "CREANDO" /\ despacho'.pcb = p
        /\ despacho'.archivo = f /\ despacho'.modo = m
    BY <2>1 DEF Inv, TypeOK, Ops
  <2>4. TypeOK'
    <3>1. lista_archivos_abiertos' \subseteq Nombres /\ pedidos' \subseteq Peticiones
      BY <1>1, <1>2, <2>1, <2>2 DEF Inv, TypeOK
    <3> QED
      BY <1>1, <2>1, <2>3, <3>1 DEF Inv, TypeOK, locks
  <2>5. LocksExcluyentes' /\ ColaConLock'
    BY <2>1 DEF Inv, LocksExcluyentes, ColaConLock, locks
  <2>6. Espera'
    <3>1. UnPedidoPorBloqueado'
      BY <2>1 DEF Inv, Espera, UnPedidoPorBloqueado
    <3>2. \A q \in Procesos : q # NULL
      BY ConstantesArchivos
    <3> QED
      BY <2>1, <3>1, <3>2 DEF Inv, Espera, EnCola, TieneEntrada, locks
  <2>7. Despacho'
    BY <1>2, <2>1, <2>3 DEF Despacho
  <2>8. Conocidos'
    <3>1. \A n \in pedidos' : n = crear \/ (n \in pedidos /\ n.op # "CREAR")
      BY <1>3, <2>1
    <3>2. crear.op = "CREAR" /\ crear.pcb = NULL /\ crear.archivo = f
      OBVIOUS
    <3>3. FileSystemConoce'
      BY <1>1, <1>5, <3>1, <3>2 DEF Inv, Conocidos, FileSystemConoce
    <3>4. \A n \in pedidos' :
            /\ n.pcb = NULL <=> n.op \in {"ABRIR", "CREAR"}
            /\ n.op = "CREAR" => despacho'.op = "CREANDO" /\ despacho'.archivo = n.archivo
      BY <2>3, <3>1, <3>2 DEF Inv, Conocidos
    <3>5. \A g \in lista_archivos_abiertos' : g \in fcbs' \/ g = f
      BY <1>1, <1>3
    <3>6. \A q \in Procesos : \A i \in DOMAIN archivos_abiertos'[q] :
            archivos_abiertos'[q][i].archivo \in fcbs'
      BY <1>1, <2>1 DEF Inv, Conocidos
    <3> QED
      BY <2>3, <3>3, <3>4, <3>5, <3>6 DEF Conocidos
  <2> QED
    BY <2>4, <2>5, <2>6, <2>7, <2>8 DEF Inv
<1> QED
  BY <1>4, <1>5

LEMMA PasoRespuestaCrear ==
  ASSUME Inv, RespuestaCrear
  PROVE  Inv'
<1> DEFINE f == despacho.archivo
           p == despacho.pcb
           m == despacho.modo
           crear == [op |-> "CREAR", pcb |-> NULL, archivo |-> f]
<1>1. /\ despacho.op = "CREANDO" /\ fcbs' = fcbs \cup {f}
      /\ pedidos' = pedidos \ {crear}
      /\ ConcederOBloquear(p, f, m)
      /\ UNCHANGED <<lista_archivos_abiertos, kernel>>
  BY DEF RespuestaCrear, EnHandler, Pedido
<1>2. /\ p \in Procesos /\ f \in Nombres /\ m \in Modos /\ estado[p] = "EXEC"
  BY <1>1 DEF Inv, Despacho
<1>3. lista_archivos_abiertos' \subseteq fcbs' /\ fcbs' \subseteq Nombres
  BY <1>1, <1>2 DEF Inv, Conocidos, TypeOK
<1>4. \A n \in pedidos' : n.op # "CREAR"
  <2>1. ASSUME NEW n \in pedidos, n.op = "CREAR" PROVE n = crear
    <3>1. n.pcb = NULL /\ n.archivo = f /\ n \in Peticiones
      BY <2>1 DEF Inv, Conocidos, TypeOK
    <3> QED
      BY <2>1, <3>1 DEF Peticiones
  <2> QED
    BY <1>1, <2>1
<1> HIDE DEF f, p, m, crear
<1> QED
  BY <1>1, <1>2, <1>3, <1>4, PasoConceder

(* What asignar_lock_pcb does to the locks and to the entries of q.         *)
LEMMA DarElLock ==
  ASSUME TypeOK, NEW q \in Procesos, NEW f \in Nombres, TieneEntrada(q, f),
         NEW lectura \in [Nombres -> [locked : BOOLEAN, cantidad : Int]],
         NEW escritura \in [Nombres -> BOOLEAN],
         DarLock(q, f, lectura, escritura)
  PROVE  /\ archivos_abiertos' \in [Procesos -> Seq(Abierto)]
         /\ \A r \in Procesos :
              /\ DOMAIN archivos_abiertos'[r] = DOMAIN archivos_abiertos[r]
              /\ \A i \in DOMAIN archivos_abiertos[r] :
                   archivos_abiertos'[r][i].archivo = archivos_abiertos[r][i].archivo
         /\ \E e \in ToSet(archivos_abiertos'[q]) : e.archivo = f /\ e.otorgado
         /\ lock_lectura' \in [Nombres -> [locked : BOOLEAN, cantidad : Int]]
         /\ lock_escritura' \in [Nombres -> BOOLEAN]
         /\ \A g \in Nombres \ {f} : /\ lock_lectura'[g] = lectura[g]
                                     /\ lock_escritura'[g] = escritura[g]
         /\ \/ /\ Entrada(q, f).modo = "R"
               /\ lock_lectura'[f].locked /\ lock_escritura'[f] = escritura[f]
            \/ /\ Entrada(q, f).modo = "W"
               /\ lock_escritura'[f] /\ lock_lectura'[f] = lectura[f]
<1> DEFINE s == archivos_abiertos[q]
           t == Otorgado(s, f)
<1>1. /\ archivos_abiertos \in [Procesos -> Seq(Abierto)] /\ s \in Seq(Abierto)
      /\ \E i \in DOMAIN s : s[i].archivo = f
  BY DEF TypeOK, Abierto, TieneEntrada
<1>2. /\ t \in Seq(Abierto) /\ DOMAIN t = DOMAIN s
      /\ \A i \in DOMAIN s : t[i].archivo = s[i].archivo
      /\ \E k \in DOMAIN t : t[k].archivo = f /\ t[k].otorgado
  <2> HIDE DEF s
  <2> QED
    BY <1>1, OtorgarEntrada
<1>3. Entrada(q, f).modo \in Modos
  <2>1. s[Primera(s, f)] \in Abierto
    <3> HIDE DEF s
    <3> QED
      BY <1>1, PrimeraEntrada
  <2> QED
    BY <2>1 DEF Entrada, Abierto
<1>4. /\ archivos_abiertos' = [archivos_abiertos EXCEPT ![q] = t]
      /\ IF Entrada(q, f).modo = "R"
         THEN /\ lock_lectura' = [lectura EXCEPT ![f] = ConLector(lectura[f])]
              /\ lock_escritura' = escritura
         ELSE /\ lock_escritura' = [escritura EXCEPT ![f] = TRUE]
              /\ lock_lectura' = lectura
  BY DEF DarLock
<1>5. /\ ConLector(lectura[f]) \in [locked : BOOLEAN, cantidad : Int]
      /\ ConLector(lectura[f]).locked
  BY DEF ConLector
<1> HIDE DEF t
<1>6. \E e \in ToSet(archivos_abiertos'[q]) : e.archivo = f /\ e.otorgado
  BY <1>1, <1>2, <1>4 DEF ToSet
<1>7. /\ archivos_abiertos' \in [Procesos -> Seq(Abierto)]
      /\ \A r \in Procesos :
              /\ DOMAIN archivos_abiertos'[r] = DOMAIN archivos_abiertos[r]
              /\ \A i \in DOMAIN archivos_abiertos[r] :
                   archivos_abiertos'[r][i].archivo = archivos_abiertos[r][i].archivo
  BY <1>1, <1>2, <1>4
<1>8. CASE Entrada(q, f).modo = "R"
  BY <1>4, <1>5, <1>6, <1>7, <1>8
<1>9. CASE Entrada(q, f).modo = "W"
  BY <1>4, <1>6, <1>7, <1>9
<1> QED
  BY <1>3, <1>8, <1>9 DEF Modos

(* A process is taken out of the head of the queue of f.                    *)
LEMMA SacarCabeza ==
  ASSUME Inv, NEW f \in Nombres, cola_block_procesos[f] # <<>>,
         NEW q, q = Head(cola_block_procesos[f]),
         cola_block_procesos' = [cola_block_procesos EXCEPT ![f] = Tail(cola_block_procesos[f])]
  PROVE  /\ q \in Procesos /\ EnCola(f, q)
         /\ cola_block_procesos' \in [Nombres -> Seq(Procesos)]
         /\ \A g \in Nombres : IsInjective(cola_block_procesos'[g])
         /\ \A g \in Nombres : ~EnCola(g, q)'
         /\ \A g \in Nombres, r \in Procesos : EnCola(g, r)' => EnCola(g, r)
         /\ \A g \in Nombres \ {f} : cola_block_procesos'[g] = cola_block_procesos[g]
<1> DEFINE c == cola_block_procesos[f]
<1>1. /\ cola_block_procesos \in [Nombres -> Seq(Procesos)]
      /\ c \in Seq(Procesos) /\ IsInjective(c) /\ c # <<>> /\ q = Head(c)
  BY DEF Inv, TypeOK, Espera
<1>2. /\ Tail(c) \in Seq(Procesos) /\ q \in ToSet(c) /\ q \in Procesos
      /\ ToSet(Tail(c)) = ToSet(c) \ {q} /\ IsInjective(Tail(c))
  <2> HIDE DEF c
  <2> QED
    BY <1>1, ListaSinCabeza, HeadTailProperties
<1>3. EnCola(f, q) /\ \A g \in Nombres : EnCola(g, q) => g = f
  BY <1>2 DEF Inv, Espera, EnCola
<1>4. cola_block_procesos' = [cola_block_procesos EXCEPT ![f] = Tail(c)]
  OBVIOUS
<1>5. /\ cola_block_procesos'[f] = Tail(c)
      /\ \A g \in Nombres \ {f} : cola_block_procesos'[g] = cola_block_procesos[g]
      /\ cola_block_procesos' \in [Nombres -> Seq(Procesos)]
  <2> HIDE DEF c
  <2> QED
    BY <1>1, <1>2, <1>4
<1>6. \A g \in Nombres, r \in Procesos :
        EnCola(g, r)' <=> EnCola(g, r) /\ (g = f => r # q)
  BY <1>2, <1>5 DEF EnCola
<1>7. \A g \in Nombres : IsInjective(cola_block_procesos'[g])
  BY <1>2, <1>5 DEF Inv, Espera
<1> QED
  BY <1>2, <1>3, <1>5, <1>6, <1>7

(* Estado, queues, requests and entries by name: what Espera, Conocidos and *)
(* the tests of the handlers look at.                                       *)
LEMMA EntradasQueQuedan ==
  ASSUME Inv,
         \A r \in Procesos :
              /\ DOMAIN archivos_abiertos'[r] = DOMAIN archivos_abiertos[r]
              /\ \A i \in DOMAIN archivos_abiertos[r] :
                   archivos_abiertos'[r][i].archivo = archivos_abiertos[r][i].archivo
  PROVE  /\ \A r \in Procesos, g \in Nombres : TieneEntrada(r, g) => TieneEntrada(r, g)'
         /\ \A r \in Procesos : \A i \in DOMAIN archivos_abiertos'[r] :
              archivos_abiertos'[r][i].archivo \in fcbs
<1>1. \A r \in Procesos, g \in Nombres : TieneEntrada(r, g) => TieneEntrada(r, g)'
  BY DEF TieneEntrada
<1>2. \A r \in Procesos : \A i \in DOMAIN archivos_abiertos'[r] :
              archivos_abiertos'[r][i].archivo \in fcbs
  BY DEF Inv, Conocidos
<1> QED
  BY <1>1, <1>2

LEMMA PasoFClose ==
  ASSUME Inv, NEW p \in Procesos, NEW f \in Nombres, FClose(p, f)
  PROVE  Inv'
<1>0. PICK lectura, escritura, s, k, q :
        /\ lectura = IF Entrada(p, f).modo = "R"
                     THEN [lock_lectura EXCEPT ![f] = SinLector(lock_lectura[f])]
                     ELSE lock_lectura
        /\ escritura = IF Entrada(p, f).modo = "W"
                       THEN [lock_escritura EXCEPT ![f] = FALSE] ELSE lock_escritura
        /\ s = archivos_abiertos[p] /\ k = Primera(s, f)
        /\ q = Head(cola_block_procesos[f])
  OBVIOUS
<1>1. /\ estado[p] = "EXEC" /\ despacho.op = "LIBRE"
      /\ \E i \in DOMAIN s : s[i].archivo = f
      /\ UNCHANGED <<estado, lista_archivos_abiertos, fcbs, pedidos, kernel>>
  BY <1>0 DEF FClose, Atrapa, EnHandler, TieneEntrada, filesystem
<1>2. /\ archivos_abiertos \in [Procesos -> Seq(Abierto)] /\ s \in Seq(Abierto)
      /\ cola_block_procesos \in [Nombres -> Seq(Procesos)]
  BY <1>0 DEF Inv, TypeOK, Abierto
<1>3. /\ lectura \in [Nombres -> [locked : BOOLEAN, cantidad : Int]]
      /\ escritura \in [Nombres -> BOOLEAN]
      /\ \A g \in Nombres : lectura[g].locked => lock_lectura[g].locked
      /\ \A g \in Nombres : escritura[g] => lock_escritura[g]
      /\ \A g \in Nombres \ {f} : /\ lectura[g] = lock_lectura[g]
                                  /\ escritura[g] = lock_escritura[g]
  <2>1. /\ lock_lectura \in [Nombres -> [locked : BOOLEAN, cantidad : Int]]
        /\ lock_escritura \in [Nombres -> BOOLEAN]
    BY DEF Inv, TypeOK
  <2>2. /\ SinLector(lock_lectura[f]) \in [locked : BOOLEAN, cantidad : Int]
        /\ SinLector(lock_lectura[f]).locked => lock_lectura[f].locked
    BY <2>1 DEF SinLector
  <2> QED
    BY <1>0, <2>1, <2>2
<1>4. \A g \in Nombres : ~(lectura[g].locked /\ escritura[g])
  BY <1>3 DEF Inv, LocksExcluyentes
<1>5. k \in 1..Len(s) /\ DOMAIN s = 1..Len(s) /\ Len(s) \in Nat
  BY <1>0, <1>1, <1>2, PrimeraEntrada, LenProperties
<1>6. \A g \in Nombres : ~EnCola(g, p)
  BY <1>1, EnExecNoEspera
<1>7. \/ /\ ~Repartible(f, lectura, escritura)
         /\ lock_lectura' = lectura /\ lock_escritura' = escritura
         /\ UNCHANGED <<archivos_abiertos, cola_block_procesos, despacho>>
      \/ /\ cola_block_procesos[f] = <<>>
         /\ lock_lectura' = lectura /\ lock_escritura' = escritura
         /\ archivos_abiertos' = [archivos_abiertos EXCEPT ![p] = RemoveAt(s, k)]
         /\ UNCHANGED <<cola_block_procesos, despacho>>
      \/ /\ Repartible(f, lectura, escritura) /\ cola_block_procesos[f] # <<>>
         /\ cola_block_procesos' = [cola_block_procesos EXCEPT ![f] = Tail(cola_block_procesos[f])]
         /\ DarLock(q, f, lectura, escritura)
         /\ despacho' = [op |-> "DESPIERTA", pcb |-> q, archivo |-> f, modo |-> Entrada(q, f).modo]
  BY <1>0, Zenon DEF FClose, Atender
<1>8. CASE /\ ~Repartible(f, lectura, escritura)
           /\ lock_lectura' = lectura /\ lock_escritura' = escritura
           /\ UNCHANGED <<archivos_abiertos, cola_block_procesos, despacho>>
  <2>1. TypeOK'
    BY <1>1, <1>3, <1>8 DEF Inv, TypeOK
  <2>2. LocksExcluyentes' /\ ColaConLock'
    BY <1>3, <1>4, <1>8 DEF Inv, LocksExcluyentes, ColaConLock, Repartible
  <2>3. Espera' /\ Despacho' /\ Conocidos'
    BY <1>1, <1>8 DEF Inv, Espera, UnPedidoPorBloqueado, EnCola, TieneEntrada, Despacho,
                      Conocidos, FileSystemConoce
  <2> QED
    BY <2>1, <2>2, <2>3 DEF Inv
<1>9. CASE /\ cola_block_procesos[f] = <<>>
           /\ lock_lectura' = lectura /\ lock_escritura' = escritura
           /\ archivos_abiertos' = [archivos_abiertos EXCEPT ![p] = RemoveAt(s, k)]
           /\ UNCHANGED <<cola_block_procesos, despacho>>
  <2> DEFINE t == RemoveAt(s, k)
  <2>1. /\ t \in Seq(Abierto) /\ DOMAIN t = 1..(Len(s) - 1)
        /\ \A i \in 1..(Len(s) - 1) : t[i] = IF i < k THEN s[i] ELSE s[i + 1]
    BY <1>2, <1>5, ListaSinLugar
  <2>2. archivos_abiertos' = [archivos_abiertos EXCEPT ![p] = t]
    BY <1>9
  <2> HIDE DEF t
  <2>3. ASSUME NEW i \in DOMAIN t PROVE \E j \in DOMAIN s : t[i] = s[j]
    <3>1. i \in 1..(Len(s) - 1) /\ i \in DOMAIN s /\ i + 1 \in DOMAIN s
      BY <1>5, <2>1, <2>3
    <3> QED
      BY <2>1, <3>1
  <2>4. archivos_abiertos' \in [Procesos -> Seq(Abierto)]
    BY <1>2, <2>1, <2>2
  <2>5. TypeOK'
    BY <1>1, <1>3, <1>9, <2>4 DEF Inv, TypeOK, Abierto
  <2>6. LocksExcluyentes' /\ ColaConLock'
    BY <1>3, <1>4, <1>9 DEF Inv, LocksExcluyentes, ColaConLock
  <2>7. Espera'
    <3>1. UnPedidoPorBloqueado'
      BY <1>1 DEF Inv, Espera, UnPedidoPorBloqueado
    <3>2. \A r \in Procesos \ {p}, g \in Nombres : TieneEntrada(r, g) => TieneEntrada(r, g)'
      BY <1>2, <2>2 DEF TieneEntrada
    <3>3. \A r \in Procesos, g \in Nombres : EnCola(g, r)' => EnCola(g, r) /\ r # p
      BY <1>6, <1>9 DEF EnCola
    <3> QED
      BY <1>1, <1>9, <3>1, <3>2, <3>3 DEF Inv, Espera, EnCola
  <2>8. Despacho'
    BY <1>1, <1>9 DEF Despacho
  <2>9. Conocidos'
    <3>1. ASSUME NEW r \in Procesos, NEW i \in DOMAIN archivos_abiertos'[r]
          PROVE  archivos_abiertos'[r][i].archivo \in fcbs
      <4>1. CASE r = p
        <5>1. \A j \in DOMAIN s : s[j].archivo \in fcbs
          BY <1>0 DEF Inv, Conocidos
        <5> QED
          BY <1>2, <2>2, <2>3, <3>1, <4>1, <5>1
      <4>2. CASE r # p
        BY <1>2, <2>2, <3>1, <4>2 DEF Inv, Conocidos
      <4> QED
        BY <4>1, <4>2
    <3> QED
      BY <1>1, <1>9, <3>1 DEF Inv, Conocidos, FileSystemConoce
  <2> QED
    BY <2>5, <2>6, <2>7, <2>8, <2>9 DEF Inv
<1>10. CASE /\ Repartible(f, lectura, escritura) /\ cola_block_procesos[f] # <<>>
            /\ cola_block_procesos' = [cola_block_procesos EXCEPT ![f] = Tail(cola_block_procesos[f])]
            /\ DarLock(q, f, lectura, escritura)
            /\ despacho' = [op |-> "DESPIERTA", pcb |-> q, archivo |-> f, modo |-> Entrada(q, f).modo]
  <2>1. /\ q \in Procesos /\ EnCola(f, q)
        /\ cola_block_procesos' \in [Nombres -> Seq(Procesos)]
        /\ \A g \in Nombres : IsInjective(cola_block_procesos'[g])
        /\ \A g \in Nombres : ~EnCola(g, q)'
        /\ \A g \in Nombres, r \in Procesos : EnCola(g, r)' => EnCola(g, r)
        /\ \A g \in Nombres \ {f} : cola_block_procesos'[g] = cola_block_procesos[g]
    BY <1>0, <1>10, SacarCabeza
  <2>2. TieneEntrada(q, f) /\ (estado[q] # "EXIT" => \A m \in pedidos : m.pcb # q)
    BY <2>1 DEF Inv, Espera
  <2>3. /\ archivos_abiertos' \in [Procesos -> Seq(Abierto)]
        /\ \A r \in Procesos :
              /\ DOMAIN archivos_abiertos'[r] = DOMAIN archivos_abiertos[r]
              /\ \A i \in DOMAIN archivos_abiertos[r] :
                   archivos_abiertos'[r][i].archivo = archivos_abiertos[r][i].archivo
        /\ lock_lectura' \in [Nombres -> [locked : BOOLEAN, cantidad : Int]]
        /\ lock_escritura' \in [Nombres -> BOOLEAN]
        /\ \A g \in Nombres \ {f} : /\ lock_lectura'[g] = lectura[g]
                                    /\ lock_escritura'[g] = escritura[g]
        /\ \/ /\ Entrada(q, f).modo = "R"
              /\ lock_lectura'[f].locked /\ lock_escritura'[f] = escritura[f]
           \/ /\ Entrada(q, f).modo = "W"
              /\ lock_escritura'[f] /\ lock_lectura'[f] = lectura[f]
    <3>1. TypeOK /\ DarLock(q, f, lectura, escritura) /\ q \in Procesos /\ TieneEntrada(q, f)
      BY <1>10, <2>1, <2>2 DEF Inv
    <3> QED
      BY <1>3, <3>1, DarElLock
  <2>4. /\ \A r \in Procesos, g \in Nombres : TieneEntrada(r, g) => TieneEntrada(r, g)'
        /\ \A r \in Procesos : \A i \in DOMAIN archivos_abiertos'[r] :
              archivos_abiertos'[r][i].archivo \in fcbs
    BY <2>3, EntradasQueQuedan
  <2>5. Entrada(q, f).modo \in Modos
    BY <2>3 DEF Modos
  <2>6. TypeOK'
    <3>1. despacho' \in [op : Ops, pcb : Procesos \cup {NULL}, archivo : Nombres \cup {NULL},
                         modo : Modos \cup {NULL}]
      BY <1>10, <2>1, <2>5 DEF Ops
    <3> QED
      BY <1>1, <2>1, <2>3, <3>1 DEF Inv, TypeOK, Abierto
  <2>7. LocksExcluyentes'
    BY <1>3, <1>4, <1>10, <2>3 DEF LocksExcluyentes, Repartible
  <2>8. ColaConLock'
    BY <1>3, <2>1, <2>3 DEF Inv, ColaConLock
  <2>9. Espera'
    <3>1. UnPedidoPorBloqueado'
      BY <1>1 DEF Inv, Espera, UnPedidoPorBloqueado
    <3> QED
      BY <1>1, <2>1, <2>4, <3>1 DEF Inv, Espera
  <2>10. Despacho'
    <3>1. Servido(q)'
      BY <1>1, <2>1, <2>2 DEF Servido
    <3>2. /\ despacho'.op = "DESPIERTA" /\ despacho'.pcb = q /\ despacho'.archivo = f
          /\ despacho'.modo = Entrada(q, f).modo
      BY <1>10
    <3>3. TieneEntrada(q, f)'
      BY <2>1, <2>2, <2>4
    <3>4. Servido(despacho.pcb)' /\ TieneEntrada(despacho.pcb, despacho.archivo)'
      BY <3>1, <3>2, <3>3 DEF Servido, TieneEntrada
    <3> QED
      BY <2>1, <2>3, <2>5, <3>2, <3>4 DEF Despacho
  <2>11. Conocidos'
    BY <1>1, <1>10, <2>4 DEF Inv, Conocidos, FileSystemConoce
  <2> QED
    BY <2>6, <2>7, <2>8, <2>9, <2>10, <2>11 DEF Inv
<1> QED
  BY <1>7, <1>8, <1>9, <1>10

(* A process is woken that is in no queue and for which nobody works; or    *)
(* one whose only request is the one that is answered now.                  *)
LEMMA DespertarSinEspera ==
  ASSUME Inv, NEW p \in Procesos, Desbloquear(p), \A f \in Nombres : EnCola(f, p) => estado[p] = "EXIT",
         pedidos' \subseteq pedidos, estado[p] # "EXIT" => \A m \in pedidos' : m.pcb # p,
         UNCHANGED <<archivos_abiertos, cola_block_procesos>>
  PROVE  /\ estado' \in [Procesos -> {"READY", "EXEC", "BLOCKED", "EXIT"}]
         /\ \A q \in Procesos : /\ estado[q] = "EXEC" => estado'[q] = "EXEC"
                                /\ estado'[q] = "EXIT" <=> estado[q] = "EXIT"
         /\ Espera'
<1>1. estado \in [Procesos -> {"READY", "EXEC", "BLOCKED", "EXIT"}]
  BY DEF Inv, TypeOK
<1>2. /\ estado' \in [Procesos -> {"READY", "EXEC", "BLOCKED", "EXIT"}]
      /\ \A q \in Procesos \ {p} : estado'[q] = estado[q]
      /\ estado'[p] = IF estado[p] = "BLOCKED" THEN "READY" ELSE estado[p]
  BY <1>1 DEF Desbloquear
<1>3. UnPedidoPorBloqueado'
  <2>1. ASSUME NEW m \in pedidos', m.pcb # NULL, estado'[m.pcb] # "EXIT"
        PROVE  estado'[m.pcb] = "BLOCKED" /\ \A n \in pedidos' : n.pcb = m.pcb => n = m
    <3>1. m \in pedidos /\ m.pcb \in Procesos
      BY <2>1 DEF Inv, TypeOK, Peticiones
    <3>2. m.pcb # p
      BY <1>2, <2>1
    <3> QED
      BY <1>2, <2>1, <3>1, <3>2 DEF Inv, Espera, UnPedidoPorBloqueado
  <2> QED
    BY <2>1 DEF UnPedidoPorBloqueado
<1>4. Espera'
  <2>1. ASSUME NEW q \in Procesos, NEW f \in Nombres, EnCola(f, q)
        PROVE  estado'[q] = estado[q]
    BY <1>2, <2>1
  <2> QED
    BY <1>3, <2>1 DEF Inv, Espera, EnCola, TieneEntrada
<1> QED
  BY <1>2, <1>4

LEMMA PasoDespertarPrimero ==
  ASSUME Inv, DespertarPrimero
  PROVE  Inv'
<1>0. PICK p, f, c : p = despacho.pcb /\ f = despacho.archivo /\ c = cola_block_procesos[f]
  OBVIOUS
<1>1. /\ despacho.op = "DESPIERTA" /\ Desbloquear(p)
      /\ despacho' = IF despacho.modo = "R" /\ c # <<>>
                     THEN [op |-> "REPARTE", pcb |-> Head(c), archivo |-> f, modo |-> NULL]
                     ELSE Libre
      /\ UNCHANGED <<archivos_abiertos, lista_archivos_abiertos, locks, filesystem, kernel>>
  BY <1>0, Zenon DEF DespertarPrimero, EnHandler, Atender
<1>2. p \in Procesos /\ f \in Nombres /\ Servido(p)
  BY <1>0, <1>1 DEF Inv, Despacho
<1>3. /\ estado' \in [Procesos -> {"READY", "EXEC", "BLOCKED", "EXIT"}]
      /\ Espera'
  BY <1>1, <1>2, DespertarSinEspera DEF Servido, locks, filesystem
<1>4. c # <<>> => Head(c) \in Procesos /\ EnCola(f, Head(c))
  <2>1. c \in Seq(Procesos) /\ IsInjective(c)
    BY <1>0, <1>2 DEF Inv, TypeOK, Espera
  <2> QED
    BY <1>0, <2>1, ListaSinCabeza, HeadTailProperties DEF EnCola
<1>5. TypeOK'
  <2>1. despacho' \in [op : Ops, pcb : Procesos \cup {NULL}, archivo : Nombres \cup {NULL},
                       modo : Modos \cup {NULL}]
    BY <1>1, <1>2, <1>4 DEF Ops, Libre
  <2> QED
    BY <1>1, <1>3, <2>1 DEF Inv, TypeOK, locks, filesystem
<1>6. LocksExcluyentes' /\ ColaConLock'
  BY <1>1 DEF Inv, LocksExcluyentes, ColaConLock, locks
<1>7. Despacho'
  <2>1. CASE despacho.modo = "R" /\ c # <<>>
    <3>1. /\ despacho'.op = "REPARTE" /\ despacho'.pcb = Head(c) /\ despacho'.archivo = f
          /\ cola_block_procesos'[f] = c
      BY <1>0, <1>1, <2>1 DEF locks
    <3>2. TieneEntrada(Head(c), f)
      BY <1>2, <1>4, <2>1 DEF Inv, Espera
    <3>3. TieneEntrada(despacho.pcb, despacho.archivo)'
      BY <1>1, <3>1, <3>2 DEF TieneEntrada
    <3>4. lock_lectura'[f].locked
      BY <1>0, <1>1, <2>1 DEF Inv, Despacho, locks
    <3> QED
      BY <1>2, <1>4, <2>1, <3>1, <3>3, <3>4 DEF Despacho
  <2>2. CASE despacho' = Libre
    BY <2>2 DEF Despacho, Libre
  <2> QED
    BY <1>1, <2>1, <2>2
<1>8. Conocidos'
  BY <1>1 DEF Inv, Conocidos, FileSystemConoce, filesystem
<1> QED
  BY <1>3, <1>5, <1>6, <1>7, <1>8 DEF Inv

(* In the loop the process under consideration is the head of the queue, so *)
(* that list_remove_element takes the head, or the queue is empty.          *)
LEMMA SacaLaCabeza ==
  ASSUME Inv, RepartirALector, NEW f, f = despacho.archivo
  PROVE  \/ /\ cola_block_procesos[f] = <<>> /\ cola_block_procesos' = cola_block_procesos
         \/ /\ cola_block_procesos[f] # <<>>
            /\ despacho.pcb = Head(cola_block_procesos[f])
            /\ cola_block_procesos' =
                 [cola_block_procesos EXCEPT ![f] = Tail(cola_block_procesos[f])]
<1>0. PICK p, c, d : /\ p = despacho.pcb /\ c = cola_block_procesos[f]
                     /\ d = RemoveFirst(c, p)
  OBVIOUS
<1>1. /\ despacho.op = "REPARTE"
      /\ cola_block_procesos' = [cola_block_procesos EXCEPT ![f] = d]
  BY <1>0, Zenon DEF RepartirALector, EnHandler
<1>2. /\ f \in Nombres /\ c \in Seq(Procesos)
      /\ cola_block_procesos \in [Nombres -> Seq(Procesos)]
      /\ c # <<>> => p = Head(c)
  BY <1>0, <1>1 DEF Inv, Despacho, TypeOK
<1>3. CASE c = <<>>
  <2>1. p \notin ToSet(c)
    BY <1>3 DEF ToSet
  <2>2. d = c
    BY <1>0, <1>2, <2>1, QuitarPrimero
  <2> QED
    BY <1>0, <1>1, <1>2, <1>3, <2>2
<1>4. CASE c # <<>>
  <2>1. 1 \in 1..Len(c) /\ RemoveAt(c, 1) = Tail(c) /\ Len(c) \in Nat /\ DOMAIN c = 1..Len(c)
    BY <1>2, <1>4, ListaSinCabezaEnLugar, LenProperties
  <2>2. p = c[1] /\ p \in ToSet(c)
    BY <1>2, <1>4, <2>1 DEF ToSet
  <2>3. PICK k \in 1..Len(c) : c[k] = p /\ (\A j \in 1..(k - 1) : c[j] # p) /\ d = RemoveAt(c, k)
    BY <1>0, <1>2, <2>2, QuitarPrimero
  <2>4. k = 1
    BY <2>1, <2>2, <2>3
  <2> QED
    BY <1>0, <1>1, <1>2, <1>4, <2>1, <2>3, <2>4
<1> QED
  BY <1>3, <1>4

LEMMA PasoRepartirALector ==
  ASSUME Inv, RepartirALector
  PROVE  Inv'
<1>0. PICK q, f : q = despacho.pcb /\ f = despacho.archivo
  OBVIOUS
<1>1. /\ despacho.op = "REPARTE" /\ Entrada(q, f).modo = "R"
      /\ DarLock(q, f, lock_lectura, lock_escritura)
      /\ despacho' = [despacho EXCEPT !.op = "SIGUE"]
      /\ UNCHANGED <<estado, lista_archivos_abiertos, fcbs, pedidos, kernel>>
  BY <1>0 DEF RepartirALector, EnHandler, filesystem
<1>2. /\ q \in Procesos /\ f \in Nombres /\ TieneEntrada(q, f) /\ lock_lectura[f].locked
      /\ cola_block_procesos[f] = <<>> => Servido(q)
  BY <1>0, <1>1 DEF Inv, Despacho
<1>3. /\ cola_block_procesos' \in [Nombres -> Seq(Procesos)]
      /\ \A g \in Nombres : IsInjective(cola_block_procesos'[g])
      /\ \A g \in Nombres : ~EnCola(g, q)'
      /\ \A g \in Nombres, r \in Procesos : EnCola(g, r)' => EnCola(g, r)
      /\ \A g \in Nombres \ {f} : cola_block_procesos'[g] = cola_block_procesos[g]
      /\ estado[q] # "EXIT" => \A m \in pedidos : m.pcb # q
  <2>1. CASE cola_block_procesos[f] = <<>> /\ cola_block_procesos' = cola_block_procesos
    BY <1>2, <2>1 DEF Servido, EnCola, Inv, TypeOK, Espera
  <2>2. CASE /\ cola_block_procesos[f] # <<>> /\ q = Head(cola_block_procesos[f])
             /\ cola_block_procesos' =
                  [cola_block_procesos EXCEPT ![f] = Tail(cola_block_procesos[f])]
    <3>1. /\ EnCola(f, q)
          /\ cola_block_procesos' \in [Nombres -> Seq(Procesos)]
          /\ \A g \in Nombres : IsInjective(cola_block_procesos'[g])
          /\ \A g \in Nombres : ~EnCola(g, q)'
          /\ \A g \in Nombres, r \in Procesos : EnCola(g, r)' => EnCola(g, r)
          /\ \A g \in Nombres \ {f} : cola_block_procesos'[g] = cola_block_procesos[g]
      BY <1>2, <2>2, SacarCabeza
    <3> QED
      BY <1>2, <3>1 DEF Inv, Espera
  <2> QED
    BY <1>0, <2>1, <2>2, SacaLaCabeza
<1>4. /\ archivos_abiertos' \in [Procesos -> Seq(Abierto)]
      /\ \A r \in Procesos :
              /\ DOMAIN archivos_abiertos'[r] = DOMAIN archivos_abiertos[r]
              /\ \A i \in DOMAIN archivos_abiertos[r] :
                   archivos_abiertos'[r][i].archivo = archivos_abiertos[r][i].archivo
      /\ lock_lectura' \in [Nombres -> [locked : BOOLEAN, cantidad : Int]]
      /\ lock_escritura' \in [Nombres -> BOOLEAN]
      /\ \A g \in Nombres \ {f} : /\ lock_lectura'[g] = lock_lectura[g]
                                  /\ lock_escritura'[g] = lock_escritura[g]
      /\ lock_lectura'[f].locked /\ lock_escritura'[f] = lock_escritura[f]
  <2>1. /\ lock_lectura \in [Nombres -> [locked : BOOLEAN, cantidad : Int]]
        /\ lock_escritura \in [Nombres -> BOOLEAN] /\ TypeOK
    BY DEF Inv, TypeOK
  <2> QED
    BY <1>1, <1>2, <2>1, DarElLock
<1>5. /\ \A r \in Procesos, g \in Nombres : TieneEntrada(r, g) => TieneEntrada(r, g)'
      /\ \A r \in Procesos : \A i \in DOMAIN archivos_abiertos'[r] :
              archivos_abiertos'[r][i].archivo \in fcbs
  BY <1>4, EntradasQueQuedan
<1>6. /\ despacho' \in [op : Ops, pcb : Procesos \cup {NULL}, archivo : Nombres \cup {NULL},
                        modo : Modos \cup {NULL}]
      /\ despacho'.op = "SIGUE" /\ despacho'.pcb = q /\ despacho'.archivo = f
  BY <1>0, <1>1 DEF Inv, TypeOK, Ops
<1>7. TypeOK'
  BY <1>1, <1>3, <1>4, <1>6 DEF Inv, TypeOK, Abierto
<1>8. LocksExcluyentes'
  BY <1>2, <1>4 DEF Inv, LocksExcluyentes
<1>9. ColaConLock'
  BY <1>3, <1>4 DEF Inv, ColaConLock
<1>10. Espera'
  <2>1. UnPedidoPorBloqueado'
    BY <1>1 DEF Inv, Espera, UnPedidoPorBloqueado
  <2> QED
    BY <1>1, <1>3, <1>5, <2>1 DEF Inv, Espera
<1>11. Despacho'
  <2>1. Servido(q)' /\ TieneEntrada(q, f)'
    BY <1>1, <1>2, <1>3, <1>5 DEF Servido
  <2>2. Servido(despacho.pcb)' /\ TieneEntrada(despacho.pcb, despacho.archivo)'
    BY <1>6, <2>1 DEF Servido, TieneEntrada
  <2> QED
    BY <1>2, <1>4, <1>6, <2>2 DEF Despacho
<1>12. Conocidos'
  BY <1>1, <1>5, <1>6 DEF Inv, Conocidos, FileSystemConoce
<1> QED
  BY <1>7, <1>8, <1>9, <1>10, <1>11, <1>12 DEF Inv

LEMMA PasoFinReparto ==
  ASSUME Inv, FinReparto
  PROVE  Inv'
<1>1. /\ despacho.op = "REPARTE" /\ despacho' = Libre
      /\ UNCHANGED <<estado, archivos_abiertos, lista_archivos_abiertos, locks, filesystem, kernel>>
  BY DEF FinReparto, EnHandler
<1>2. TypeOK'
  BY <1>1 DEF Inv, TypeOK, locks, filesystem, Libre, Ops
<1>3. LocksExcluyentes' /\ ColaConLock' /\ Espera'
  BY <1>1 DEF Inv, LocksExcluyentes, ColaConLock, Espera, UnPedidoPorBloqueado, EnCola,
              TieneEntrada, locks, filesystem
<1>4. Despacho' /\ Conocidos'
  BY <1>1 DEF Inv, Despacho, Conocidos, FileSystemConoce, Libre, filesystem
<1> QED
  BY <1>2, <1>3, <1>4 DEF Inv

LEMMA PasoCaer ==
  ASSUME Inv, Caer
  PROVE  Inv'
<1>1. TypeOK'
  BY DEF Caer, Inv, TypeOK, locks, filesystem
<1>2. LocksExcluyentes' /\ ColaConLock' /\ Espera'
  BY DEF Caer, Inv, LocksExcluyentes, ColaConLock, Espera, UnPedidoPorBloqueado, EnCola,
         TieneEntrada, locks, filesystem
<1>3. Despacho' /\ Conocidos'
  BY DEF Caer, Inv, Despacho, Servido, EnCola, TieneEntrada, Conocidos, FileSystemConoce,
         locks, filesystem
<1> QED
  BY <1>1, <1>2, <1>3 DEF Inv

LEMMA PasoDespertarLector ==
  ASSUME Inv, DespertarLector
  PROVE  Inv'
<1>0. PICK p, f, c, q :
        /\ p = despacho.pcb /\ f = despacho.archivo /\ c = cola_block_procesos[f]
        /\ q = IF c # <<>> THEN Head(c) ELSE p
  OBVIOUS
<1>1. CASE Caer
  BY <1>1, PasoCaer
<1>2. CASE /\ Desbloquear(p)
           /\ despacho' = [op |-> "REPARTE", pcb |-> q, archivo |-> f, modo |-> NULL]
           /\ UNCHANGED <<archivos_abiertos, lista_archivos_abiertos, locks, filesystem, kernel>>
  <2>1. /\ p \in Procesos /\ f \in Nombres /\ Servido(p) /\ TieneEntrada(p, f)
        /\ lock_lectura[f].locked
    <3>1. despacho.op = "SIGUE"
      BY DEF DespertarLector, EnHandler
    <3> QED
      BY <1>0, <3>1 DEF Inv, Despacho
  <2>2. /\ estado' \in [Procesos -> {"READY", "EXEC", "BLOCKED", "EXIT"}]
        /\ \A r \in Procesos : estado'[r] = "EXIT" <=> estado[r] = "EXIT"
        /\ Espera'
    BY <1>2, <2>1, DespertarSinEspera DEF Servido, locks, filesystem
  <2>3. c # <<>> => Head(c) \in Procesos /\ EnCola(f, Head(c))
    <3>1. c \in Seq(Procesos) /\ IsInjective(c)
      BY <1>0, <2>1 DEF Inv, TypeOK, Espera
    <3> QED
      BY <1>0, <3>1, ListaSinCabeza, HeadTailProperties DEF EnCola
  <2>4. q \in Procesos /\ TieneEntrada(q, f)
    BY <1>0, <2>1, <2>3 DEF Inv, Espera
  <2>5. TypeOK'
    <3>1. despacho' \in [op : Ops, pcb : Procesos \cup {NULL}, archivo : Nombres \cup {NULL},
                         modo : Modos \cup {NULL}]
      BY <1>2, <2>1, <2>4 DEF Ops
    <3> QED
      BY <1>2, <2>2, <3>1 DEF Inv, TypeOK, locks, filesystem
  <2>6. LocksExcluyentes' /\ ColaConLock'
    BY <1>2 DEF Inv, LocksExcluyentes, ColaConLock, locks
  <2>7. Despacho'
    <3>1. /\ despacho'.op = "REPARTE" /\ despacho'.pcb = q /\ despacho'.archivo = f
          /\ cola_block_procesos'[f] = c /\ lock_lectura'[f].locked
      BY <1>0, <1>2, <2>1 DEF locks
    <3>2. TieneEntrada(despacho.pcb, despacho.archivo)'
      BY <1>2, <2>4, <3>1 DEF TieneEntrada
    <3>3. c = <<>> => Servido(despacho.pcb)'
      BY <1>0, <1>2, <2>1, <2>2, <3>1 DEF Servido, EnCola, locks, filesystem
    <3> QED
      BY <1>0, <2>1, <2>4, <3>1, <3>2, <3>3 DEF Despacho
  <2>8. Conocidos'
    <3>1. despacho.op # "CREANDO"
      BY DEF DespertarLector, EnHandler
    <3> QED
      BY <1>2, <3>1 DEF Inv, Conocidos, FileSystemConoce, filesystem
  <2> QED
    BY <2>2, <2>5, <2>6, <2>7, <2>8 DEF Inv
<1>3. \/ Caer
      \/ /\ Desbloquear(p)
         /\ despacho' = [op |-> "REPARTE", pcb |-> q, archivo |-> f, modo |-> NULL]
         /\ UNCHANGED <<archivos_abiertos, lista_archivos_abiertos, locks, filesystem, kernel>>
  BY <1>0, Zenon DEF DespertarLector, Atender
<1> QED
  BY <1>1, <1>2, <1>3

LEMMA PasoPedir ==
  ASSUME Inv, NEW p \in Procesos, NEW f \in Nombres,
         FTruncate(p, f) \/ FRead(p, f) \/ FWrite(p, f)
  PROVE  Inv'
<1>1. PICK op \in {"TRUNCATE", "WRITE"} :
        /\ pedidos' = pedidos \cup {[op |-> op, pcb |-> p, archivo |-> f]}
        /\ estado' = [estado EXCEPT ![p] = "BLOCKED"]
        /\ UNCHANGED <<archivos_abiertos, lista_archivos_abiertos, locks, despacho, fcbs, kernel>>
  BY DEF FTruncate, FRead, FWrite, PedirYBloquear, Pedido, Bloquear
<1>2. estado[p] = "EXEC" /\ despacho.op = "LIBRE" /\ TieneEntrada(p, f)
  BY DEF FTruncate, FRead, FWrite, Atrapa, EnHandler
<1>3. /\ \A g \in Nombres : ~EnCola(g, p)
      /\ \A m \in pedidos : m.pcb # p
  BY <1>2, EnExecNoEspera
<1>4. /\ estado' \in [Procesos -> {"READY", "EXEC", "BLOCKED", "EXIT"}]
      /\ estado'[p] = "BLOCKED" /\ \A q \in Procesos \ {p} : estado'[q] = estado[q]
  BY <1>1 DEF Inv, TypeOK
<1>5. PICK n : n = [op |-> op, pcb |-> p, archivo |-> f]
  OBVIOUS
<1>6. /\ n \in Peticiones /\ n.pcb = p /\ n.op = op /\ n.archivo = f /\ p # NULL
      /\ pedidos' = pedidos \cup {n}
  BY <1>1, <1>5, ConstantesArchivos DEF Peticiones
<1>7. TypeOK'
  <2>1. pedidos' \subseteq Peticiones
    BY <1>6 DEF Inv, TypeOK
  <2> QED
    BY <1>1, <1>4, <2>1 DEF Inv, TypeOK, locks
<1>8. LocksExcluyentes' /\ ColaConLock'
  BY <1>1 DEF Inv, LocksExcluyentes, ColaConLock, locks
<1>9. Espera'
  <2>1. UnPedidoPorBloqueado'
    <3>1. \A m \in pedidos : m.pcb # NULL => m.pcb \in Procesos \ {p}
      BY <1>3 DEF Inv, TypeOK, Peticiones
    <3> QED
      BY <1>4, <1>6, <3>1 DEF Inv, Espera, UnPedidoPorBloqueado
  <2> QED
    BY <1>1, <1>3, <1>4, <1>6, <2>1 DEF Inv, Espera, EnCola, TieneEntrada, locks
<1>10. Despacho'
  BY <1>1, <1>2 DEF Despacho
<1>11. Conocidos'
  <2>1. f \in fcbs
    BY <1>2 DEF Inv, Conocidos, TieneEntrada
  <2> QED
    BY <1>1, <1>6, <2>1 DEF Inv, Conocidos, FileSystemConoce
<1> QED
  BY <1>7, <1>8, <1>9, <1>10, <1>11 DEF Inv

LEMMA PasoSinAbrir ==
  ASSUME Inv, NEW p \in Procesos, NEW f \in Nombres, FTruncateSinAbrir(p, f)
  PROVE  Inv'
<1>1. /\ despacho.op = "LIBRE"
      /\ despacho' = [op |-> "SIN_PROCESO", pcb |-> p, archivo |-> f, modo |-> NULL]
      /\ UNCHANGED <<estado, archivos_abiertos, lista_archivos_abiertos, locks, filesystem, kernel>>
  BY DEF FTruncateSinAbrir, Atrapa, EnHandler, Atender
<1>2. TypeOK'
  <2>1. despacho' \in [op : Ops, pcb : Procesos \cup {NULL}, archivo : Nombres \cup {NULL},
                       modo : Modos \cup {NULL}]
    BY <1>1 DEF Ops
  <2> QED
    BY <1>1, <2>1 DEF Inv, TypeOK, locks, filesystem
<1>3. LocksExcluyentes' /\ ColaConLock' /\ Espera'
  BY <1>1 DEF Inv, LocksExcluyentes, ColaConLock, Espera, UnPedidoPorBloqueado, EnCola,
              TieneEntrada, locks, filesystem
<1>4. Despacho' /\ Conocidos'
  BY <1>1 DEF Inv, Despacho, Conocidos, FileSystemConoce, filesystem
<1> QED
  BY <1>2, <1>3, <1>4 DEF Inv

LEMMA PasoFWriteSinLock ==
  ASSUME Inv, NEW p \in Procesos, NEW f \in Nombres, FWriteSinLock(p, f)
  PROVE  Inv'
<1>1. /\ estado[p] = "EXEC" /\ despacho.op = "LIBRE"
      /\ estado' = [estado EXCEPT ![p] = "BLOCKED"]
      /\ UNCHANGED <<archivos_abiertos, lista_archivos_abiertos, locks, despacho, filesystem, kernel>>
  BY DEF FWriteSinLock, Atrapa, EnHandler, Bloquear
<1>2. /\ \A g \in Nombres : ~EnCola(g, p)
      /\ \A m \in pedidos : m.pcb # p
  BY <1>1, EnExecNoEspera
<1>3. /\ estado' \in [Procesos -> {"READY", "EXEC", "BLOCKED", "EXIT"}]
      /\ estado'[p] = "BLOCKED" /\ \A q \in Procesos \ {p} : estado'[q] = estado[q]
  BY <1>1 DEF Inv, TypeOK
<1>4. TypeOK'
  BY <1>1, <1>3 DEF Inv, TypeOK, locks, filesystem
<1>5. LocksExcluyentes' /\ ColaConLock'
  BY <1>1 DEF Inv, LocksExcluyentes, ColaConLock, locks
<1>6. Espera'
  <2>1. UnPedidoPorBloqueado'
    <3>1. \A m \in pedidos : m.pcb # NULL => m.pcb \in Procesos \ {p}
      BY <1>2 DEF Inv, TypeOK, Peticiones
    <3> QED
      BY <1>1, <1>3, <3>1 DEF Inv, Espera, UnPedidoPorBloqueado, filesystem
  <2> QED
    BY <1>1, <1>2, <1>3, <2>1 DEF Inv, Espera, EnCola, TieneEntrada, locks, filesystem
<1>7. Despacho' /\ Conocidos'
  BY <1>1 DEF Inv, Despacho, Conocidos, FileSystemConoce, filesystem
<1> QED
  BY <1>4, <1>5, <1>6, <1>7 DEF Inv

LEMMA PasoResponder ==
  ASSUME Inv, NEW m \in pedidos, Responder(m)
  PROVE  Inv'
<1>0. PICK p : p = m.pcb
  OBVIOUS
<1>1. /\ p # NULL /\ pedidos' = pedidos \ {m} /\ Desbloquear(p)
      /\ UNCHANGED <<archivos_abiertos, lista_archivos_abiertos, locks, despacho, fcbs, kernel>>
  BY <1>0 DEF Responder
<1>2. p \in Procesos
  BY <1>0, <1>1 DEF Inv, TypeOK, Peticiones
<1>3. estado[p] # "EXIT" => \A n \in pedidos' : n.pcb # p
  BY <1>0, <1>1 DEF Inv, Espera, UnPedidoPorBloqueado
<1>4. \A f \in Nombres : EnCola(f, p) => estado[p] = "EXIT"
  BY <1>0, <1>2 DEF Inv, Espera
<1>5. /\ estado' \in [Procesos -> {"READY", "EXEC", "BLOCKED", "EXIT"}]
      /\ \A q \in Procesos : /\ estado[q] = "EXEC" => estado'[q] = "EXEC"
                             /\ estado'[q] = "EXIT" <=> estado[q] = "EXIT"
      /\ Espera'
  <2>1. pedidos' \subseteq pedidos
    BY <1>1
  <2> QED
    BY <1>1, <1>2, <1>3, <1>4, <2>1, DespertarSinEspera DEF locks
<1>6. TypeOK'
  BY <1>1, <1>5 DEF Inv, TypeOK, locks
<1>7. LocksExcluyentes' /\ ColaConLock'
  BY <1>1 DEF Inv, LocksExcluyentes, ColaConLock, locks
<1>8. Despacho'
  <2>1. \A q \in Procesos : Servido(q) => Servido(q)'
    BY <1>1, <1>5 DEF Servido, EnCola, locks
  <2> QED
    BY <1>1, <1>5, <2>1 DEF Inv, Despacho, TieneEntrada, locks
<1>9. Conocidos'
  BY <1>1 DEF Inv, Conocidos, FileSystemConoce
<1> QED
  BY <1>5, <1>6, <1>7, <1>8, <1>9 DEF Inv

-------------------------------------------------------------------------------
LEMMA InvInicial ==
  ASSUME Init
  PROVE  Inv
<1>1. TypeOK
  BY DEF Init, TypeOK, Libre, Ops
<1>2. \A f \in Nombres : ToSet(cola_block_procesos[f]) = {} /\ IsInjective(cola_block_procesos[f])
  BY DEF Init, ToSet, IsInjective
<1>3. LocksExcluyentes /\ ColaConLock /\ Espera
  BY <1>2 DEF Init, LocksExcluyentes, ColaConLock, Espera, EnCola, UnPedidoPorBloqueado
<1>4. Despacho /\ Conocidos
  BY DEF Init, Despacho, Libre, Conocidos, FileSystemConoce
<1> QED
  BY <1>1, <1>3, <1>4 DEF Inv

LEMMA InvPaso ==
  ASSUME Inv, [Next]_vars
  PROVE  Inv'
<1>1. ASSUME NEW p \in Procesos, Ejecutar(p) \/ Reubicar(p) \/ Salir(p) \/ Finalizar(p)
      PROVE  Inv'
  BY <1>1, PasoEjecutar
<1>2. ASSUME NEW p \in Procesos, NEW f \in Nombres, NEW m \in Modos, FOpen(p, f, m)
      PROVE  Inv'
  BY <1>2, PasoFOpen
<1>3. ASSUME NEW p \in Procesos, NEW f \in Nombres,
             \/ FClose(p, f) \/ FTruncate(p, f) \/ FTruncateSinAbrir(p, f) \/ FRead(p, f)
             \/ FWrite(p, f) \/ FWriteSinLock(p, f) \/ FReadWriteSinAbrir(p, f)
      PROVE  Inv'
  BY <1>3, PasoFClose, PasoPedir, PasoSinAbrir, PasoFWriteSinLock, PasoCaer
     DEF FReadWriteSinAbrir
<1>4. ASSUME \/ RespuestaAbrir \/ RespuestaCrear
             \/ DespertarPrimero \/ RepartirALector \/ FinReparto \/ DespertarLector
      PROVE  Inv'
  BY <1>4, PasoRespuestaAbrir, PasoRespuestaCrear, PasoDespertarPrimero,
     PasoRepartirALector, PasoFinReparto, PasoDespertarLector
<1>5. ASSUME NEW m \in pedidos, Responder(m) PROVE Inv'
  BY <1>5, PasoResponder
<1>6. CASE UNCHANGED vars
  <2>1. TypeOK' /\ LocksExcluyentes' /\ ColaConLock'
    BY <1>6 DEF vars, locks, filesystem, Inv, TypeOK, LocksExcluyentes, ColaConLock
  <2>2. Espera' /\ Despacho' /\ Conocidos'
    BY <1>6 DEF vars, locks, filesystem, Inv, Espera, UnPedidoPorBloqueado, EnCola, TieneEntrada,
                Despacho, Servido, Conocidos, FileSystemConoce
  <2> QED
    BY <2>1, <2>2 DEF Inv
<1> QED
  BY <1>1, <1>2, <1>3, <1>4, <1>5, <1>6 DEF Next, Acciones

(* The invariant holds in every behaviour.                                  *)
LEMMA InvSiempre == Spec => []Inv
<1>1. Init => Inv
  BY InvInicial
<1>2. Inv /\ [Next]_vars => Inv'
  BY InvPaso
<1> QED
  BY <1>1, <1>2, PTL DEF Spec

(* The PCBs, the locks, the queues and the requests keep their types        *)
(* whatever the order of F_OPEN, F_CLOSE, the answers and the deaths.       *)
THEOREM TiposDeArchivos == Spec => []TypeOK
<1>1. Inv => TypeOK
  BY DEF Inv
<1> QED
  BY <1>1, InvSiempre, PTL

(* A file is never locked for reading and for writing at once.              *)
THEOREM LocksSiempreExcluyentes == Spec => []LocksExcluyentes
<1>1. Inv => LocksExcluyentes
  BY DEF Inv
<1> QED
  BY <1>1, InvSiempre, PTL

(* Nobody is left in the queue of a file that has no lock: F_CLOSE never    *)
(* loses the wake-up.                                                       *)
THEOREM NadieEsperaUnArchivoLibre == Spec => []ColaConLock
<1>1. Inv => ColaConLock
  BY DEF Inv
<1> QED
  BY <1>1, InvSiempre, PTL

(* A living process in the queue of a file is in BLOCKED, in it once, and   *)
(* no answer of the FileSystem can wake it without the lock.                *)
THEOREM ColaSoloDeLosQueEsperan == Spec => []EnColaSoloEspera
<1>1. Inv => EnColaSoloEspera
  <2> SUFFICES ASSUME Inv, NEW p \in Procesos, NEW f \in Nombres,
                      estado[p] # "EXIT", EnCola(f, p)
               PROVE  /\ estado[p] = "BLOCKED"
                      /\ Cardinality({i \in DOMAIN cola_block_procesos[f] :
                                        cola_block_procesos[f][i] = p}) = 1
                      /\ \A m \in pedidos : m.pcb # p
    BY Zenon DEF EnColaSoloEspera
  <2>1. estado[p] = "BLOCKED" /\ \A m \in pedidos : m.pcb # p
    BY DEF Inv, Espera
  <2>2. \E i \in DOMAIN cola_block_procesos[f] :
          {j \in DOMAIN cola_block_procesos[f] : cola_block_procesos[f][j] = p} = {i}
    BY DEF Inv, Espera, IsInjective, EnCola, ToSet
  <2> QED
    BY <2>1, <2>2, FS_Singleton
<1> QED
  BY <1>1, InvSiempre, PTL

(* A living process for which the FileSystem works waits for that answer    *)
(* alone.                                                                   *)
THEOREM UnaRespuestaPorProceso == Spec => []UnPedidoPorBloqueado
<1>1. Inv => UnPedidoPorBloqueado
  BY DEF Inv, Espera
<1> QED
  BY <1>1, InvSiempre, PTL

(* The FileSystem is only asked to work on a file that has an FCB, and to   *)
(* create one that has none.                                                *)
THEOREM FileSystemSiempreConoce == Spec => []FileSystemConoce
<1>1. Inv => FileSystemConoce
  BY DEF Inv, Conocidos
<1> QED
  BY <1>1, InvSiempre, PTL

(* Nobody leaves the queue of a file but its head, and it leaves it with    *)
(* the lock; nobody joins it but at the end.                                *)
LEMMA TurnoPaso ==
  ASSUME Inv, Next, NEW f \in Nombres
  PROVE  \/ cola_block_procesos'[f] = cola_block_procesos[f]
         \/ \E p \in Procesos :
              cola_block_procesos'[f] = Append(cola_block_procesos[f], p)
         \/ /\ cola_block_procesos'[f] = Tail(cola_block_procesos[f])
            /\ LET p == Head(cola_block_procesos[f]) IN
               \E e \in ToSet(archivos_abiertos'[p]) : e.archivo = f /\ e.otorgado
<1> DEFINE Turno ==
      \/ cola_block_procesos'[f] = cola_block_procesos[f]
      \/ \E p \in Procesos :
           cola_block_procesos'[f] = Append(cola_block_procesos[f], p)
      \/ /\ cola_block_procesos'[f] = Tail(cola_block_procesos[f])
         /\ LET p == Head(cola_block_procesos[f]) IN
            \E e \in ToSet(archivos_abiertos'[p]) : e.archivo = f /\ e.otorgado
<1> SUFFICES Turno
  OBVIOUS
<1>0. cola_block_procesos \in [Nombres -> Seq(Procesos)]
  BY DEF Inv, TypeOK
<1>1. ASSUME NEW p \in Procesos, NEW g, NEW m, ConcederOBloquear(p, g, m) PROVE Turno
  <2>1. \/ cola_block_procesos' = cola_block_procesos
        \/ cola_block_procesos' =
             [cola_block_procesos EXCEPT ![g] = Append(cola_block_procesos[g], p)]
    BY <1>1, Zenon DEF ConcederOBloquear
  <2> QED
    BY <1>0, <2>1
<1>2. ASSUME NEW p \in Procesos, NEW g \in Nombres, NEW m \in Modos, FOpen(p, g, m)
      PROVE  Turno
  BY <1>1, <1>2 DEF FOpen, AbrirPrimeraVez, locks
<1>3. CASE RespuestaAbrir \/ RespuestaCrear
  <2>1. despacho.op \in {"ABRIENDO", "CREANDO"}
    BY <1>3 DEF RespuestaAbrir, RespuestaCrear, EnHandler
  <2>2. despacho.pcb \in Procesos
    BY <2>1 DEF Inv, Despacho
  <2>3. \/ ConcederOBloquear(despacho.pcb, despacho.archivo, despacho.modo)
        \/ UNCHANGED cola_block_procesos
    BY <1>3, Zenon DEF RespuestaAbrir, RespuestaCrear, locks
  <2> QED
    BY <1>1, <2>2, <2>3
<1>4. ASSUME NEW q \in Procesos, NEW g \in Nombres, TieneEntrada(q, g),
             NEW lectura \in [Nombres -> [locked : BOOLEAN, cantidad : Int]],
             NEW escritura \in [Nombres -> BOOLEAN],
             cola_block_procesos[g] # <<>>, q = Head(cola_block_procesos[g]),
             DarLock(q, g, lectura, escritura),
             cola_block_procesos' =
               [cola_block_procesos EXCEPT ![g] = Tail(cola_block_procesos[g])]
      PROVE  Turno
  <2>1. \E e \in ToSet(archivos_abiertos'[q]) : e.archivo = g /\ e.otorgado
    <3>1. TypeOK /\ DarLock(q, g, lectura, escritura) /\ TieneEntrada(q, g)
      BY <1>4 DEF Inv
    <3> QED
      BY <3>1, DarElLock
  <2>2. CASE f = g
    BY <1>0, <1>4, <2>1, <2>2
  <2>3. CASE f # g
    BY <1>0, <1>4, <2>3
  <2> QED
    BY <2>2, <2>3
<1>5. ASSUME NEW p \in Procesos, NEW g \in Nombres, FClose(p, g) PROVE Turno
  <2>0. PICK lectura, escritura, q :
          /\ lectura = IF Entrada(p, g).modo = "R"
                       THEN [lock_lectura EXCEPT ![g] = SinLector(lock_lectura[g])]
                       ELSE lock_lectura
          /\ escritura = IF Entrada(p, g).modo = "W"
                         THEN [lock_escritura EXCEPT ![g] = FALSE] ELSE lock_escritura
          /\ q = Head(cola_block_procesos[g])
    OBVIOUS
  <2>1. \/ UNCHANGED cola_block_procesos
        \/ /\ cola_block_procesos[g] # <<>>
           /\ cola_block_procesos' =
                [cola_block_procesos EXCEPT ![g] = Tail(cola_block_procesos[g])]
           /\ DarLock(q, g, lectura, escritura)
    BY <1>5, <2>0, Zenon DEF FClose
  <2>2. /\ lectura \in [Nombres -> [locked : BOOLEAN, cantidad : Int]]
        /\ escritura \in [Nombres -> BOOLEAN]
    BY <2>0 DEF Inv, TypeOK, SinLector
  <2>3. CASE UNCHANGED cola_block_procesos
    BY <2>3
  <2>4. CASE /\ cola_block_procesos[g] # <<>>
             /\ cola_block_procesos' =
                  [cola_block_procesos EXCEPT ![g] = Tail(cola_block_procesos[g])]
             /\ DarLock(q, g, lectura, escritura)
    <3>1. q \in Procesos /\ EnCola(g, q)
      BY <2>0, <2>4, SacarCabeza
    <3>2. TieneEntrada(q, g)
      BY <3>1 DEF Inv, Espera
    <3> QED
      BY <1>4, <2>0, <2>2, <2>4, <3>1, <3>2
  <2> QED
    BY <2>1, <2>3, <2>4
<1>6. CASE RepartirALector
  <2>0. PICK q, g : q = despacho.pcb /\ g = despacho.archivo
    OBVIOUS
  <2>1. /\ q \in Procesos /\ g \in Nombres /\ TieneEntrada(q, g)
        /\ DarLock(q, g, lock_lectura, lock_escritura)
    BY <1>6, <2>0 DEF RepartirALector, EnHandler, Inv, Despacho
  <2>2. \/ cola_block_procesos' = cola_block_procesos
        \/ /\ cola_block_procesos[g] # <<>> /\ q = Head(cola_block_procesos[g])
           /\ cola_block_procesos' =
                [cola_block_procesos EXCEPT ![g] = Tail(cola_block_procesos[g])]
    BY <1>6, <2>0, SacaLaCabeza
  <2>3. /\ lock_lectura \in [Nombres -> [locked : BOOLEAN, cantidad : Int]]
        /\ lock_escritura \in [Nombres -> BOOLEAN]
    BY DEF Inv, TypeOK
  <2> QED
    BY <1>4, <2>1, <2>2, <2>3
<1>7. CASE UNCHANGED cola_block_procesos
  BY <1>7
<1>8. ASSUME NEW p \in Procesos,
             \/ Ejecutar(p) \/ Reubicar(p) \/ Salir(p) \/ Finalizar(p)
             \/ \E g \in Nombres : \/ FTruncate(p, g) \/ FTruncateSinAbrir(p, g) \/ FRead(p, g)
                                   \/ FWrite(p, g) \/ FWriteSinLock(p, g)
                                   \/ FReadWriteSinAbrir(p, g)
      PROVE  UNCHANGED cola_block_procesos
  BY <1>8 DEF Ejecutar, Reubicar, Salir, Finalizar, FTruncate, FTruncateSinAbrir, FRead, FWrite,
              FWriteSinLock, FReadWriteSinAbrir, PedirYBloquear, Caer, locks
<1>9. ASSUME \/ DespertarPrimero \/ FinReparto \/ DespertarLector
             \/ \E m \in pedidos : Responder(m)
      PROVE  UNCHANGED cola_block_procesos
  BY <1>9 DEF DespertarPrimero, FinReparto, DespertarLector, Responder, Caer, locks
<1> HIDE DEF Turno
<1> QED
  BY <1>2, <1>3, <1>5, <1>6, <1>7, <1>8, <1>9 DEF Next, Acciones

(* Whoever waits for a file is served before those behind it, and leaves    *)
(* the queue only to be given the lock.                                     *)
THEOREM TurnoSiempreRespetado == Spec => TurnoDeLaCola
<1>1. Inv /\ [Next]_vars =>
        [\A f \in Nombres :
           \/ cola_block_procesos'[f] = cola_block_procesos[f]
           \/ \E p \in Procesos :
                cola_block_procesos'[f] = Append(cola_block_procesos[f], p)
           \/ /\ cola_block_procesos'[f] = Tail(cola_block_procesos[f])
              /\ LET p == Head(cola_block_procesos[f]) IN
                 \E e \in ToSet(archivos_abiertos'[p]) : e.archivo = f /\ e.otorgado]_vars
  BY TurnoPaso
<1> QED
  BY <1>1, InvSiempre, PTL DEF Spec, TurnoDeLaCola
===============================================================================
