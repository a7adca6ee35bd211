--------------------------- MODULE Recursos_proofs ----------------------------
(***************************************************************************)
(* Theorems about Recursos, for any number of processes, of resources and  *)
(* of instances: the queues agree with the lists of the PCBs, nobody is    *)
(* forgotten in BLOCKED, and the queues are served in order.               *)
(***************************************************************************)
EXTENDS Recursos, Listas_proofs, FiniteSetTheorems

-------------------------------------------------------------------------------
(* The inductive invariant.                                                 *)

(* lista_blocked holds, once, the processes in BLOCKED that nobody is       *)
(* killing; a process that is being killed never runs again.                *)
Bloqueados ==
  /\ IsInjective(lista_blocked)
  /\ \A p \in Procesos :
       EnCola(lista_blocked, p) <=> estado[p] = "BLOCKED" /\ p \notin finalizando
  /\ \A p \in finalizando : estado[p] # "EXEC"

(* The queues: a process is in one of them at most, once.                   *)
Colas ==
  /\ \A r \in Recursos : IsInjective(lista_bloqueados[r])
  /\ \A r \in Recursos, s \in Recursos, p \in Procesos :
       EnCola(lista_bloqueados[r], p) /\ EnCola(lista_bloqueados[s], p) => r = s
  /\ \A r \in Recursos, p \in Procesos :
       EnCola(lista_bloqueados[r], p) /\ p \notin finalizando =>
         estado[p] = "BLOCKED" /\ lista_recursos[p] # <<>> /\ Last(lista_recursos[p]) = r

(* A process that is being given an instance left the queues, and nobody    *)
(* else is giving it one.                                                   *)
EnMano ==
  \A r \in Recursos, p \in Procesos : en_curso[r].pcb = p =>
    /\ \A s \in Recursos : ~EnCola(lista_bloqueados[s], p)
    /\ \A s \in Recursos : en_curso[s].pcb = p => s = r
    /\ p \notin finalizando => estado[p] = "BLOCKED"

(* What the handler of the dispatch thread knows of its process.            *)
Manejador ==
  /\ despacho.op \in {"WAIT_TOMA", "WAIT_NIEGA"} =>
       despacho.pcb \in Procesos /\ despacho.recurso \in Recursos /\ estado[despacho.pcb] = "EXEC"
  /\ despacho.op \in {"SIGNAL_SUMA", "SIGNAL_MIRA", "ASIGNA"} => despacho.recurso \in Recursos
  /\ despacho.op \in {"WAIT_BLOQUEADO", "COLGADO"} =>
       /\ despacho.pcb \in Procesos /\ despacho.recurso \in Recursos
       /\ \A r \in Recursos : ~EnCola(lista_bloqueados[r], despacho.pcb)
       /\ \A r \in Recursos : en_curso[r].pcb # despacho.pcb
       /\ despacho.pcb \notin finalizando =>
            /\ estado[despacho.pcb] = "BLOCKED" /\ lista_recursos[despacho.pcb] # <<>>
            /\ Last(lista_recursos[despacho.pcb]) = despacho.recurso

(* What the holder of mutex_bloqueados will write.                          *)
PorEscribir ==
  \A r \in Recursos :
    /\ IF en_curso[r].pcb = NULL THEN en_curso[r].suma >= 0 ELSE en_curso[r].suma = -1
    /\ MutexLibre(r) <=> en_curso[r].hilo = "NADIE"
    /\ en_curso[r].hilo = "DISPATCH" => despacho.op = "TERMINA"
    /\ en_curso[r].suma > 0 /\ finalizando = {} => en_curso[r].hilo = "DISPATCH"

(* A resource, or the dispatch thread on its way to it, has p.              *)
EnRecurso(p) == \E r \in Recursos : EnCola(lista_bloqueados[r], p) \/ en_curso[r].pcb = p
EnHilo(p) == despacho.op \in {"WAIT_BLOQUEADO", "COLGADO"} /\ despacho.pcb = p

(* Who is in BLOCKED is there for another thread or for a resource.         *)
Olvido ==
  \A p \in Procesos \ finalizando :
    /\ EnCola(lista_blocked, p) => p \in por_otro \/ EnRecurso(p) \/ EnHilo(p)
    /\ p \in por_otro => EnCola(lista_blocked, p) /\ ~EnRecurso(p) /\ ~EnHilo(p)

Inv == TypeOK /\ Bloqueados /\ Colas /\ EnMano /\ Manejador /\ PorEscribir /\ Olvido

-------------------------------------------------------------------------------
(* list_remove_element leaves a list of the same PCBs.                      *)
LEMMA ListaQuitada ==
  ASSUME NEW S, NEW s \in Seq(S), NEW x
  PROVE  RemoveFirst(s, x) \in Seq(S)
<1>1. CASE x \notin ToSet(s)
  BY <1>1, QuitarPrimero
<1>2. CASE x \in ToSet(s)
  <2>1. PICK k \in 1..Len(s) : RemoveFirst(s, x) = RemoveAt(s, k)
    BY <1>2, QuitarPrimero
  <2> QED
    BY <2>1, ListaSinLugar
<1> QED
  BY <1>1, <1>2

(* How many times an element is in a list.                                  *)
LEMMA VecesEnLista ==
  ASSUME NEW S, NEW s \in Seq(S), NEW x
  PROVE  /\ Veces(s, x) \in Nat
         /\ x \in ToSet(s) => Veces(s, x) > 0
         /\ x \in ToSet(s) /\ IsInjective(s) => Veces(s, x) = 1
<1> DEFINE N == {i \in DOMAIN s : s[i] = x}
<1>1. Len(s) \in Nat /\ DOMAIN s = 1..Len(s)
  BY LenProperties
<1>2. IsFiniteSet(N) /\ Cardinality(N) \in Nat
  <2>1. IsFiniteSet(1..Len(s))
    BY <1>1, FS_Interval
  <2>2. N \in SUBSET (1..Len(s))
    BY <1>1
  <2> QED
    BY <2>1, <2>2, FS_Subset, FS_CardinalityType
<1>3. ASSUME x \in ToSet(s) PROVE Cardinality(N) > 0
  <2>1. N # {}
    BY <1>3 DEF ToSet
  <2>2. Cardinality(N) # 0
    BY <1>2, <2>1, FS_EmptySet
  <2> QED
    BY <1>2, <2>2
<1>4. ASSUME x \in ToSet(s), IsInjective(s) PROVE Cardinality(N) = 1
  <2>1. \E i \in DOMAIN s : N = {i}
    BY <1>4 DEF ToSet, IsInjective
  <2> QED
    BY <2>1, FS_Singleton
<1> QED
  BY <1>2, <1>3, <1>4 DEF Veces

(* The types that the steps use.                                            *)
LEMMA Tipos ==
  ASSUME Inv
  PROVE  /\ NULL \notin Procesos
         /\ \A p \in Procesos : estado[p] \in {"READY", "EXEC", "BLOCKED", "EXIT"}
         /\ finalizando \subseteq Procesos
         /\ \A r \in Recursos : /\ instancias[r] \in Int
                                /\ asignaciones[r] \in Nat
                                /\ en_curso[r].pcb \in Procesos \cup {NULL}
                                /\ en_curso[r].suma \in Int /\ en_curso[r].leido \in Int
                                /\ en_curso[r].hilo \in {"NADIE", "HILO", "DISPATCH"}
         /\ despacho.leido \in Int
  BY ConstantesRecursos DEF Inv, TypeOK

(* A process in EXEC is nowhere else.                                       *)
LEMMA EnExecNoEspera ==
  ASSUME Inv, NEW p \in Procesos, estado[p] = "EXEC"
  PROVE  /\ p \notin finalizando /\ ~EnCola(lista_blocked, p)
         /\ \A r \in Recursos : ~EnCola(lista_bloqueados[r], p) /\ en_curso[r].pcb # p
         /\ despacho.op \in {"WAIT_BLOQUEADO", "COLGADO"} => despacho.pcb # p
<1>1. p \notin finalizando /\ ~EnCola(lista_blocked, p)
  BY DEF Inv, Bloqueados
<1>2. \A r \in Recursos : ~EnCola(lista_bloqueados[r], p) /\ en_curso[r].pcb # p
  BY <1>1 DEF Inv, Colas, EnMano
<1> QED
  BY <1>1, <1>2 DEF Inv, Manejador

(* The steps after which the same processes wait, in the same way.          *)
LEMMA ColasIguales ==
  ASSUME Inv, UNCHANGED <<lista_bloqueados, en_curso, finalizando>>,
         lista_recursos' \in [Procesos -> Seq(Recursos)],
         \A p \in Procesos :
           \/ estado'[p] = estado[p] /\ lista_recursos'[p] = lista_recursos[p]
           \/ /\ \A r \in Recursos : ~EnCola(lista_bloqueados[r], p) /\ en_curso[r].pcb # p
  PROVE  Colas' /\ EnMano'
<1>1. Colas'
  BY DEF Inv, Colas, EnCola
<1>2. EnMano'
  BY DEF Inv, EnMano, EnCola
<1> QED
  BY <1>1, <1>2

(* The steps after which the same processes are in BLOCKED, for the same.   *)
MismasEsperas ==
  /\ por_otro' = por_otro /\ finalizando \subseteq finalizando'
  /\ \A p \in Procesos \ finalizando' :
       /\ EnCola(lista_blocked, p)' <=> EnCola(lista_blocked, p)
       /\ EnRecurso(p)' \/ EnHilo(p)' <=> EnRecurso(p) \/ EnHilo(p)

LEMMA OlvidoIgual ==
  ASSUME Inv, MismasEsperas
  PROVE  Olvido'
<1>1. \A p \in Procesos \ finalizando' : p \in Procesos \ finalizando
  BY DEF MismasEsperas
<1> QED
  BY <1>1, Zenon DEF Inv, Olvido, MismasEsperas

(* A process in EXEC is on nobody's account.                                *)
LEMMA EnExecNadieLoEspera ==
  ASSUME Inv, NEW p \in Procesos, estado[p] = "EXEC"
  PROVE  p \notin por_otro /\ ~EnRecurso(p) /\ ~EnHilo(p)
<1>1. p \notin finalizando /\ ~EnCola(lista_blocked, p)
  BY EnExecNoEspera
<1>2. p \notin por_otro
  BY <1>1 DEF Inv, Olvido
<1>3. ~EnRecurso(p)
  BY EnExecNoEspera DEF EnRecurso
<1>4. ~EnHilo(p)
  BY EnExecNoEspera DEF EnHilo
<1> QED
  BY <1>2, <1>3, <1>4

(* What the dispatch thread keeps when its handler ends or goes on.         *)
LEMMA OtroPunto ==
  ASSUME Inv, NEW o \in Handlers, NEW d, d = [despacho EXCEPT !.op = o] \/ d = [Libre EXCEPT !.op = o]
  PROVE  /\ d \in [op : Handlers, pcb : Procesos \cup {NULL},
                   recurso : Recursos \cup {NULL}, leido : Int]
         /\ d.op = o
         /\ d = [despacho EXCEPT !.op = o] => d.recurso = despacho.recurso /\ d.pcb = despacho.pcb
<1>1. CASE d = [despacho EXCEPT !.op = o]
  BY <1>1 DEF Inv, TypeOK
<1>2. CASE d = [Libre EXCEPT !.op = o]
  <2>1. d = [op |-> o, pcb |-> NULL, recurso |-> NULL, leido |-> 0]
    BY <1>2 DEF Libre
  <2>2. d = [despacho EXCEPT !.op = o] => d.recurso = despacho.recurso /\ d.pcb = despacho.pcb
    BY DEF Inv, TypeOK
  <2> QED
    BY <2>1, <2>2
<1> QED
  BY <1>1, <1>2

(* A process that joins lista_blocked, and one that is made ready from it.  *)
LEMMA AlFinalDeBlocked ==
  ASSUME Inv, NEW p \in Procesos, p \notin finalizando, ~EnCola(lista_blocked, p),
         estado' = [estado EXCEPT ![p] = "BLOCKED"],
         lista_blocked' = Append(lista_blocked, p), finalizando' = finalizando
  PROVE  Bloqueados' /\ lista_blocked' \in Seq(Procesos)
<1>1. /\ Append(lista_blocked, p) \in Seq(Procesos)
      /\ ToSet(Append(lista_blocked, p)) = ToSet(lista_blocked) \cup {p}
      /\ IsInjective(Append(lista_blocked, p))
  BY ListaConAppend DEF Inv, TypeOK, Bloqueados, EnCola
<1>2. estado' \in [Procesos -> {"READY", "EXEC", "BLOCKED", "EXIT"}] /\ estado'[p] = "BLOCKED"
      /\ \A q \in Procesos \ {p} : estado'[q] = estado[q]
  BY DEF Inv, TypeOK
<1>3. finalizando \subseteq Procesos
  BY Tipos
<1> QED
  BY <1>1, <1>2, <1>3 DEF Inv, Bloqueados, EnCola

LEMMA FueraDeBlocked ==
  ASSUME Inv, NEW p \in Procesos, EnCola(lista_blocked, p),
         estado' = [estado EXCEPT ![p] = "READY"],
         lista_blocked' = RemoveFirst(lista_blocked, p), finalizando' = finalizando
  PROVE  Bloqueados' /\ lista_blocked' \in Seq(Procesos)
<1>1. /\ RemoveFirst(lista_blocked, p) \in Seq(Procesos)
      /\ ToSet(RemoveFirst(lista_blocked, p)) = ToSet(lista_blocked) \ {p}
      /\ IsInjective(RemoveFirst(lista_blocked, p))
  <2>1. lista_blocked \in Seq(Procesos) /\ IsInjective(lista_blocked) /\ p \in ToSet(lista_blocked)
    BY DEF Inv, TypeOK, Bloqueados, EnCola
  <2> QED
    BY <2>1, ListaSinElemento
<1>2. estado' \in [Procesos -> {"READY", "EXEC", "BLOCKED", "EXIT"}] /\ estado'[p] = "READY"
      /\ \A q \in Procesos \ {p} : estado'[q] = estado[q]
  BY DEF Inv, TypeOK
<1>3. finalizando \subseteq Procesos
  BY Tipos
<1> QED
  BY <1>1, <1>2, <1>3 DEF Inv, Bloqueados, EnCola

(* The steps of the dispatch thread that move no process.                   *)
LEMMA SinMoverProcesos ==
  ASSUME Inv, UNCHANGED <<estado, lista_blocked, lista_bloqueados, en_curso, finalizando>>,
         lista_recursos' \in [Procesos -> Seq(Recursos)],
         \A p \in Procesos : estado[p] = "EXEC" \/ lista_recursos'[p] = lista_recursos[p]
  PROVE  Bloqueados' /\ Colas' /\ EnMano'
<1>1. \A p \in Procesos :
        \/ estado'[p] = estado[p] /\ lista_recursos'[p] = lista_recursos[p]
        \/ \A r \in Recursos : ~EnCola(lista_bloqueados[r], p) /\ en_curso[r].pcb # p
  BY EnExecNoEspera
<1>2. Colas' /\ EnMano'
  BY <1>1, ColasIguales
<1>3. Bloqueados'
  BY DEF Inv, Bloqueados, EnCola
<1> QED
  BY <1>2, <1>3

-------------------------------------------------------------------------------
(* One lemma for each step.                                                 *)

(* A process that no resource knows of changes of state.                    *)
LEMMA CambioDeEstado ==
  ASSUME Inv, NEW p \in Procesos, NEW e \in {"READY", "EXEC", "BLOCKED", "EXIT"},
         estado' = [estado EXCEPT ![p] = e],
         lista_blocked' \in Seq(Procesos), Bloqueados',
         motivo_recurso' \in [Procesos -> BOOLEAN],
         \A r \in Recursos : ~EnCola(lista_bloqueados[r], p) /\ en_curso[r].pcb # p,
         despacho.op \in {"WAIT_TOMA", "WAIT_NIEGA", "WAIT_BLOQUEADO", "COLGADO"} => despacho.pcb # p,
         por_otro' \subseteq Procesos, Olvido',
         UNCHANGED <<lista_recursos, recursos, despacho, finalizando, deteccion>>
  PROVE  Inv'
<1>1. TypeOK'
  BY DEF Inv, TypeOK, recursos, deteccion
<1>2. Colas' /\ EnMano'
  <2>1. /\ \A q \in Procesos : q # p => estado'[q] = estado[q]
        /\ lista_recursos' \in [Procesos -> Seq(Recursos)]
    BY <1>1 DEF Inv, TypeOK
  <2>2. UNCHANGED <<lista_bloqueados, en_curso, finalizando, lista_recursos>>
    BY DEF recursos
  <2> QED
    BY <2>1, <2>2, ColasIguales
<1>3. Manejador'
  <2>1. \A q \in Procesos : q # p => estado'[q] = estado[q]
    BY DEF Inv, TypeOK
  <2> QED
    BY <2>1 DEF Inv, Manejador, EnCola, recursos
<1>4. PorEscribir'
  BY DEF Inv, PorEscribir, MutexLibre, NadieEnCurso, recursos
<1> QED
  BY <1>1, <1>2, <1>3, <1>4 DEF Inv

LEMMA PasoEjecutar ==
  ASSUME Inv, NEW p \in Procesos, Ejecutar(p)
  PROVE  Inv'
<1>1. /\ estado[p] = "READY" /\ p \notin finalizando
      /\ estado' = [estado EXCEPT ![p] = "EXEC"]
      /\ UNCHANGED <<lista_blocked, motivo_recurso, por_otro>>
      /\ UNCHANGED <<lista_recursos, recursos, despacho, finalizando, deteccion>>
  BY DEF Ejecutar
<1>2. lista_blocked' \in Seq(Procesos) /\ motivo_recurso' \in [Procesos -> BOOLEAN]
  BY <1>1 DEF Inv, TypeOK
<1>3. Bloqueados'
  BY <1>1 DEF Inv, TypeOK, Bloqueados, EnCola
<1>4. \A r \in Recursos : ~EnCola(lista_bloqueados[r], p) /\ en_curso[r].pcb # p
  BY <1>1 DEF Inv, Colas, EnMano
<1>5. despacho.op \in {"WAIT_TOMA", "WAIT_NIEGA", "WAIT_BLOQUEADO", "COLGADO"} => despacho.pcb # p
  BY <1>1 DEF Inv, Manejador
<1>6. por_otro' \subseteq Procesos /\ Olvido'
  <2>1. \A q \in Procesos : /\ EnRecurso(q)' <=> EnRecurso(q)
                            /\ EnHilo(q)' <=> EnHilo(q)
    BY <1>1 DEF EnRecurso, EnHilo, EnCola, recursos
  <2>2. \A q \in Procesos : EnCola(lista_blocked, q)' <=> EnCola(lista_blocked, q)
    BY <1>1 DEF EnCola
  <2>3. MismasEsperas
    BY <1>1, <2>1, <2>2, Zenon DEF MismasEsperas
  <2>4. por_otro' \subseteq Procesos
    BY <1>1 DEF Inv, TypeOK
  <2> QED
    BY <2>3, <2>4, OlvidoIgual
<1> QED
  BY <1>1, <1>2, <1>3, <1>4, <1>5, <1>6, CambioDeEstado

LEMMA PasoReubicar ==
  ASSUME Inv, NEW p \in Procesos, Reubicar(p)
  PROVE  Inv'
<1>1. /\ estado[p] = "EXEC" /\ despacho.op = "LIBRE"
      /\ estado' = [estado EXCEPT ![p] = "READY"]
      /\ UNCHANGED <<lista_blocked, motivo_recurso, por_otro>>
      /\ UNCHANGED <<lista_recursos, recursos, despacho, finalizando, deteccion>>
  BY DEF Reubicar, Atrapa, EnHandler
<1>2. lista_blocked' \in Seq(Procesos) /\ motivo_recurso' \in [Procesos -> BOOLEAN]
  BY <1>1 DEF Inv, TypeOK
<1>3. Bloqueados'
  BY <1>1 DEF Inv, TypeOK, Bloqueados, EnCola
<1>4. \A r \in Recursos : ~EnCola(lista_bloqueados[r], p) /\ en_curso[r].pcb # p
  BY <1>1, EnExecNoEspera
<1>5. por_otro' \subseteq Procesos /\ Olvido'
  <2>1. \A q \in Procesos : /\ EnRecurso(q)' <=> EnRecurso(q)
                            /\ EnHilo(q)' <=> EnHilo(q)
    BY <1>1 DEF EnRecurso, EnHilo, EnCola, recursos
  <2>2. \A q \in Procesos : EnCola(lista_blocked, q)' <=> EnCola(lista_blocked, q)
    BY <1>1 DEF EnCola
  <2>3. MismasEsperas
    BY <1>1, <2>1, <2>2, Zenon DEF MismasEsperas
  <2>4. por_otro' \subseteq Procesos
    BY <1>1 DEF Inv, TypeOK
  <2> QED
    BY <2>3, <2>4, OlvidoIgual
<1> QED
  BY <1>1, <1>2, <1>3, <1>4, <1>5, CambioDeEstado

LEMMA PasoBloquearPorOtro ==
  ASSUME Inv, NEW p \in Procesos, BloquearPorOtro(p)
  PROVE  Inv'
<1>1. /\ estado[p] = "EXEC" /\ despacho.op = "LIBRE"
      /\ estado' = [estado EXCEPT ![p] = "BLOCKED"]
      /\ lista_blocked' = Append(lista_blocked, p)
      /\ por_otro' = por_otro \cup {p}
      /\ UNCHANGED <<lista_recursos, recursos, despacho, finalizando, deteccion>>
  BY DEF BloquearPorOtro, Atrapa, EnHandler
<1>2. motivo_recurso' \in [Procesos -> BOOLEAN]
  BY DEF BloquearPorOtro, Inv, TypeOK
<1>3. /\ p \notin finalizando /\ ~EnCola(lista_blocked, p)
      /\ \A r \in Recursos : ~EnCola(lista_bloqueados[r], p) /\ en_curso[r].pcb # p
  BY <1>1, EnExecNoEspera
<1>4. Bloqueados' /\ lista_blocked' \in Seq(Procesos)
  BY <1>1, <1>3, AlFinalDeBlocked
<1>5. por_otro' \subseteq Procesos
  BY <1>1 DEF Inv, TypeOK
<1>6. Olvido'
  <2>1. \A q \in Procesos : /\ EnRecurso(q)' <=> EnRecurso(q)
                            /\ EnHilo(q)' <=> EnHilo(q)
    BY <1>1 DEF EnRecurso, EnHilo, EnCola, recursos
  <2>2. ~EnRecurso(p) /\ ~EnHilo(p)
    BY <1>1, EnExecNadieLoEspera
  <2>3. \A q \in Procesos : EnCola(lista_blocked, q)' <=> EnCola(lista_blocked, q) \/ q = p
    BY <1>1, ListaConAppend DEF Inv, TypeOK, Bloqueados, EnCola
  <2>4. ASSUME NEW q \in Procesos \ finalizando'
        PROVE  /\ EnCola(lista_blocked, q)' => q \in por_otro' \/ EnRecurso(q)' \/ EnHilo(q)'
               /\ q \in por_otro' =>
                    EnCola(lista_blocked, q)' /\ ~EnRecurso(q)' /\ ~EnHilo(q)'
    <3>1. q \in Procesos \ finalizando /\ por_otro' = por_otro \cup {p}
      BY <1>1
    <3> QED
      BY <2>1, <2>2, <2>3, <3>1, Zenon DEF Inv, Olvido
  <2> QED
    BY <2>4, Zenon DEF Olvido
<1> QED
  BY <1>1, <1>2, <1>3, <1>4, <1>5, <1>6, CambioDeEstado

LEMMA PasoDesbloquearDeOtro ==
  ASSUME Inv, NEW p \in Procesos, DesbloquearDeOtro(p)
  PROVE  Inv'
<1>1. /\ p \in por_otro /\ por_otro' = por_otro \ {p}
      /\ UNCHANGED <<motivo_recurso, lista_recursos, recursos, despacho, finalizando, deteccion>>
      /\ \/ /\ EnCola(lista_blocked, p)
            /\ estado' = [estado EXCEPT ![p] = "READY"]
            /\ lista_blocked' = RemoveFirst(lista_blocked, p)
         \/ ~EnCola(lista_blocked, p) /\ UNCHANGED <<lista_blocked, estado>>
  BY Zenon DEF DesbloquearDeOtro, Despertar
<1>2. /\ por_otro' \subseteq Procesos /\ motivo_recurso' \in [Procesos -> BOOLEAN]
      /\ UNCHANGED <<lista_recursos, recursos, despacho, finalizando, deteccion>>
  BY <1>1 DEF Inv, TypeOK
<1>3. \A q \in Procesos : /\ EnRecurso(q)' <=> EnRecurso(q)
                          /\ EnHilo(q)' <=> EnHilo(q)
  BY <1>1 DEF EnRecurso, EnHilo, EnCola, recursos
<1>4. CASE EnCola(lista_blocked, p)
  <2>1. /\ estado' = [estado EXCEPT ![p] = "READY"]
        /\ lista_blocked' = RemoveFirst(lista_blocked, p)
    BY <1>1, <1>4
  <2>2. estado[p] = "BLOCKED" /\ p \notin finalizando
    BY <1>4 DEF Inv, Bloqueados
  <2>3. ~EnRecurso(p) /\ ~EnHilo(p)
    BY <1>1, <2>2 DEF Inv, Olvido
  <2>4. Bloqueados' /\ lista_blocked' \in Seq(Procesos)
    BY <1>2, <1>4, <2>1, FueraDeBlocked
  <2>5. /\ \A r \in Recursos : ~EnCola(lista_bloqueados[r], p) /\ en_curso[r].pcb # p
        /\ despacho.op \in {"WAIT_TOMA", "WAIT_NIEGA", "WAIT_BLOQUEADO", "COLGADO"} =>
             despacho.pcb # p
    BY <2>2, <2>3 DEF EnRecurso, EnHilo, Inv, Manejador
  <2>6. Olvido'
    <3>1. \A q \in Procesos : EnCola(lista_blocked, q)' <=> EnCola(lista_blocked, q) /\ q # p
      <4>1. /\ lista_blocked \in Seq(Procesos) /\ IsInjective(lista_blocked)
            /\ p \in ToSet(lista_blocked)
        BY <1>4 DEF Inv, TypeOK, Bloqueados, EnCola
      <4>2. ToSet(RemoveFirst(lista_blocked, p)) = ToSet(lista_blocked) \ {p}
        BY <4>1, ListaSinElemento
      <4> QED
        BY <2>1, <4>2 DEF EnCola
    <3>2. ASSUME NEW q \in Procesos \ finalizando'
          PROVE  /\ EnCola(lista_blocked, q)' => q \in por_otro' \/ EnRecurso(q)' \/ EnHilo(q)'
                 /\ q \in por_otro' =>
                      EnCola(lista_blocked, q)' /\ ~EnRecurso(q)' /\ ~EnHilo(q)'
      <4>1. q \in Procesos \ finalizando /\ por_otro' = por_otro \ {p}
        BY <1>1
      <4> QED
        BY <1>3, <2>3, <3>1, <4>1, Zenon DEF Inv, Olvido
    <3> QED
      BY <3>2, Zenon DEF Olvido
  <2> QED
    BY <1>2, <2>1, <2>4, <2>5, <2>6, CambioDeEstado
<1>5. CASE ~EnCola(lista_blocked, p)
  <2>1. UNCHANGED <<lista_blocked, estado>>
    BY <1>1, <1>5
  <2>2. TypeOK'
    BY <1>1, <1>2, <2>1 DEF Inv, TypeOK, recursos, deteccion
  <2>3. Bloqueados' /\ Colas' /\ EnMano'
    <3>1. UNCHANGED <<lista_bloqueados, en_curso, finalizando, estado, lista_blocked>>
      BY <1>1, <2>1 DEF recursos
    <3>2. lista_recursos' \in [Procesos -> Seq(Recursos)] /\ lista_recursos' = lista_recursos
      BY <1>1 DEF Inv, TypeOK
    <3> QED
      BY <3>1, <3>2, SinMoverProcesos
  <2>4. Manejador'
    BY <1>1, <2>1 DEF Inv, Manejador, EnCola, recursos
  <2>5. PorEscribir'
    BY <1>1 DEF Inv, PorEscribir, MutexLibre, NadieEnCurso, recursos
  <2>6. Olvido'
    <3>1. p \in finalizando
      BY <1>1, <1>5 DEF Inv, Olvido
    <3>2. \A q \in Procesos : EnCola(lista_blocked, q)' <=> EnCola(lista_blocked, q)
      BY <2>1 DEF EnCola
    <3>3. ASSUME NEW q \in Procesos \ finalizando'
          PROVE  /\ EnCola(lista_blocked, q)' => q \in por_otro' \/ EnRecurso(q)' \/ EnHilo(q)'
                 /\ q \in por_otro' =>
                      EnCola(lista_blocked, q)' /\ ~EnRecurso(q)' /\ ~EnHilo(q)'
      <4>1. q \in Procesos \ finalizando /\ por_otro' = por_otro \ {p}
        BY <1>1
      <4> QED
        BY <1>3, <3>1, <3>2, <4>1, Zenon DEF Inv, Olvido
    <3> QED
      BY <3>3, Zenon DEF Olvido
  <2> QED
    BY <2>2, <2>3, <2>4, <2>5, <2>6 DEF Inv
<1> QED
  BY <1>4, <1>5

LEMMA PasoWaitConsulta ==
  ASSUME Inv, NEW p \in Procesos, NEW r \in Recursos, WaitConsulta(p, r)
  PROVE  Inv'
<1>1. /\ estado[p] = "EXEC" /\ despacho.op = "LIBRE"
      /\ despacho' \in [op : Handlers, pcb : Procesos \cup {NULL},
                        recurso : Recursos \cup {NULL}, leido : Int]
      /\ despacho'.op \in {"WAIT_TOMA", "WAIT_NIEGA"}
      /\ despacho'.pcb = p /\ despacho'.recurso = r
  <2>1. instancias[r] \in Int
    BY Tipos
  <2> QED
    BY <2>1 DEF WaitConsulta, Atrapa, EnHandler, Pasar, Handlers
<1>2. UNCHANGED <<estado, lista_blocked, motivo_recurso, lista_recursos, por_otro, recursos,
                  finalizando, deteccion>>
  BY DEF WaitConsulta, procesos
<1>3. TypeOK'
  BY <1>1, <1>2 DEF Inv, TypeOK, recursos, deteccion
<1>4. Bloqueados' /\ Colas' /\ EnMano'
  <2>1. /\ UNCHANGED <<estado, lista_blocked, lista_bloqueados, en_curso, finalizando>>
        /\ lista_recursos' = lista_recursos /\ lista_recursos' \in [Procesos -> Seq(Recursos)]
    BY <1>2, <1>3 DEF TypeOK, recursos
  <2> QED
    BY <2>1, SinMoverProcesos
<1>5. Manejador'
  BY <1>1, <1>2 DEF Manejador
<1>6. PorEscribir'
  BY <1>1, <1>2 DEF Inv, PorEscribir, MutexLibre, NadieEnCurso, recursos
<1>7. Olvido'
  <2>1. \A q \in Procesos : /\ EnRecurso(q)' \/ EnHilo(q)' <=> EnRecurso(q) \/ EnHilo(q)
                            /\ EnCola(lista_blocked, q)' <=> EnCola(lista_blocked, q)
    BY <1>1, <1>2 DEF EnRecurso, EnHilo, EnCola, recursos
  <2>2. por_otro' = por_otro /\ finalizando \subseteq finalizando'
    BY <1>2
  <2>3. MismasEsperas
    BY <2>1, <2>2, Zenon DEF MismasEsperas
  <2> QED
    BY <2>3, OlvidoIgual
<1> QED
  BY <1>3, <1>4, <1>5, <1>6, <1>7 DEF Inv

LEMMA PasoWaitToma ==
  ASSUME Inv, WaitToma
  PROVE  Inv'
<1>0. PICK p, r : p = despacho.pcb /\ r = despacho.recurso
  OBVIOUS
<1>1. p \in Procesos /\ r \in Recursos /\ estado[p] = "EXEC" /\ despacho.op = "WAIT_TOMA"
  BY <1>0 DEF WaitToma, EnHandler, Inv, Manejador
<1>2. /\ lista_recursos' = [lista_recursos EXCEPT ![p] = Append(lista_recursos[p], r)]
      /\ pcb_asignado' = [pcb_asignado EXCEPT ![r] = p]
      /\ despacho' = Libre
      /\ UNCHANGED <<estado, lista_blocked, motivo_recurso, por_otro, lista_bloqueados,
                     asignaciones, en_curso, finalizando, deteccion>>
  BY <1>0, Zenon DEF WaitToma
<1>3. PICK v \in Leidos(r, despacho.leido) : instancias' = [instancias EXCEPT ![r] = v - 1]
  BY <1>0 DEF WaitToma
<1>4. v \in Int
  BY <1>1, Tipos DEF Leidos
<1>5. /\ Append(lista_recursos[p], r) \in Seq(Recursos)
      /\ lista_recursos' \in [Procesos -> Seq(Recursos)]
      /\ \A q \in Procesos \ {p} : lista_recursos'[q] = lista_recursos[q]
  BY <1>1, <1>2, AppendProperties DEF Inv, TypeOK
<1>6. TypeOK'
  <2>1. despacho' \in [op : Handlers, pcb : Procesos \cup {NULL},
                       recurso : Recursos \cup {NULL}, leido : Int]
    BY <1>2 DEF Libre, Handlers
  <2>2. /\ instancias' \in [Recursos -> Int]
        /\ pcb_asignado' \in [Recursos -> Procesos \cup {NULL}]
    BY <1>1, <1>2, <1>3, <1>4 DEF Inv, TypeOK
  <2> QED
    BY <1>2, <1>5, <2>1, <2>2 DEF Inv, TypeOK, deteccion
<1>7. Bloqueados' /\ Colas' /\ EnMano'
  <2>1. \A q \in Procesos : estado[q] = "EXEC" \/ lista_recursos'[q] = lista_recursos[q]
    BY <1>1, <1>5
  <2>2. UNCHANGED <<estado, lista_blocked, lista_bloqueados, en_curso, finalizando>>
    BY <1>2
  <2> QED
    BY <1>5, <2>1, <2>2, SinMoverProcesos
<1>8. Manejador'
  BY <1>2 DEF Manejador, Libre
<1>9. PorEscribir'
  BY <1>1, <1>2 DEF Inv, PorEscribir, MutexLibre, NadieEnCurso
<1>10. Olvido'
  <2>1. \A q \in Procesos : /\ EnRecurso(q)' \/ EnHilo(q)' <=> EnRecurso(q) \/ EnHilo(q)
                            /\ EnCola(lista_blocked, q)' <=> EnCola(lista_blocked, q)
    BY <1>1, <1>2 DEF EnRecurso, EnHilo, EnCola, Libre
  <2>2. por_otro' = por_otro /\ finalizando \subseteq finalizando'
    BY <1>2
  <2>3. MismasEsperas
    BY <2>1, <2>2, Zenon DEF MismasEsperas
  <2> QED
    BY <2>3, OlvidoIgual
<1> QED
  BY <1>6, <1>7, <1>8, <1>9, <1>10 DEF Inv

LEMMA PasoWaitBloquea ==
  ASSUME Inv, WaitBloquea
  PROVE  Inv'
<1>0. PICK p, r : p = despacho.pcb /\ r = despacho.recurso
  OBVIOUS
<1>1. p \in Procesos /\ r \in Recursos /\ estado[p] = "EXEC" /\ despacho.op = "WAIT_NIEGA"
  BY <1>0 DEF WaitBloquea, EnHandler, Inv, Manejador
<1>2. /\ estado' = [estado EXCEPT ![p] = "BLOCKED"]
      /\ lista_blocked' = Append(lista_blocked, p)
      /\ lista_recursos' = [lista_recursos EXCEPT ![p] = Append(lista_recursos[p], r)]
      /\ motivo_recurso' = [motivo_recurso EXCEPT ![p] = TRUE]
      /\ despacho' = [despacho EXCEPT !.op = "WAIT_BLOQUEADO"]
      /\ UNCHANGED <<por_otro, recursos, finalizando, deteccion>>
  BY <1>0, Zenon DEF WaitBloquea
<1>3. /\ p \notin finalizando /\ ~EnCola(lista_blocked, p)
      /\ \A s \in Recursos : ~EnCola(lista_bloqueados[s], p) /\ en_curso[s].pcb # p
  BY <1>1, EnExecNoEspera
<1>4. /\ Append(lista_recursos[p], r) \in Seq(Recursos)
      /\ Append(lista_recursos[p], r) # <<>>
      /\ Last(Append(lista_recursos[p], r)) = r
      /\ lista_recursos' \in [Procesos -> Seq(Recursos)]
      /\ lista_recursos'[p] = Append(lista_recursos[p], r)
      /\ \A q \in Procesos \ {p} : lista_recursos'[q] = lista_recursos[q]
  <2>1. lista_recursos[p] \in Seq(Recursos)
    BY <1>1 DEF Inv, TypeOK
  <2>2. /\ Append(lista_recursos[p], r) \in Seq(Recursos)
        /\ Append(lista_recursos[p], r) # <<>>
        /\ Last(Append(lista_recursos[p], r)) = r
    BY <1>1, <2>1, AppendProperties DEF Last
  <2> QED
    BY <1>1, <1>2, <2>2 DEF Inv, TypeOK
<1>5. /\ estado' \in [Procesos -> {"READY", "EXEC", "BLOCKED", "EXIT"}]
      /\ estado'[p] = "BLOCKED"
      /\ \A q \in Procesos \ {p} : estado'[q] = estado[q]
  BY <1>1, <1>2 DEF Inv, TypeOK
<1>6. /\ despacho' \in [op : Handlers, pcb : Procesos \cup {NULL},
                        recurso : Recursos \cup {NULL}, leido : Int]
      /\ despacho'.op = "WAIT_BLOQUEADO" /\ despacho'.pcb = p /\ despacho'.recurso = r
  BY <1>0, <1>2 DEF Inv, TypeOK, Handlers
<1>7. Bloqueados' /\ lista_blocked' \in Seq(Procesos)
  BY <1>1, <1>2, <1>3, AlFinalDeBlocked
<1>8. TypeOK'
  BY <1>2, <1>4, <1>5, <1>6, <1>7 DEF Inv, TypeOK, recursos, deteccion
<1>9. Colas' /\ EnMano'
  <2>1. \A q \in Procesos :
          \/ estado'[q] = estado[q] /\ lista_recursos'[q] = lista_recursos[q]
          \/ \A s \in Recursos : ~EnCola(lista_bloqueados[s], q) /\ en_curso[s].pcb # q
    BY <1>3, <1>4, <1>5
  <2>2. UNCHANGED <<lista_bloqueados, en_curso, finalizando>>
    BY <1>2 DEF recursos
  <2> QED
    BY <1>4, <2>1, <2>2, ColasIguales
<1>10. Manejador'
  BY <1>1, <1>2, <1>3, <1>4, <1>5, <1>6 DEF Manejador, EnCola, recursos
<1>11. PorEscribir'
  BY <1>1, <1>2, <1>6 DEF Inv, PorEscribir, MutexLibre, NadieEnCurso, recursos
<1>12. Olvido'
  <2>1. \A q \in Procesos : EnRecurso(q)' <=> EnRecurso(q)
    BY <1>2 DEF EnRecurso, EnCola, recursos
  <2>2. \A q \in Procesos : ~EnHilo(q) /\ (EnHilo(q)' <=> q = p)
    BY <1>1, <1>6 DEF EnHilo
  <2>3. \A q \in Procesos : EnCola(lista_blocked, q)' <=> EnCola(lista_blocked, q) \/ q = p
    BY <1>1, <1>2, <1>3, ListaConAppend DEF Inv, TypeOK, Bloqueados, EnCola
  <2>4. p \notin por_otro
    BY <1>1, EnExecNadieLoEspera
  <2> QED
    BY <1>2, <2>1, <2>2, <2>3, <2>4 DEF Inv, Olvido
<1> QED
  BY <1>7, <1>8, <1>9, <1>10, <1>11, <1>12 DEF Inv

LEMMA PasoWaitEncola ==
  ASSUME Inv, WaitEncola
  PROVE  Inv'
<1>0. PICK p, r : p = despacho.pcb /\ r = despacho.recurso
  OBVIOUS
<1>1. /\ p \in Procesos /\ r \in Recursos /\ despacho.op = "WAIT_BLOQUEADO"
      /\ \A s \in Recursos : ~EnCola(lista_bloqueados[s], p) /\ en_curso[s].pcb # p
      /\ p \notin finalizando =>
           estado[p] = "BLOCKED" /\ lista_recursos[p] # <<>> /\ Last(lista_recursos[p]) = r
  BY <1>0 DEF WaitEncola, EnHandler, Inv, Manejador
<1>2. /\ UNCHANGED <<procesos, instancias, pcb_asignado, asignaciones, en_curso, finalizando,
                     detector>>
      /\ \/ /\ lista_bloqueados' =
                 [lista_bloqueados EXCEPT ![r] = Append(lista_bloqueados[r], p)]
            /\ despacho' = Libre
         \/ despacho' = [despacho EXCEPT !.op = "COLGADO"] /\ UNCHANGED lista_bloqueados
  BY <1>0, Zenon DEF WaitEncola, Encolar
<1>3. /\ despacho' \in [op : Handlers, pcb : Procesos \cup {NULL},
                        recurso : Recursos \cup {NULL}, leido : Int]
      /\ despacho'.op \in {"LIBRE", "COLGADO"}
      /\ despacho'.op = "COLGADO" =>
           /\ despacho'.pcb = p /\ despacho'.recurso = r /\ UNCHANGED lista_bloqueados
      /\ despacho'.op = "LIBRE" =>
           lista_bloqueados' = [lista_bloqueados EXCEPT ![r] = Append(lista_bloqueados[r], p)]
  <2>1. Libre = [Libre EXCEPT !.op = "LIBRE"]
    BY DEF Libre
  <2> QED
    <3>1. CASE /\ lista_bloqueados' =
                    [lista_bloqueados EXCEPT ![r] = Append(lista_bloqueados[r], p)]
               /\ despacho' = Libre
      BY <3>1 DEF Handlers, Libre
    <3>2. CASE despacho' = [despacho EXCEPT !.op = "COLGADO"] /\ UNCHANGED lista_bloqueados
      <4>1. "COLGADO" \in Handlers
        BY DEF Handlers
      <4>2. /\ despacho' \in [op : Handlers, pcb : Procesos \cup {NULL},
                              recurso : Recursos \cup {NULL}, leido : Int]
            /\ despacho'.op = "COLGADO"
            /\ despacho'.recurso = despacho.recurso /\ despacho'.pcb = despacho.pcb
        BY <3>2, <4>1, OtroPunto
      <4> QED
        BY <1>0, <3>2, <4>2
    <3> QED
      BY <1>2, <3>1, <3>2
<1>4. avisos' \in Nat
  <2>1. avisos' = avisos \/ avisos' = avisos + 1
    BY Zenon DEF WaitEncola
  <2> QED
    BY <2>1 DEF Inv, TypeOK
<1>5. /\ lista_bloqueados' \in [Recursos -> Seq(Procesos)]
      /\ \A s \in Recursos \ {r} : lista_bloqueados'[s] = lista_bloqueados[s]
      /\ \A s \in Recursos : IsInjective(lista_bloqueados'[s])
      /\ \/ lista_bloqueados'[r] = lista_bloqueados[r]
         \/ ToSet(lista_bloqueados'[r]) = ToSet(lista_bloqueados[r]) \cup {p}
  <2>1. /\ lista_bloqueados \in [Recursos -> Seq(Procesos)]
        /\ \A s \in Recursos : IsInjective(lista_bloqueados[s])
        /\ p \notin ToSet(lista_bloqueados[r])
    BY <1>1 DEF Inv, TypeOK, Colas, EnCola
  <2>2. /\ Append(lista_bloqueados[r], p) \in Seq(Procesos)
        /\ IsInjective(Append(lista_bloqueados[r], p))
        /\ ToSet(Append(lista_bloqueados[r], p)) = ToSet(lista_bloqueados[r]) \cup {p}
    BY <1>1, <2>1, ListaConAppend
  <2> QED
    BY <1>1, <1>2, <2>1, <2>2
<1>6. TypeOK'
  BY <1>2, <1>3, <1>4, <1>5 DEF Inv, TypeOK, procesos
<1>7. Bloqueados'
  BY <1>2 DEF Inv, Bloqueados, EnCola, procesos
<1>8. \A s \in Recursos, q \in Procesos :
        EnCola(lista_bloqueados[s], q)' => \/ EnCola(lista_bloqueados[s], q)
                                           \/ s = r /\ q = p
  BY <1>5 DEF EnCola
<1>9. Colas'
  <2>1. ASSUME NEW s \in Recursos, NEW t \in Recursos, NEW q \in Procesos,
               EnCola(lista_bloqueados[s], q)', EnCola(lista_bloqueados[t], q)'
        PROVE  s = t
    BY <1>1, <1>8, <2>1 DEF Inv, Colas
  <2>2. ASSUME NEW s \in Recursos, NEW q \in Procesos, EnCola(lista_bloqueados[s], q)',
               q \notin finalizando'
        PROVE  /\ estado'[q] = "BLOCKED" /\ lista_recursos'[q] # <<>>
               /\ Last(lista_recursos'[q]) = s
    BY <1>1, <1>2, <1>8, <2>2 DEF Inv, Colas, procesos
  <2> QED
    BY <1>5, <2>1, <2>2 DEF Colas
<1>10. EnMano'
  BY <1>1, <1>2, <1>8 DEF Inv, EnMano, procesos
<1>11. Manejador'
  <2>1. CASE despacho'.op = "LIBRE"
    BY <2>1 DEF Manejador
  <2>2. CASE despacho'.op = "COLGADO"
    BY <1>1, <1>2, <1>3, <2>2 DEF Manejador, EnCola, procesos
  <2> QED
    BY <1>3, <2>1, <2>2
<1>12. PorEscribir'
  BY <1>1, <1>2 DEF Inv, PorEscribir, MutexLibre, NadieEnCurso
<1>13. Olvido'
  <2>1. \A q \in Procesos : EnHilo(q) <=> q = p
    BY <1>0, <1>1 DEF EnHilo
  <2>2. CASE despacho'.op = "COLGADO"
    <3>1. \A q \in Procesos : EnRecurso(q)' <=> EnRecurso(q)
      BY <1>2, <1>3, <2>2 DEF EnRecurso, EnCola
    <3>2. \A q \in Procesos : EnHilo(q)' <=> EnHilo(q)
      BY <1>0, <1>1, <1>3, <2>2 DEF EnHilo
    <3>3. \A q \in Procesos : EnCola(lista_blocked, q)' <=> EnCola(lista_blocked, q)
      BY <1>2 DEF EnCola, procesos
    <3>4. MismasEsperas
      BY <1>2, <3>1, <3>2, <3>3 DEF MismasEsperas, procesos
    <3> QED
      BY <3>4, OlvidoIgual
  <2>3. CASE despacho'.op = "LIBRE"
    <3>1. \A q \in Procesos : ~EnHilo(q)'
      BY <2>3 DEF EnHilo
    <3>2. \A s \in Recursos, q \in Procesos :
            EnCola(lista_bloqueados[s], q)' <=> EnCola(lista_bloqueados[s], q) \/ (s = r /\ q = p)
      <4>1. p \notin ToSet(lista_bloqueados[r]) /\ lista_bloqueados \in [Recursos -> Seq(Procesos)]
            /\ \A s \in Recursos : IsInjective(lista_bloqueados[s])
        BY <1>1 DEF Inv, TypeOK, Colas, EnCola
      <4>2. ToSet(Append(lista_bloqueados[r], p)) = ToSet(lista_bloqueados[r]) \cup {p}
        BY <1>1, <4>1, ListaConAppend
      <4> QED
        BY <1>1, <1>3, <2>3, <4>1, <4>2 DEF EnCola
    <3>3. \A q \in Procesos : EnRecurso(q)' <=> EnRecurso(q) \/ q = p
      BY <1>1, <1>2, <3>2 DEF EnRecurso
    <3>4. \A q \in Procesos : EnCola(lista_blocked, q)' <=> EnCola(lista_blocked, q)
      BY <1>2 DEF EnCola, procesos
    <3>5. por_otro' = por_otro /\ finalizando' = finalizando
      BY <1>2 DEF procesos
    <3>6. MismasEsperas
      BY <2>1, <3>1, <3>3, <3>4, <3>5, Zenon DEF MismasEsperas
    <3> QED
      BY <3>6, OlvidoIgual
  <2> QED
    BY <1>3, <2>2, <2>3
<1> QED
  BY <1>6, <1>7, <1>9, <1>10, <1>11, <1>12, <1>13 DEF Inv

LEMMA PasoSignalQuita ==
  ASSUME Inv, NEW p \in Procesos, NEW r \in Recursos, SignalQuita(p, r)
  PROVE  Inv'
<1>1. /\ estado[p] = "EXEC" /\ despacho.op = "LIBRE"
      /\ lista_recursos' = [lista_recursos EXCEPT ![p] = RemoveFirst(lista_recursos[p], r)]
      /\ pcb_asignado' = [pcb_asignado EXCEPT ![r] = NULL]
      /\ despacho' = [op |-> "SIGNAL_SUMA", pcb |-> p, recurso |-> r, leido |-> instancias[r]]
      /\ UNCHANGED <<estado, lista_blocked, motivo_recurso, por_otro, instancias,
                     lista_bloqueados, asignaciones, en_curso, finalizando, deteccion>>
  BY Zenon DEF SignalQuita, Atrapa, EnHandler, Pasar
<1>2. /\ despacho' \in [op : Handlers, pcb : Procesos \cup {NULL},
                        recurso : Recursos \cup {NULL}, leido : Int]
      /\ despacho'.op = "SIGNAL_SUMA" /\ despacho'.recurso = r
  BY <1>1, Tipos DEF Handlers
<1>3. /\ lista_recursos' \in [Procesos -> Seq(Recursos)]
      /\ \A q \in Procesos : estado[q] = "EXEC" \/ lista_recursos'[q] = lista_recursos[q]
  BY <1>1, ListaQuitada DEF Inv, TypeOK
<1>4. TypeOK'
  BY <1>1, <1>2, <1>3 DEF Inv, TypeOK, deteccion
<1>5. Bloqueados' /\ Colas' /\ EnMano'
  <2>1. UNCHANGED <<estado, lista_blocked, lista_bloqueados, en_curso, finalizando>>
    BY <1>1
  <2> QED
    BY <1>3, <2>1, SinMoverProcesos
<1>6. Manejador'
  BY <1>2 DEF Manejador
<1>7. PorEscribir'
  BY <1>1 DEF Inv, PorEscribir, MutexLibre, NadieEnCurso
<1>8. Olvido'
  <2>1. \A q \in Procesos : /\ EnRecurso(q)' \/ EnHilo(q)' <=> EnRecurso(q) \/ EnHilo(q)
                            /\ EnCola(lista_blocked, q)' <=> EnCola(lista_blocked, q)
    BY <1>1, <1>2 DEF EnRecurso, EnHilo, EnCola
  <2>2. por_otro' = por_otro /\ finalizando \subseteq finalizando'
    BY <1>1
  <2>3. MismasEsperas
    BY <2>1, <2>2, Zenon DEF MismasEsperas
  <2> QED
    BY <2>3, OlvidoIgual
<1> QED
  BY <1>4, <1>5, <1>6, <1>7, <1>8 DEF Inv

LEMMA PasoSignalSuma ==
  ASSUME Inv, SignalSuma
  PROVE  Inv'
<1>0. PICK r : r = despacho.recurso
  OBVIOUS
<1>1. r \in Recursos /\ despacho.op = "SIGNAL_SUMA"
  BY <1>0 DEF SignalSuma, EnHandler, Inv, Manejador
<1>2. /\ despacho' = [op |-> "SIGNAL_MIRA", pcb |-> NULL, recurso |-> r, leido |-> 0]
      /\ UNCHANGED <<estado, lista_blocked, motivo_recurso, lista_recursos, por_otro,
                     lista_bloqueados, pcb_asignado, asignaciones, en_curso, finalizando,
                     deteccion>>
  BY <1>0, Zenon DEF SignalSuma, Pasar, procesos
<1>3. PICK v \in Leidos(r, despacho.leido) : instancias' = [instancias EXCEPT ![r] = v + 1]
  BY <1>0 DEF SignalSuma
<1>4. v \in Int
  BY <1>1, Tipos DEF Leidos
<1>5. /\ despacho' \in [op : Handlers, pcb : Procesos \cup {NULL},
                        recurso : Recursos \cup {NULL}, leido : Int]
      /\ despacho'.op = "SIGNAL_MIRA" /\ despacho'.recurso = r
  BY <1>1, <1>2 DEF Handlers
<1>6. TypeOK'
  <2>1. instancias' \in [Recursos -> Int]
    BY <1>1, <1>3, <1>4 DEF Inv, TypeOK
  <2> QED
    BY <1>2, <1>5, <2>1 DEF Inv, TypeOK, deteccion
<1>7. Bloqueados' /\ Colas' /\ EnMano'
  <2>1. /\ UNCHANGED <<estado, lista_blocked, lista_bloqueados, en_curso, finalizando>>
        /\ lista_recursos' = lista_recursos /\ lista_recursos' \in [Procesos -> Seq(Recursos)]
    BY <1>2, <1>6 DEF TypeOK
  <2> QED
    BY <2>1, SinMoverProcesos
<1>8. Manejador'
  BY <1>1, <1>5 DEF Manejador
<1>9. PorEscribir'
  BY <1>1, <1>2 DEF Inv, PorEscribir, MutexLibre, NadieEnCurso
<1>10. Olvido'
  <2>1. \A q \in Procesos : /\ EnRecurso(q)' \/ EnHilo(q)' <=> EnRecurso(q) \/ EnHilo(q)
                            /\ EnCola(lista_blocked, q)' <=> EnCola(lista_blocked, q)
    BY <1>1, <1>2, <1>5 DEF EnRecurso, EnHilo, EnCola
  <2>2. por_otro' = por_otro /\ finalizando \subseteq finalizando'
    BY <1>2
  <2>3. MismasEsperas
    BY <2>1, <2>2, Zenon DEF MismasEsperas
  <2> QED
    BY <2>3, OlvidoIgual
<1> QED
  BY <1>6, <1>7, <1>8, <1>9, <1>10 DEF Inv

LEMMA PasoSignalMira ==
  ASSUME Inv, SignalMira \/ TerminarHandler
  PROVE  Inv'
<1>1. /\ UNCHANGED <<estado, lista_blocked, motivo_recurso, lista_recursos, por_otro, recursos,
                     finalizando, deteccion>>
      /\ despacho.op \in {"SIGNAL_MIRA", "TERMINA"}
      /\ despacho.op = "TERMINA" => \A r \in Recursos : en_curso[r].hilo # "DISPATCH"
      /\ \/ /\ despacho' = Libre
            /\ despacho.op = "SIGNAL_MIRA" => lista_bloqueados[despacho.recurso] = <<>>
         \/ despacho' = [despacho EXCEPT !.op = "ASIGNA"] /\ despacho.op = "SIGNAL_MIRA"
  BY Zenon DEF SignalMira, TerminarHandler, EnHandler, procesos
<1>2. /\ despacho' \in [op : Handlers, pcb : Procesos \cup {NULL},
                        recurso : Recursos \cup {NULL}, leido : Int]
      /\ despacho'.op \in {"LIBRE", "ASIGNA"}
      /\ despacho'.op = "ASIGNA" => /\ despacho.op = "SIGNAL_MIRA"
                                    /\ despacho'.recurso = despacho.recurso
  <2>1. Libre = [Libre EXCEPT !.op = "LIBRE"]
    BY DEF Libre
  <2> QED
    BY <1>1, <2>1, OtroPunto DEF Handlers
<1>3. TypeOK'
  BY <1>1, <1>2 DEF Inv, TypeOK, recursos, deteccion
<1>4. Bloqueados' /\ Colas' /\ EnMano'
  <2>1. /\ UNCHANGED <<estado, lista_blocked, lista_bloqueados, en_curso, finalizando>>
        /\ lista_recursos' = lista_recursos /\ lista_recursos' \in [Procesos -> Seq(Recursos)]
    BY <1>1, <1>3 DEF TypeOK, recursos
  <2> QED
    BY <2>1, SinMoverProcesos
<1>5. Manejador'
  BY <1>1, <1>2 DEF Inv, Manejador
<1>6. PorEscribir'
  BY <1>1 DEF Inv, PorEscribir, MutexLibre, NadieEnCurso, recursos
<1>7. Olvido'
  <2>1. \A q \in Procesos : /\ EnRecurso(q)' \/ EnHilo(q)' <=> EnRecurso(q) \/ EnHilo(q)
                            /\ EnCola(lista_blocked, q)' <=> EnCola(lista_blocked, q)
    BY <1>1, <1>2 DEF EnRecurso, EnHilo, EnCola, recursos
  <2>2. por_otro' = por_otro /\ finalizando \subseteq finalizando'
    BY <1>1
  <2>3. MismasEsperas
    BY <2>1, <2>2, Zenon DEF MismasEsperas
  <2> QED
    BY <2>3, OlvidoIgual
<1> QED
  BY <1>3, <1>4, <1>5, <1>6, <1>7 DEF Inv

(* asignar_recurso_liberado_pcb takes the head of the queue, if there is one. *)
LEMMA Asignacion ==
  ASSUME Inv, NEW r \in Recursos, NEW h \in {"HILO", "DISPATCH"}, AsignarRecurso(r, h)
  PROVE  /\ lista_bloqueados' \in [Recursos -> Seq(Procesos)]
         /\ pcb_asignado' \in [Recursos -> Procesos \cup {NULL}]
         /\ en_curso' \in [Recursos -> [hilo : {"NADIE", "HILO", "DISPATCH"},
                                        pcb : Procesos \cup {NULL}, leido : Int, suma : Int]]
         /\ Bloqueados' /\ Colas' /\ EnMano'
         /\ \A s \in Recursos, q \in Procesos :
              EnCola(lista_bloqueados[s], q)' => EnCola(lista_bloqueados[s], q)
         /\ \A s \in Recursos, q \in Procesos :
              en_curso'[s].pcb = q => en_curso[s].pcb = q \/ EnCola(lista_bloqueados[r], q)
         /\ \A s \in Recursos \ {r} : /\ en_curso'[s] = en_curso[s]
                                      /\ lista_bloqueados'[s] = lista_bloqueados[s]
         /\ \A q \in Procesos : EnRecurso(q)' <=> EnRecurso(q)
         /\ en_curso[r] = NadieEnCurso
         /\ \/ lista_bloqueados'[r] = <<>> /\ en_curso'[r] = en_curso[r]
            \/ /\ lista_bloqueados[r] # <<>> /\ en_curso'[r].hilo = h
               /\ en_curso'[r].suma = -1 /\ en_curso'[r].pcb # NULL
<1>1. en_curso[r] = NadieEnCurso /\ UNCHANGED <<procesos, instancias, finalizando, deteccion>>
  BY DEF AsignarRecurso, MutexLibre
<1>2. /\ lista_bloqueados \in [Recursos -> Seq(Procesos)]
      /\ pcb_asignado \in [Recursos -> Procesos \cup {NULL}]
      /\ en_curso \in [Recursos -> [hilo : {"NADIE", "HILO", "DISPATCH"},
                                    pcb : Procesos \cup {NULL}, leido : Int, suma : Int]]
  BY DEF Inv, TypeOK
<1>3. Bloqueados'
  BY <1>1 DEF Inv, Bloqueados, EnCola, procesos
<1>4. CASE lista_bloqueados[r] = <<>>
  <2>1. UNCHANGED <<lista_bloqueados, pcb_asignado, en_curso>>
    BY <1>4 DEF AsignarRecurso
  <2>2. lista_recursos' \in [Procesos -> Seq(Recursos)] /\ lista_recursos' = lista_recursos
        /\ estado' = estado /\ finalizando' = finalizando
    BY <1>1 DEF Inv, TypeOK, procesos
  <2>3. Colas' /\ EnMano'
    BY <2>1, <2>2, ColasIguales
  <2>4. \A q \in Procesos : EnRecurso(q)' <=> EnRecurso(q)
    BY <2>1 DEF EnRecurso, EnCola
  <2> QED
    BY <1>1, <1>2, <1>3, <1>4, <2>1, <2>3, <2>4
<1>5. CASE lista_bloqueados[r] # <<>>
  <2>0. PICK p : p = Head(lista_bloqueados[r])
    OBVIOUS
  <2>1. /\ lista_bloqueados' = [lista_bloqueados EXCEPT ![r] = Tail(lista_bloqueados[r])]
        /\ pcb_asignado' = [pcb_asignado EXCEPT ![r] = p]
        /\ en_curso' = [en_curso EXCEPT ![r] =
             [hilo |-> h, pcb |-> p, leido |-> instancias[r], suma |-> -1]]
    BY <1>5, <2>0, Zenon DEF AsignarRecurso
  <2>2. /\ Tail(lista_bloqueados[r]) \in Seq(Procesos)
        /\ ToSet(Tail(lista_bloqueados[r])) = ToSet(lista_bloqueados[r]) \ {p}
        /\ IsInjective(Tail(lista_bloqueados[r]))
        /\ p \in ToSet(lista_bloqueados[r])
    <3>1. lista_bloqueados[r] \in Seq(Procesos) /\ IsInjective(lista_bloqueados[r])
      BY <1>2 DEF Inv, Colas
    <3> QED
      BY <1>5, <2>0, <3>1, ListaSinCabeza
  <2>3. p \in Procesos /\ EnCola(lista_bloqueados[r], p)
    <3>1. lista_bloqueados[r] \in Seq(Procesos)
      BY <1>2
    <3> QED
      BY <1>5, <2>0, <2>2, <3>1, HeadTailProperties, EmptySeq DEF EnCola
  <2>4. /\ lista_bloqueados' \in [Recursos -> Seq(Procesos)]
        /\ pcb_asignado' \in [Recursos -> Procesos \cup {NULL}]
        /\ ToSet(lista_bloqueados'[r]) = ToSet(lista_bloqueados[r]) \ {p}
        /\ IsInjective(lista_bloqueados'[r])
        /\ \A s \in Recursos \ {r} : lista_bloqueados'[s] = lista_bloqueados[s]
    BY <1>2, <2>1, <2>2, <2>3
  <2>5. /\ en_curso' \in [Recursos -> [hilo : {"NADIE", "HILO", "DISPATCH"},
                                    pcb : Procesos \cup {NULL}, leido : Int, suma : Int]]
        /\ en_curso'[r].hilo = h /\ en_curso'[r].pcb = p /\ en_curso'[r].suma = -1
        /\ \A s \in Recursos \ {r} : en_curso'[s] = en_curso[s]
    BY <1>2, <2>1, <2>3, Tipos
  <2>6. \A s \in Recursos, q \in Procesos :
          EnCola(lista_bloqueados[s], q)' => EnCola(lista_bloqueados[s], q) /\ q # p
    BY <2>3, <2>4 DEF Inv, Colas, EnCola
  <2>7. Colas'
    BY <1>1, <2>4, <2>6 DEF Inv, Colas, procesos
  <2>8. EnMano'
    <3>1. \A s \in Recursos : en_curso[s].pcb # p
      BY <2>3 DEF Inv, EnMano
    <3>2. p \notin finalizando => estado[p] = "BLOCKED"
      BY <2>3 DEF Inv, Colas
    <3>3. ASSUME NEW s \in Recursos, NEW q \in Procesos, en_curso'[s].pcb = q
          PROVE  /\ \A t \in Recursos : ~EnCola(lista_bloqueados[t], q)'
                 /\ \A t \in Recursos : en_curso'[t].pcb = q => t = s
                 /\ q \notin finalizando' => estado'[q] = "BLOCKED"
      <4>1. CASE s = r
        <5>1. q = p
          BY <2>5, <3>3, <4>1
        <5> QED
          BY <1>1, <2>5, <2>6, <3>1, <3>2, <4>1, <5>1 DEF procesos
      <4>2. CASE s # r
        <5>1. en_curso[s].pcb = q /\ q # p
          BY <2>5, <3>1, <3>3, <4>2
        <5> QED
          BY <1>1, <2>5, <2>6, <4>2, <5>1 DEF Inv, EnMano, procesos
      <4> QED
        BY <4>1, <4>2
    <3> QED
      BY <3>3 DEF EnMano
  <2>9. \A s \in Recursos, q \in Procesos :
          en_curso'[s].pcb = q => en_curso[s].pcb = q \/ EnCola(lista_bloqueados[r], q)
    BY <2>3, <2>5
  <2>10. p # NULL
    BY <2>3, Tipos
  <2>11. \A q \in Procesos : EnRecurso(q)' <=> EnRecurso(q)
    <3>1. EnRecurso(p) /\ EnRecurso(p)'
      BY <2>3, <2>5 DEF EnRecurso
    <3>2. ASSUME NEW q \in Procesos, q # p PROVE EnRecurso(q)' <=> EnRecurso(q)
      <4>1. \A s \in Recursos : EnCola(lista_bloqueados[s], q)' <=> EnCola(lista_bloqueados[s], q)
        BY <2>4, <3>2 DEF EnCola
      <4>2. \A s \in Recursos : en_curso'[s].pcb = q <=> en_curso[s].pcb = q
        BY <1>1, <2>5, <3>2, Tipos DEF NadieEnCurso
      <4> QED
        BY <4>1, <4>2 DEF EnRecurso
    <3> QED
      BY <3>1, <3>2
  <2> QED
    BY <1>1, <1>3, <1>5, <2>4, <2>5, <2>6, <2>7, <2>8, <2>9, <2>10, <2>11
<1> QED
  BY <1>4, <1>5

LEMMA PasoAsignar ==
  ASSUME Inv, NEW r \in Recursos, NEW h \in {"HILO", "DISPATCH"}, AsignarRecurso(r, h),
         \/ /\ h = "HILO" /\ asignaciones[r] > 0
            /\ asignaciones' = [asignaciones EXCEPT ![r] = @ - 1]
            /\ despacho' = despacho
         \/ /\ h = "DISPATCH" /\ despacho.op = "ASIGNA" /\ despacho.recurso = r
            /\ asignaciones' = asignaciones
            /\ despacho' = [Libre EXCEPT !.op = "TERMINA"]
  PROVE  Inv'
<1>1. UNCHANGED <<procesos, instancias, finalizando, deteccion>>
  BY DEF AsignarRecurso
<1>2. /\ lista_bloqueados' \in [Recursos -> Seq(Procesos)]
      /\ pcb_asignado' \in [Recursos -> Procesos \cup {NULL}]
      /\ en_curso' \in [Recursos -> [hilo : {"NADIE", "HILO", "DISPATCH"},
                                     pcb : Procesos \cup {NULL}, leido : Int, suma : Int]]
      /\ Bloqueados' /\ Colas' /\ EnMano'
      /\ \A s \in Recursos, q \in Procesos :
           EnCola(lista_bloqueados[s], q)' => EnCola(lista_bloqueados[s], q)
      /\ \A s \in Recursos, q \in Procesos :
           en_curso'[s].pcb = q => en_curso[s].pcb = q \/ EnCola(lista_bloqueados[r], q)
      /\ \A s \in Recursos \ {r} : /\ en_curso'[s] = en_curso[s]
                                   /\ lista_bloqueados'[s] = lista_bloqueados[s]
      /\ \A q \in Procesos : EnRecurso(q)' <=> EnRecurso(q)
      /\ en_curso[r] = NadieEnCurso
      /\ \/ lista_bloqueados'[r] = <<>> /\ en_curso'[r] = en_curso[r]
         \/ /\ lista_bloqueados[r] # <<>> /\ en_curso'[r].hilo = h
            /\ en_curso'[r].suma = -1 /\ en_curso'[r].pcb # NULL
  BY Asignacion
<1>3. /\ despacho' \in [op : Handlers, pcb : Procesos \cup {NULL},
                        recurso : Recursos \cup {NULL}, leido : Int]
      /\ despacho' = despacho \/ (h = "DISPATCH" /\ despacho'.op = "TERMINA")
  <2>1. CASE despacho' = despacho
    <3>1. despacho \in [op : Handlers, pcb : Procesos \cup {NULL},
                       recurso : Recursos \cup {NULL}, leido : Int]
      BY DEF Inv, TypeOK
    <3> QED
      BY <2>1, <3>1, Zenon
  <2>2. CASE h = "DISPATCH" /\ despacho' = [Libre EXCEPT !.op = "TERMINA"]
    <3>1. "TERMINA" \in Handlers
      BY DEF Handlers
    <3> QED
      BY <2>2, <3>1, OtroPunto
  <2> QED
    BY <2>1, <2>2
<1>4. /\ asignaciones' \in [Recursos -> Nat]
      /\ \A s \in Recursos \ {r} : asignaciones'[s] = asignaciones[s]
      /\ h = "HILO" => asignaciones'[r] = asignaciones[r] - 1
      /\ h = "DISPATCH" => asignaciones'[r] = asignaciones[r]
  <2>1. asignaciones \in [Recursos -> Nat]
    BY DEF Inv, TypeOK
  <2>2. CASE h = "HILO" /\ asignaciones[r] > 0 /\ asignaciones' = [asignaciones EXCEPT ![r] = @ - 1]
    BY <2>1, <2>2
  <2>3. CASE h = "DISPATCH" /\ asignaciones' = asignaciones
    BY <2>1, <2>3
  <2> QED
    BY <2>2, <2>3
<1>5. TypeOK'
  BY <1>1, <1>2, <1>3, <1>4 DEF Inv, TypeOK, procesos, deteccion
<1>6. Manejador'
  BY <1>1, <1>2, <1>3 DEF Inv, Manejador, procesos
<1>7. PorEscribir'
  <2>1. ASSUME NEW s \in Recursos
        PROVE /\ IF en_curso'[s].pcb = NULL THEN en_curso'[s].suma >= 0
                                            ELSE en_curso'[s].suma = -1
              /\ (MutexLibre(s))' <=> en_curso'[s].hilo = "NADIE"
              /\ en_curso'[s].hilo = "DISPATCH" => despacho'.op = "TERMINA"
              /\ en_curso'[s].suma > 0 /\ finalizando' = {} => en_curso'[s].hilo = "DISPATCH"
    <3>1. CASE en_curso'[s] = en_curso[s]
      BY <1>1, <1>3, <3>1 DEF Inv, PorEscribir, MutexLibre
    <3>2. CASE en_curso'[s] # en_curso[s]
      <4>1. s = r /\ en_curso'[s].hilo = h /\ en_curso'[s].suma = -1 /\ en_curso'[s].pcb # NULL
        BY <1>2, <3>2
      <4>2. h = "DISPATCH" => despacho'.op = "TERMINA"
        BY OtroPunto DEF Handlers
      <4> QED
        BY <4>1, <4>2 DEF MutexLibre, NadieEnCurso
    <3> QED
      BY <3>1, <3>2
  <2> QED
    BY <2>1 DEF PorEscribir
<1>8. Olvido'
  <2>1. despacho' = despacho \/ (despacho.op = "ASIGNA" /\ despacho'.op = "TERMINA")
    BY <1>3
  <2>2. \A q \in Procesos : EnHilo(q)' <=> EnHilo(q)
    BY <2>1 DEF EnHilo
  <2>3. \A q \in Procesos : EnCola(lista_blocked, q)' <=> EnCola(lista_blocked, q)
    BY <1>1 DEF EnCola, procesos
  <2>4. por_otro' = por_otro /\ finalizando' = finalizando
    BY <1>1 DEF procesos
  <2>5. MismasEsperas
    BY <1>2, <2>2, <2>3, <2>4, Zenon DEF MismasEsperas
  <2> QED
    BY <2>5, OlvidoIgual
<1> QED
  BY <1>2, <1>5, <1>6, <1>7, <1>8 DEF Inv

LEMMA PasoEscribir ==
  ASSUME Inv, NEW r \in Recursos, Escribir(r)
  PROVE  Inv'
<1>0. PICK c : c = en_curso[r]
  OBVIOUS
<1>1. PICK v \in Leidos(r, c.leido) : instancias' = [instancias EXCEPT ![r] = v + c.suma]
  BY <1>0 DEF Escribir
<1>2. /\ en_curso' = [en_curso EXCEPT ![r] = NadieEnCurso]
      /\ \/ /\ c.pcb # NULL /\ asignaciones' = asignaciones
            /\ \/ /\ EnCola(lista_blocked, c.pcb)
                  /\ lista_blocked' = RemoveFirst(lista_blocked, c.pcb)
                  /\ estado' = [estado EXCEPT ![c.pcb] = "READY"]
               \/ ~EnCola(lista_blocked, c.pcb) /\ UNCHANGED <<lista_blocked, estado>>
         \/ /\ c.pcb = NULL
            /\ asignaciones' = [asignaciones EXCEPT ![r] = asignaciones[r] + c.suma]
            /\ UNCHANGED <<estado, lista_blocked>>
      /\ UNCHANGED <<motivo_recurso, lista_recursos, por_otro, lista_bloqueados, pcb_asignado,
                     despacho, finalizando, deteccion>>
  BY <1>0, Zenon DEF Escribir, Despertar
<1>3. /\ v \in Int
      /\ c.suma \in Int /\ c.pcb \in Procesos \cup {NULL} /\ NULL \notin Procesos
  BY <1>0, Tipos DEF Leidos
<1>4. /\ IF c.pcb = NULL THEN c.suma >= 0 ELSE c.suma = -1
      /\ c.hilo = "DISPATCH" => despacho.op = "TERMINA"
      /\ c.suma > 0 /\ finalizando = {} => c.hilo = "DISPATCH"
  BY <1>0 DEF Inv, PorEscribir
<1>5. c.pcb \in Procesos =>
        /\ \A s \in Recursos : ~EnCola(lista_bloqueados[s], c.pcb)
        /\ \A s \in Recursos : en_curso[s].pcb = c.pcb => s = r
        /\ despacho.op \in {"WAIT_BLOQUEADO", "COLGADO"} => despacho.pcb # c.pcb
  BY <1>0 DEF Inv, EnMano, Manejador
<1>6. Bloqueados' /\ lista_blocked' \in Seq(Procesos)
  <2>1. CASE UNCHANGED <<lista_blocked, estado>>
    BY <1>2, <2>1 DEF Inv, TypeOK, Bloqueados, EnCola
  <2>2. CASE /\ c.pcb # NULL /\ EnCola(lista_blocked, c.pcb)
             /\ lista_blocked' = RemoveFirst(lista_blocked, c.pcb)
             /\ estado' = [estado EXCEPT ![c.pcb] = "READY"]
    <3>1. c.pcb \in Procesos
      BY <1>3, <2>2
    <3> QED
      BY <1>2, <2>2, <3>1, FueraDeBlocked
  <2> QED
    BY <1>2, <2>1, <2>2
<1>7. /\ estado' \in [Procesos -> {"READY", "EXEC", "BLOCKED", "EXIT"}]
      /\ \A q \in Procesos : \/ estado'[q] = estado[q]
                             \/ q = c.pcb /\ estado[q] = "BLOCKED"
  <2>1. estado \in [Procesos -> {"READY", "EXEC", "BLOCKED", "EXIT"}]
    BY DEF Inv, TypeOK
  <2>2. c.pcb \in Procesos /\ EnCola(lista_blocked, c.pcb) => estado[c.pcb] = "BLOCKED"
    BY DEF Inv, Bloqueados
  <2> QED
    BY <1>2, <1>3, <2>1, <2>2
<1>8. /\ asignaciones' \in [Recursos -> Nat]
      /\ \A s \in Recursos \ {r} : asignaciones'[s] = asignaciones[s]
      /\ asignaciones'[r] = IF c.pcb = NULL THEN asignaciones[r] + c.suma ELSE asignaciones[r]
  <2>1. asignaciones \in [Recursos -> Nat]
    BY DEF Inv, TypeOK
  <2>2. CASE c.pcb # NULL
    BY <1>2, <2>1, <2>2
  <2>3. CASE c.pcb = NULL
    BY <1>2, <1>3, <1>4, <2>1, <2>3
  <2> QED
    BY <2>2, <2>3
<1>9. /\ instancias' \in [Recursos -> Int]
      /\ instancias'[r] = v + c.suma
      /\ \A s \in Recursos \ {r} : instancias'[s] = instancias[s]
  BY <1>1, <1>3 DEF Inv, TypeOK
<1>10. /\ en_curso' \in [Recursos -> [hilo : {"NADIE", "HILO", "DISPATCH"},
                                      pcb : Procesos \cup {NULL}, leido : Int, suma : Int]]
       /\ en_curso'[r] = NadieEnCurso
       /\ \A s \in Recursos \ {r} : en_curso'[s] = en_curso[s]
  BY <1>2 DEF Inv, TypeOK, NadieEnCurso
<1>11. TypeOK'
  BY <1>2, <1>6, <1>7, <1>8, <1>9, <1>10 DEF Inv, TypeOK, deteccion
<1>12. Colas'
  <2>1. \A s \in Recursos, q \in Procesos :
          EnCola(lista_bloqueados[s], q) => estado'[q] = estado[q]
    BY <1>5, <1>7
  <2> QED
    BY <1>2, <2>1 DEF Inv, Colas, EnCola
<1>13. EnMano'
  <2>1. ASSUME NEW s \in Recursos, NEW q \in Procesos, en_curso'[s].pcb = q
        PROVE  s # r /\ en_curso[s].pcb = q /\ estado'[q] = estado[q]
    <3>1. s # r
      BY <1>3, <1>10, <2>1 DEF NadieEnCurso
    <3>2. en_curso[s].pcb = q /\ q # c.pcb
      BY <1>5, <1>10, <2>1, <3>1
    <3> QED
      BY <1>7, <3>1, <3>2
  <2> QED
    BY <1>2, <2>1 DEF Inv, EnMano, EnCola
<1>14. Manejador'
  <2>1. despacho.op \in {"WAIT_TOMA", "WAIT_NIEGA"} => estado'[despacho.pcb] = "EXEC"
    BY <1>7 DEF Inv, Manejador
  <2>2. despacho.op \in {"WAIT_BLOQUEADO", "COLGADO"} =>
          /\ estado'[despacho.pcb] = estado[despacho.pcb]
          /\ \A s \in Recursos : en_curso'[s].pcb # despacho.pcb
    <3>1. ASSUME despacho.op \in {"WAIT_BLOQUEADO", "COLGADO"}
          PROVE  /\ despacho.pcb \in Procesos /\ despacho.pcb # NULL /\ despacho.pcb # c.pcb
                 /\ \A s \in Recursos : en_curso[s].pcb # despacho.pcb
      BY <1>3, <1>5, <3>1 DEF Inv, Manejador
    <3>2. en_curso'[r].pcb = NULL
      BY <1>10 DEF NadieEnCurso
    <3> QED
      BY <1>7, <1>10, <3>1, <3>2
  <2> QED
    BY <1>2, <2>1, <2>2 DEF Inv, Manejador, EnCola
<1>15. PorEscribir'
  BY <1>2, <1>10 DEF Inv, PorEscribir, MutexLibre, NadieEnCurso
<1>16. Olvido'
  <2>1. \A q \in Procesos : EnHilo(q)' <=> EnHilo(q)
    BY <1>2 DEF EnHilo
  <2>2. ASSUME NEW q \in Procesos, q # c.pcb
        PROVE  /\ EnRecurso(q)' <=> EnRecurso(q)
               /\ EnCola(lista_blocked, q)' <=> EnCola(lista_blocked, q)
    <3>1. \A s \in Recursos : en_curso'[s].pcb = q <=> en_curso[s].pcb = q
      BY <1>0, <1>3, <1>10, <2>2 DEF NadieEnCurso
    <3>2. EnRecurso(q)' <=> EnRecurso(q)
      BY <1>2, <3>1 DEF EnRecurso, EnCola
    <3>3. lista_blocked \in Seq(Procesos) /\ IsInjective(lista_blocked)
      BY DEF Inv, TypeOK, Bloqueados
    <3>4. CASE lista_blocked' = lista_blocked
      BY <3>2, <3>4 DEF EnCola
    <3>5. CASE EnCola(lista_blocked, c.pcb) /\ lista_blocked' = RemoveFirst(lista_blocked, c.pcb)
      <4>1. ToSet(lista_blocked') = ToSet(lista_blocked) \ {c.pcb}
        BY <3>3, <3>5, ListaSinElemento DEF EnCola
      <4> QED
        BY <2>2, <3>2, <4>1 DEF EnCola
    <3> QED
      BY <1>2, <3>4, <3>5
  <2>3. CASE c.pcb = NULL
    <3>1. \A q \in Procesos : q # c.pcb
      BY <1>3, <2>3
    <3>2. MismasEsperas
      BY <1>2, <2>1, <2>2, <3>1, Zenon DEF MismasEsperas
    <3> QED
      BY <3>2, OlvidoIgual
  <2>4. CASE c.pcb \in Procesos
    <3>1. EnRecurso(c.pcb)
      BY <1>0 DEF EnRecurso
    <3>2. c.pcb \in finalizando \/ EnCola(lista_blocked, c.pcb)
      BY <1>0, <2>4 DEF Inv, EnMano, Bloqueados
    <3>3. c.pcb \in finalizando \/ c.pcb \notin por_otro
      BY <2>4, <3>1 DEF Inv, Olvido
    <3>4. c.pcb \in finalizando \/ ~EnCola(lista_blocked, c.pcb)'
      <4>1. lista_blocked \in Seq(Procesos) /\ IsInjective(lista_blocked)
        BY DEF Inv, TypeOK, Bloqueados
      <4>2. ASSUME EnCola(lista_blocked, c.pcb) PROVE c.pcb \notin ToSet(lista_blocked')
        <5>1. lista_blocked' = RemoveFirst(lista_blocked, c.pcb)
          BY <1>2, <1>3, <2>4, <4>2
        <5>2. ToSet(lista_blocked') = ToSet(lista_blocked) \ {c.pcb}
          BY <4>1, <4>2, <5>1, ListaSinElemento DEF EnCola
        <5> QED
          BY <5>2
      <4>3. c.pcb' = c.pcb
        OBVIOUS
      <4> QED
        BY <3>2, <4>2, <4>3 DEF EnCola
    <3>5. ASSUME NEW q \in Procesos \ finalizando'
          PROVE  /\ EnCola(lista_blocked, q)' => q \in por_otro' \/ EnRecurso(q)' \/ EnHilo(q)'
                 /\ q \in por_otro' =>
                      EnCola(lista_blocked, q)' /\ ~EnRecurso(q)' /\ ~EnHilo(q)'
      <4>1. q \in Procesos \ finalizando /\ por_otro' = por_otro
        BY <1>2, <3>5
      <4>2. CASE q = c.pcb
        BY <3>3, <3>4, <4>1, <4>2
      <4>3. CASE q # c.pcb
        BY <2>1, <2>2, <4>1, <4>3 DEF Inv, Olvido
      <4> QED
        BY <4>2, <4>3
    <3> QED
      BY <3>5 DEF Olvido
  <2> QED
    BY <1>3, <2>3, <2>4
<1> QED
  BY <1>6, <1>11, <1>12, <1>13, <1>14, <1>15, <1>16 DEF Inv

(* liberar_recursos_pcb takes p out of the queues, touches the list of p    *)
(* alone, and takes the mutex of what it has to give back.                  *)
LEMMA Liberacion ==
  ASSUME Inv, NEW p \in Procesos, NEW h \in {"HILO", "DISPATCH"}, LiberarRecursos(p, h)
  PROVE  /\ lista_bloqueados' \in [Recursos -> Seq(Procesos)]
         /\ \A r \in Recursos : IsInjective(lista_bloqueados'[r])
         /\ \A r \in Recursos :
              \/ lista_bloqueados'[r] = lista_bloqueados[r]
              \/ /\ EnCola(lista_bloqueados[r], p)
                 /\ lista_bloqueados'[r] = RemoveFirst(lista_bloqueados[r], p)
                 /\ ToSet(lista_bloqueados'[r]) = ToSet(lista_bloqueados[r]) \ {p}
         /\ lista_recursos' \in [Procesos -> Seq(Recursos)]
         /\ \A q \in Procesos \ {p} : lista_recursos'[q] = lista_recursos[q]
         /\ en_curso' \in [Recursos -> [hilo : {"NADIE", "HILO", "DISPATCH"},
                                        pcb : Procesos \cup {NULL}, leido : Int, suma : Int]]
         /\ \A r \in Recursos :
              \/ en_curso'[r] = en_curso[r]
              \/ /\ en_curso[r] = NadieEnCurso /\ en_curso'[r].hilo = h
                 /\ en_curso'[r].pcb = NULL /\ en_curso'[r].suma > 0
         /\ UNCHANGED <<instancias, pcb_asignado, asignaciones>>
<1> DEFINE Espera(r)  == IF EnCola(lista_bloqueados[r], p) THEN 1 ELSE 0
           Sueltas(r) == Veces(lista_recursos[p], r) - Espera(r)
           Tomados    == ToSet(lista_recursos[p])
           Dejados    == {r \in Tomados : Espera(r) = 1}
<1>1. /\ \A r \in Tomados : MutexLibre(r)
      /\ lista_bloqueados' = [r \in Recursos |->
           IF r \in Dejados THEN RemoveFirst(lista_bloqueados[r], p) ELSE lista_bloqueados[r]]
      /\ lista_recursos' = [lista_recursos EXCEPT ![p] =
           IF Dejados = {} THEN lista_recursos[p]
           ELSE RemoveFirst(lista_recursos[p], CHOOSE r \in Dejados : TRUE)]
      /\ en_curso' = [r \in Recursos |->
           IF r \notin Tomados \/ Sueltas(r) = 0 THEN en_curso[r]
           ELSE [hilo |-> h, pcb |-> NULL, leido |-> instancias[r], suma |-> Sueltas(r)]]
      /\ UNCHANGED <<instancias, pcb_asignado, asignaciones>>
  BY Zenon DEF LiberarRecursos
<1>2. /\ lista_bloqueados \in [Recursos -> Seq(Procesos)]
      /\ lista_recursos \in [Procesos -> Seq(Recursos)]
      /\ \A r \in Recursos : IsInjective(lista_bloqueados[r])
  BY DEF Inv, TypeOK, Colas
<1>3. \A r \in Tomados : Sueltas(r) \in Nat
  <2>1. ASSUME NEW r \in Tomados PROVE Veces(lista_recursos[p], r) \in Nat \ {0}
    BY <1>2, VecesEnLista
  <2> QED
    BY <2>1
<1>4. \A r \in Dejados : EnCola(lista_bloqueados[r], p)
  OBVIOUS
<1> HIDE DEF Espera, Sueltas, Tomados, Dejados
<1>5. ASSUME NEW r \in Recursos
      PROVE  /\ lista_bloqueados'[r] \in Seq(Procesos)
             /\ IsInjective(lista_bloqueados'[r])
             /\ \/ lista_bloqueados'[r] = lista_bloqueados[r]
                \/ /\ EnCola(lista_bloqueados[r], p)
                   /\ lista_bloqueados'[r] = RemoveFirst(lista_bloqueados[r], p)
                   /\ ToSet(lista_bloqueados'[r]) = ToSet(lista_bloqueados[r]) \ {p}
  <2>1. lista_bloqueados[r] \in Seq(Procesos) /\ IsInjective(lista_bloqueados[r])
    BY <1>2
  <2>2. CASE r \notin Dejados
    BY <1>1, <2>1, <2>2
  <2>3. CASE r \in Dejados
    <3>1. EnCola(lista_bloqueados[r], p)
      BY <1>4, <2>3
    <3>2. /\ RemoveFirst(lista_bloqueados[r], p) \in Seq(Procesos)
          /\ IsInjective(RemoveFirst(lista_bloqueados[r], p))
          /\ ToSet(RemoveFirst(lista_bloqueados[r], p)) = ToSet(lista_bloqueados[r]) \ {p}
      BY <2>1, <3>1, ListaSinElemento DEF EnCola
    <3> QED
      BY <1>1, <2>3, <3>1, <3>2
  <2> QED
    BY <2>2, <2>3
<1>6. lista_bloqueados' \in [Recursos -> Seq(Procesos)]
  BY <1>1, <1>5
<1>7. /\ lista_recursos' \in [Procesos -> Seq(Recursos)]
      /\ \A q \in Procesos \ {p} : lista_recursos'[q] = lista_recursos[q]
  <2>1. \A x : RemoveFirst(lista_recursos[p], x) \in Seq(Recursos)
    BY <1>2, ListaQuitada
  <2>2. PICK l \in Seq(Recursos) : lista_recursos' = [lista_recursos EXCEPT ![p] = l]
    BY <1>1, <1>2, <2>1
  <2> QED
    BY <1>2, <2>2
<1>8. ASSUME NEW r \in Recursos
      PROVE  /\ en_curso'[r] \in [hilo : {"NADIE", "HILO", "DISPATCH"},
                                  pcb : Procesos \cup {NULL}, leido : Int, suma : Int]
             /\ \/ en_curso'[r] = en_curso[r]
                \/ /\ en_curso[r] = NadieEnCurso /\ en_curso'[r].hilo = h
                   /\ en_curso'[r].pcb = NULL /\ en_curso'[r].suma > 0
  <2>1. CASE r \notin Tomados \/ Sueltas(r) = 0
    BY <1>1, <2>1 DEF Inv, TypeOK
  <2>2. CASE r \in Tomados /\ Sueltas(r) # 0
    <3>1. /\ en_curso'[r] =
               [hilo |-> h, pcb |-> NULL, leido |-> instancias[r], suma |-> Sueltas(r)]
          /\ en_curso[r] = NadieEnCurso
      BY <1>1, <2>2 DEF MutexLibre
    <3>2. instancias[r] \in Int /\ Sueltas(r) \in Nat
      BY <1>3, <2>2, Tipos
    <3> QED
      BY <2>2, <3>1, <3>2
  <2> QED
    BY <2>1, <2>2
<1>9. en_curso' \in [Recursos -> [hilo : {"NADIE", "HILO", "DISPATCH"},
                                  pcb : Procesos \cup {NULL}, leido : Int, suma : Int]]
  BY <1>1, <1>8
<1> QED
  BY <1>1, <1>5, <1>6, <1>7, <1>8, <1>9

LEMMA PasoLiberar ==
  ASSUME Inv, NEW p \in Procesos, NEW h \in {"HILO", "DISPATCH"}, LiberarRecursos(p, h),
         estado' = [estado EXCEPT ![p] = "EXIT"],
         UNCHANGED <<lista_blocked, motivo_recurso, por_otro, finalizando, deteccion>>,
         \/ /\ h = "DISPATCH" /\ estado[p] = "EXEC" /\ despacho.op = "LIBRE"
            /\ despacho' = [Libre EXCEPT !.op = "TERMINA"]
         \/ h = "HILO" /\ p \in finalizando /\ despacho' = despacho
  PROVE  Inv'
<1>1. /\ lista_bloqueados' \in [Recursos -> Seq(Procesos)]
      /\ \A r \in Recursos : IsInjective(lista_bloqueados'[r])
      /\ \A r \in Recursos :
           \/ lista_bloqueados'[r] = lista_bloqueados[r]
           \/ /\ EnCola(lista_bloqueados[r], p)
              /\ lista_bloqueados'[r] = RemoveFirst(lista_bloqueados[r], p)
              /\ ToSet(lista_bloqueados'[r]) = ToSet(lista_bloqueados[r]) \ {p}
      /\ lista_recursos' \in [Procesos -> Seq(Recursos)]
      /\ \A q \in Procesos \ {p} : lista_recursos'[q] = lista_recursos[q]
      /\ en_curso' \in [Recursos -> [hilo : {"NADIE", "HILO", "DISPATCH"},
                                     pcb : Procesos \cup {NULL}, leido : Int, suma : Int]]
      /\ \A r \in Recursos :
           \/ en_curso'[r] = en_curso[r]
           \/ /\ en_curso[r] = NadieEnCurso /\ en_curso'[r].hilo = h
              /\ en_curso'[r].pcb = NULL /\ en_curso'[r].suma > 0
      /\ UNCHANGED <<instancias, pcb_asignado, asignaciones>>
  BY Liberacion
<1>2. /\ estado' \in [Procesos -> {"READY", "EXEC", "BLOCKED", "EXIT"}] /\ estado'[p] = "EXIT"
      /\ \A q \in Procesos \ {p} : estado'[q] = estado[q]
  BY DEF Inv, TypeOK
<1>3. despacho' \in [op : Handlers, pcb : Procesos \cup {NULL},
                     recurso : Recursos \cup {NULL}, leido : Int]
  <2>1. CASE despacho' = despacho
    BY <2>1 DEF Inv, TypeOK
  <2>2. CASE despacho' = [Libre EXCEPT !.op = "TERMINA"]
    BY <2>2, OtroPunto DEF Handlers
  <2> QED
    BY <2>1, <2>2
<1>4. h = "DISPATCH" => despacho'.op = "TERMINA"
  BY OtroPunto DEF Handlers
<1>5. \/ p \in finalizando
      \/ /\ p \notin finalizando /\ ~EnCola(lista_blocked, p)
         /\ \A r \in Recursos : ~EnCola(lista_bloqueados[r], p) /\ en_curso[r].pcb # p
  BY EnExecNoEspera
<1>6. TypeOK'
  BY <1>1, <1>2, <1>3 DEF Inv, TypeOK, deteccion
<1>7. Bloqueados'
  BY <1>2, <1>5 DEF Inv, Bloqueados, EnCola
<1>8. \A r \in Recursos, q \in Procesos :
        EnCola(lista_bloqueados[r], q)' => EnCola(lista_bloqueados[r], q)
  BY <1>1 DEF EnCola
<1>9. Colas'
  <2>1. ASSUME NEW r \in Recursos, NEW q \in Procesos, EnCola(lista_bloqueados[r], q)',
               q \notin finalizando'
        PROVE  /\ estado'[q] = "BLOCKED" /\ lista_recursos'[q] # <<>>
               /\ Last(lista_recursos'[q]) = r
    <3>1. q # p /\ EnCola(lista_bloqueados[r], q)
      BY <1>5, <1>8, <2>1
    <3>2. /\ estado[q] = "BLOCKED" /\ lista_recursos[q] # <<>>
          /\ Last(lista_recursos[q]) = r
      BY <2>1, <3>1 DEF Inv, Colas
    <3>3. estado'[q] = estado[q] /\ lista_recursos'[q] = lista_recursos[q]
      BY <1>1, <1>2, <3>1
    <3> QED
      BY <3>2, <3>3
  <2>2. \A r \in Recursos, s \in Recursos, q \in Procesos :
          EnCola(lista_bloqueados[r], q)' /\ EnCola(lista_bloqueados[s], q)' => r = s
    BY <1>8 DEF Inv, Colas
  <2> QED
    BY <1>1, <2>1, <2>2 DEF Colas
<1>10. \A r \in Recursos, q \in Procesos : en_curso'[r].pcb = q => en_curso[r].pcb = q
  <2>1. ASSUME NEW r \in Recursos, NEW q \in Procesos, en_curso'[r].pcb = q
        PROVE  en_curso[r].pcb = q
    <3>1. en_curso'[r].pcb # NULL
      BY <2>1, Tipos
    <3> QED
      BY <1>1, <2>1, <3>1
  <2> QED
    BY <2>1
<1>11. EnMano'
  <2>1. ASSUME NEW r \in Recursos, NEW q \in Procesos, en_curso'[r].pcb = q
        PROVE  /\ \A s \in Recursos : ~EnCola(lista_bloqueados[s], q)'
               /\ \A s \in Recursos : en_curso'[s].pcb = q => s = r
               /\ q \notin finalizando' => estado'[q] = "BLOCKED"
    BY <1>2, <1>5, <1>8, <1>10, <2>1 DEF Inv, EnMano
  <2> QED
    BY <2>1 DEF EnMano
<1>12. Manejador'
  <2>1. CASE despacho'.op = "TERMINA"
    BY <2>1 DEF Manejador
  <2>2. CASE despacho' = despacho /\ p \in finalizando
    <3>1. despacho.op \in {"WAIT_TOMA", "WAIT_NIEGA"} => despacho.pcb # p
      BY <2>2 DEF Inv, Manejador, Bloqueados
    <3>2. CASE despacho.op \in {"WAIT_TOMA", "WAIT_NIEGA"}
      BY <1>2, <2>2, <3>1, <3>2 DEF Inv, Manejador
    <3>3. CASE despacho.op \in {"WAIT_BLOQUEADO", "COLGADO"}
      <4>1. /\ despacho.pcb \in Procesos /\ despacho.recurso \in Recursos
            /\ \A r \in Recursos : ~EnCola(lista_bloqueados[r], despacho.pcb)'
            /\ \A r \in Recursos : en_curso'[r].pcb # despacho.pcb
        BY <1>8, <1>10, <2>2, <3>3 DEF Inv, Manejador
      <4>2. ASSUME despacho.pcb \notin finalizando
            PROVE  /\ estado'[despacho.pcb] = "BLOCKED" /\ lista_recursos'[despacho.pcb] # <<>>
                   /\ Last(lista_recursos'[despacho.pcb]) = despacho.recurso
        <5>1. despacho.pcb \in Procesos \ {p}
          BY <2>2, <4>1, <4>2
        <5>2. /\ estado[despacho.pcb] = "BLOCKED" /\ lista_recursos[despacho.pcb] # <<>>
              /\ Last(lista_recursos[despacho.pcb]) = despacho.recurso
          BY <3>3, <4>2 DEF Inv, Manejador
        <5> QED
          BY <1>1, <1>2, <5>1, <5>2
      <4> QED
        BY <2>2, <3>3, <4>1, <4>2 DEF Manejador
    <3>4. CASE despacho.op \notin {"WAIT_TOMA", "WAIT_NIEGA", "WAIT_BLOQUEADO", "COLGADO"}
      BY <2>2, <3>4 DEF Inv, Manejador
    <3> QED
      BY <3>2, <3>3, <3>4
  <2> QED
    BY <1>4, <2>1, <2>2
<1>13. PorEscribir'
  <2>1. ASSUME NEW s \in Recursos
        PROVE /\ IF en_curso'[s].pcb = NULL THEN en_curso'[s].suma >= 0
                                            ELSE en_curso'[s].suma = -1
              /\ (MutexLibre(s))' <=> en_curso'[s].hilo = "NADIE"
              /\ en_curso'[s].hilo = "DISPATCH" => despacho'.op = "TERMINA"
              /\ en_curso'[s].suma > 0 /\ finalizando' = {} => en_curso'[s].hilo = "DISPATCH"
    <3>1. CASE en_curso'[s] = en_curso[s]
      <4>1. en_curso'[s].hilo = "DISPATCH" => despacho'.op = "TERMINA"
        BY <1>4, <3>1 DEF Inv, PorEscribir
      <4> QED
        BY <3>1, <4>1 DEF Inv, PorEscribir, MutexLibre
    <3>2. CASE en_curso'[s] # en_curso[s]
      <4>1. en_curso'[s].hilo = h /\ en_curso'[s].pcb = NULL /\ en_curso'[s].suma > 0
        BY <1>1, <3>2
      <4>2. en_curso'[s].suma \in Int
        BY <1>1
      <4> QED
        BY <1>4, <4>1, <4>2 DEF MutexLibre, NadieEnCurso
    <3> QED
      BY <3>1, <3>2
  <2> QED
    BY <2>1 DEF PorEscribir
<1>14. Olvido'
  <2>1. ASSUME NEW q \in Procesos \ finalizando'
        PROVE  EnRecurso(q)' <=> EnRecurso(q)
    <3>1. ASSUME NEW r \in Recursos PROVE en_curso'[r].pcb = q <=> en_curso[r].pcb = q
      <4>1. q # NULL
        BY Tipos
      <4>2. CASE en_curso'[r] = en_curso[r]
        BY <4>2
      <4>3. CASE en_curso[r] = NadieEnCurso /\ en_curso'[r].pcb = NULL
        BY <4>1, <4>3 DEF NadieEnCurso
      <4> QED
        BY <1>1, <4>2, <4>3
    <3>2. ASSUME NEW r \in Recursos, EnCola(lista_bloqueados[r], q)
          PROVE  EnCola(lista_bloqueados[r], q)'
      <4>1. q # p
        BY <1>5, <3>2
      <4> QED
        BY <1>1, <3>2, <4>1 DEF EnCola
    <3> QED
      BY <1>8, <3>1, <3>2 DEF EnRecurso
  <2>2. \A q \in Procesos : EnHilo(q)' <=> EnHilo(q)
    BY <1>4 DEF EnHilo
  <2>3. \A q \in Procesos : EnCola(lista_blocked, q)' <=> EnCola(lista_blocked, q)
    BY DEF EnCola
  <2>4. MismasEsperas
    BY <2>1, <2>2, <2>3, Zenon DEF MismasEsperas
  <2> QED
    BY <2>4, OlvidoIgual
<1> QED
  BY <1>6, <1>7, <1>9, <1>11, <1>12, <1>13, <1>14 DEF Inv

LEMMA PasoSalir ==
  ASSUME Inv, NEW p \in Procesos, Salir(p)
  PROVE  Inv'
<1>1. /\ estado[p] = "EXEC" /\ despacho.op = "LIBRE" /\ LiberarRecursos(p, "DISPATCH")
      /\ estado' = [estado EXCEPT ![p] = "EXIT"]
      /\ despacho' = [Libre EXCEPT !.op = "TERMINA"]
      /\ UNCHANGED <<lista_blocked, motivo_recurso, por_otro, finalizando, deteccion>>
  BY DEF Salir, Atrapa, EnHandler
<1> QED
  BY <1>1, PasoLiberar

LEMMA PasoFinalizarLibera ==
  ASSUME Inv, NEW p \in Procesos, FinalizarLibera(p)
  PROVE  Inv'
<1>1. /\ p \in finalizando /\ LiberarRecursos(p, "HILO")
      /\ estado' = [estado EXCEPT ![p] = "EXIT"]
      /\ UNCHANGED <<lista_blocked, motivo_recurso, por_otro, despacho, finalizando,
                     deteccion>>
  BY DEF FinalizarLibera
<1>2. /\ UNCHANGED <<lista_blocked, motivo_recurso, por_otro, finalizando, deteccion>>
      /\ despacho' = despacho
  BY <1>1
<1> QED
  BY <1>1, <1>2, PasoLiberar

LEMMA PasoFinalizar ==
  ASSUME Inv, NEW p \in Procesos, Finalizar(p)
  PROVE  Inv'
<1>1. /\ p \in Finalizables /\ p \notin finalizando /\ estado[p] \in {"READY", "BLOCKED"}
      /\ finalizando' = finalizando \cup {p}
      /\ lista_blocked' = RemoveFirst(lista_blocked, p)
      /\ UNCHANGED <<estado, motivo_recurso, lista_recursos, por_otro, recursos, despacho,
                     deteccion>>
  BY DEF Finalizar
<1>2. /\ lista_blocked' \in Seq(Procesos) /\ IsInjective(lista_blocked')
      /\ ToSet(lista_blocked') = ToSet(lista_blocked) \ {p}
  <2>1. lista_blocked \in Seq(Procesos) /\ IsInjective(lista_blocked)
    BY DEF Inv, TypeOK, Bloqueados
  <2>2. CASE p \in ToSet(lista_blocked)
    BY <1>1, <2>1, <2>2, ListaSinElemento
  <2>3. CASE p \notin ToSet(lista_blocked)
    <3>1. lista_blocked' = lista_blocked
      BY <1>1, <2>1, <2>3, QuitarPrimero
    <3> QED
      BY <2>1, <2>3, <3>1
  <2> QED
    BY <2>2, <2>3
<1>3. TypeOK'
  BY <1>1, <1>2 DEF Inv, TypeOK, recursos, deteccion
<1>4. Bloqueados'
  BY <1>1, <1>2 DEF Inv, Bloqueados, EnCola
<1>5. Colas' /\ EnMano'
  BY <1>1 DEF Inv, Colas, EnMano, EnCola, recursos
<1>6. Manejador'
  BY <1>1 DEF Inv, Manejador, EnCola, recursos
<1>7. PorEscribir'
  BY <1>1 DEF Inv, PorEscribir, MutexLibre, NadieEnCurso, recursos
<1>8. Olvido'
  <2>1. \A q \in Procesos : /\ EnRecurso(q)' <=> EnRecurso(q)
                            /\ EnHilo(q)' <=> EnHilo(q)
    BY <1>1 DEF EnRecurso, EnHilo, EnCola, recursos
  <2>2. \A q \in Procesos \ finalizando' :
          EnCola(lista_blocked, q)' <=> EnCola(lista_blocked, q)
    BY <1>1, <1>2 DEF EnCola
  <2>3. por_otro' = por_otro /\ finalizando \subseteq finalizando'
    BY <1>1
  <2>4. MismasEsperas
    BY <2>1, <2>2, <2>3, Zenon DEF MismasEsperas
  <2> QED
    BY <2>4, OlvidoIgual
<1> QED
  BY <1>3, <1>4, <1>5, <1>6, <1>7, <1>8 DEF Inv

(* What a walk that has read a resource holds.                              *)
Andan(d) == d.fase \in {"MIRA", "AVANZA"} => d.pcb \in Procesos /\ d.recurso \in Recursos

Detectores == [fase : {"ESPERA", "RECORRE", "MIRA", "AVANZA", "INFORMA", "CAIDO"},
               posibles : SUBSET Procesos, primero : Procesos \cup {NULL},
               en_deadlock : SUBSET Procesos, pcb : Procesos \cup {NULL},
               recurso : Recursos \cup {NULL}]

(* The detector's own state after each of its steps.                        *)
LEMMA TipoDelDetector ==
  ASSUME Inv, \/ DetectarInicia \/ DetectarRecorre \/ DetectarMira \/ DetectarAvanza
              \/ DetectarInforma
  PROVE  detector' \in Detectores /\ Andan(detector')
<1>1. detector \in Detectores /\ Dormido \in Detectores /\ Andan(detector) /\ Andan(Dormido)
  BY DEF Inv, TypeOK, Dormido, Andan, Detectores
<1>2. ASSUME NEW f \in {"RECORRE", "INFORMA", "CAIDO"}, NEW q \in Procesos \cup {NULL}
      PROVE  LET d == [detector EXCEPT !.fase = f, !.pcb = q]
                 e == [detector EXCEPT !.fase = f]
             IN  d \in Detectores /\ Andan(d) /\ e \in Detectores /\ Andan(e)
  BY <1>1 DEF Andan, Detectores
<1>3. CASE DetectarInicia
  <2>1. Sospechosos \in SUBSET Procesos
    BY DEF Sospechosos, ToSet, Inv, TypeOK
  <2>2. ASSUME NEW i \in DOMAIN lista_blocked,
               detector' = [fase |-> "RECORRE", posibles |-> Sospechosos,
                            primero |-> lista_blocked[i], en_deadlock |-> {},
                            pcb |-> lista_blocked[i], recurso |-> NULL]
        PROVE  detector' \in Detectores /\ Andan(detector')
    <3>1. lista_blocked[i] \in Procesos
      BY DEF Inv, TypeOK
    <3> QED
      BY <2>1, <2>2, <3>1 DEF Andan, Detectores
  <2> QED
    BY <1>1, <1>3, <2>2 DEF DetectarInicia
<1>4. CASE DetectarRecorre
  <2>1. CASE detector' = [detector EXCEPT !.fase = "CAIDO"]
    BY <1>1, <2>1 DEF Andan, Detectores
  <2>2. ASSUME detector.pcb # NULL, lista_recursos[detector.pcb] # <<>>,
               detector' = [detector EXCEPT !.fase = "MIRA",
                                            !.recurso = Last(lista_recursos[detector.pcb])]
        PROVE  detector' \in Detectores /\ Andan(detector')
    <3>1. detector.pcb \in Procesos
      BY <1>1, <2>2 DEF Detectores
    <3>2. lista_recursos[detector.pcb] \in Seq(Recursos)
      BY <3>1 DEF Inv, TypeOK
    <3>3. Last(lista_recursos[detector.pcb]) \in Recursos
      BY <2>2, <3>2, LenProperties, EmptySeq DEF Last
    <3> QED
      BY <1>1, <2>2, <3>1, <3>3 DEF Andan, Detectores
  <2>3. \/ detector' = [detector EXCEPT !.fase = "CAIDO"]
        \/ /\ detector.pcb # NULL /\ lista_recursos[detector.pcb] # <<>>
           /\ detector' = [detector EXCEPT !.fase = "MIRA",
                                          !.recurso = Last(lista_recursos[detector.pcb])]
    BY <1>4, Zenon DEF DetectarRecorre
  <2> QED
    BY <2>1, <2>2, <2>3
<1>5. CASE DetectarMira
  <2>1. detector.pcb \in Procesos /\ detector.recurso \in Recursos
    BY <1>5 DEF DetectarMira, Detectando, Inv, TypeOK
  <2>2. \/ detector' = Dormido
        \/ detector' = [detector EXCEPT !.fase = "AVANZA",
                                        !.en_deadlock = detector.en_deadlock \cup {detector.pcb}]
    BY <1>5, Zenon DEF DetectarMira
  <2>3. CASE detector' = Dormido
    BY <1>1, <2>3
  <2>4. CASE detector' = [detector EXCEPT !.fase = "AVANZA",
                                    !.en_deadlock = detector.en_deadlock \cup {detector.pcb}]
    BY <1>1, <2>1, <2>4 DEF Andan, Detectores
  <2> QED
    BY <2>2, <2>3, <2>4
<1>6. CASE DetectarAvanza
  <2>1. detector.recurso \in Recursos
    BY <1>6 DEF DetectarAvanza, Detectando, Inv, TypeOK
  <2>2. pcb_asignado[detector.recurso] \in Procesos \cup {NULL}
    BY <2>1 DEF Inv, TypeOK
  <2>3. PICK f \in {"INFORMA", "RECORRE"} :
          detector' = [detector EXCEPT !.fase = f, !.pcb = pcb_asignado[detector.recurso]]
    BY <1>6, Zenon DEF DetectarAvanza
  <2> QED
    BY <1>2, <2>2, <2>3
<1>7. CASE DetectarInforma
  <2>1. \/ detector' = Dormido
        \/ detector' = [detector EXCEPT !.fase = "CAIDO"]
    BY <1>7, Zenon DEF DetectarInforma
  <2>2. CASE detector' = [detector EXCEPT !.fase = "CAIDO"]
    BY <1>1, <2>2 DEF Andan, Detectores
  <2> QED
    BY <1>1, <2>1, <2>2
<1> QED
  BY <1>3, <1>4, <1>5, <1>6, <1>7

(* The detector touches nothing but its own state.                          *)
LEMMA PasoDetector ==
  ASSUME Inv, \/ DetectarInicia \/ DetectarRecorre \/ DetectarMira \/ DetectarAvanza
              \/ DetectarInforma
  PROVE  Inv'
<1>1. UNCHANGED <<procesos, recursos, despacho, finalizando>>
  BY DEF DetectarInicia, DetectarRecorre, DetectarMira, DetectarAvanza, DetectarInforma
<1>2. avisos' \in Nat
  BY DEF DetectarInicia, DetectarRecorre, DetectarMira, DetectarAvanza, DetectarInforma, Inv,
         TypeOK
<1>3. detector' \in Detectores /\ Andan(detector')
  BY TipoDelDetector
<1>4. TypeOK'
  BY <1>1, <1>2, <1>3 DEF Inv, TypeOK, procesos, recursos, Andan, Detectores
<1>5. Bloqueados'
  BY <1>1 DEF Inv, Bloqueados, EnCola, procesos
<1>6. Colas'
  BY <1>1 DEF Inv, Colas, EnCola, procesos, recursos
<1>7. EnMano'
  BY <1>1 DEF Inv, EnMano, EnCola, procesos, recursos
<1>8. Manejador'
  BY <1>1 DEF Inv, Manejador, EnCola, procesos, recursos
<1>9. PorEscribir'
  BY <1>1 DEF Inv, PorEscribir, MutexLibre, NadieEnCurso, recursos
<1>10. Olvido'
  BY <1>1 DEF Inv, Olvido, EnRecurso, EnHilo, EnCola, procesos, recursos
<1> QED
  BY <1>4, <1>5, <1>6, <1>7, <1>8, <1>9, <1>10 DEF Inv

-------------------------------------------------------------------------------
(* The invariant holds when the Kernel starts, and every step keeps it.     *)
LEMMA InvInicio == Init => Inv
<1> SUFFICES ASSUME Init PROVE Inv
  OBVIOUS
<1>1. <<>> \in Seq(Procesos) /\ <<>> \in Seq(Recursos) /\ IsInjective(<<>>)
      /\ \A x : ~EnCola(<<>>, x)
  BY DEF IsInjective, EnCola, ToSet
<1>2. despacho \in [op : Handlers, pcb : Procesos \cup {NULL},
                    recurso : Recursos \cup {NULL}, leido : Int]
  BY DEF Init, Libre, Handlers
<1>3. en_curso \in [Recursos -> [hilo : {"NADIE", "HILO", "DISPATCH"},
                                 pcb : Procesos \cup {NULL}, leido : Int, suma : Int]]
  BY DEF Init, NadieEnCurso
<1>4. instancias \in [Recursos -> Int]
  BY ConstantesRecursos DEF Init
<1>5. TypeOK
  BY <1>1, <1>2, <1>3, <1>4 DEF Init, TypeOK, Dormido
<1>6. Bloqueados
  BY <1>1 DEF Init, Bloqueados
<1>7. Colas
  BY <1>1 DEF Init, Colas
<1>8. EnMano
  BY ConstantesRecursos DEF Init, EnMano, NadieEnCurso
<1>9. Manejador
  BY DEF Init, Manejador, Libre
<1>10. PorEscribir
  BY DEF Init, PorEscribir, MutexLibre, NadieEnCurso
<1>11. Olvido
  BY <1>1 DEF Init, Olvido
<1> QED
  BY <1>5, <1>6, <1>7, <1>8, <1>9, <1>10, <1>11 DEF Inv

LEMMA InvPaso == Inv /\ [Next]_vars => Inv'
<1> SUFFICES ASSUME Inv, [Next]_vars PROVE Inv'
  OBVIOUS
<1>1. ASSUME NEW p \in Procesos,
             \/ Ejecutar(p) \/ Reubicar(p) \/ BloquearPorOtro(p) \/ DesbloquearDeOtro(p)
             \/ Salir(p) \/ Finalizar(p) \/ FinalizarLibera(p)
      PROVE  Inv'
  BY <1>1, PasoEjecutar, PasoReubicar, PasoBloquearPorOtro, PasoDesbloquearDeOtro, PasoSalir,
     PasoFinalizar, PasoFinalizarLibera
<1>2. ASSUME NEW p \in Procesos, NEW r \in Recursos, WaitConsulta(p, r) \/ SignalQuita(p, r)
      PROVE  Inv'
  BY <1>2, PasoWaitConsulta, PasoSignalQuita
<1>3. CASE WaitToma \/ WaitBloquea \/ WaitEncola
  BY <1>3, PasoWaitToma, PasoWaitBloquea, PasoWaitEncola
<1>4. CASE SignalSuma \/ SignalMira \/ TerminarHandler
  BY <1>4, PasoSignalSuma, PasoSignalMira
<1>5. CASE AsignarEnDespacho
  <2>0. PICK r : r = despacho.recurso
    OBVIOUS
  <2>1. /\ despacho.op = "ASIGNA" /\ AsignarRecurso(r, "DISPATCH")
        /\ despacho' = [Libre EXCEPT !.op = "TERMINA"] /\ asignaciones' = asignaciones
    BY <1>5, <2>0 DEF AsignarEnDespacho, EnHandler
  <2>2. r \in Recursos
    BY <2>0, <2>1 DEF Inv, Manejador
  <2> QED
    BY <2>0, <2>1, <2>2, PasoAsignar
<1>6. ASSUME NEW r \in Recursos, AsignarEnHilo(r) PROVE Inv'
  <2>1. /\ asignaciones[r] > 0 /\ AsignarRecurso(r, "HILO")
        /\ asignaciones' = [asignaciones EXCEPT ![r] = @ - 1] /\ despacho' = despacho
    BY <1>6 DEF AsignarEnHilo
  <2> QED
    BY <2>1, PasoAsignar
<1>7. ASSUME NEW r \in Recursos, Escribir(r) PROVE Inv'
  BY <1>7, PasoEscribir
<1>8. CASE \/ DetectarInicia \/ DetectarRecorre \/ DetectarMira \/ DetectarAvanza
           \/ DetectarInforma
  BY <1>8, PasoDetector
<1>9. CASE UNCHANGED vars
  <2>1. UNCHANGED <<estado, lista_blocked, motivo_recurso, lista_recursos, por_otro, instancias,
                    lista_bloqueados, pcb_asignado, asignaciones, en_curso, despacho, finalizando,
                    avisos, detector>>
    BY <1>9 DEF vars, procesos, recursos, deteccion
  <2>2. TypeOK'
    BY <2>1 DEF Inv, TypeOK
  <2>3. Bloqueados' /\ Colas' /\ EnMano'
    BY <2>1 DEF Inv, Bloqueados, Colas, EnMano, EnCola
  <2>4. Manejador'
    BY <2>1 DEF Inv, Manejador, EnCola
  <2>5. PorEscribir' /\ Olvido'
    BY <2>1 DEF Inv, PorEscribir, MutexLibre, NadieEnCurso, Olvido, EnRecurso, EnHilo, EnCola
  <2> QED
    BY <2>2, <2>3, <2>4, <2>5 DEF Inv
<1> QED
  BY <1>1, <1>2, <1>3, <1>4, <1>5, <1>6, <1>7, <1>8, <1>9 DEF Next, Acciones

LEMMA InvSiempre == Spec => []Inv
<1> QED
  BY InvInicio, InvPaso, PTL DEF Spec

-------------------------------------------------------------------------------
(* The theorems.                                                            *)

(* Every variable keeps its type: in particular, the detector only walks    *)
(* over processes, and no release starts a negative number of threads.      *)
THEOREM TiposDeRecursos == Spec => []TypeOK
<1>1. Inv => TypeOK
  BY DEF Inv
<1> QED
  BY <1>1, InvSiempre, PTL

(* A process that nobody is killing is in the queue of what it asked for    *)
(* last, once, in no other, and in BLOCKED, where the thread that assigns   *)
(* looks for it.                                                            *)
THEOREM ColasSiempreCoherentes == Spec => []ColasCoherentes
<1>1. Inv => ColasCoherentes
  <2> SUFFICES ASSUME Inv, NEW p \in Procesos \ finalizando, NEW r \in Recursos,
                      EnCola(lista_bloqueados[r], p)
               PROVE  /\ Veces(lista_bloqueados[r], p) = 1
                      /\ estado[p] = "BLOCKED" /\ EnCola(lista_blocked, p)
                      /\ lista_recursos[p] # <<>> /\ Last(lista_recursos[p]) = r
    BY Zenon DEF ColasCoherentes
  <2>1. /\ estado[p] = "BLOCKED" /\ lista_recursos[p] # <<>> /\ Last(lista_recursos[p]) = r
    BY DEF Inv, Colas
  <2>2. EnCola(lista_blocked, p)
    BY <2>1 DEF Inv, Bloqueados
  <2>3. lista_bloqueados[r] \in Seq(Procesos) /\ IsInjective(lista_bloqueados[r])
    BY DEF Inv, TypeOK, Colas
  <2>4. Veces(lista_bloqueados[r], p) = 1
    BY <2>3, VecesEnLista DEF EnCola
  <2> QED
    BY <2>1, <2>2, <2>4
<1> QED
  BY <1>1, InvSiempre, PTL

(* Nobody is forgotten in BLOCKED nor woken by whom he does not wait for: a  *)
(* process that nobody is killing is there exactly while one other thread,  *)
(* one resource or the dispatch thread on its way to it has it.             *)
THEOREM NadieQuedaOlvidado == Spec => []NadieOlvidado
<1>1. Inv => NadieOlvidado
  <2> SUFFICES ASSUME Inv, NEW p \in Procesos \ finalizando
               PROVE  /\ EnCola(lista_blocked, p) <=>
                           \/ p \in por_otro \/ PideRecurso(p)
                           \/ (EnHandler("COLGADO") /\ despacho.pcb = p)
                      /\ p \in por_otro => ~PideRecurso(p)
    BY Zenon DEF NadieOlvidado
  <2>1. PideRecurso(p) \/ (EnHandler("COLGADO") /\ despacho.pcb = p) <=> EnRecurso(p) \/ EnHilo(p)
    BY DEF PideRecurso, EnHandler, EnRecurso, EnHilo
  <2>2. EnRecurso(p) => EnCola(lista_blocked, p)
    BY DEF Inv, Bloqueados, Colas, EnMano, EnRecurso
  <2>3. EnHilo(p) => EnCola(lista_blocked, p)
    BY DEF Inv, Bloqueados, Manejador, EnHilo
  <2> QED
    BY <2>1, <2>2, <2>3 DEF Inv, Olvido
<1> QED
  BY <1>1, InvSiempre, PTL

(* One step and the queue of a resource.                                    *)
LEMMA TurnoPaso ==
  ASSUME Inv, Next, NEW r \in Recursos
  PROVE  \/ lista_bloqueados'[r] = lista_bloqueados[r]
         \/ \E p \in Procesos : lista_bloqueados'[r] = Append(lista_bloqueados[r], p)
         \/ lista_bloqueados'[r] = Tail(lista_bloqueados[r])
         \/ \E p \in finalizando :
              /\ estado'[p] = "EXIT"
              /\ lista_bloqueados'[r] = RemoveFirst(lista_bloqueados[r], p)
<1> DEFINE Turno ==
         \/ lista_bloqueados'[r] = lista_bloqueados[r]
         \/ \E p \in Procesos : lista_bloqueados'[r] = Append(lista_bloqueados[r], p)
         \/ lista_bloqueados'[r] = Tail(lista_bloqueados[r])
         \/ \E p \in finalizando :
              /\ estado'[p] = "EXIT"
              /\ lista_bloqueados'[r] = RemoveFirst(lista_bloqueados[r], p)
<1> SUFFICES Turno
  OBVIOUS
<1>0. lista_bloqueados \in [Recursos -> Seq(Procesos)]
  BY DEF Inv, TypeOK
<1>1. CASE UNCHANGED lista_bloqueados
  BY <1>1
<1>2. ASSUME NEW p \in Procesos,
             \/ Ejecutar(p) \/ Reubicar(p) \/ BloquearPorOtro(p) \/ DesbloquearDeOtro(p)
             \/ Finalizar(p) \/ \E s \in Recursos : WaitConsulta(p, s) \/ SignalQuita(p, s)
      PROVE  UNCHANGED lista_bloqueados
  BY <1>2 DEF Ejecutar, Reubicar, BloquearPorOtro, DesbloquearDeOtro, Finalizar, WaitConsulta,
              SignalQuita, recursos
<1>3. ASSUME \/ WaitToma \/ WaitBloquea \/ SignalSuma \/ SignalMira \/ TerminarHandler
             \/ DetectarInicia \/ DetectarRecorre \/ DetectarMira \/ DetectarAvanza
             \/ DetectarInforma \/ \E s \in Recursos : Escribir(s)
      PROVE  UNCHANGED lista_bloqueados
  BY <1>3 DEF WaitToma, WaitBloquea, SignalSuma, SignalMira, TerminarHandler, DetectarInicia,
              DetectarRecorre, DetectarMira, DetectarAvanza, DetectarInforma, Escribir, recursos
<1>4. CASE WaitEncola
  <2>0. PICK p, s : p = despacho.pcb /\ s = despacho.recurso
    OBVIOUS
  <2>1. \/ UNCHANGED lista_bloqueados
        \/ lista_bloqueados' = [lista_bloqueados EXCEPT ![s] = Append(lista_bloqueados[s], p)]
    BY <1>4, <2>0, Zenon DEF WaitEncola, Encolar
  <2>2. p \in Procesos /\ s \in Recursos
    BY <1>4, <2>0 DEF WaitEncola, EnHandler, Inv, Manejador
  <2> QED
    BY <1>0, <2>1, <2>2
<1>5. ASSUME NEW s \in Recursos, NEW h, AsignarRecurso(s, h) PROVE Turno
  <2>1. \/ UNCHANGED lista_bloqueados
        \/ lista_bloqueados' = [lista_bloqueados EXCEPT ![s] = Tail(lista_bloqueados[s])]
    BY <1>5, Zenon DEF AsignarRecurso
  <2> QED
    BY <1>0, <2>1
<1>6. CASE AsignarEnDespacho
  <2>1. despacho.recurso \in Recursos
    BY <1>6 DEF AsignarEnDespacho, EnHandler, Inv, Manejador
  <2>2. AsignarRecurso(despacho.recurso, "DISPATCH")
    BY <1>6 DEF AsignarEnDespacho
  <2> QED
    BY <1>5, <2>1, <2>2
<1>7. ASSUME NEW s \in Recursos, AsignarEnHilo(s) PROVE Turno
  <2>1. AsignarRecurso(s, "HILO")
    BY <1>7 DEF AsignarEnHilo
  <2> QED
    BY <1>5, <2>1
<1>8. ASSUME NEW p \in Procesos, Salir(p) \/ FinalizarLibera(p) PROVE Turno
  <2>1. /\ \E h \in {"HILO", "DISPATCH"} : LiberarRecursos(p, h)
        /\ estado' = [estado EXCEPT ![p] = "EXIT"]
        /\ p \in finalizando \/ estado[p] = "EXEC"
    BY <1>8 DEF Salir, FinalizarLibera, Atrapa
  <2>2. estado'[p] = "EXIT"
    BY <2>1 DEF Inv, TypeOK
  <2>3. \/ lista_bloqueados'[r] = lista_bloqueados[r]
        \/ /\ EnCola(lista_bloqueados[r], p)
           /\ lista_bloqueados'[r] = RemoveFirst(lista_bloqueados[r], p)
    BY <2>1, Liberacion
  <2>4. estado[p] = "EXEC" => ~EnCola(lista_bloqueados[r], p)
    BY EnExecNoEspera
  <2> QED
    BY <2>1, <2>2, <2>3, <2>4
<1> HIDE DEF Turno
<1> QED
  BY <1>1, <1>2, <1>3, <1>4, <1>6, <1>7, <1>8 DEF Next, Acciones

(* The queue of a resource is served in order: one joins it at the end, and *)
(* leaves it from the front or to die.                                      *)
THEOREM TurnoSiempreRespetado == Spec => TurnoRespetado
<1>1. Inv /\ [Next]_vars =>
        [\A r \in Recursos :
           \/ lista_bloqueados'[r] = lista_bloqueados[r]
           \/ \E p \in Procesos : lista_bloqueados'[r] = Append(lista_bloqueados[r], p)
           \/ lista_bloqueados'[r] = Tail(lista_bloqueados[r])
           \/ \E p \in finalizando :
                /\ estado'[p] = "EXIT"
                /\ lista_bloqueados'[r] = RemoveFirst(lista_bloqueados[r], p)]_vars
  BY TurnoPaso
<1> QED
  BY <1>1, InvSiempre, PTL DEF Spec, TurnoRespetado
===============================================================================
