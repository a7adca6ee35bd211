------------------------------- MODULE Recursos -------------------------------
(***************************************************************************)
(* WAIT, SIGNAL and the deadlock detector of the Kernel: the instances and *)
(* the queue of every resource, who was given one, and the release of what *)
(* a process holds when it ends or is killed by FINALIZAR_PROCESO.         *)
(*                                                                         *)
(* Planificador models who runs next, and what FINALIZAR_PROCESO does when *)
(* the state it read is no longer the process's; here any process in READY *)
(* may run, and a kill acts on the state it reads.                         *)
(*                                                                         *)
(* The thread that serves CPU dispatch reads and writes instancias without *)
(* mutex_bloqueados, which the threads that release and assign do hold: a  *)
(* data race.  A step that writes instancias may have read it at any point *)
(* since its previous step, and then what was written in between is lost.  *)
(*                                                                         *)
(* The deadlock detector takes the suspects under mutex_lista_blocked and  *)
(* then reads PCBs and resources with no mutex, one at a time, while they  *)
(* change under it.                                                        *)
(***************************************************************************)
EXTENDS Integers, Sequences, FiniteSets, SequencesExt

CONSTANTS
  Procesos,      (* PCBs, all of them admitted                              *)
  Recursos,      (* lista_recursos, from RECURSOS of the config file        *)
  Instancias,    (* INSTANCIAS_RECURSOS                                     *)
  Finalizables,  (* the processes FINALIZAR_PROCESO may be asked to kill    *)
  MaxTomas,      (* bound: length of lista_recursos_pcb when it does WAIT   *)
  MaxDeriva,     (* bound: distance of instancias from 0                    *)
  MaxAvisos,     (* bound: value of sem_nuevo_en_block                      *)
  NULL

ASSUME ConstantesRecursos ==
  /\ IsFiniteSet(Procesos) /\ IsFiniteSet(Recursos)
  /\ NULL \notin Procesos
  /\ Instancias \in [Recursos -> Nat]
  /\ Finalizables \subseteq Procesos
  /\ MaxTomas \in Nat /\ MaxDeriva \in Nat /\ MaxAvisos \in Nat

VARIABLES
  estado,          (* pcb->estado                                           *)
  lista_blocked,
  motivo_recurso,  (* pcb->motivo_block == RECURSO                          *)
  lista_recursos,  (* lista_recursos_pcb: what it holds and, last, asks for *)
  por_otro,        (* whom a thread of SLEEP, of a page fault or of the     *)
                   (* FileSystem's answers is to take out of BLOCKED        *)
  instancias, lista_bloqueados, pcb_asignado,
  asignaciones,    (* asignar_recurso_liberado_pcb threads not yet run      *)
  en_curso,        (* what the thread that holds mutex_bloqueados will write *)
  despacho,        (* the handler the dispatch thread is in, and what it read *)
  finalizando,     (* out of READY or BLOCKED by the console, still to free *)
  avisos,          (* sem_nuevo_en_block                                    *)
  detector         (* deteccion_deadlock: where its thread is, the suspects *)
                   (* it took, the first of them, and where its walk is     *)

procesos == <<estado, lista_blocked, motivo_recurso, lista_recursos, por_otro>>
recursos == <<instancias, lista_bloqueados, pcb_asignado, asignaciones, en_curso>>
deteccion == <<avisos, detector>>
vars == <<procesos, recursos, despacho, finalizando, deteccion>>

Libre == [op |-> "LIBRE", pcb |-> NULL, recurso |-> NULL, leido |-> 0]
NadieEnCurso == [hilo |-> "NADIE", pcb |-> NULL, leido |-> 0, suma |-> 0]
Dormido == [fase |-> "ESPERA", posibles |-> {}, primero |-> NULL, en_deadlock |-> {},
            pcb |-> NULL, recurso |-> NULL]

(* motivo_block is not set by crear_pcb: malloc leaves any value in it.     *)
Init ==
  /\ estado = [p \in Procesos |-> "READY"]
  /\ lista_blocked = <<>>
  /\ motivo_recurso \in [Procesos -> BOOLEAN]
  /\ lista_recursos = [p \in Procesos |-> <<>>]
  /\ por_otro = {}
  /\ instancias = Instancias
  /\ lista_bloqueados = [r \in Recursos |-> <<>>]
  /\ pcb_asignado = [r \in Recursos |-> NULL]
  /\ asignaciones = [r \in Recursos |-> 0]
  /\ en_curso = [r \in Recursos |-> NadieEnCurso]
  /\ despacho = Libre
  /\ finalizando = {}
  /\ avisos = 0 /\ detector = Dormido

-------------------------------------------------------------------------------
EnCola(s, x) == x \in ToSet(s)
Veces(s, x) == Cardinality({i \in DOMAIN s : s[i] = x})
MutexLibre(r) == en_curso[r] = NadieEnCurso
Acotada(n) == n \in -MaxDeriva..MaxDeriva

EnHandler(op) == despacho.op = op
Pasar(op, p, r, v) == despacho' = [op |-> op, pcb |-> p, recurso |-> r, leido |-> v]

(* The process in EXEC traps and the dispatch thread is free to serve it.   *)
Atrapa(p) == EnHandler("LIBRE") /\ estado[p] = "EXEC"

(* What a step that decrements or increments may have read.                 *)
Leidos(r, antes) == {instancias[r], antes}

-------------------------------------------------------------------------------
(* The planners, as far as resources see them.                              *)

Ejecutar(p) ==
  /\ estado[p] = "READY" /\ p \notin finalizando
  /\ \A q \in Procesos : estado[q] # "EXEC"
  /\ estado' = [estado EXCEPT ![p] = "EXEC"]
  /\ UNCHANGED <<lista_blocked, motivo_recurso, lista_recursos, por_otro, recursos,
                 despacho, finalizando, deteccion>>

Reubicar(p) ==
  /\ Atrapa(p)
  /\ estado' = [estado EXCEPT ![p] = "READY"]
  /\ UNCHANGED <<lista_blocked, motivo_recurso, lista_recursos, por_otro, recursos,
                 despacho, finalizando, deteccion>>

(* SLEEP and the file operations say why they block, a page fault does not. *)
BloquearPorOtro(p) ==
  /\ Atrapa(p)
  /\ estado' = [estado EXCEPT ![p] = "BLOCKED"]
  /\ lista_blocked' = Append(lista_blocked, p)
  /\ motivo_recurso' \in {motivo_recurso, [motivo_recurso EXCEPT ![p] = FALSE]}
  /\ por_otro' = por_otro \cup {p}
  /\ UNCHANGED <<lista_recursos, recursos, despacho, finalizando, deteccion>>

(* desbloquear_proceso_por_pid: nothing if it is not in BLOCKED.            *)
Despertar(p) ==
  IF EnCola(lista_blocked, p)
  THEN /\ lista_blocked' = RemoveFirst(lista_blocked, p)
       /\ estado' = [estado EXCEPT ![p] = "READY"]
  ELSE UNCHANGED <<lista_blocked, estado>>

DesbloquearDeOtro(p) ==
  /\ p \in por_otro
  /\ por_otro' = por_otro \ {p}
  /\ Despertar(p)
  /\ UNCHANGED <<motivo_recurso, lista_recursos, recursos, despacho, finalizando, deteccion>>

-------------------------------------------------------------------------------
(* WAIT.                                                                    *)

(* The test of instancias, with no mutex.                                   *)
WaitConsulta(p, r) ==
  /\ Atrapa(p)
  /\ Len(lista_recursos[p]) < MaxTomas
  /\ IF instancias[r] > 0
     THEN Pasar("WAIT_TOMA", p, r, instancias[r])
     ELSE Pasar("WAIT_NIEGA", p, r, 0)
  /\ UNCHANGED <<procesos, recursos, finalizando, deteccion>>

WaitToma ==
  LET p == despacho.pcb  r == despacho.recurso IN
  /\ EnHandler("WAIT_TOMA")
  /\ \E v \in Leidos(r, despacho.leido) :
       Acotada(v - 1) /\ instancias' = [instancias EXCEPT ![r] = v - 1]
  /\ lista_recursos' = [lista_recursos EXCEPT ![p] = Append(@, r)]
  /\ pcb_asignado' = [pcb_asignado EXCEPT ![r] = p]
  /\ despacho' = Libre
  /\ UNCHANGED <<estado, lista_blocked, motivo_recurso, por_otro, lista_bloqueados,
                 asignaciones, en_curso, finalizando, deteccion>>

(* Mutant of WaitBloquea: the resource asked for is not put in the list.    *)
BloquearSinAnotar ==
  /\ EnHandler("WAIT_NIEGA")
  /\ estado' = [estado EXCEPT ![despacho.pcb] = "BLOCKED"]
  /\ lista_blocked' = Append(lista_blocked, despacho.pcb)
  /\ motivo_recurso' = [motivo_recurso EXCEPT ![despacho.pcb] = TRUE]
  /\ despacho' = [despacho EXCEPT !.op = "WAIT_BLOQUEADO"]
  /\ UNCHANGED <<lista_recursos, por_otro, recursos, finalizando, deteccion>>

(* From EXEC to BLOCKED, not yet in the queue of the resource.              *)
WaitBloquea ==
  LET p == despacho.pcb IN
  /\ EnHandler("WAIT_NIEGA")
  /\ estado' = [estado EXCEPT ![p] = "BLOCKED"]
  /\ lista_blocked' = Append(lista_blocked, p)
  /\ lista_recursos' = [lista_recursos EXCEPT ![p] = Append(@, despacho.recurso)]
  /\ motivo_recurso' = [motivo_recurso EXCEPT ![p] = TRUE]
  /\ despacho' = [despacho EXCEPT !.op = "WAIT_BLOQUEADO"]
  /\ UNCHANGED <<por_otro, recursos, finalizando, deteccion>>

(* Mutant of Encolar: the process goes in front of those that waited.       *)
EncolarDelante(p, r) ==
  lista_bloqueados' = [lista_bloqueados EXCEPT ![r] = <<p>> \o @]

Encolar(p, r) == lista_bloqueados' = [lista_bloqueados EXCEPT ![r] = Append(@, p)]

(* agregar_pcb_a_lista_recurso locks a copy of mutex_bloqueados: a copy     *)
(* made while another thread holds the original is never unlocked.          *)
WaitEncola ==
  LET p == despacho.pcb  r == despacho.recurso IN
  /\ EnHandler("WAIT_BLOQUEADO")
  /\ IF MutexLibre(r)
     THEN /\ Encolar(p, r)
          /\ despacho' = Libre
          /\ avisos' = IF avisos < MaxAvisos THEN avisos + 1 ELSE avisos
     ELSE /\ despacho' = [despacho EXCEPT !.op = "COLGADO"]
          /\ UNCHANGED <<lista_bloqueados, avisos>>
  /\ UNCHANGED <<procesos, instancias, pcb_asignado, asignaciones, en_curso, finalizando,
                 detector>>

-------------------------------------------------------------------------------
(* SIGNAL, and the assignment of a free instance.                           *)

SignalQuita(p, r) ==
  /\ Atrapa(p)
  /\ EnCola(lista_recursos[p], r)
  /\ lista_recursos' = [lista_recursos EXCEPT ![p] = RemoveFirst(@, r)]
  /\ pcb_asignado' = [pcb_asignado EXCEPT ![r] = NULL]
  /\ Pasar("SIGNAL_SUMA", p, r, instancias[r])
  /\ UNCHANGED <<estado, lista_blocked, motivo_recurso, por_otro, instancias,
                 lista_bloqueados, asignaciones, en_curso, finalizando, deteccion>>

SignalSuma ==
  LET r == despacho.recurso IN
  /\ EnHandler("SIGNAL_SUMA")
  /\ \E v \in Leidos(r, despacho.leido) :
       Acotada(v + 1) /\ instancias' = [instancias EXCEPT ![r] = v + 1]
  /\ Pasar("SIGNAL_MIRA", NULL, r, 0)
  /\ UNCHANGED <<procesos, lista_bloqueados, pcb_asignado, asignaciones, en_curso,
                 finalizando, deteccion>>

SignalMira ==
  /\ EnHandler("SIGNAL_MIRA")
  /\ despacho' = IF lista_bloqueados[despacho.recurso] = <<>>
                 THEN Libre ELSE [despacho EXCEPT !.op = "ASIGNA"]
  /\ UNCHANGED <<procesos, recursos, finalizando, deteccion>>

(* asignar_recurso_liberado_pcb up to the decrement of instancias, with     *)
(* mutex_bloqueados held.                                                   *)
AsignarRecurso(r, h) ==
  /\ MutexLibre(r)
  /\ IF lista_bloqueados[r] = <<>>
     THEN UNCHANGED <<lista_bloqueados, pcb_asignado, en_curso>>
     ELSE LET p == Head(lista_bloqueados[r]) IN
          /\ lista_bloqueados' = [lista_bloqueados EXCEPT ![r] = Tail(@)]
          /\ pcb_asignado' = [pcb_asignado EXCEPT ![r] = p]
          /\ en_curso' = [en_curso EXCEPT ![r] =
               [hilo |-> h, pcb |-> p, leido |-> instancias[r], suma |-> -1]]
  /\ UNCHANGED <<procesos, instancias, finalizando, deteccion>>

AsignarEnHilo(r) ==
  /\ asignaciones[r] > 0
  /\ AsignarRecurso(r, "HILO")
  /\ asignaciones' = [asignaciones EXCEPT ![r] = @ - 1]
  /\ UNCHANGED despacho

AsignarEnDespacho ==
  /\ EnHandler("ASIGNA")
  /\ AsignarRecurso(despacho.recurso, "DISPATCH")
  /\ despacho' = [Libre EXCEPT !.op = "TERMINA"]
  /\ UNCHANGED asignaciones

(* Mutant of Escribir: the process given the instance is not woken.         *)
EscribirSinDespertar(r) ==
  /\ ~MutexLibre(r)
  /\ \E v \in Leidos(r, en_curso[r].leido) :
       /\ Acotada(v + en_curso[r].suma)
       /\ instancias' = [instancias EXCEPT ![r] = v + en_curso[r].suma]
  /\ en_curso' = [en_curso EXCEPT ![r] = NadieEnCurso]
  /\ UNCHANGED <<procesos, lista_bloqueados, pcb_asignado, asignaciones, despacho,
                 finalizando, deteccion>>

(* The holder of mutex_bloqueados writes instancias and lets go of it: one  *)
(* that assigned wakes the process, one that freed starts a thread for each *)
(* instance.                                                                *)
Escribir(r) ==
  LET c == en_curso[r] IN
  /\ ~MutexLibre(r)
  /\ \E v \in Leidos(r, c.leido) :
       Acotada(v + c.suma) /\ instancias' = [instancias EXCEPT ![r] = v + c.suma]
  /\ en_curso' = [en_curso EXCEPT ![r] = NadieEnCurso]
  /\ IF c.pcb # NULL
     THEN Despertar(c.pcb) /\ UNCHANGED asignaciones
     ELSE /\ asignaciones' = [asignaciones EXCEPT ![r] = @ + c.suma]
          /\ UNCHANGED <<estado, lista_blocked>>
  /\ UNCHANGED <<motivo_recurso, lista_recursos, por_otro, lista_bloqueados, pcb_asignado,
                 despacho, finalizando, deteccion>>

TerminarHandler ==
  /\ EnHandler("TERMINA")
  /\ \A r \in Recursos : en_curso[r].hilo # "DISPATCH"
  /\ despacho' = Libre
  /\ UNCHANGED <<procesos, recursos, finalizando, deteccion>>

-------------------------------------------------------------------------------
(* The end of a process.                                                    *)

(* liberar_recursos_pcb: out of the queue it waits in, and one instance     *)
(* back for each other entry of its list.  The entries of what it held      *)
(* stay there: the loop empties a copy of the list.                         *)
LiberarRecursos(p, h) ==
  LET Espera(r)  == IF EnCola(lista_bloqueados[r], p) THEN 1 ELSE 0
      Sueltas(r) == Veces(lista_recursos[p], r) - Espera(r)
      Tomados    == ToSet(lista_recursos[p])
      Dejados    == {r \in Tomados : Espera(r) = 1}
  IN
  /\ \A r \in Tomados : MutexLibre(r)
  /\ lista_bloqueados' = [r \in Recursos |->
       IF r \in Dejados THEN RemoveFirst(lista_bloqueados[r], p) ELSE lista_bloqueados[r]]
  /\ lista_recursos' = [lista_recursos EXCEPT ![p] =
       IF Dejados = {} THEN @ ELSE RemoveFirst(@, CHOOSE r \in Dejados : TRUE)]
  /\ en_curso' = [r \in Recursos |->
       IF r \notin Tomados \/ Sueltas(r) = 0 THEN en_curso[r]
       ELSE [hilo |-> h, pcb |-> NULL, leido |-> instancias[r], suma |-> Sueltas(r)]]
  /\ UNCHANGED <<instancias, pcb_asignado, asignaciones>>

(* EXIT, an error of WAIT or SIGNAL, or the console's kill of the running.  *)
Salir(p) ==
  /\ Atrapa(p)
  /\ LiberarRecursos(p, "DISPATCH")
  /\ estado' = [estado EXCEPT ![p] = "EXIT"]
  /\ despacho' = [Libre EXCEPT !.op = "TERMINA"]
  /\ UNCHANGED <<lista_blocked, motivo_recurso, por_otro, finalizando, deteccion>>

(* FINALIZAR_PROCESO: out of its list at once, freed after pausador().      *)
Finalizar(p) ==
  /\ p \in Finalizables \ finalizando
  /\ estado[p] \in {"READY", "BLOCKED"}
  /\ finalizando' = finalizando \cup {p}
  /\ lista_blocked' = RemoveFirst(lista_blocked, p)
  /\ UNCHANGED <<estado, motivo_recurso, lista_recursos, por_otro, recursos, despacho,
                 deteccion>>

FinalizarLibera(p) ==
  /\ p \in finalizando /\ estado[p] # "EXIT"
  /\ LiberarRecursos(p, "HILO")
  /\ estado' = [estado EXCEPT ![p] = "EXIT"]
  /\ UNCHANGED <<lista_blocked, motivo_recurso, por_otro, despacho, finalizando,
                 deteccion>>

-------------------------------------------------------------------------------
(* deteccion_deadlock: a thread of its own.                                 *)

(* obtener_lista_pcbs_block_recursos.                                       *)
Sospechosos == {p \in ToSet(lista_blocked) : motivo_recurso[p]}

Detectando(f) == detector.fase = f

(* The only step under a mutex.  The walk starts at the first suspect.      *)
DetectarInicia ==
  /\ Detectando("ESPERA")
  /\ avisos > 0
  /\ avisos' = avisos - 1
  /\ IF Cardinality(Sospechosos) <= 1
     THEN UNCHANGED detector
     ELSE \E i \in DOMAIN lista_blocked :
            /\ motivo_recurso[lista_blocked[i]]
            /\ \A j \in 1..i-1 : ~motivo_recurso[lista_blocked[j]]
            /\ detector' = [fase |-> "RECORRE", posibles |-> Sospechosos,
                            primero |-> lista_blocked[i], en_deadlock |-> {},
                            pcb |-> lista_blocked[i], recurso |-> NULL]
  /\ UNCHANGED <<procesos, recursos, despacho, finalizando>>

(* The resource its process asked for last; the last of an empty list is    *)
(* NULL, and so may be the process: the Kernel ends.                        *)
DetectarRecorre ==
  LET p == detector.pcb IN
  /\ Detectando("RECORRE")
  /\ detector' = IF p = NULL THEN [detector EXCEPT !.fase = "CAIDO"]
                 ELSE IF lista_recursos[p] = <<>> THEN [detector EXCEPT !.fase = "CAIDO"]
                 ELSE [detector EXCEPT !.fase = "MIRA", !.recurso = Last(lista_recursos[p])]
  /\ UNCHANGED <<procesos, recursos, despacho, finalizando, avisos>>

(* No cycle unless the one given that resource last is a suspect too.       *)
DetectarMira ==
  /\ Detectando("MIRA")
  /\ detector' = IF pcb_asignado[detector.recurso] \in detector.posibles
                 THEN [detector EXCEPT !.fase = "AVANZA",
                                       !.en_deadlock = @ \cup {detector.pcb}]
                 ELSE Dormido
  /\ UNCHANGED <<procesos, recursos, despacho, finalizando, avisos>>

(* pcb_asignado is read again.                                              *)
DetectarAvanza ==
  LET q == pcb_asignado[detector.recurso] IN
  /\ Detectando("AVANZA")
  /\ detector' = [detector EXCEPT
       !.fase = IF q = detector.primero THEN "INFORMA" ELSE "RECORRE", !.pcb = q]
  /\ UNCHANGED <<procesos, recursos, despacho, finalizando, avisos>>

(* logear_proceso_en_deadlock reads the resources of each once more.        *)
DetectarInforma ==
  /\ Detectando("INFORMA")
  /\ detector' = IF \E p \in detector.en_deadlock : lista_recursos[p] = <<>>
                 THEN [detector EXCEPT !.fase = "CAIDO"] ELSE Dormido
  /\ UNCHANGED <<procesos, recursos, despacho, finalizando, avisos>>

-------------------------------------------------------------------------------
Acciones ==
  \/ \E p \in Procesos :
       \/ Ejecutar(p) \/ Reubicar(p) \/ BloquearPorOtro(p) \/ DesbloquearDeOtro(p)
       \/ Salir(p) \/ Finalizar(p) \/ FinalizarLibera(p)
       \/ \E r \in Recursos : WaitConsulta(p, r) \/ SignalQuita(p, r)
  \/ WaitToma \/ WaitBloquea \/ WaitEncola
  \/ SignalSuma \/ SignalMira \/ AsignarEnDespacho \/ TerminarHandler
  \/ \E r \in Recursos : AsignarEnHilo(r) \/ Escribir(r)
  \/ DetectarInicia \/ DetectarRecorre \/ DetectarMira \/ DetectarAvanza
  \/ DetectarInforma

Next == ~Detectando("CAIDO") /\ Acciones

Spec == Init /\ [][Next]_vars

-------------------------------------------------------------------------------
Handlers == {"LIBRE", "WAIT_TOMA", "WAIT_NIEGA", "WAIT_BLOQUEADO", "SIGNAL_SUMA",
             "SIGNAL_MIRA", "ASIGNA", "TERMINA", "COLGADO"}

(* Types of the PCBs and of the resources.                                  *)
TypeOK ==
  /\ estado \in [Procesos -> {"READY", "EXEC", "BLOCKED", "EXIT"}]
  /\ lista_blocked \in Seq(Procesos)
  /\ motivo_recurso \in [Procesos -> BOOLEAN]
  /\ lista_recursos \in [Procesos -> Seq(Recursos)]
  /\ por_otro \subseteq Procesos
  /\ instancias \in [Recursos -> Int]
  /\ lista_bloqueados \in [Recursos -> Seq(Procesos)]
  /\ pcb_asignado \in [Recursos -> Procesos \cup {NULL}]
  /\ asignaciones \in [Recursos -> Nat]
  /\ en_curso \in [Recursos -> [hilo : {"NADIE", "HILO", "DISPATCH"},
                                pcb : Procesos \cup {NULL}, leido : Int, suma : Int]]
  /\ despacho \in [op : Handlers, pcb : Procesos \cup {NULL},
                   recurso : Recursos \cup {NULL}, leido : Int]
  /\ finalizando \subseteq Finalizables
  /\ avisos \in Nat
  /\ detector \in [fase : {"ESPERA", "RECORRE", "MIRA", "AVANZA", "INFORMA", "CAIDO"},
                   posibles : SUBSET Procesos, primero : Procesos \cup {NULL},
                   en_deadlock : SUBSET Procesos, pcb : Procesos \cup {NULL},
                   recurso : Recursos \cup {NULL}]
  /\ detector.fase \in {"MIRA", "AVANZA"} =>
       detector.pcb \in Procesos /\ detector.recurso \in Recursos

(* A process that nobody is killing is in the queue of the resource it      *)
(* asked for last, of no other, once, and BLOCKED is where the thread that  *)
(* assigns will look for it (atender_wait, asignar_recurso_liberado_pcb).   *)
ColasCoherentes ==
  \A p \in Procesos \ finalizando, r \in Recursos :
    EnCola(lista_bloqueados[r], p) =>
      /\ Veces(lista_bloqueados[r], p) = 1
      /\ estado[p] = "BLOCKED" /\ EnCola(lista_blocked, p)
      /\ lista_recursos[p] # <<>> /\ Last(lista_recursos[p]) = r

(* Who is to take p out of BLOCKED for a resource: whoever gets to it in a  *)
(* queue, the thread that is giving it an instance, or the dispatch thread, *)
(* which is about to queue it.                                              *)
PideRecurso(p) ==
  \/ \E r \in Recursos : EnCola(lista_bloqueados[r], p) \/ en_curso[r].pcb = p
  \/ EnHandler("WAIT_BLOQUEADO") /\ despacho.pcb = p

(* Nobody is forgotten in BLOCKED, and nobody is woken by a thread that he  *)
(* no longer waits for: a process that nobody is killing is in lista_blocked *)
(* exactly while either another thread or a resource is to take it out, and *)
(* never both.  The one exception is the process with which the dispatch    *)
(* thread hung on the copied mutex (atender_wait,                           *)
(* asignar_recurso_liberado_pcb, desbloquear_proceso_por_pid).              *)
NadieOlvidado ==
  \A p \in Procesos \ finalizando :
    /\ EnCola(lista_blocked, p) <=>
         p \in por_otro \/ PideRecurso(p) \/ (EnHandler("COLGADO") /\ despacho.pcb = p)
    /\ p \in por_otro => ~PideRecurso(p)

(* The queue of a resource is served in order: one joins at the end, leaves *)
(* from the front, or leaves to die (agregar_pcb_a_lista_recurso,           *)
(* asignar_recurso_liberado_pcb, liberar_recursos_pcb).                     *)
TurnoRespetado ==
  [][\A r \in Recursos :
       \/ lista_bloqueados'[r] = lista_bloqueados[r]
       \/ \E p \in Procesos : lista_bloqueados'[r] = Append(lista_bloqueados[r], p)
       \/ lista_bloqueados'[r] = Tail(lista_bloqueados[r])
       \/ \E p \in finalizando :
            /\ estado'[p] = "EXIT"
            /\ lista_bloqueados'[r] = RemoveFirst(lista_bloqueados[r], p)]_vars

(* An instance is given only if there is one (t_recurso.instancias).        *)
SinSobreasignar == \A r \in Recursos : instancias[r] >= 0
===============================================================================
