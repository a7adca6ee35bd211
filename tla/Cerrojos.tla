------------------------------- MODULE Cerrojos -------------------------------
(***************************************************************************)
(* Cerrojos: the mutexes of the Kernel, in the order its threads take      *)
(* them, and the semaphore behind DETENER_ and INICIAR_PLANIFICACION.      *)
(*                                                                         *)
(* Each function is the sequence of what it does to mutexes, lists and     *)
(* flags, with the names of the code; a call is a concatenation.  The      *)
(* state of a thread is what is left of its sequence.  Which of the        *)
(* processes of a list is chosen is free, and so is what a process asks    *)
(* for: Planificador has both.  Each list has the name of its mutex.       *)
(*                                                                         *)
(* Left out: F_CLOSE, which under mutex_flag_finalizar takes the           *)
(* mutex_cola_block of the file and unblocks inside it, as SIGNAL does     *)
(* inside the mutex of the resource (atender_instruciones_CPU.c:171-178);  *)
(* with it that mutex and mutex_lista_asiganada, held for one list only.   *)
(* Also mutex_lista_recursos of a PCB, which only liberar_recursos_pcb     *)
(* takes, around the mutex of each resource (pcb.c:350-366);               *)
(* mutex_process_id and mutex_recurso, held for one assignment;            *)
(* mutex_manejo_page_fault, waited for with nothing taken and released by  *)
(* the thread of Memoria; and mutex_existe_archivo, which F_OPEN holds     *)
(* while a file is created and the thread of the FileSystem takes only     *)
(* before it answers an opening (atender_instruciones_CPU.c:107, 371).     *)
(***************************************************************************)
EXTENDS Integers, Sequences, FiniteSets

CONSTANTS
  Procesos,
  Hilos,            (* bound: detached threads that can be alive at once     *)
  Algoritmos,       (* ALGORITMO_PLANIFICACION is one of these               *)
  GRADO,            (* GRADO_MULTIPROGRAMACION_INI                           *)
  INSTANCIAS,       (* of the one resource                                   *)
  MaxSucesos,       (* bound: traps, interrupts, ends of quantum, commands   *)
  PESO,             (* of those not needed to take and end with the resource *)
  NULL

ASSUME ConstantesCerrojos ==
  /\ IsFiniteSet(Procesos) /\ IsFiniteSet(Hilos)
  /\ NULL \notin Hilos /\ (Hilos \cup {NULL}) \cap {"DISPATCH", "INTERRUPT", "FILESYSTEM"} = {}
  /\ Algoritmos \subseteq {"FIFO", "RR", "PRIORIDADES"}
  /\ GRADO \in Nat /\ INSTANCIAS \in Nat /\ {MaxSucesos, PESO} \subseteq Nat

Listas == {"NEW", "READY", "EXEC", "BLOCKED", "EXIT"}
Mutexes == Listas \cup
  {"pausa", "core", "desalojado", "finalizar", "recurso"}
Todos == Hilos \cup {"DISPATCH", "INTERRUPT", "FILESYSTEM"}

VARIABLES
  dueno,            (* who holds each mutex, or NULL                         *)
  hilos,            (* of each thread: what is left to do, and its PCB       *)
  kernel,           (* lists, flags and counters, see Init                   *)
  algoritmo,
  sucesos           (* how many, for the bound                               *)

vars == <<dueno, hilos, kernel, algoritmo, sucesos>>

Libre == [resto |-> <<>>, pcb |-> NULL]

Init ==
  /\ dueno = [m \in Mutexes |-> NULL]
  /\ hilos = [h \in Todos |-> Libre]
  /\ kernel = [vivo |-> TRUE,
               lista |-> [l \in Listas |-> {}], estado |-> [p \in Procesos |-> NULL],
               en_memoria |-> {}, en_core |-> 0,
               en_cpu |-> NULL,                 (* the process the CPU executes *)
               interrupcion |-> NULL,           (* the motive sent to the CPU   *)
               quantum |-> FALSE,               (* a quantum thread sleeps      *)
               flag_desalojado |-> FALSE, flag_finalizar |-> FALSE,
               sem_interrupcion |-> 0,
               instancias |-> INSTANCIAS, tiene |-> {}, cola |-> <<>>,
               pedidos |-> {},                  (* asked of the FileSystem      *)
               sem_f_open |-> 0,
               var_pausa |-> FALSE, sem_pausa |-> 0]
  /\ algoritmo \in Algoritmos
  /\ sucesos = 0
-------------------------------------------------------------------------------
(* What a thread can do.  Breve is a mutex held while nothing is waited for:  *)
(* nobody sees it taken, so it is one step; only a copy can find it taken,    *)
(* and who does so stays there, as a thread that takes no more steps does.    *)
(* mutex_ticket and mutex_flag_exit are left out: whoever holds them waits    *)
(* for nothing, or for the other.                                             *)
I(op, m, x) == <<[op |-> op, m |-> m, x |-> x]>>
Si(x, m, a, b) == <<[op |-> "SI", m |-> m, x |-> x, a |-> a, b |-> b]>>

Toma(m) == I("TOMA", m, "NADA")
Suelta(m) == I("SUELTA", m, "NADA")
Con(m, s) == Toma(m) \o s \o Suelta(m)
Breve(m, x) == I("BREVE", m, x)
Hace(x) == I("HACE", NULL, x)
Saca(l) == I("HACE", l, "SACA")
Lanza(funcion) == I("LANZA", NULL, funcion)
Llama(funcion) == I("LLAMA", NULL, funcion)
Espera(s) == I("ESPERA", s, "NADA")

(* agregar_pcb_lista and agregar_pcb_a_lista_recurso get the mutex by value   *)
(* and lock the copy.                                                         *)
Agregar(m) == I("COPIA", m, "PONE")
-------------------------------------------------------------------------------
(* The functions of the Kernel.                                               *)

Pausador == Con("pausa", Si("PAUSADO", NULL, Espera("pausa"), <<>>))

(* Mutant of AtenderRRFIFO: READY first, as the other planner does.           *)
AtenderRRFIFOAlReves ==
  Con("READY",
      Con("EXEC",
          Si("VACIA", "EXEC",
             Hace("ELIGE") \o Si("ELEGIDO", NULL, Hace("DESPACHA"), <<>>),
             <<>>)))

AtenderRRFIFO ==
  Con("EXEC",
      Si("VACIA", "EXEC",
         Breve("READY", "ELIGE") \o Si("ELEGIDO", NULL, Hace("DESPACHA"), <<>>),
         <<>>))

AtenderPrioridades ==
  I("TOMA", "READY", "MAYOR")
  \o Con("EXEC", Si("VACIA", "EXEC",
                    Si("ELEGIDO", NULL, Saca("READY") \o Hace("DESPACHA"), <<>>),
                    Hace("COMPARA")))
  \o Suelta("READY")

PcpPlanificar ==
  Pausador
  \o I("TOMA", "READY", "NINGUNO")
  \o Si("VACIA", "READY", Suelta("READY"),
        Suelta("READY") \o Si("ALGORITMO", "PRIORIDADES", AtenderPrioridades, AtenderRRFIFO))

PlpPlanifica ==
  Con("core", Con("NEW", Si("LUGAR", NULL,
                            Hace("SALE_DE_NEW") \o Hace("INICIA_EN_MEMORIA")
                            \o Breve("READY", "ADMITE"),
                            <<>>)))
  \o Lanza("PCP")

PlanificarNuevo == Pausador \o Lanza("PLP")
ProcesoNuevo == Breve("NEW", "ENTRA") \o Llama("NUEVO")

LiberarRecursos ==
  Si("TIENE", NULL,
     Con("recurso", Si("EN_COLA", NULL, Hace("DEJA_LA_COLA"),
                       Hace("DEVUELVE") \o Lanza("ASIGNAR"))),
     <<>>)

Terminar == Llama("LIBERAR") \o Hace("LIBERA_EN_MEMORIA") \o Agregar("EXIT")

(* list_remove_element(lista_execute, pcb), or exit.                          *)
SacarDeExec(despues) == Si("ESTA", "EXEC", Saca("EXEC") \o despues, Hace("CAE"))

Desbloquear ==
  Pausador
  \o Con("BLOCKED", Si("ESTA", "BLOCKED", Saca("BLOCKED") \o Agregar("READY"), <<>>))
  \o Llama("PCP")

AsignarRecurso ==
  Pausador
  \o Con("recurso", Si("COLA", NULL, Hace("DESENCOLA") \o Llama("DESBLOQUEAR"), <<>>))

ManejarSleep == Breve("BLOCKED", "SACA") \o Agregar("READY") \o Llama("PCP")

PlpExit ==
  Con("EXEC", SacarDeExec(Llama("TERMINAR") \o Breve("core", "BAJA"))) \o Llama("NUEVO")

DesalojarProceso ==
  Con("EXEC", SacarDeExec(Llama("TERMINAR")))
  \o Breve("core", "BAJA")
  \o Breve("desalojado", "NO_DESALOJADO") \o Breve("finalizar", "NO_FINALIZAR")
  \o Llama("NUEVO")

Reubicar ==
  Con("EXEC", Con("READY", SacarDeExec(Hace("VUELVE"))))
  \o Breve("desalojado", "NO_DESALOJADO")
  \o Llama("PCP")

(* The handlers of the traps; the answer to the CPU is RESPONDE.              *)
AtenderTrap ==
  [SLEEP    |-> Si("ESTA", "EXEC", Saca("EXEC") \o Agregar("BLOCKED") \o Lanza("SLEEP")
                                   \o Llama("PCP"), <<>>),
   WAIT     |-> Si("INSTANCIAS", NULL,
                   Hace("ASIGNA") \o Hace("RESPONDE"),
                   Breve("EXEC", "SACA_EXEC") \o Hace("ANOTA") \o Agregar("BLOCKED")
                   \o Agregar("recurso")
                   \o Llama("PCP")),
   SIGNAL   |-> Si("TIENE", NULL,
                   Hace("SUMA") \o Hace("RESPONDE") \o Si("COLA", NULL, Llama("ASIGNAR"), <<>>),
                   Llama("EXIT")),
   F_OPEN   |-> Hace("PIDE_ABRIR") \o Espera("f_open") \o Hace("RESPONDE"),
   F_READ   |-> Breve("EXEC", "SACA_EXEC") \o Agregar("BLOCKED") \o Hace("PIDE")
                \o Llama("PCP"),
   PAGE_FAULT |-> Con("EXEC", Si("ESTA", "EXEC", Saca("EXEC") \o Agregar("BLOCKED")
                                                 \o Lanza("DESBLOQUEAR"), <<>>)),
   EXIT     |-> Llama("EXIT")]

AtenderInstruccion(trap) ==
  Breve("EXEC", "RECIBE")
  \o Pausador
  \o Breve("desalojado", "DESALOJADO")
  \o Con("finalizar", Si("FINALIZAR", NULL, Lanza("DESALOJAR"), AtenderTrap[trap]))

(* Mutant of AtenderMotivo: the eviction in the thread that holds the flag's  *)
(* mutex.                                                                     *)
AtenderMotivoSinHilo(motivo) ==
  Pausador
  \o (IF motivo = "DESALOJO_POR_CONSOLA" THEN Llama("DESALOJAR")
      ELSE Con("finalizar", Si("FINALIZAR", NULL, Llama("DESALOJAR"), Llama("REUBICAR"))))

AtenderMotivo(motivo) ==
  Pausador
  \o (IF motivo = "DESALOJO_POR_CONSOLA" THEN Llama("DESALOJAR")
      ELSE Con("finalizar", Si("FINALIZAR", NULL, Lanza("DESALOJAR"), Llama("REUBICAR"))))

AtenderDesalojo(motivo) ==
  Breve("EXEC", "RECIBE")
  \o Breve("desalojado", "DESALOJADO")
  \o AtenderMotivo(motivo)

GestionarInterrupt == Breve("EXEC", "LEE") \o Breve("finalizar", "ENVIA")

(* FINALIZAR_PROCESO: the case of its switch, then the search before it.      *)
Finalizar ==
  Con("desalojado", Con("finalizar", Hace("MARCA")))
  \o Pausador
  \o Si("ES", "NEW", Con("NEW", Hace("LIBERA_EN_MEMORIA") \o Agregar("EXIT")),
     Si("ES", "READY", Con("READY", Llama("TERMINAR")) \o Breve("core", "BAJA") \o Llama("NUEVO"),
     Si("ES", "EXEC", Con("desalojado", Con("finalizar", Hace("PIDE_DESALOJO"))),
     Si("ES", "BLOCKED", Con("BLOCKED", Llama("TERMINAR")) \o Breve("core", "BAJA") \o Llama("NUEVO"),
        Con("EXIT", Si("ESTA", "EXIT", <<>>, Hace("CAE")))))))

(* The search takes the PCB out of NEW, READY or BLOCKED.                     *)
BuscarEn(l, despues) ==
  Toma(l) \o Si("ESTA", l,
                (IF l \in {"NEW", "READY", "BLOCKED"} THEN Saca(l) ELSE <<>>)
                \o Suelta(l) \o Llama("FINALIZAR"),
                Suelta(l) \o despues)

PlanificarExit ==
  BuscarEn("NEW", BuscarEn("READY", BuscarEn("EXEC", BuscarEn("EXIT",
    BuscarEn("BLOCKED", Hace("CAE"))))))

(* DETENER_PLANIFICACION, INICIAR_PLANIFICACION and PRINT.                    *)
Pausar == Si("PAUSADO", NULL, <<>>, Hace("PAUSA") \o Pausador)

(* Mutant of Iniciar: the post before the assignment.                         *)
IniciarAlReves == Si("PAUSADO", NULL, Hace("POST") \o Hace("REANUDA"), <<>>)

Iniciar == Si("PAUSADO", NULL, Hace("REANUDA") \o Hace("POST"), <<>>)

Mirar(l, despues) == Breve(l, "NADA") \o Si("ESTA", l, <<>>, despues)
BuscarPcb ==
  Mirar("NEW", Mirar("READY", Mirar("EXEC", Mirar("EXIT", Mirar("BLOCKED", <<>>)))))

Funcion(f) ==
  CASE f = "PCP" -> PcpPlanificar
    [] f = "PLP" -> PlpPlanifica
    [] f = "NUEVO" -> PlanificarNuevo
    [] f = "LIBERAR" -> LiberarRecursos
    [] f = "TERMINAR" -> Terminar
    [] f = "DESBLOQUEAR" -> Desbloquear
    [] f = "ASIGNAR" -> AsignarRecurso
    [] f = "SLEEP" -> ManejarSleep
    [] f = "EXIT" -> PlpExit
    [] f = "DESALOJAR" -> DesalojarProceso
    [] f = "REUBICAR" -> Reubicar
    [] f = "FINALIZAR" -> Finalizar
-------------------------------------------------------------------------------
(* The effects: p is the PCB of the thread, m the list.                       *)
Poner(k, p, l) == [k EXCEPT !.lista[l] = @ \cup {p}, !.estado[p] = l]
Quitar(k, p, l) == [k EXCEPT !.lista[l] = @ \ {p}]
Caido(k) == [k EXCEPT !.vivo = FALSE]
Avisado(k) == [k EXCEPT !.sem_interrupcion = 1]

Efecto(k, x, p, m) ==
  CASE x = "NADA" -> k
    [] x = "CAE" -> Caido(k)
    [] x = "SACA" -> Quitar(k, p, m)
    [] x = "SACA_EXEC" -> [k EXCEPT !.lista["EXEC"] = {}]
    [] x = "PONE" -> IF m = "recurso" THEN [k EXCEPT !.cola = Append(@, p)]
                     ELSE Poner(k, p, m)
    [] x = "ENTRA" -> Poner(k, p, "NEW")
    [] x = "INICIA_EN_MEMORIA" -> [k EXCEPT !.en_memoria = @ \cup {p}]
    [] x = "LIBERA_EN_MEMORIA" -> IF p \in k.en_memoria
                                  THEN [k EXCEPT !.en_memoria = @ \ {p}] ELSE Caido(k)
    [] x = "ADMITE" -> [Poner(k, p, "READY") EXCEPT !.en_core = @ + 1]
    [] x = "BAJA" -> [k EXCEPT !.en_core = @ - 1]
    [] x = "VUELVE" -> Poner(k, p, "READY")
    [] x = "DESPACHA" -> [Poner(k, p, "EXEC") EXCEPT !.en_cpu = p,
                                                          !.quantum = (algoritmo = "RR")]
    [] x = "RECIBE" -> IF p \in k.lista["EXEC"] THEN k ELSE Caido(k)
    [] x = "RESPONDE" -> [k EXCEPT !.en_cpu = p]
    [] x = "ASIGNA" -> [k EXCEPT !.instancias = @ - 1, !.tiene = @ \cup {p}]
    [] x = "ANOTA" -> [k EXCEPT !.tiene = @ \cup {p}]
    [] x = "SUMA" -> [k EXCEPT !.instancias = @ + 1, !.tiene = @ \ {p}]
    [] x = "DEVUELVE" -> [k EXCEPT !.instancias = @ + 1]
    [] x = "DEJA_LA_COLA" -> [k EXCEPT !.cola = SelectSeq(@, LAMBDA q : q # p),
                                            !.tiene = @ \ {p}]
    [] x = "PIDE_ABRIR" -> [k EXCEPT !.pedidos = @ \cup {NULL}]
    [] x = "PIDE" -> [k EXCEPT !.pedidos = @ \cup {p}]
    [] x = "DESALOJADO" -> [k EXCEPT !.flag_desalojado = TRUE]
    [] x = "NO_DESALOJADO" -> [k EXCEPT !.flag_desalojado = FALSE]
    [] x = "NO_FINALIZAR" -> [k EXCEPT !.flag_finalizar = FALSE]
    [] x = "MARCA" -> [k EXCEPT !.flag_finalizar =
                         @ \/ (k.estado[p] = "EXEC" /\ k.flag_desalojado)]
    [] x = "PIDE_DESALOJO" -> IF k.flag_desalojado
                              THEN [Avisado(k) EXCEPT !.flag_finalizar = TRUE] ELSE k
    [] x = "ENVIA" -> [k EXCEPT !.interrupcion =
                         IF k.flag_finalizar THEN "DESALOJO_POR_CONSOLA" ELSE "ALGORITMO"]
    [] x = "PAUSA" -> [k EXCEPT !.var_pausa = TRUE]
    [] x = "REANUDA" -> [k EXCEPT !.var_pausa = FALSE]
    [] x = "POST" -> [k EXCEPT !.sem_pausa = @ + 1]

(* The first of a list, or the one of most priority: any, or NULL.            *)
DeLista(k, l, quita) ==
  LET de == k.lista[l]
  IN  IF de = {} THEN {[k |-> k, pcb |-> NULL]}
      ELSE {[k |-> IF quita THEN Quitar(k, q, l) ELSE k, pcb |-> q] : q \in de}

(* What the state of the Kernel and the PCB of the thread may become.         *)
Efectos(k, x, p, m) ==
  CASE x = "NINGUNO" -> {[k |-> k, pcb |-> NULL]}
    [] x = "ELIGE" -> DeLista(k, "READY", TRUE)
    [] x = "MAYOR" -> DeLista(k, "READY", FALSE)
    [] x = "SALE_DE_NEW" -> DeLista(k, "NEW", TRUE)
    [] x = "LEE" -> IF k.lista["EXEC"] = {} THEN {[k |-> Caido(k), pcb |-> NULL]}
                    ELSE DeLista(k, "EXEC", FALSE)
    [] x = "DESENCOLA" -> {[k |-> [k EXCEPT !.cola = Tail(@), !.instancias = @ - 1],
                            pcb |-> Head(k.cola)]}
    [] x = "COMPARA" -> {[k |-> n, pcb |-> p] :
                           n \in IF p = NULL THEN {Caido(k)} ELSE {k, Avisado(k)}}
    [] OTHER -> {[k |-> Efecto(k, x, p, m), pcb |-> p]}

Condicion(k, x, p, m) ==
  CASE x = "ALGORITMO" -> algoritmo = m
    [] x = "VACIA" -> k.lista[m] = {}
    [] x = "ESTA" -> p \in k.lista[m]
    [] x = "ES" -> k.estado[p] = m
    [] x = "ELEGIDO" -> p # NULL
    [] x = "LUGAR" -> GRADO > k.en_core /\ k.lista["NEW"] # {}
    [] x = "TIENE" -> p \in k.tiene
    [] x = "EN_COLA" -> \E i \in DOMAIN k.cola : k.cola[i] = p
    [] x = "COLA" -> k.cola # <<>>
    [] x = "INSTANCIAS" -> k.instancias > 0
    [] x = "FINALIZAR" -> k.flag_finalizar
    [] x = "PAUSADO" -> k.var_pausa
-------------------------------------------------------------------------------
(* A step of a thread goes from a point where others can come in between to   *)
(* the next.  What nobody can tell from its being done at once goes with it:  *)
(* decisions, releases, what is done to state that the mutexes held protect,  *)
(* and a launch that leaves its thread nothing to do.                         *)
Juntas == {"SACA", "DESPACHA", "VUELVE", "INICIA_EN_MEMORIA", "LIBERA_EN_MEMORIA", "CAE",
           "MARCA", "PIDE_DESALOJO", "RESPONDE", "DEJA_LA_COLA", "DEVUELVE", "PIDE",
           "ASIGNA", "ANOTA", "SUMA"}

Seguir(r, h, p) ==
  IF r.resto = <<>> THEN r
  ELSE LET s == Head(r.resto)
           luego == [r EXCEPT !.resto = Tail(@)]
       IN CASE s.op = "SI" ->
                 [r EXCEPT !.resto = (IF Condicion(r.k, s.x, p, s.m) THEN s.a ELSE s.b) \o Tail(@)]
            [] s.op = "LLAMA" -> [luego EXCEPT !.resto = Funcion(s.x) \o @]
            [] s.op = "SUELTA" -> [luego EXCEPT !.dueno[s.m] = NULL]
            [] s.op = "HACE" /\ s.x \in Juntas -> [luego EXCEPT !.k = Efecto(@, s.x, p, s.m)]
            [] s.op = "LANZA" /\ h \in Hilos /\ luego.resto = <<>> ->
                 [r EXCEPT !.resto = Funcion(s.x)]
            [] OTHER -> r

MaxSeguidas == 10                 (* bound: no path has more of them in a row *)

Avanzar(todos, h, d, resto, k, p) ==
  LET tras[n \in 0..MaxSeguidas] ==
        IF n = 0 THEN [resto |-> resto, dueno |-> d, k |-> k] ELSE Seguir(tras[n-1], h, p)
      fin == tras[MaxSeguidas]
  IN  /\ dueno' = fin.dueno
      /\ hilos' = [todos EXCEPT ![h] = IF fin.resto = <<>> THEN Libre
                                       ELSE [resto |-> fin.resto, pcb |-> p]]
      /\ kernel' = fin.k

Proximo(h, op) == kernel.vivo /\ hilos[h].resto # <<>> /\ Head(hilos[h].resto).op = op
Paso(h) == Head(hilos[h].resto)

Ejecutar(h, d) ==
  \E r \in Efectos(kernel, Paso(h).x, hilos[h].pcb, Paso(h).m) :
    Avanzar(hilos, h, d, Tail(hilos[h].resto), r.k, r.pcb)

Tomar(h) ==
  /\ Proximo(h, "TOMA") /\ dueno[Paso(h).m] = NULL
  /\ Ejecutar(h, [dueno EXCEPT ![Paso(h).m] = h])
  /\ UNCHANGED <<algoritmo, sucesos>>

Hacer(h) ==
  /\ \/ Proximo(h, "HACE")
     \/ Proximo(h, "BREVE") /\ dueno[Paso(h).m] = NULL
  /\ Ejecutar(h, dueno)
  /\ UNCHANGED <<algoritmo, sucesos>>

(* A copy of a mutex that is locked is locked for ever.                       *)
Colgado == <<[op |-> "COLGADO", m |-> NULL, x |-> "NADA"]>>

Copiar(h) ==
  /\ Proximo(h, "COPIA")
  /\ IF dueno[Paso(h).m] = NULL THEN Ejecutar(h, dueno)
     ELSE Avanzar(hilos, h, dueno, Colgado, kernel, hilos[h].pcb)
  /\ UNCHANGED <<algoritmo, sucesos>>

(* ejecutar_en_un_hilo_nuevo_detach.                                          *)
Lanzar(h) ==
  /\ Proximo(h, "LANZA")
  /\ \E g \in Hilos :
       /\ hilos[g] = Libre
       /\ Avanzar([hilos EXCEPT ![g] = [resto |-> Funcion(Paso(h).x), pcb |-> hilos[h].pcb]],
                  h, dueno, Tail(hilos[h].resto), kernel, hilos[h].pcb)
  /\ UNCHANGED <<algoritmo, sucesos>>

Esperar(h) ==
  /\ Proximo(h, "ESPERA")
  /\ \/ /\ Paso(h).m = "pausa" /\ kernel.sem_pausa > 0
        /\ Avanzar(hilos, h, dueno, Tail(hilos[h].resto), [kernel EXCEPT !.sem_pausa = @ - 1],
                   hilos[h].pcb)
     \/ /\ Paso(h).m = "f_open" /\ kernel.sem_f_open > 0
        /\ Avanzar(hilos, h, dueno, Tail(hilos[h].resto), [kernel EXCEPT !.sem_f_open = @ - 1],
                   hilos[h].pcb)
  /\ UNCHANGED <<algoritmo, sucesos>>
-------------------------------------------------------------------------------
(* What makes a thread work.                                                  *)
Suceso(peso) ==
  kernel.vivo /\ sucesos + peso <= MaxSucesos /\ sucesos' = sucesos + peso
Empieza(h, resto, p, k) == hilos[h] = Libre /\ Avanzar(hilos, h, dueno, resto, k, p) /\ UNCHANGED algoritmo

(* The CPU sends a trap, or an interrupt has made it leave the process.       *)
Trap(t) ==
  /\ Suceso(IF t \in {"WAIT", "SIGNAL", "EXIT"} THEN 1 ELSE PESO) /\ kernel.en_cpu # NULL
  /\ Empieza("DISPATCH", AtenderInstruccion(t), kernel.en_cpu, [kernel EXCEPT !.en_cpu = NULL])

Interrumpirse ==
  /\ Suceso(1) /\ kernel.en_cpu # NULL /\ kernel.interrupcion # NULL
  /\ Empieza("DISPATCH", AtenderDesalojo(kernel.interrupcion), kernel.en_cpu,
             [kernel EXCEPT !.en_cpu = NULL, !.interrupcion = NULL])

(* The CPU drops an interrupt: for a process that has left, or with a trap.   *)
Ignorar ==
  /\ kernel.vivo /\ kernel.interrupcion # NULL
  /\ kernel' = [kernel EXCEPT !.interrupcion = NULL]
  /\ UNCHANGED <<dueno, hilos, algoritmo, sucesos>>

(* _programar_interrupcion_por_quantum.                                       *)
FinDeQuantum ==
  /\ Suceso(PESO) /\ kernel.quantum
  /\ \E k \in {kernel, Avisado(kernel)} : kernel' = [k EXCEPT !.quantum = FALSE]
  /\ UNCHANGED <<dueno, hilos, algoritmo>>

HiloInterrupt ==
  /\ kernel.vivo /\ kernel.sem_interrupcion > 0
  /\ Empieza("INTERRUPT", GestionarInterrupt, NULL, [kernel EXCEPT !.sem_interrupcion = 0])
  /\ UNCHANGED sucesos

(* The thread of the FileSystem's socket: the answer to an F_OPEN, or to a    *)
(* request for which a process is blocked.                                    *)
HiloFileSystem ==
  /\ kernel.vivo
  /\ \E p \in kernel.pedidos :
       Empieza("FILESYSTEM", IF p = NULL THEN <<>> ELSE Desbloquear, p,
               [kernel EXCEPT !.pedidos = @ \ {p},
                              !.sem_f_open = IF p = NULL THEN @ + 1 ELSE @])
  /\ UNCHANGED sucesos

(* The commands of the console.                                               *)
IniciarProceso(p, h) ==
  /\ kernel.vivo /\ kernel.estado[p] = NULL
  /\ Empieza(h, ProcesoNuevo, p, [kernel EXCEPT !.estado[p] = "NEW"])
  /\ UNCHANGED sucesos

FinalizarProceso(p, h) ==
  Suceso(PESO) /\ kernel.estado[p] # NULL /\ Empieza(h, PlanificarExit, p, kernel)
DetenerPlanificacion(h) == Suceso(1) /\ Empieza(h, Pausar, NULL, kernel)
IniciarPlanificacion(h) == Suceso(1) /\ Empieza(h, Iniciar, NULL, kernel)
ImprimirPcb(p, h) ==
  Suceso(PESO) /\ kernel.estado[p] # NULL /\ Empieza(h, BuscarPcb, p, kernel)

Traps == {"SLEEP", "WAIT", "SIGNAL", "F_OPEN", "F_READ", "PAGE_FAULT", "EXIT"}

Next ==
  \/ \E h \in Todos : \/ Tomar(h) \/ Hacer(h) \/ Copiar(h)
                      \/ Lanzar(h) \/ Esperar(h)
  \/ \E t \in Traps : Trap(t)
  \/ Interrumpirse \/ Ignorar \/ FinDeQuantum \/ HiloInterrupt \/ HiloFileSystem
  \/ \E p \in Procesos, h \in Hilos :
       IniciarProceso(p, h) \/ FinalizarProceso(p, h) \/ ImprimirPcb(p, h)
  \/ \E h \in Hilos : DetenerPlanificacion(h) \/ IniciarPlanificacion(h)

Spec == Init /\ [][Next]_vars
-------------------------------------------------------------------------------
(* Who waits for whom: for who holds the mutex, or, for the answer to F_OPEN, *)
(* for the thread that brings it.                                             *)
Pedido(h) ==
  IF hilos[h].resto # <<>> /\ Paso(h).op \in {"TOMA", "BREVE"} THEN Paso(h).m ELSE NULL

EsperaA(h) ==
  IF h = NULL THEN NULL
  ELSE CASE Proximo(h, "ESPERA") /\ Paso(h).m = "f_open" -> "FILESYSTEM"
         [] Pedido(h) # NULL -> dueno[Pedido(h)]
         [] OTHER -> NULL

Cadena(h) ==
  LET tras[n \in 1..Cardinality(Todos)] == IF n = 1 THEN EsperaA(h) ELSE EsperaA(tras[n-1])
  IN  {tras[n] : n \in 1..Cardinality(Todos)}

(* INVARIANT. Under FIFO and RR, threads wait for each other in a circle only *)
(* if one of them holds the queue of a resource, or is a FINALIZAR_PROCESO    *)
(* between the two flags. Under PRIORIDADES also through READY and EXEC,      *)
(* which that planner takes the other way round.                              *)
CirculosConocidos ==
  \A h \in Todos :
    h \in Cadena(h) =>
      LET en_juego == {Pedido(g) : g \in Cadena(h)}
      IN  \/ "recurso" \in en_juego
          \/ {"desalojado", "finalizar"} \subseteq en_juego
          \/ algoritmo = "PRIORIDADES" /\ {"READY", "EXEC"} \subseteq en_juego

(* INVARIANT. No chain of calls comes to a mutex that the thread holds, or to *)
(* a copy of it, on which it would stay for ever by itself.                   *)
SinAutobloqueo ==
  \A h \in Todos :
    (hilos[h].resto # <<>> /\ Paso(h).op \in {"TOMA", "BREVE", "COPIA"})
      => dueno[Paso(h).m] # h

(* INVARIANT. A pause that has ended ends for whoever still waits in it, with *)
(* mutex_pausa held and all the others behind: the post is there or about to  *)
(* be made, however DETENER_ and INICIAR_PLANIFICACION, each in a thread of   *)
(* its own and with no mutex, cross each other.                               *)
PausaTermina ==
  \A h \in Todos :
    (Proximo(h, "ESPERA") /\ Paso(h).m = "pausa" /\ ~kernel.var_pausa)
      => kernel.sem_pausa > 0 \/ \E g \in Todos : Proximo(g, "HACE") /\ Paso(g).x = "POST"
===============================================================================
