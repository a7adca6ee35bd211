----------------------------- MODULE Planificador -----------------------------
(***************************************************************************)
(* The process life cycle of the Kernel: the five lists of PCBs, the long  *)
(* term planner (plp), the short term planner (pcp), the traps a process   *)
(* makes from the CPU, the interrupt thread and the console commands       *)
(* INICIAR_PROCESO, MULTIPROGRAMACION and FINALIZAR_PROCESO.               *)
(*                                                                         *)
(* The Kernel starts a detached thread for almost everything, so a pending *)
(* thread is state: a counter when its code takes no argument (hilos_plp,  *)
(* hilos_pcp), a set of PCBs when it does (durmiendo, desalojos).          *)
(* An action is what one thread does between two points at which another   *)
(* thread can overtake it: the start of a thread, a call of pausador() and *)
(* the release of every mutex it holds.                                    *)
(***************************************************************************)
EXTENDS Integers, Sequences, FiniteSets, SequencesExt

CONSTANTS
  Procesos,      (* the PCBs that INICIAR_PROCESO can create               *)
  Algoritmos,    (* ALGORITMO_PLANIFICACION is one of these                *)
  Prioridad,     (* prioridad of each PCB; a lower number goes first       *)
  GradoInicial,  (* GRADO_MULTIPROGRAMACION_INI of the config file         *)
  Grados,        (* values the command MULTIPROGRAMACION is given          *)
  MaxHilos,      (* bound: pending threads of a kind, pending interrupts   *)
  Comandos,      (* bound: the FINALIZAR_PROCESO commands, a thread each   *)
  NULL

ASSUME ConstantesPlanificador ==
  /\ IsFiniteSet(Procesos)
  /\ NULL \notin Procesos
  /\ Algoritmos \subseteq {"FIFO", "RR", "PRIORIDADES"}
  /\ Prioridad \in [Procesos -> Int]
  /\ Grados \subseteq Nat \ {0}
  /\ GradoInicial \in Nat \ {0}
  /\ MaxHilos \in Nat \ {0}

VARIABLES
  estado,          (* pcb->estado, "SIN_CREAR" before INICIAR_PROCESO      *)
  lista_new, lista_ready, lista_execute,
  lista_blocked, lista_exit,
  procesos_en_core,
  grado,           (* GRADO_MULTIPROGRAMACION_INI as the console left it   *)
  en_memoria,      (* PIDs for which Memoria has structures                *)
  kernel,          (* "ACTIVO", or what ended the Kernel process           *)
  algoritmo        (* ALGORITMO_PLANIFICACION, read at start               *)

VARIABLES
  hilos_plp,       (* plp_planifica threads not yet run                    *)
  hilos_pcp,       (* pcp_planificar_corto_plazo calls not yet run, by who *)
  hilos_despacho,  (* pcp calls that saw READY non-empty and released it   *)
  durmiendo,       (* manejar_tiempo_sleep threads                         *)
  esperando,       (* PCBs queued for a resource, a file or a FS operation *)
  fallos,          (* _atender_page_fault threads, before their mutex      *)
  fallo_en_curso,  (* the page fault sent to Memoria, or NULL              *)
  desbloqueos,     (* desbloquear_proceso_por_pid threads after the fault  *)
  desalojos,       (* _desalojar_proceso threads not yet run               *)
  limpiezas,       (* _desalojar_proceso past the lists, flags still to do *)
  finalizando      (* PID and phase of the thread of each FINALIZAR_PROCESO *)

VARIABLES
  flag_proceso_desalojado, flag_finalizar_proceso, flag_exit,
  sem_interrupcion,  (* value of sem_enviar_interrupcion                   *)
  interrumpido,      (* whose PID the interrupt thread has read, or NULL   *)
  temporizador,      (* a quantum thread with the current ticket sleeps    *)
  cpu                (* contexto and what it asked of the Kernel, whether the *)
                     (* Kernel has received that, and the interrupt it keeps *)

listas   == <<estado, lista_new, lista_ready, lista_execute, lista_blocked, lista_exit>>
core     == <<procesos_en_core, grado, en_memoria>>
pcp      == <<hilos_pcp, hilos_despacho>>
hilos    == <<durmiendo, esperando, fallos, fallo_en_curso, desbloqueos>>
consola  == <<desalojos, limpiezas, finalizando>>
banderas == <<flag_proceso_desalojado, flag_finalizar_proceso, flag_exit>>
interrup == <<sem_interrupcion, interrumpido, temporizador>>
vars == <<listas, core, kernel, algoritmo, hilos_plp, pcp, hilos, consola, banderas,
          interrup, cpu>>

Estados == {"SIN_CREAR", "NEW", "READY", "EXEC", "BLOCKED", "EXIT"}

(* Who runs pcp or _desalojar_proceso: the thread that serves CPU dispatch, *)
(* which does nothing else meanwhile, or a thread of its own.               *)
Hilos == {"DISPATCH", "HILO"}

(* interrupt_motivo.                                                        *)
Motivos == {"NINGUNO", "DESALOJO_POR_CONSOLA", "ALGORITMO"}

(* "NINGUNA": it executes. "SINCRONICA": WAIT, SIGNAL, F_OPEN, F_CLOSE and  *)
(* F_SEEK keep contexto and wait for an answer, "SIN_RESPUESTA" for one     *)
(* that will not come. The others are sent after contexto is destroyed.     *)
Traps == {"SLEEP", "SINCRONICA", "F_OPERACION", "PAGE_FAULT", "EXIT"}
Instrucciones == Traps \cup {"NINGUNA", "SIN_RESPUESTA", "DESALOJO"}
ConContexto == {"NINGUNA", "SINCRONICA", "SIN_RESPUESTA"}

(* para is interrupt_proceso_id, flag is interruptFlag. What destruir_     *)
(* estructuras_del_contexto_acttual leaves.                                 *)
CpuLibre == [pid |-> NULL, instr |-> "NINGUNA", recibida |-> FALSE,
             para |-> NULL, motivo |-> "NINGUNO", flag |-> FALSE]

(* Where the thread of a FINALIZAR_PROCESO is. Once past the switch, the    *)
(* estado it has read.                                                      *)
Fases == {"SIN_DAR", "HALLADO", "MARCADO", "FIN"} \cup Estados

Init ==
  /\ estado = [p \in Procesos |-> "SIN_CREAR"]
  /\ lista_new = <<>> /\ lista_ready = <<>> /\ lista_execute = <<>>
  /\ lista_blocked = {} /\ lista_exit = {}
  /\ procesos_en_core = 0 /\ grado = GradoInicial /\ en_memoria = {}
  /\ kernel = "ACTIVO" /\ algoritmo \in Algoritmos
  /\ hilos_plp = 0
  /\ hilos_pcp = [h \in Hilos |-> 0] /\ hilos_despacho = [h \in Hilos |-> 0]
  /\ durmiendo = {} /\ esperando = {} /\ fallos = {} /\ fallo_en_curso = NULL
  /\ desbloqueos = {}
  /\ desalojos = {} /\ limpiezas = {}
  /\ finalizando = [c \in Comandos |-> [pid |-> NULL, fase |-> "SIN_DAR"]]
  /\ flag_proceso_desalojado = FALSE
  /\ flag_finalizar_proceso = FALSE
  /\ flag_exit = FALSE
  /\ sem_interrupcion = 0 /\ interrumpido = NULL /\ temporizador = FALSE
  /\ cpu = CpuLibre

-------------------------------------------------------------------------------
(* Steps that several handlers share.                                       *)

LanzarPlp == hilos_plp < MaxHilos /\ hilos_plp' = hilos_plp + 1

LlamarPcp(h) ==
  /\ hilos_pcp[h] < MaxHilos
  /\ hilos_pcp' = [hilos_pcp EXCEPT ![h] = @ + 1]
  /\ UNCHANGED hilos_despacho

PostInterrupcion == sem_interrupcion < MaxHilos /\ sem_interrupcion' = sem_interrupcion + 1

(* The Kernel process goes on.                                              *)
Sigue == kernel = "ACTIVO" /\ UNCHANGED <<kernel, algoritmo>>

(* The Kernel dies: a NULL dereference, exit(EXIT_FAILURE), or the same     *)
(* because the CPU or Memoria died and closed its connection.               *)
Caer(como) ==
  /\ kernel = "ACTIVO"
  /\ kernel' = como
  /\ UNCHANGED <<listas, core, algoritmo, hilos_plp, pcp, hilos, consola, banderas,
                 interrup, cpu>>

PasarA(p, e) == estado' = [estado EXCEPT ![p] = e]

(* Mutants of LiberarEnMemoria: the count is not taken down, and Memoria is *)
(* not told.                                                                *)
LiberarSinContar(p) ==
  /\ p \in en_memoria /\ en_memoria' = en_memoria \ {p}
  /\ UNCHANGED <<procesos_en_core, grado>>
LiberarSinAvisar(p) ==
  /\ p \in en_memoria /\ procesos_en_core' = procesos_en_core - 1
  /\ UNCHANGED <<en_memoria, grado>>

(* avisar_a_memoria_para_liberar_estructuras, its answer, and the process   *)
(* out of the core. Memoria exits when it does not know the PID, and the    *)
(* Kernel with it: LiberarSinEstructuras.                                   *)
LiberarEnMemoria(p) ==
  /\ p \in en_memoria
  /\ en_memoria' = en_memoria \ {p}
  /\ procesos_en_core' = procesos_en_core - 1
  /\ UNCHANGED grado

(* pcb.c, desbloquear_proceso_por_pid: BLOCKED -> READY if it is still there. *)
DesbloquearPcb(p, h) ==
  /\ IF p \in lista_blocked
     THEN /\ lista_blocked' = lista_blocked \ {p}
          /\ lista_ready' = Append(lista_ready, p)
          /\ PasarA(p, "READY")
          /\ UNCHANGED <<lista_new, lista_execute, lista_exit>>
     ELSE UNCHANGED listas
  /\ LlamarPcp(h)

(* The dispatch thread has returned to recibir_operacion.                   *)
DispatchLibre ==
  /\ ~cpu.recibida
  /\ hilos_pcp["DISPATCH"] = 0 /\ hilos_despacho["DISPATCH"] = 0
  /\ \A p \in Procesos : <<"DISPATCH", p>> \notin limpiezas

(* It holds mutex_flag_finalizar_proceso from the test of the flag to the   *)
(* end of the handler, so while it runs the short term planner.             *)
MutexFinalizarLibre ==
  hilos_pcp["DISPATCH"] = 0 /\ hilos_despacho["DISPATCH"] = 0

-------------------------------------------------------------------------------
(* Long term planner.                                                       *)

(* INICIAR_PROCESO: crear_pcb, then plp_planificar_proceso_nuevo(pcb).      *)
IniciarProceso(p) ==
  /\ Sigue
  /\ estado[p] = "SIN_CREAR"
  /\ PasarA(p, "NEW")
  /\ lista_new' = Append(lista_new, p)
  /\ LanzarPlp
  /\ UNCHANGED <<lista_ready, lista_execute, lista_blocked, lista_exit, core,
                 pcp, hilos, consola, banderas, interrup, cpu>>

(* Mutant of CambiarGrado: no planner thread is started.                    *)
CambiarGradoSinHilos(g) ==
  /\ Sigue
  /\ g # grado
  /\ grado' = g
  /\ UNCHANGED <<listas, procesos_en_core, en_memoria, hilos_plp, pcp, hilos,
                 consola, banderas, interrup, cpu>>

(* MULTIPROGRAMACION: one planner thread per unit of difference.            *)
CambiarGrado(g) ==
  LET dif == IF g > grado THEN g - grado ELSE grado - g IN
  /\ Sigue
  /\ dif > 0 /\ hilos_plp + dif <= MaxHilos
  /\ hilos_plp' = hilos_plp + dif
  /\ grado' = g
  /\ UNCHANGED <<listas, procesos_en_core, en_memoria, pcp, hilos,
                 consola, banderas, interrup, cpu>>

(* Mutant of Admitir: Memoria is not told of the process.                   *)
AdmitirSinMemoria ==
  /\ grado > procesos_en_core
  /\ lista_new # <<>>
  /\ lista_new' = Tail(lista_new)
  /\ lista_ready' = Append(lista_ready, Head(lista_new))
  /\ PasarA(Head(lista_new), "READY")
  /\ procesos_en_core' = procesos_en_core + 1
  /\ UNCHANGED <<lista_execute, lista_blocked, lista_exit, grado, en_memoria>>

(* The thread holds mutex_core and mutex_lista_new while Memoria answers.   *)
Admitir ==
  LET p == Head(lista_new) IN
  /\ grado > procesos_en_core
  /\ lista_new # <<>>
  /\ lista_new' = Tail(lista_new)
  /\ lista_ready' = Append(lista_ready, p)
  /\ PasarA(p, "READY")
  /\ procesos_en_core' = procesos_en_core + 1
  /\ en_memoria' = en_memoria \cup {p}
  /\ UNCHANGED <<lista_execute, lista_blocked, lista_exit, grado>>

PlpPlanifica ==
  /\ Sigue
  /\ hilos_plp > 0
  /\ hilos_plp' = hilos_plp - 1
  /\ LlamarPcp("HILO")
  /\ \/ Admitir
     \/ /\ ~(grado > procesos_en_core /\ lista_new # <<>>)
        /\ UNCHANGED <<listas, core>>
  /\ UNCHANGED <<hilos, consola, banderas, interrup, cpu>>

-------------------------------------------------------------------------------
(* Short term planner.                                                      *)

(* The look at READY, under its mutex, which is then released.              *)
PcpPlanificar(h) ==
  /\ Sigue
  /\ hilos_pcp[h] > 0
  /\ hilos_pcp' = [hilos_pcp EXCEPT ![h] = @ - 1]
  /\ IF lista_ready = <<>>
     THEN UNCHANGED hilos_despacho
     ELSE /\ hilos_despacho[h] < MaxHilos
          /\ hilos_despacho' = [hilos_despacho EXCEPT ![h] = @ + 1]
  /\ UNCHANGED <<listas, core, hilos_plp, hilos, consola, banderas,
                 interrup, cpu>>

(* Mutant of SeguirDespacho: the thread is not one that saw a PCB in READY. *)
SeguirSiempre(h) ==
  /\ hilos_despacho' = [hilos_despacho EXCEPT ![h] = @ - 1]
  /\ UNCHANGED hilos_pcp

SeguirDespacho(h) ==
  /\ hilos_despacho[h] > 0
  /\ hilos_despacho' = [hilos_despacho EXCEPT ![h] = @ - 1]
  /\ UNCHANGED hilos_pcp

(* Mutant of Ejecutar: the PCB is read from READY, not removed from it.     *)
EjecutarSinQuitar(p) ==
  /\ lista_execute' = Append(lista_execute, p)
  /\ PasarA(p, "EXEC")
  /\ cpu' = [cpu EXCEPT !.pid = p, !.instr = "NINGUNA"]
  /\ UNCHANGED <<lista_new, lista_ready, lista_blocked, lista_exit>>

(* The PCB goes to EXEC and its context to the CPU, which still keeps the   *)
(* interrupt of an execution that was left without an answer: only the end  *)
(* of one clears it.                                                        *)
Ejecutar(p) ==
  /\ lista_execute' = Append(lista_execute, p)
  /\ lista_ready' = RemoveFirst(lista_ready, p)
  /\ PasarA(p, "EXEC")
  /\ cpu' = [cpu EXCEPT !.pid = p, !.instr = "NINGUNA"]
  /\ UNCHANGED <<lista_new, lista_blocked, lista_exit>>

(* Only RR arms the quantum: it clears flag_exit and starts the timer.      *)
ArmarQuantum ==
  IF algoritmo = "RR"
  THEN flag_exit' = FALSE /\ temporizador' = TRUE
  ELSE UNCHANGED <<flag_exit, temporizador>>

(* Mutant of AtenderRRFIFO: EXEC is not tested.                             *)
AtenderSinMirarExec(h) ==
  /\ Sigue
  /\ algoritmo # "PRIORIDADES"
  /\ SeguirDespacho(h)
  /\ IF lista_ready # <<>>
     THEN Ejecutar(Head(lista_ready)) /\ ArmarQuantum
     ELSE UNCHANGED <<listas, cpu, flag_exit, temporizador>>
  /\ UNCHANGED <<core, hilos_plp, hilos, consola, flag_proceso_desalojado,
                 flag_finalizar_proceso, sem_interrupcion, interrumpido>>

AtenderRRFIFO(h) ==
  /\ Sigue
  /\ algoritmo # "PRIORIDADES"
  /\ SeguirDespacho(h)
  /\ IF lista_execute = <<>> /\ lista_ready # <<>>
     THEN Ejecutar(Head(lista_ready)) /\ ArmarQuantum
     ELSE UNCHANGED <<listas, cpu, flag_exit, temporizador>>
  /\ UNCHANGED <<core, hilos_plp, hilos, consola, flag_proceso_desalojado,
                 flag_finalizar_proceso, sem_interrupcion, interrumpido>>

(* Mutant of EsElegida: list_get(lista_ready, 0) whatever its length.       *)
EsLaPrimera(p) == lista_ready # <<>> /\ p = lista_ready[1]

(* list_get_maximum with __maxima_prioridad: the first of the lowest ones.  *)
EsElegida(p) ==
  \E i \in 1..Len(lista_ready) :
    /\ p = lista_ready[i]
    /\ \A j \in 1..Len(lista_ready) :
         \/ Prioridad[p] < Prioridad[lista_ready[j]]
         \/ Prioridad[p] = Prioridad[lista_ready[j]] /\ i <= j

(* READY and EXEC are both locked from the choice to the dispatch.          *)
AtenderPrioridades(h) ==
  /\ Sigue
  /\ algoritmo = "PRIORIDADES"
  /\ SeguirDespacho(h)
  /\ \/ \E p \in Procesos :
          /\ EsElegida(p)
          /\ IF lista_execute = <<>>
             THEN Ejecutar(p) /\ UNCHANGED sem_interrupcion
             ELSE /\ IF Prioridad[p] < Prioridad[Head(lista_execute)]
                     THEN PostInterrupcion
                     ELSE UNCHANGED sem_interrupcion
                  /\ UNCHANGED <<listas, cpu>>
     \/ /\ lista_execute = <<>> /\ lista_ready = <<>>
        /\ UNCHANGED <<listas, cpu, sem_interrupcion>>
  /\ UNCHANGED <<core, hilos_plp, hilos, consola, banderas, interrumpido,
                 temporizador>>

(* READY may have been emptied since PcpPlanificar: un_pcb is NULL and the  *)
(* comparison with the running PCB dereferences it.                         *)
CompararSinElegida(h) ==
  /\ algoritmo = "PRIORIDADES"
  /\ hilos_despacho[h] > 0
  /\ lista_ready = <<>> /\ lista_execute # <<>>
  /\ Caer("SEGFAULT")

-------------------------------------------------------------------------------
(* Interrupts.                                                              *)

(* _programar_interrupcion_por_quantum of the last dispatch: the threads of *)
(* earlier dispatches find another ticket and do nothing.                   *)
FinDeQuantum ==
  /\ Sigue
  /\ temporizador
  /\ temporizador' = FALSE
  /\ IF flag_exit THEN UNCHANGED sem_interrupcion ELSE PostInterrupcion
  /\ UNCHANGED <<listas, core, hilos_plp, pcp, hilos, consola, banderas,
                 interrumpido, cpu>>

(* _gestionar_interrupt reads whom to interrupt, and releases mutex_lista_exec. *)
LeerEjecutando ==
  /\ Sigue
  /\ sem_interrupcion > 0
  /\ interrumpido = NULL
  /\ lista_execute # <<>>
  /\ sem_interrupcion' = sem_interrupcion - 1
  /\ interrumpido' = Head(lista_execute)
  /\ UNCHANGED <<listas, core, hilos_plp, pcp, hilos, consola, banderas,
                 temporizador, cpu>>

(* list_get of the empty EXEC list is NULL and its pid is read.             *)
InterruptSinProceso ==
  /\ sem_interrupcion > 0
  /\ interrumpido = NULL
  /\ lista_execute = <<>>
  /\ Caer("SEGFAULT")

(* What it sends: under FIFO nothing, when no console kill is pending.      *)
MotivoAEnviar ==
  CASE flag_finalizar_proceso                          -> "DESALOJO_POR_CONSOLA"
    [] ~flag_finalizar_proceso /\ algoritmo # "FIFO"   -> "ALGORITMO"
    [] OTHER                                           -> "NINGUNO"

(* The CPU keeps the first PID it is given until contexto is destroyed, and *)
(* raises interruptFlag when that PID is the one of contexto.               *)
RecibirInterrupcion(p) ==
  LET guardado == IF cpu.para = NULL THEN p ELSE cpu.para IN
  IF MotivoAEnviar = "NINGUNO" THEN UNCHANGED cpu
  ELSE cpu' = [cpu EXCEPT !.para = guardado, !.motivo = MotivoAEnviar,
                          !.flag = @ \/ guardado = cpu.pid]

EnviarInterrupcion ==
  /\ Sigue
  /\ interrumpido # NULL
  /\ MutexFinalizarLibre
  /\ MotivoAEnviar # "NINGUNO" => cpu.pid # NULL /\ cpu.instr \in ConContexto
  /\ interrumpido' = NULL
  /\ RecibirInterrupcion(interrumpido)
  /\ UNCHANGED <<listas, core, hilos_plp, pcp, hilos, consola, banderas,
                 sem_interrupcion, temporizador>>

(* The CPU rejects the interrupt when contexto is NULL, then reads          *)
(* contexto->proceso_pid all the same.                                      *)
InterruptSinContexto ==
  /\ interrumpido # NULL
  /\ MutexFinalizarLibre
  /\ MotivoAEnviar # "NINGUNO"
  /\ cpu.pid = NULL \/ cpu.instr \notin ConContexto
  /\ Caer("CPU_CAIDA")

-------------------------------------------------------------------------------
(* The CPU.                                                                 *)

(* The end of an instruction that calls the Kernel: the packet is on its way. *)
Atrapar(i) ==
  /\ Sigue
  /\ cpu.pid \in en_memoria
  /\ cpu.instr = "NINGUNA"
  /\ cpu' = [cpu EXCEPT !.instr = i]
  /\ UNCHANGED <<listas, core, hilos_plp, pcp, hilos, consola, banderas,
                 interrup>>

(* The end of any other instruction, with interruptFlag raised.             *)
Interrumpirse ==
  /\ Sigue
  /\ cpu.pid \in en_memoria
  /\ cpu.instr = "NINGUNA"
  /\ cpu.flag
  /\ cpu' = [cpu EXCEPT !.instr = "DESALOJO"]
  /\ UNCHANGED <<listas, core, hilos_plp, pcp, hilos, consola, banderas,
                 interrup>>

(* A fetch for a PID that Memoria no longer has: Memoria exits.             *)
FetchSinProceso ==
  /\ cpu.pid # NULL /\ cpu.pid \notin en_memoria
  /\ cpu.instr = "NINGUNA"
  /\ Caer("MEMORIA_CAIDA")

-------------------------------------------------------------------------------
(* The Kernel's dispatch thread: one action is a whole handler up to the    *)
(* call of the short term planner that may end it.                          *)

(* _recibir_proceso_desalojado, and the flags set on every reception.       *)
Recibir ==
  /\ cpu.instr \in Traps \cup {"DESALOJO"}
  /\ DispatchLibre
  /\ IF cpu.pid \in ToSet(lista_execute)
     THEN /\ Sigue
          /\ cpu' = [cpu EXCEPT !.recibida = TRUE]
          /\ flag_proceso_desalojado' = TRUE
          /\ flag_exit' = TRUE
          /\ UNCHANGED <<listas, core, hilos_plp, pcp, hilos, consola,
                         flag_finalizar_proceso, interrup>>
     ELSE Caer("EXIT_FAILURE")

(* After pausador(), with mutex_flag_finalizar_proceso held.                *)
Atender(p, instrs) ==
  /\ Sigue
  /\ cpu.recibida /\ cpu.pid = p /\ cpu.instr \in instrs
  /\ ~flag_finalizar_proceso
  /\ UNCHANGED <<flag_finalizar_proceso, flag_exit, interrup>>

AtenderTrap(p, instrs) == Atender(p, instrs) /\ UNCHANGED flag_proceso_desalojado

(* Mutant of SalirDeExec: the PCB is moved and not removed from EXEC.       *)
QuedarseEnExec(p) == UNCHANGED lista_execute

SalirDeExec(p) == lista_execute' = RemoveFirst(lista_execute, p)

Bloquear(p) ==
  /\ SalirDeExec(p)
  /\ lista_blocked' = lista_blocked \cup {p}
  /\ PasarA(p, "BLOCKED")
  /\ cpu' = CpuLibre
  /\ UNCHANGED <<lista_new, lista_ready, lista_exit>>

(* Mutant of AtenderSleep: the short term planner is not called.            *)
AtenderSleepSinPcp(p) ==
  /\ AtenderTrap(p, {"SLEEP"})
  /\ Bloquear(p)
  /\ durmiendo' = durmiendo \cup {p}
  /\ UNCHANGED <<core, hilos_plp, pcp, esperando, fallos, fallo_en_curso,
                 desbloqueos, consola>>

AtenderSleep(p) ==
  /\ AtenderTrap(p, {"SLEEP"})
  /\ Bloquear(p)
  /\ durmiendo' = durmiendo \cup {p}
  /\ LlamarPcp("DISPATCH")
  /\ UNCHANGED <<core, hilos_plp, esperando, fallos, fallo_en_curso,
                 desbloqueos, consola>>

(* WAIT without instances, F_OPEN of a file being written (both answered    *)
(* with -1), F_TRUNCATE, F_READ and F_WRITE.                                *)
AtenderBloqueante(p) ==
  /\ AtenderTrap(p, {"SINCRONICA", "F_OPERACION"})
  /\ Bloquear(p)
  /\ esperando' = esperando \cup {p}
  /\ LlamarPcp("DISPATCH")
  /\ UNCHANGED <<core, hilos_plp, durmiendo, fallos, fallo_en_curso,
                 desbloqueos, consola>>

(* F_OPEN to write a file that others read: the CPU is not answered, and no *)
(* planner is called.                                                       *)
BloquearSinResponder(p) ==
  /\ AtenderTrap(p, {"SINCRONICA"})
  /\ SalirDeExec(p)
  /\ lista_blocked' = lista_blocked \cup {p}
  /\ PasarA(p, "BLOCKED")
  /\ esperando' = esperando \cup {p}
  /\ cpu' = [cpu EXCEPT !.instr = "SIN_RESPUESTA", !.recibida = FALSE]
  /\ UNCHANGED <<lista_new, lista_ready, lista_exit, core, hilos_plp, pcp, durmiendo,
                 fallos, fallo_en_curso, desbloqueos, consola>>

(* F_TRUNCATE of a file that the process has not opened: nothing is done,   *)
(* and the PCB stays in EXEC, out of the CPU.                               *)
AbandonarEnExec(p) ==
  /\ AtenderTrap(p, {"F_OPERACION"})
  /\ cpu' = CpuLibre
  /\ UNCHANGED <<listas, core, hilos_plp, pcp, hilos, consola>>

(* The instructions answered with 1: the process goes on in the CPU.        *)
AtenderInmediata(p) ==
  /\ AtenderTrap(p, {"SINCRONICA"})
  /\ cpu' = [cpu EXCEPT !.instr = "NINGUNA", !.recibida = FALSE]
  /\ UNCHANGED <<listas, core, hilos_plp, pcp, hilos, consola>>

(* SIGNAL and F_CLOSE that hand what they free to a PCB in the queue.       *)
AtenderLiberadora(p, q) ==
  /\ AtenderTrap(p, {"SINCRONICA"})
  /\ cpu' = [cpu EXCEPT !.instr = "NINGUNA", !.recibida = FALSE]
  /\ q \in esperando
  /\ esperando' = esperando \ {q}
  /\ DesbloquearPcb(q, "DISPATCH")
  /\ UNCHANGED <<core, hilos_plp, durmiendo, fallos, fallo_en_curso,
                 desbloqueos, consola>>

(* PAGE_FAULT: the handler does not call the short term planner.            *)
AtenderTrapPageFault(p) ==
  /\ AtenderTrap(p, {"PAGE_FAULT"})
  /\ Bloquear(p)
  /\ fallos' = fallos \cup {p}
  /\ UNCHANGED <<core, hilos_plp, pcp, durmiendo, esperando,
                 fallo_en_curso, desbloqueos, consola>>

(* Mutant of PlpExit: no planner takes the place that the process leaves.   *)
PlpExitSinPlp(p) ==
  /\ AtenderTrap(p, {"EXIT", "SINCRONICA", "F_OPERACION"})
  /\ SalirDeExec(p)
  /\ lista_exit' = lista_exit \cup {p}
  /\ PasarA(p, "EXIT")
  /\ LiberarEnMemoria(p)
  /\ cpu' = CpuLibre
  /\ UNCHANGED <<lista_new, lista_ready, lista_blocked, hilos_plp, pcp, hilos, consola>>

(* plp_exit: EXIT, and the instructions the Kernel refuses.                 *)
PlpExit(p) ==
  /\ AtenderTrap(p, {"EXIT", "SINCRONICA", "F_OPERACION"})
  /\ SalirDeExec(p)
  /\ lista_exit' = lista_exit \cup {p}
  /\ PasarA(p, "EXIT")
  /\ LiberarEnMemoria(p)
  /\ cpu' = CpuLibre
  /\ LanzarPlp
  /\ UNCHANGED <<lista_new, lista_ready, lista_blocked, pcp, hilos, consola>>

(* What the handler of a trap may do with it.                               *)
Atendida(p) ==
  \/ AtenderSleep(p) \/ AtenderBloqueante(p) \/ AtenderInmediata(p)
  \/ BloquearSinResponder(p) \/ AbandonarEnExec(p)
  \/ AtenderTrapPageFault(p) \/ PlpExit(p)
  \/ \E q \in Procesos : AtenderLiberadora(p, q)

(* _reubicar_pcb_de_execute_a_ready.                                        *)
Reubicar(p) ==
  /\ cpu.motivo = "ALGORITMO"
  /\ Atender(p, {"DESALOJO"})
  /\ flag_proceso_desalojado' = FALSE
  /\ SalirDeExec(p)
  /\ lista_ready' = Append(lista_ready, p)
  /\ PasarA(p, "READY")
  /\ cpu' = CpuLibre
  /\ LlamarPcp("DISPATCH")
  /\ UNCHANGED <<lista_new, lista_blocked, lista_exit, core, hilos_plp,
                 hilos, consola>>

(* flag_finalizar_proceso is set: whatever the process asked is not done, *)
(* a thread ends it, and an instruction that has an answer gets none.       *)
AtenderConsolaPendiente(p) ==
  /\ Sigue
  /\ cpu.recibida /\ cpu.pid = p
  /\ cpu.instr # "DESALOJO" \/ cpu.motivo = "ALGORITMO"
  /\ flag_finalizar_proceso
  /\ desalojos' = desalojos \cup {p}
  /\ cpu' = IF cpu.instr = "SINCRONICA"
            THEN [cpu EXCEPT !.instr = "SIN_RESPUESTA", !.recibida = FALSE]
            ELSE CpuLibre
  /\ UNCHANGED <<listas, core, hilos_plp, pcp, hilos, limpiezas, finalizando,
                 banderas, interrup>>

-------------------------------------------------------------------------------
(* Threads that return a process to READY.                                  *)

(* manejar_tiempo_sleep: READY whether or not the PCB was still in BLOCKED. *)
Despertar(p) ==
  /\ Sigue
  /\ p \in durmiendo
  /\ durmiendo' = durmiendo \ {p}
  /\ lista_blocked' = lista_blocked \ {p}
  /\ lista_ready' = Append(lista_ready, p)
  /\ PasarA(p, "READY")
  /\ LlamarPcp("HILO")
  /\ UNCHANGED <<lista_new, lista_execute, lista_exit, core, hilos_plp,
                 esperando, fallos, fallo_en_curso, desbloqueos, consola, banderas,
                 interrup, cpu>>

(* Mutant of Conceder: the PCB stays in the queue it was taken from.        *)
ConcederSinDesencolar(p) ==
  /\ Sigue
  /\ p \in esperando
  /\ DesbloquearPcb(p, "HILO")
  /\ UNCHANGED <<core, hilos_plp, hilos, consola, banderas, interrup, cpu>>

(* A resource thread or the FileSystem's answer. A PCB that left BLOCKED    *)
(* only costs a call of the short term planner.                             *)
Conceder(p) ==
  /\ Sigue
  /\ p \in esperando
  /\ esperando' = esperando \ {p}
  /\ DesbloquearPcb(p, "HILO")
  /\ UNCHANGED <<core, hilos_plp, durmiendo, fallos, fallo_en_curso,
                 desbloqueos, consola, banderas, interrup, cpu>>

(* _atender_page_fault takes mutex_manejo_page_fault; the thread that reads *)
(* Memoria's answer releases it.                                            *)
AtenderPageFault(p) ==
  /\ Sigue
  /\ p \in fallos
  /\ fallo_en_curso = NULL
  /\ p \in en_memoria
  /\ fallos' = fallos \ {p}
  /\ fallo_en_curso' = p
  /\ UNCHANGED <<listas, core, hilos_plp, pcp, durmiendo, esperando,
                 desbloqueos, consola, banderas, interrup, cpu>>

RespuestaPageFault ==
  /\ Sigue
  /\ fallo_en_curso # NULL
  /\ fallo_en_curso \in en_memoria
  /\ fallo_en_curso' = NULL
  /\ desbloqueos' = desbloqueos \cup {fallo_en_curso}
  /\ UNCHANGED <<listas, core, hilos_plp, pcp, durmiendo, esperando, fallos,
                 consola, banderas, interrup, cpu>>

(* Memoria no longer has the process of the page fault, when it receives    *)
(* it or when the page arrives from the FileSystem, and exits.              *)
PageFaultSinProceso ==
  /\ \/ fallo_en_curso = NULL /\ ~(fallos \subseteq en_memoria)
     \/ fallo_en_curso # NULL /\ fallo_en_curso \notin en_memoria
  /\ Caer("MEMORIA_CAIDA")

Desbloquear(p) ==
  /\ Sigue
  /\ p \in desbloqueos
  /\ desbloqueos' = desbloqueos \ {p}
  /\ DesbloquearPcb(p, "HILO")
  /\ UNCHANGED <<core, hilos_plp, durmiendo, esperando, fallos,
                 fallo_en_curso, consola, banderas, interrup, cpu>>

-------------------------------------------------------------------------------
(* _desalojar_proceso: EXEC -> EXIT, then the flags, in two steps because   *)
(* mutex_lista_exec is free in between.                                     *)

QuitarDeExec(p, h) ==
  /\ Sigue
  /\ SalirDeExec(p)
  /\ lista_exit' = lista_exit \cup {p}
  /\ PasarA(p, "EXIT")
  /\ LiberarEnMemoria(p)
  /\ limpiezas' = limpiezas \cup {<<h, p>>}
  /\ UNCHANGED <<lista_new, lista_ready, lista_blocked, hilos_plp, pcp,
                 hilos, finalizando>>

DesalojarPorConsola(p) ==
  /\ cpu.recibida /\ cpu.pid = p
  /\ cpu.instr = "DESALOJO" /\ cpu.motivo = "DESALOJO_POR_CONSOLA"
  /\ cpu' = CpuLibre
  /\ QuitarDeExec(p, "DISPATCH")
  /\ UNCHANGED <<desalojos, banderas, interrup>>

(* Mutant of Desalojar: a second thread is left for the same PCB.           *)
DesalojarDosVeces(p) ==
  /\ p \in desalojos
  /\ IF p \in ToSet(lista_execute)
     THEN /\ QuitarDeExec(p, "HILO")
          /\ UNCHANGED <<desalojos, banderas, interrup, cpu>>
     ELSE Caer("EXIT_FAILURE")

Desalojar(p) ==
  /\ p \in desalojos
  /\ IF p \in ToSet(lista_execute)
     THEN /\ desalojos' = desalojos \ {p}
          /\ QuitarDeExec(p, "HILO")
          /\ UNCHANGED <<banderas, interrup, cpu>>
     ELSE Caer("EXIT_FAILURE")

Limpiar(p, h) ==
  /\ Sigue
  /\ <<h, p>> \in limpiezas
  /\ MutexFinalizarLibre
  /\ limpiezas' = limpiezas \ {<<h, p>>}
  /\ flag_proceso_desalojado' = FALSE
  /\ flag_finalizar_proceso' = FALSE
  /\ LanzarPlp
  /\ UNCHANGED <<listas, core, pcp, hilos, desalojos, finalizando, flag_exit,
                 interrup, cpu>>

-------------------------------------------------------------------------------
(* FINALIZAR_PROCESO: plp_planificar_proceso_exit. It searches, looks at    *)
(* the flags, passes pausador() and acts on estado as it is by then.        *)

EnAlgunaLista(p) ==
  \/ p \in ToSet(lista_new) \cup ToSet(lista_ready) \cup ToSet(lista_execute)
  \/ p \in lista_exit \cup lista_blocked

(* buscar_y_remover_pcb_por_pid: the first list, in this order, with p.     *)
BuscarYRemover(p) ==
  /\ \/ /\ p \in ToSet(lista_new)
        /\ lista_new' = RemoveFirst(lista_new, p)
        /\ UNCHANGED <<lista_ready, lista_blocked>>
     \/ /\ p \notin ToSet(lista_new)
        /\ p \in ToSet(lista_ready)
        /\ lista_ready' = RemoveFirst(lista_ready, p)
        /\ UNCHANGED <<lista_new, lista_blocked>>
     \/ /\ p \notin ToSet(lista_new) \cup ToSet(lista_ready)
        /\ lista_blocked' = IF p \in ToSet(lista_execute) \cup lista_exit
                            THEN lista_blocked
                            ELSE lista_blocked \ {p}
        /\ UNCHANGED <<lista_new, lista_ready>>
  /\ UNCHANGED <<estado, lista_execute, lista_exit>>

En(c, fase) == finalizando[c].fase = fase
IrA(c, fase) == finalizando' = [finalizando EXCEPT ![c].fase = fase]

(* The search, in one step: each list is locked while it is looked at.      *)
FinalizarBuscar(c, p) ==
  /\ Sigue
  /\ En(c, "SIN_DAR")
  /\ EnAlgunaLista(p)
  /\ BuscarYRemover(p)
  /\ finalizando' = [finalizando EXCEPT ![c] = [pid |-> p, fase |-> "HALLADO"]]
  /\ UNCHANGED <<core, hilos_plp, pcp, hilos, desalojos, limpiezas, banderas,
                 interrup, cpu>>

(* No list has the PID: un_pcb is NULL and un_pcb->estado is read.          *)
FinalizarDesconocido(p) ==
  /\ \E c \in Comandos : En(c, "SIN_DAR")
  /\ ~EnAlgunaLista(p)
  /\ Caer("SEGFAULT")

FinalizarMarcar(c) ==
  /\ Sigue
  /\ En(c, "HALLADO")
  /\ MutexFinalizarLibre
  /\ flag_finalizar_proceso' =
       (\/ flag_finalizar_proceso
        \/ estado[finalizando[c].pid] = "EXEC" /\ flag_proceso_desalojado)
  /\ IrA(c, "MARCADO")
  /\ UNCHANGED <<listas, core, hilos_plp, pcp, hilos, desalojos, limpiezas,
                 flag_proceso_desalojado, flag_exit, interrup, cpu>>

(* The switch reads estado, which no mutex protects, and then waits for the *)
(* mutex of the list or the flags. What follows is for the estado it read.  *)
FinalizarLeer(c) ==
  /\ Sigue
  /\ En(c, "MARCADO")
  /\ IrA(c, estado[finalizando[c].pid])
  /\ UNCHANGED <<listas, core, hilos_plp, pcp, hilos, desalojos, limpiezas, banderas,
                 interrup, cpu>>

TerminarComando(c) ==
  /\ Sigue
  /\ finalizando' = [finalizando EXCEPT ![c] = [pid |-> NULL, fase |-> "FIN"]]
  /\ UNCHANGED <<pcp, hilos, desalojos, limpiezas, flag_proceso_desalojado,
                 flag_exit, interrumpido, temporizador, cpu>>

(* READY and BLOCKED: to EXIT, wherever the PCB is by now, and the planner  *)
(* is called for the free place.                                            *)
FinalizarListo(c) ==
  LET p == finalizando[c].pid IN
  /\ En(c, "READY") \/ En(c, "BLOCKED")
  /\ TerminarComando(c)
  /\ LiberarEnMemoria(p)
  /\ lista_exit' = lista_exit \cup {p}
  /\ PasarA(p, "EXIT")
  /\ LanzarPlp
  /\ UNCHANGED <<lista_new, lista_ready, lista_execute, lista_blocked,
                 flag_finalizar_proceso, sem_interrupcion>>

(* EXEC: an interrupt, only when something was already received from the    *)
(* CPU; otherwise the command has no effect.                                *)
FinalizarExec(c) ==
  /\ En(c, "EXEC")
  /\ TerminarComando(c)
  /\ MutexFinalizarLibre
  /\ IF flag_proceso_desalojado
     THEN flag_finalizar_proceso' = TRUE /\ PostInterrupcion
     ELSE UNCHANGED <<flag_finalizar_proceso, sem_interrupcion>>
  /\ UNCHANGED <<listas, core, hilos_plp>>

FinalizarExit(c) ==
  /\ En(c, "EXIT")
  /\ IF finalizando[c].pid \in lista_exit
     THEN /\ TerminarComando(c)
          /\ UNCHANGED <<listas, core, hilos_plp, flag_finalizar_proceso, sem_interrupcion>>
     ELSE Caer("EXIT_FAILURE")

(* Memoria is told to free a process it never had (NEW) or no longer has: a *)
(* second command for it, or its own EXIT after a command that read another *)
(* estado.                                                                  *)
LiberarSinEstructuras(p) ==
  /\ p \notin en_memoria
  /\ \/ \E c \in Comandos :
          finalizando[c].pid = p /\ finalizando[c].fase \in {"NEW", "READY", "BLOCKED"}
     \/ p \in desalojos /\ p \in ToSet(lista_execute)
     \/ /\ cpu.recibida /\ cpu.pid = p
        /\ \/ cpu.instr = "DESALOJO" /\ cpu.motivo = "DESALOJO_POR_CONSOLA"
           \/ ~flag_finalizar_proceso /\ cpu.instr \in {"EXIT", "SINCRONICA", "F_OPERACION"}
  /\ Caer("MEMORIA_CAIDA")

-------------------------------------------------------------------------------
NextProcesos ==
  \/ \E p \in Procesos :
       \/ IniciarProceso(p)
       \/ Atendida(p) \/ Reubicar(p)
       \/ Despertar(p) \/ AtenderPageFault(p) \/ Desbloquear(p) \/ Conceder(p)
  \/ \E g \in Grados : CambiarGrado(g)
  \/ \E h \in Hilos :
       \/ PcpPlanificar(h) \/ AtenderRRFIFO(h)
       \/ AtenderPrioridades(h) \/ CompararSinElegida(h)
  \/ Recibir
  \/ \E i \in Traps : Atrapar(i)
  \/ PlpPlanifica
  \/ FinDeQuantum \/ LeerEjecutando \/ InterruptSinProceso
  \/ EnviarInterrupcion \/ InterruptSinContexto \/ Interrumpirse
  \/ RespuestaPageFault
  \/ FetchSinProceso \/ PageFaultSinProceso

NextFinalizar ==
  \/ \E c \in Comandos :
       \/ \E p \in Procesos : FinalizarBuscar(c, p)
       \/ FinalizarMarcar(c) \/ FinalizarLeer(c)
       \/ FinalizarListo(c) \/ FinalizarExec(c) \/ FinalizarExit(c)
  \/ \E p \in Procesos :
       \/ FinalizarDesconocido(p) \/ LiberarSinEstructuras(p)
       \/ AtenderConsolaPendiente(p)
       \/ DesalojarPorConsola(p) \/ Desalojar(p)
       \/ \E h \in Hilos : Limpiar(p, h)

(* The Kernel with no FINALIZAR_PROCESO, and with it.                       *)
SpecProcesos == Init /\ [][NextProcesos]_vars
Spec         == Init /\ [][NextProcesos \/ NextFinalizar]_vars

-------------------------------------------------------------------------------
(* Type invariant.                                                          *)

TypeOK ==
  /\ estado \in [Procesos -> Estados]
  /\ lista_new \in Seq(Procesos) /\ lista_ready \in Seq(Procesos)
  /\ lista_execute \in Seq(Procesos)
  /\ lista_blocked \subseteq Procesos /\ lista_exit \subseteq Procesos
  /\ procesos_en_core \in Int /\ grado \in Nat \ {0} /\ en_memoria \subseteq Procesos
  /\ kernel \in {"ACTIVO", "SEGFAULT", "EXIT_FAILURE", "CPU_CAIDA", "MEMORIA_CAIDA"}
  /\ algoritmo \in Algoritmos
  /\ hilos_plp \in Nat
  /\ hilos_pcp \in [Hilos -> Nat] /\ hilos_despacho \in [Hilos -> Nat]
  /\ durmiendo \subseteq Procesos /\ esperando \subseteq Procesos
  /\ fallos \subseteq Procesos /\ desbloqueos \subseteq Procesos
  /\ fallo_en_curso \in Procesos \cup {NULL}
  /\ desalojos \subseteq Procesos /\ limpiezas \subseteq Hilos \X Procesos
  /\ finalizando \in [Comandos -> [pid : Procesos \cup {NULL}, fase : Fases]]
  /\ flag_proceso_desalojado \in BOOLEAN
  /\ flag_finalizar_proceso \in BOOLEAN /\ flag_exit \in BOOLEAN
  /\ sem_interrupcion \in Nat /\ temporizador \in BOOLEAN
  /\ interrumpido \in Procesos \cup {NULL}
  /\ cpu \in [pid : Procesos \cup {NULL}, instr : Instrucciones, recibida : BOOLEAN,
              para : Procesos \cup {NULL}, motivo : Motivos, flag : BOOLEAN]

-------------------------------------------------------------------------------
(* Safety of the Kernel without FINALIZAR_PROCESO (SpecProcesos).           *)

EnCore == {p \in Procesos : estado[p] \in {"READY", "EXEC", "BLOCKED"}}

(* A PCB is in exactly the list its estado names, once, and EXEC holds at   *)
(* most one: although every mover writes the list and estado separately.    *)
ListasCoherentes ==
  /\ \A p \in Procesos :
       /\ p \in ToSet(lista_new)     <=> estado[p] = "NEW"
       /\ p \in ToSet(lista_ready)   <=> estado[p] = "READY"
       /\ p \in ToSet(lista_execute) <=> estado[p] = "EXEC"
       /\ p \in lista_blocked        <=> estado[p] = "BLOCKED"
       /\ p \in lista_exit           <=> estado[p] = "EXIT"
  /\ IsInjective(lista_new) /\ IsInjective(lista_ready)
  /\ Len(lista_execute) <= 1

(* procesos_en_core, kept by increments and decrements in five handlers,    *)
(* counts the processes in READY, EXEC and BLOCKED, and Memoria has the     *)
(* structures of exactly those.                                             *)
CuentaDelCore ==
  en_memoria = EnCore /\ procesos_en_core = Cardinality(EnCore)

(* No message between the modules finds a receiver that does not know its   *)
(* PID: the Kernel's checks that end in exit(EXIT_FAILURE), and Memoria's.  *)
SinDesacuerdos == kernel \notin {"EXIT_FAILURE", "MEMORIA_CAIDA"}

PcpPendiente == \E h \in Hilos : hilos_pcp[h] > 0 \/ hilos_despacho[h] > 0

(* The process whose F_OPEN left the CPU without an answer, and nobody       *)
(* dispatched since, still waits for its file.                              *)
AperturaSinResponder == cpu.instr = "SIN_RESPUESTA" /\ cpu.pid \in esperando

(* With EXEC empty and a process in READY, a thread that will run the short *)
(* term planner exists, except on the two paths that empty EXEC and call no *)
(* planner: a page fault, until its process is back in READY, and an F_OPEN *)
(* to write a file that others read, until the file is granted or some      *)
(* other call dispatches. On no other path, and no longer than that, is a   *)
(* process in READY forgotten.                                              *)
NingunReadyOlvidado ==
  kernel = "ACTIVO" /\ lista_execute = <<>> /\ lista_ready # <<>>
    => \/ PcpPendiente \/ hilos_plp > 0
       \/ fallos # {} \/ fallo_en_curso # NULL \/ desbloqueos # {}
       \/ AperturaSinResponder

(* Each free place of the degree of multiprogramming that a process in NEW  *)
(* could take has a plp_planifica thread of its own on the way, since a     *)
(* thread admits one process only.                                          *)
NewAdmitidos ==
  kernel = "ACTIVO" /\ grado > procesos_en_core /\ lista_new # <<>>
    => \/ hilos_plp >= Len(lista_new)
       \/ hilos_plp >= grado - procesos_en_core

InterrupcionEnCamino ==
  sem_interrupcion > 0 \/ interrumpido # NULL \/ cpu.motivo # "NINGUNO"

(* An F_TRUNCATE of a file not opened has left its process in EXEC.         *)
ExecAbandonada == lista_execute # <<>> /\ cpu.pid = NULL

(* PRIORIDADES preempts: a PCB in READY that goes before the one in EXEC    *)
(* has a planner thread or an interrupt on its way, unless the CPU keeps an *)
(* interrupt that was for another PID, which it does not act on, or the PCB *)
(* in EXEC was left there out of the CPU.                                   *)
PrioridadAtendida ==
  kernel = "ACTIVO" /\ algoritmo = "PRIORIDADES" /\ ~ExecAbandonada =>
    \A r \in ToSet(lista_ready), e \in ToSet(lista_execute) :
      Prioridad[r] < Prioridad[e] => PcpPendiente \/ hilos_plp > 0 \/ InterrupcionEnCamino

(* The threads, flags and messages implement the five-state diagram: order  *)
(* of admission, degree of multiprogramming, choice of the next process,    *)
(* and EXIT final.                                                          *)
Ciclo == INSTANCE CicloDeVida WITH nuevos <- lista_new, listos <- lista_ready
ImplementaCiclo == Ciclo!SpecCiclo

(* What makes the invariants above inductive: whoever waits for an answer   *)
(* is in BLOCKED and waits for one answer only; what the CPU has or sent is *)
(* of the process in EXEC.                                                  *)
EsperasEnBlocked ==
  /\ durmiendo \cup esperando \cup fallos \cup desbloqueos \subseteq lista_blocked
  /\ fallo_en_curso # NULL => fallo_en_curso \in lista_blocked
  /\ durmiendo \cap (esperando \cup fallos \cup desbloqueos \cup {fallo_en_curso}) = {}
  /\ esperando \cap (fallos \cup desbloqueos \cup {fallo_en_curso}) = {}
  /\ fallos \cap (desbloqueos \cup {fallo_en_curso}) = {}
  /\ fallo_en_curso \notin desbloqueos

CpuConElDeExec ==
  IF cpu.pid = NULL
  THEN cpu.instr = "NINGUNA" /\ ~cpu.recibida
  ELSE \/ estado[cpu.pid] = "EXEC"
       \/ cpu.instr = "SIN_RESPUESTA" /\ ~cpu.recibida

InvProcesos ==
  /\ TypeOK /\ ListasCoherentes /\ CuentaDelCore /\ SinDesacuerdos
  /\ EsperasEnBlocked /\ CpuConElDeExec

-------------------------------------------------------------------------------
(* Safety with FINALIZAR_PROCESO (Spec), where the properties above do not  *)
(* all hold.                                                                *)

(* Even when commands act on an estado that has changed: EXEC holds one PCB *)
(* at most, whoever has estado EXEC is in it, and no PCB is twice in NEW or *)
(* in READY. The converse fails: a PCB that was READY or BLOCKED when it was *)
(* read may be ended while it is in EXEC.                                   *)
ExecUnico ==
  /\ Len(lista_execute) <= 1
  /\ \A p \in Procesos : estado[p] = "EXEC" => p \in ToSet(lista_execute)
  /\ IsInjective(lista_new) /\ IsInjective(lista_ready)

(* What the dispatch thread received, and what it left to _desalojar_proceso *)
(* threads, is still in EXEC when it is acted on, though both wait with no  *)
(* list locked, and whoever was read as EXIT is in the list EXIT: none of   *)
(* the Kernel's own checks fails. (Memoria may have freed it: see           *)
(* LiberarSinEstructuras.)                                                  *)
LoAtendidoExiste ==
  /\ cpu.recibida => {cpu.pid} = ToSet(lista_execute)
  /\ desalojos \subseteq ToSet(lista_execute)
  /\ kernel # "EXIT_FAILURE"

(* Memoria never keeps the structures of a process in NEW or EXIT, however  *)
(* its end and the answers it waited for interleave.                        *)
MemoriaDeVivos == \A p \in en_memoria : estado[p] \notin {"SIN_CREAR", "NEW", "EXIT"}

-------------------------------------------------------------------------------
(* Liveness.                                                                *)

(* Threads run, and Memoria and the CPU answer. A page-fault thread competes *)
(* for its mutex. A program, which may loop or trap meanwhile, reaches EXIT. *)
Justicia ==
  /\ WF_vars(PlpPlanifica)
  /\ \A h \in Hilos : WF_vars(PcpPlanificar(h)) /\ WF_vars(AtenderRRFIFO(h))
  /\ WF_vars(Recibir)
  /\ \A p \in Procesos :
       /\ WF_vars(Atendida(p))
       /\ WF_vars(Despertar(p)) /\ WF_vars(Desbloquear(p))
       /\ SF_vars(AtenderPageFault(p))
       /\ SF_vars(cpu.pid = p /\ Atrapar("EXIT"))
  /\ WF_vars(RespuestaPageFault)

SpecJusta == SpecProcesos /\ Justicia

(* Under FIFO, every process that reaches NEW ends, if nobody waits for ever *)
(* for a resource, a file or the FileSystem and no F_TRUNCATE is left       *)
(* without an answer: the calls to the planners after a page fault, a sleep, *)
(* a grant and an exit are enough, in spite of the paths that make none. It *)
(* takes for granted that each handler ends: that asignar_lock_pcb returns  *)
(* (module Archivos) and that the threads close no circle of mutexes        *)
(* (module Cerrojos).                                                       *)
TodosTerminan ==
  (\A p \in Procesos : []<>(p \notin esperando)) /\ []~ExecAbandonada
    => \A p \in Procesos : estado[p] = "NEW" ~> estado[p] = "EXIT"

===============================================================================
