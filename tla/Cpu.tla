---------------------------------- MODULE Cpu ----------------------------------
(***************************************************************************)
(* Cpu: the instruction cycle.  Each process that the Kernel dispatches    *)
(* runs in a thread of its own, but all the threads work on one global     *)
(* contexto and on global flags, which two more threads write: the one of  *)
(* the dispatch socket, that brings the answers to WAIT, F_OPEN and the    *)
(* like, and the one of the interrupt socket.  mutex_manejo_contexto is    *)
(* held only to install contexto and to destroy it.                        *)
(*                                                                         *)
(* The Kernel appears as far as the CPU sees it: who is in EXEC, the       *)
(* context each PCB keeps, and its answers.  It dispatches when EXEC is    *)
(* empty; which process, and why it wakes, is in Planificador.  Memoria    *)
(* keeps one word and one page per process; whether an address is still    *)
(* good when it is used is in module Memoria.                              *)
(*                                                                         *)
(* Instructions count from 1, and the registers are AX and BX.             *)
(***************************************************************************)
EXTENDS Integers, Sequences, FiniteSets

CONSTANTS
  Procesos,
  Programa,       (* the instructions of each process                      *)
  Finalizables,   (* the processes FINALIZAR_PROCESO may be asked to kill  *)
  MODULO,         (* 2^32: what a register counts up to                    *)
  MaxHilos,       (* bound: threads of atender_proceso_del_kernel at once  *)
  MaxReemplazos,  (* bound: pages that Memoria takes away                  *)
  MaxPasos,       (* bound: instructions a program runs alone, loops too   *)
  NULL

Registros == {"AX", "BX"}

Simples == {"SET", "SUM", "SUB", "JNZ"}
Sincronicas == {"WAIT", "SIGNAL", "F_OPEN", "F_CLOSE", "F_SEEK"}
DeMemoria == {"MOV_IN", "MOV_OUT", "F_READ", "F_WRITE"}
Voluntarias == {"SLEEP", "F_TRUNCATE", "EXIT"}

Instruccion == [op : Simples \cup Sincronicas \cup DeMemoria \cup Voluntarias,
                r : Registros, r2 : Registros, n : Nat]

Palabras == 0..MODULO-1
Contextos == [pid : Procesos, ip : Nat, reg : [Registros -> Palabras]]

ASSUME ConstantesCpu ==
  /\ IsFiniteSet(Procesos) /\ Finalizables \subseteq Procesos
  /\ NULL \notin Procesos \cup Nat \cup Contextos
  /\ MODULO \in Nat \ {0, 1}
  /\ MaxHilos \in Nat \ {0} /\ MaxReemplazos \in Nat /\ MaxPasos \in Nat
  /\ \A p \in Procesos : Programa[p] \in Seq(Instruccion) /\ Programa[p] # <<>>

Hilos == 1..MaxHilos

VARIABLES
  contexto,                       (* of the process that runs, or NULL      *)
  instruccion,                    (* instruccion_split                      *)
  interrupcion,                   (* interrupt_proceso_id and _motivo, or NULL *)
  interruptFlag,
  mochila,                        (* why the process leaves, or NULL        *)
  hay_que_desalojar,
  hay_que_desalojar_sin_mensaje,
  marco,                          (* the last page asked for was present    *)
  valorMarco,
  semaforos,                      (* the five that order the cycle          *)
  mutex_manejo_contexto,          (* the thread that holds it, or NULL      *)
  hilos,                          (* of each thread: where it is, and the   *)
                                  (* context it was created with            *)
  comparar,                       (* the interrupt thread is about to       *)
                                  (* compare PIDs                           *)
  cpu,                            (* "VIVA"; "SOLAPADA" once two threads    *)
                                  (* have shared contexto; "CAIDA"          *)
  a_cpu, a_kernel, a_interrupt,   (* messages from and to the Kernel        *)
  a_memoria,                      (* requests to Memoria                    *)
  palabra, presente, reemplazos,  (* Memoria: word and page of each process *)
  pcb, estado, en_exec,           (* Kernel: PCBs, lists and who is in EXEC *)
  flag_finalizar_proceso,
  pedidos                         (* console: those it was asked to kill    *)

globales == <<contexto, instruccion>>
interrup == <<interrupcion, interruptFlag, comparar>>
salida == <<mochila, hay_que_desalojar, hay_que_desalojar_sin_mensaje>>
respuestas == <<marco, valorMarco, semaforos>>
sockets == <<a_cpu, a_kernel, a_interrupt, a_memoria>>
memoria == <<palabra, presente, reemplazos>>
kernel == <<pcb, estado, en_exec, flag_finalizar_proceso, pedidos>>
vars == <<globales, interrup, salida, respuestas, mutex_manejo_contexto, hilos, cpu,
          sockets, memoria, kernel>>

Semaforos == {"decode", "respuesta", "marco", "lectura", "escritura"}
Pasos == {"LIBRE", "NACE", "CICLO", "DECODE", "EJECUTA", "MMU", "LECTURA", "ESCRITURA",
          "RESPUESTA", "REVISA", "SALE", "DESTRUYE"}

(* Why a process leaves the CPU, by itself or interrupted.                  *)
Motivos == Voluntarias \cup {"F_READ", "F_WRITE", "PAGE_FAULT"}
Interrupciones == [pid : Procesos, motivo : {"ALGORITMO", "DESALOJO_POR_CONSOLA"}]

MensajesACpu ==
  [op : {"EJECUTAR_PROCESO_KC"}, contexto : Contextos, estado : {0}]
    \cup [op : {"RESPUESTA_INSTRUCCION_KC"}, contexto : {NULL}, estado : {1, -1}]
MensajesAKernel ==
  [op : {"ATENDER_INSTRUCCION_CPK", "DESALOJO_PROCESO_CPK"}, contexto : Contextos,
   motivo : Sincronicas \cup Motivos \cup {"ALGORITMO", "DESALOJO_POR_CONSOLA"}]
PedidosAMemoria ==
  [op : {"PETICION_DE_INSTRUCCIONES_CM", "CONSULTA_DE_PAGINA_CM", "LECTURA_BLOQUE_CM",
         "ESCRITURA_BLOQUE_CM"},
   pid : Procesos, ip : Nat, valor : Palabras]

TypeOK ==
  /\ contexto \in Contextos \cup {NULL}
  /\ instruccion \in Instruccion \cup {NULL}
  /\ interrupcion \in Interrupciones \cup {NULL}
  /\ interruptFlag \in BOOLEAN /\ comparar \in BOOLEAN
  /\ mochila \in Motivos \cup {NULL}
  /\ hay_que_desalojar \in BOOLEAN /\ hay_que_desalojar_sin_mensaje \in BOOLEAN
  /\ marco \in BOOLEAN /\ valorMarco \in Palabras /\ semaforos \in [Semaforos -> Nat]
  /\ mutex_manejo_contexto \in Hilos \cup {NULL}
  /\ hilos \in [Hilos -> [paso : Pasos, buffer : Contextos \cup {NULL}]]
  /\ cpu \in {"VIVA", "CAIDA", "SOLAPADA"}
  /\ a_cpu \in Seq(MensajesACpu) /\ a_kernel \in Seq(MensajesAKernel)
  /\ a_interrupt \in Seq(Interrupciones) /\ a_memoria \in Seq(PedidosAMemoria)
  /\ palabra \in [Procesos -> Palabras] /\ presente \in [Procesos -> BOOLEAN]
  /\ reemplazos \in Nat
  /\ pcb \in [Procesos -> Contextos]
  /\ estado \in [Procesos -> {"READY", "EXEC", "BLOCKED", "FALLO", "EXIT"}]
  /\ en_exec \in Procesos \cup {NULL}
  /\ flag_finalizar_proceso \in BOOLEAN /\ pedidos \subseteq Procesos

HiloLibre == [paso |-> "LIBRE", buffer |-> NULL]
ContextoInicial(p) == [pid |-> p, ip |-> 1, reg |-> [r \in Registros |-> 0]]

Init ==
  /\ contexto = NULL /\ instruccion = NULL
  /\ interrupcion = NULL /\ interruptFlag = FALSE /\ comparar = FALSE
  /\ mochila = NULL
  /\ hay_que_desalojar = FALSE /\ hay_que_desalojar_sin_mensaje = FALSE
  /\ marco = FALSE /\ valorMarco = 0 /\ semaforos = [s \in Semaforos |-> 0]
  /\ mutex_manejo_contexto = NULL
  /\ hilos = [h \in Hilos |-> HiloLibre]
  /\ cpu = "VIVA"
  /\ a_cpu = <<>> /\ a_kernel = <<>> /\ a_interrupt = <<>> /\ a_memoria = <<>>
  /\ palabra = [p \in Procesos |-> 0] /\ presente = [p \in Procesos |-> FALSE]
  /\ reemplazos = 0
  /\ pcb = [p \in Procesos |-> ContextoInicial(p)]
  /\ estado = [p \in Procesos |-> "READY"] /\ en_exec = NULL
  /\ flag_finalizar_proceso = FALSE /\ pedidos = {}

-------------------------------------------------------------------------------
(* Steps that several actions share.                                        *)

EnPie == cpu # "CAIDA"
Viva == EnPie /\ UNCHANGED cpu

(* The CPU stops: it follows a NULL pointer.                                *)
Caer ==
  /\ EnPie /\ cpu' = "CAIDA"
  /\ UNCHANGED <<globales, interrup, salida, respuestas, mutex_manejo_contexto, hilos,
                 sockets, memoria, kernel>>

En(h, paso) == hilos[h].paso = paso
IrA(h, paso) == hilos' = [hilos EXCEPT ![h].paso = paso]

Post(s) == semaforos' = [semaforos EXCEPT ![s] = @ + 1]
Wait(s) == semaforos[s] > 0 /\ semaforos' = [semaforos EXCEPT ![s] = @ - 1]

PedirAMemoria(op, valor) ==
  a_memoria' = Append(a_memoria, [op |-> op, pid |-> contexto.pid, ip |-> contexto.ip,
                                  valor |-> valor])

AvanzarIp == contexto' = [contexto EXCEPT !.ip = @ + 1]

Desalojarse(motivo) == mochila' = motivo /\ hay_que_desalojar' = TRUE

Mensaje(op, c, motivo) == [op |-> op, contexto |-> c, motivo |-> motivo]

-------------------------------------------------------------------------------
(* atender_cpu_dispatch: the thread of the dispatch socket.                 *)

Despachado(m) == m.op = "EJECUTAR_PROCESO_KC"

(* A thread for the process, with the buffer that brings its context.       *)
RecibirProceso(h) ==
  /\ Viva /\ a_cpu # <<>> /\ Despachado(Head(a_cpu))
  /\ En(h, "LIBRE") /\ \A g \in 1..h-1 : ~En(g, "LIBRE")
  /\ hilos' = [hilos EXCEPT ![h] = [paso |-> "NACE", buffer |-> Head(a_cpu).contexto]]
  /\ a_cpu' = Tail(a_cpu)
  /\ UNCHANGED <<globales, interrup, salida, respuestas, mutex_manejo_contexto, a_kernel,
                 a_interrupt, a_memoria, memoria, kernel>>

(* Mutant of RecibirRespuesta: -1 is taken like any other answer.           *)
RespuestaSinMirar ==
  /\ Viva /\ a_cpu # <<>> /\ ~Despachado(Head(a_cpu))
  /\ Post("respuesta")
  /\ a_cpu' = Tail(a_cpu)
  /\ UNCHANGED <<globales, interrup, salida, marco, valorMarco, mutex_manejo_contexto, hilos,
                 a_kernel, a_interrupt, a_memoria, memoria, kernel>>

(* RESPUESTA_INSTRUCCION_KC. An answer of -1 says that the Kernel has taken *)
(* the process out of EXEC and keeps its context.                           *)
RecibirRespuesta ==
  /\ Viva /\ a_cpu # <<>> /\ ~Despachado(Head(a_cpu))
  /\ hay_que_desalojar_sin_mensaje' =
       (hay_que_desalojar_sin_mensaje \/ Head(a_cpu).estado = -1)
  /\ Post("respuesta")
  /\ a_cpu' = Tail(a_cpu)
  /\ UNCHANGED <<globales, interrup, mochila, hay_que_desalojar, marco, valorMarco,
                 mutex_manejo_contexto, hilos, a_kernel, a_interrupt, a_memoria, memoria,
                 kernel>>

-------------------------------------------------------------------------------
(* atender_cpu_interrupt: the thread of the interrupt socket.               *)

(* _manejar_interrupcion. The first interrupt is kept whoever it is for; of *)
(* the next ones only the motive is.                                        *)
ManejarInterrupcion ==
  /\ Viva /\ a_interrupt # <<>> /\ ~comparar
  /\ interrupcion' = IF contexto = NULL THEN interrupcion
                     ELSE IF interrupcion = NULL THEN Head(a_interrupt)
                     ELSE [interrupcion EXCEPT !.motivo = Head(a_interrupt).motivo]
  /\ comparar' = TRUE
  /\ a_interrupt' = Tail(a_interrupt)
  /\ UNCHANGED <<globales, interruptFlag, salida, respuestas, mutex_manejo_contexto, hilos,
                 a_cpu, a_kernel, a_memoria, memoria, kernel>>

CompararPid ==
  /\ Viva /\ comparar
  /\ contexto # NULL /\ interrupcion # NULL
  /\ interruptFlag' = (interruptFlag \/ interrupcion.pid = contexto.pid)
  /\ comparar' = FALSE
  /\ UNCHANGED <<globales, interrupcion, salida, respuestas, mutex_manejo_contexto, hilos,
                 sockets, memoria, kernel>>

(* Also after an interrupt rejected because no process runs.                *)
CompararSinContexto ==
  /\ comparar /\ (contexto = NULL \/ interrupcion = NULL)
  /\ Caer

-------------------------------------------------------------------------------
(* atender_cpu_memoria: the thread of Memoria's socket, with what Memoria   *)
(* answers: an instruction, a frame or a page fault, a value, an ack.       *)

(* An instruction that the program does not have would end Memoria.         *)
RecibirInstruccion(pedido) ==
  /\ pedido.ip \in DOMAIN Programa[pedido.pid]
  /\ instruccion' = Programa[pedido.pid][pedido.ip]
  /\ Post("decode")
  /\ UNCHANGED <<contexto, marco, valorMarco, memoria>>

RecibirMarco(pedido) ==
  /\ marco' = presente[pedido.pid]
  /\ Post("marco")
  /\ UNCHANGED <<globales, valorMarco, memoria>>

RecibirValor(pedido) ==
  /\ valorMarco' = palabra[pedido.pid]
  /\ Post("lectura")
  /\ UNCHANGED <<globales, marco, memoria>>

RecibirEscritura(pedido) ==
  /\ palabra' = [palabra EXCEPT ![pedido.pid] = pedido.valor]
  /\ Post("escritura")
  /\ UNCHANGED <<globales, marco, valorMarco, presente, reemplazos>>

AtenderMemoria ==
  /\ Viva /\ a_memoria # <<>>
  /\ LET pedido == Head(a_memoria)
     IN \/ pedido.op = "PETICION_DE_INSTRUCCIONES_CM" /\ RecibirInstruccion(pedido)
        \/ pedido.op = "CONSULTA_DE_PAGINA_CM" /\ RecibirMarco(pedido)
        \/ pedido.op = "LECTURA_BLOQUE_CM" /\ RecibirValor(pedido)
        \/ pedido.op = "ESCRITURA_BLOQUE_CM" /\ RecibirEscritura(pedido)
  /\ a_memoria' = Tail(a_memoria)
  /\ UNCHANGED <<interrup, salida, mutex_manejo_contexto, hilos, a_cpu, a_kernel,
                 a_interrupt, kernel>>

-------------------------------------------------------------------------------
(* atender_proceso_del_kernel: the thread of a dispatched process.          *)

(* The mutex does not make it wait for the thread of the previous process:   *)
(* told -1, that one may still have to leave and destroy contexto. Both go   *)
(* on over the new one, and share the flags that take one of them out.      *)
Instalar(h) ==
  /\ EnPie /\ En(h, "NACE") /\ mutex_manejo_contexto = NULL
  /\ cpu' = IF hay_que_desalojar_sin_mensaje THEN "SOLAPADA" ELSE cpu
  /\ contexto' = hilos[h].buffer
  /\ hilos' = [hilos EXCEPT ![h] = [paso |-> "CICLO", buffer |-> NULL]]
  /\ UNCHANGED <<instruccion, interrup, salida, respuestas, mutex_manejo_contexto, sockets,
                 memoria, kernel>>

(* A thread whose contexto another has destroyed, when its next step uses    *)
(* it. What it frees is not followed further: instruccion keeps its value.  *)
UsarDestruido(h) ==
  /\ contexto = NULL
  /\ hilos[h].paso \in {"CICLO", "EJECUTA", "MMU", "LECTURA", "ESCRITURA", "SALE"}
  /\ En(h, "MMU") => semaforos["marco"] > 0
  /\ En(h, "LECTURA") => semaforos["lectura"] > 0
  /\ En(h, "ESCRITURA") => semaforos["escritura"] > 0
  /\ En(h, "SALE") => mutex_manejo_contexto = NULL
  /\ Caer

Fetch(h) ==
  /\ Viva /\ En(h, "CICLO") /\ contexto # NULL
  /\ PedirAMemoria("PETICION_DE_INSTRUCCIONES_CM", 0)
  /\ IrA(h, "DECODE")
  /\ UNCHANGED <<globales, interrup, salida, respuestas, mutex_manejo_contexto, a_cpu,
                 a_kernel, a_interrupt, memoria, kernel>>

(* Every program has valid headers, so it posts and waits for decode_execute. *)
Decode(h) ==
  /\ Viva /\ En(h, "DECODE") /\ Wait("decode")
  /\ IrA(h, "EJECUTA")
  /\ UNCHANGED <<globales, interrup, salida, marco, valorMarco, mutex_manejo_contexto,
                 sockets, memoria, kernel>>

Calcular(i, c) ==
  CASE i.op = "SET" -> [c EXCEPT !.ip = @ + 1, !.reg[i.r] = i.n % MODULO]
    [] i.op = "SUM" -> [c EXCEPT !.ip = @ + 1, !.reg[i.r] = (@ + c.reg[i.r2]) % MODULO]
    [] i.op = "SUB" -> [c EXCEPT !.ip = @ + 1, !.reg[i.r] = (@ - c.reg[i.r2]) % MODULO]
    [] i.op = "JNZ" -> [c EXCEPT !.ip = IF c.reg[i.r] # 0 THEN i.n ELSE @ + 1]

EjecutarSimple(h) ==
  /\ Viva /\ En(h, "EJECUTA") /\ contexto # NULL
  /\ instruccion.op \in Simples
  /\ contexto' = Calcular(instruccion, contexto)
  /\ IrA(h, "REVISA")
  /\ UNCHANGED <<instruccion, interrup, salida, respuestas, mutex_manejo_contexto, sockets,
                 memoria, kernel>>

(* The process keeps the CPU while the Kernel answers.                      *)
EjecutarSincronica(h) ==
  /\ Viva /\ En(h, "EJECUTA") /\ contexto # NULL
  /\ instruccion.op \in Sincronicas
  /\ AvanzarIp
  /\ a_kernel' = Append(a_kernel, Mensaje("ATENDER_INSTRUCCION_CPK", contexto', instruccion.op))
  /\ IrA(h, "RESPUESTA")
  /\ UNCHANGED <<instruccion, interrup, salida, respuestas, mutex_manejo_contexto, a_cpu,
                 a_interrupt, a_memoria, memoria, kernel>>

EjecutarVoluntaria(h) ==
  /\ Viva /\ En(h, "EJECUTA") /\ contexto # NULL
  /\ instruccion.op \in Voluntarias
  /\ IF instruccion.op = "EXIT" THEN UNCHANGED contexto ELSE AvanzarIp
  /\ Desalojarse(instruccion.op)
  /\ IrA(h, "REVISA")
  /\ UNCHANGED <<instruccion, interrup, hay_que_desalojar_sin_mensaje, respuestas,
                 mutex_manejo_contexto, sockets, memoria, kernel>>

EjecutarDeMemoria(h) ==
  /\ Viva /\ En(h, "EJECUTA") /\ contexto # NULL
  /\ instruccion.op \in DeMemoria
  /\ PedirAMemoria("CONSULTA_DE_PAGINA_CM", 0)
  /\ IrA(h, "MMU")
  /\ UNCHANGED <<globales, interrup, salida, respuestas, mutex_manejo_contexto, a_cpu,
                 a_kernel, a_interrupt, memoria, kernel>>

(* Mutant of Fallar: the instruction is counted as executed.                *)
FallarAvanzando == Desalojarse("PAGE_FAULT") /\ AvanzarIp

(* The instruction will be fetched again when the page is loaded.           *)
Fallar == Desalojarse("PAGE_FAULT") /\ UNCHANGED contexto

(* MMU, with a page fault.                                                  *)
SinMarco(h) ==
  /\ Viva /\ En(h, "MMU") /\ Wait("marco") /\ contexto # NULL
  /\ ~marco
  /\ Fallar
  /\ IrA(h, "REVISA")
  /\ UNCHANGED <<instruccion, interrup, hay_que_desalojar_sin_mensaje, marco, valorMarco,
                 mutex_manejo_contexto, sockets, memoria, kernel>>

(* MMU, and the request that follows the translation of a MOV.              *)
Acceder(h) ==
  /\ Viva /\ En(h, "MMU") /\ Wait("marco") /\ contexto # NULL
  /\ marco
  /\ AvanzarIp
  /\ \/ /\ instruccion.op = "MOV_IN"
        /\ PedirAMemoria("LECTURA_BLOQUE_CM", 0)
        /\ IrA(h, "LECTURA")
     \/ /\ instruccion.op = "MOV_OUT"
        /\ PedirAMemoria("ESCRITURA_BLOQUE_CM", contexto.reg[instruccion.r])
        /\ IrA(h, "ESCRITURA")
  /\ UNCHANGED <<instruccion, interrup, salida, marco, valorMarco, mutex_manejo_contexto,
                 a_cpu, a_kernel, a_interrupt, memoria, kernel>>

(* F_READ and F_WRITE take the address to the Kernel.                       *)
LlevarDireccion(h) ==
  /\ Viva /\ En(h, "MMU") /\ Wait("marco") /\ contexto # NULL
  /\ marco /\ instruccion.op \in {"F_READ", "F_WRITE"}
  /\ AvanzarIp
  /\ Desalojarse(instruccion.op)
  /\ IrA(h, "REVISA")
  /\ UNCHANGED <<instruccion, interrup, hay_que_desalojar_sin_mensaje, marco, valorMarco,
                 mutex_manejo_contexto, sockets, memoria, kernel>>

(* What MOV_IN does with a value: the one that reads as -1 it takes for a   *)
(* page fault, and leaves the register as it was.                           *)
Cargar(i, c, valor) == IF valor = MODULO - 1 THEN c ELSE [c EXCEPT !.reg[i.r] = valor]

TerminarLectura(h) ==
  /\ Viva /\ En(h, "LECTURA") /\ Wait("lectura") /\ contexto # NULL
  /\ contexto' = Cargar(instruccion, contexto, valorMarco)
  /\ IrA(h, "REVISA")
  /\ UNCHANGED <<instruccion, interrup, salida, marco, valorMarco, mutex_manejo_contexto,
                 sockets, memoria, kernel>>

TerminarEscritura(h) ==
  /\ Viva /\ En(h, "ESCRITURA") /\ Wait("escritura") /\ contexto # NULL
  /\ IrA(h, "REVISA")
  /\ UNCHANGED <<globales, interrup, salida, marco, valorMarco, mutex_manejo_contexto,
                 sockets, memoria, kernel>>

(* Whichever thread waits takes the answer.                                 *)
TerminarSincronica(h) ==
  /\ Viva /\ En(h, "RESPUESTA") /\ Wait("respuesta")
  /\ IrA(h, "REVISA")
  /\ UNCHANGED <<globales, interrup, salida, marco, valorMarco, mutex_manejo_contexto,
                 sockets, memoria, kernel>>

(* After each instruction: does the process leave?                          *)
Revisar(h) ==
  /\ Viva /\ En(h, "REVISA")
  /\ IrA(h, IF hay_que_desalojar_sin_mensaje \/ hay_que_desalojar \/ interruptFlag
            THEN "SALE" ELSE "CICLO")
  /\ UNCHANGED <<globales, interrup, salida, respuestas, mutex_manejo_contexto, sockets,
                 memoria, kernel>>

MensajeDeSalida ==
  IF hay_que_desalojar THEN Mensaje("ATENDER_INSTRUCCION_CPK", contexto, mochila)
  ELSE Mensaje("DESALOJO_PROCESO_CPK", contexto, interrupcion.motivo)

(* Mutant of Salir: an interrupt is looked at before                        *)
(* hay_que_desalojar_sin_mensaje.                                           *)
SalirConMensaje(h) ==
  /\ Viva /\ En(h, "SALE") /\ mutex_manejo_contexto = NULL /\ contexto # NULL
  /\ a_kernel' = IF hay_que_desalojar \/ interruptFlag THEN Append(a_kernel, MensajeDeSalida)
                 ELSE a_kernel
  /\ mutex_manejo_contexto' = h
  /\ IrA(h, "DESTRUYE")
  /\ UNCHANGED <<globales, interrup, salida, respuestas, a_cpu, a_interrupt, a_memoria,
                 memoria, kernel>>

Salir(h) ==
  /\ Viva /\ En(h, "SALE") /\ mutex_manejo_contexto = NULL /\ contexto # NULL
  /\ hay_que_desalojar_sin_mensaje \/ hay_que_desalojar \/ interruptFlag
  /\ a_kernel' = IF hay_que_desalojar_sin_mensaje THEN a_kernel
                 ELSE Append(a_kernel, MensajeDeSalida)
  /\ mutex_manejo_contexto' = h
  /\ IrA(h, "DESTRUYE")
  /\ UNCHANGED <<globales, interrup, salida, respuestas, a_cpu, a_interrupt, a_memoria,
                 memoria, kernel>>

(* destruir_estructuras_del_contexto_acttual, and the end of the thread.    *)
Destruir(h) ==
  /\ Viva /\ En(h, "DESTRUYE")
  /\ contexto' = NULL
  /\ interrupcion' = NULL /\ interruptFlag' = FALSE
  /\ mochila' = NULL
  /\ hay_que_desalojar' = FALSE /\ hay_que_desalojar_sin_mensaje' = FALSE
  /\ mutex_manejo_contexto' = NULL
  /\ hilos' = [hilos EXCEPT ![h] = HiloLibre]
  /\ UNCHANGED <<instruccion, comparar, respuestas, sockets, memoria, kernel>>

-------------------------------------------------------------------------------
(* The Kernel.  Its dispatch thread serves what the CPU sends, in order.    *)

Respuesta(e) == [op |-> "RESPUESTA_INSTRUCCION_KC", contexto |-> NULL, estado |-> e]
Ejecutar(c) == [op |-> "EJECUTAR_PROCESO_KC", contexto |-> c, estado |-> 0]

(* _recibir_proceso_desalojado: the PCB of EXEC with that PID.              *)
Recibido(p, motivos) ==
  /\ Viva /\ a_kernel # <<>>
  /\ p = Head(a_kernel).contexto.pid /\ p = en_exec
  /\ Head(a_kernel).motivo \in motivos
  /\ pcb' = [pcb EXCEPT ![p] = Head(a_kernel).contexto]
  /\ a_kernel' = Tail(a_kernel)
  /\ UNCHANGED <<globales, interrup, salida, respuestas, mutex_manejo_contexto, hilos,
                 a_interrupt, a_memoria, memoria>>

SacarDeExec(p, e) == en_exec' = NULL /\ estado' = [estado EXCEPT ![p] = e]
Responder(e) == a_cpu' = Append(a_cpu, Respuesta(e))
SinBandera == ~flag_finalizar_proceso /\ UNCHANGED <<flag_finalizar_proceso, pedidos>>

Otorgar(p) ==
  /\ Recibido(p, Sincronicas) /\ SinBandera
  /\ Responder(1)
  /\ UNCHANGED <<estado, en_exec>>

(* WAIT without instances; F_OPEN of a file locked for writing.  The answer  *)
(* is sent before EXEC is left, in one step here: the flag is locked all the *)
(* while, the next dispatch needs EXEC empty, and an interrupt sent between  *)
(* the two comes in the order of one sent before, on a socket of its own.    *)
Negar(p) ==
  /\ Recibido(p, {"WAIT", "F_OPEN"}) /\ SinBandera
  /\ Responder(-1)
  /\ SacarDeExec(p, "BLOCKED")

(* F_OPEN for writing of a file locked for reading: the CPU is not told.    *)
NegarSinResponder(p) ==
  /\ Recibido(p, {"F_OPEN"}) /\ SinBandera
  /\ UNCHANGED a_cpu
  /\ SacarDeExec(p, "BLOCKED")

(* A resource that does not exist, or that the process does not have.       *)
Invalidar(p) ==
  /\ Recibido(p, {"WAIT", "SIGNAL"}) /\ SinBandera
  /\ Responder(-1)
  /\ SacarDeExec(p, "EXIT")

Bloquear(p) ==
  /\ Recibido(p, {"SLEEP", "F_TRUNCATE", "F_READ", "F_WRITE"}) /\ SinBandera
  /\ SacarDeExec(p, "BLOCKED")
  /\ UNCHANGED a_cpu

BloquearPorFallo(p) ==
  /\ Recibido(p, {"PAGE_FAULT"}) /\ SinBandera
  /\ SacarDeExec(p, "FALLO")
  /\ UNCHANGED a_cpu

(* EXIT, or F_WRITE of a file open for reading.                             *)
PlpExit(p) ==
  /\ Recibido(p, {"EXIT", "F_WRITE"}) /\ SinBandera
  /\ SacarDeExec(p, "EXIT")
  /\ UNCHANGED a_cpu

Reubicar(p) ==
  /\ Recibido(p, {"ALGORITMO"}) /\ SinBandera
  /\ SacarDeExec(p, "READY")
  /\ UNCHANGED a_cpu

(* _desalojar_proceso: what the process asked for is not answered, and a    *)
(* DESALOJO_POR_CONSOLA does not look at the flag.                          *)
Desalojar(p) ==
  /\ Recibido(p, {Head(a_kernel).motivo})
  /\ flag_finalizar_proceso \/ Head(a_kernel).motivo = "DESALOJO_POR_CONSOLA"
  /\ SacarDeExec(p, "EXIT")
  /\ flag_finalizar_proceso' = FALSE
  /\ UNCHANGED <<a_cpu, pedidos>>

(* Bound: once two threads have shared contexto, what is under way is        *)
(* followed, and no other process is dispatched.                            *)
Despachar(p) ==
  /\ Viva /\ cpu = "VIVA" /\ en_exec = NULL /\ estado[p] = "READY"
  /\ en_exec' = p /\ estado' = [estado EXCEPT ![p] = "EXEC"]
  /\ a_cpu' = Append(a_cpu, Ejecutar(pcb[p]))
  /\ UNCHANGED <<globales, interrup, salida, respuestas, mutex_manejo_contexto, hilos,
                 a_kernel, a_interrupt, a_memoria, memoria, pcb, flag_finalizar_proceso,
                 pedidos>>

(* The end of a SLEEP, a resource or file granted, or a page loaded.        *)
Despertar(p) ==
  /\ Viva /\ estado[p] \in {"BLOCKED", "FALLO"}
  /\ presente' = [presente EXCEPT ![p] = @ \/ estado[p] = "FALLO"]
  /\ estado' = [estado EXCEPT ![p] = "READY"]
  /\ UNCHANGED <<globales, interrup, salida, respuestas, mutex_manejo_contexto, hilos,
                 sockets, palabra, reemplazos, pcb, en_exec, flag_finalizar_proceso, pedidos>>

(* Memoria gives the frame of a page to another. Not between a translation  *)
(* and its use: that is in module Memoria.                                  *)
Reemplazar(p) ==
  /\ Viva /\ presente[p] /\ reemplazos < MaxReemplazos
  /\ \A h \in Hilos : hilos[h].paso \notin {"MMU", "LECTURA", "ESCRITURA"}
  /\ presente' = [presente EXCEPT ![p] = FALSE]
  /\ reemplazos' = reemplazos + 1
  /\ UNCHANGED <<globales, interrup, salida, respuestas, mutex_manejo_contexto, hilos,
                 sockets, palabra, kernel>>

(* _gestionar_interrupt, for a quantum, a priority or the console; one      *)
(* interrupt in the socket at a time.                                       *)
EnviarInterrupcion ==
  /\ Viva /\ en_exec # NULL /\ a_interrupt = <<>>
  /\ a_interrupt' = <<[pid |-> en_exec,
                       motivo |-> IF flag_finalizar_proceso THEN "DESALOJO_POR_CONSOLA"
                                  ELSE "ALGORITMO"]>>
  /\ UNCHANGED <<globales, interrup, salida, respuestas, mutex_manejo_contexto, hilos,
                 a_cpu, a_kernel, a_memoria, memoria, kernel>>

(* FINALIZAR_PROCESO of the process in EXEC; the others do not reach the CPU. *)
(* That it may have left EXEC since it was looked at is in Planificador.     *)
Finalizar(p) ==
  /\ Viva /\ p \in Finalizables /\ en_exec = p /\ ~flag_finalizar_proceso
  /\ flag_finalizar_proceso' = TRUE
  /\ pedidos' = pedidos \cup {p}
  /\ UNCHANGED <<globales, interrup, salida, respuestas, mutex_manejo_contexto, hilos,
                 sockets, memoria, pcb, estado, en_exec>>

-------------------------------------------------------------------------------
Ciclo(h) ==
  \/ Instalar(h) \/ UsarDestruido(h) \/ Fetch(h) \/ Decode(h)
  \/ EjecutarSimple(h) \/ EjecutarSincronica(h) \/ EjecutarVoluntaria(h)
  \/ EjecutarDeMemoria(h) \/ SinMarco(h) \/ Acceder(h) \/ LlevarDireccion(h)
  \/ TerminarLectura(h) \/ TerminarEscritura(h) \/ TerminarSincronica(h)
  \/ Revisar(h) \/ Salir(h) \/ Destruir(h)

HiloDispatch == (\E h \in Hilos : RecibirProceso(h)) \/ RecibirRespuesta
HiloInterrupt == ManejarInterrupcion \/ CompararPid \/ CompararSinContexto

KernelDispatch ==
  \/ \E p \in Procesos :
       \/ Otorgar(p) \/ Negar(p) \/ NegarSinResponder(p) \/ Invalidar(p)
       \/ Bloquear(p) \/ BloquearPorFallo(p) \/ PlpExit(p)
       \/ Reubicar(p) \/ Desalojar(p)

Next ==
  \/ \E h \in Hilos : Ciclo(h)
  \/ HiloDispatch \/ HiloInterrupt \/ AtenderMemoria \/ KernelDispatch
  \/ \E p \in Procesos : Despachar(p) \/ Despertar(p) \/ Reemplazar(p) \/ Finalizar(p)
  \/ EnviarInterrupcion

Spec == Init /\ [][Next]_vars

-------------------------------------------------------------------------------
(* Threads that execute: not those that wait for the Kernel.                *)
Despiertos == {h \in Hilos : hilos[h].paso \notin {"LIBRE", "NACE", "RESPUESTA"}}

(* INVARIANT. The threads of processes that left without an answer (killed   *)
(* in the middle of a WAIT, or in an F_OPEN the Kernel does not answer) wait *)
(* on the semaphore that the next process needs, and may go on in its place: *)
(* still, as long as no thread has installed its contexto before the one     *)
(* told -1 had left, one thread at a time executes, and never without a      *)
(* contexto. The code lets that happen, and then it is false.               *)
UnoSobreElContexto ==
  cpu = "VIVA" => Cardinality(Despiertos) <= 1 /\ (Despiertos # {} => contexto # NULL)

(* Where the turn of the process in EXEC can be: in a message either way, in *)
(* a thread, or in the semaphore that the answer has posted. After -1 what   *)
(* is left in the CPU is no longer of the turn.                             *)
EnCamino == {i \in DOMAIN a_cpu : a_cpu[i].estado # -1}
Naciendo == {h \in Hilos : En(h, "NACE")}
Ejecutando ==
  IF hay_que_desalojar_sin_mensaje THEN 0
  ELSE semaforos["respuesta"] + Cardinality({h \in Despiertos : ~En(h, "DESTRUYE")})
Lugares == Cardinality(EnCamino) + Cardinality(Naciendo) + Len(a_kernel) + Ejecutando

(* INVARIANT. Until two threads share contexto, the turn is in exactly one   *)
(* place, so it is neither lost, which would leave EXEC taken and the CPU    *)
(* idle for ever, nor doubled; and what travels is of the process in EXEC,   *)
(* without which the Kernel exits. Then it is lost: both threads leave for   *)
(* the one -1.                                                              *)
TurnoUnico ==
  cpu = "VIVA" =>
    /\ Lugares = IF en_exec = NULL THEN 0 ELSE 1
    /\ \A i \in DOMAIN a_kernel : a_kernel[i].contexto.pid = en_exec
    /\ \A i \in DOMAIN a_cpu : Despachado(a_cpu[i]) => a_cpu[i].contexto.pid = en_exec

(* What a program does when it has the machine for itself, one instruction   *)
(* at a time, from the context c and the word it keeps in memory.           *)
PasoSola(p, s) ==
  LET i == Programa[p][s.c.ip]
      siguiente == [s.c EXCEPT !.ip = @ + 1]
  IN CASE i.op = "EXIT" -> s
       [] i.op \in Simples -> [s EXCEPT !.c = Calcular(i, s.c)]
       [] i.op = "MOV_IN" -> [s EXCEPT !.c = Cargar(i, siguiente, s.palabra)]
       [] i.op = "MOV_OUT" -> [c |-> siguiente, palabra |-> s.c.reg[i.r]]
       [] OTHER -> [s EXCEPT !.c = siguiente]

Solos ==
  LET tras[n \in 0..MaxPasos] ==
        IF n = 0 THEN [p \in Procesos |-> [c |-> ContextoInicial(p), palabra |-> 0]]
        ELSE [p \in Procesos |-> PasoSola(p, tras[n-1][p])]
  IN [p \in Procesos |-> {tras[n][p] : n \in 0..MaxPasos}]

(* MaxPasos reaches all that a program goes through alone: words and         *)
(* instructions are finitely many, so some number of steps does.            *)
ASSUME PasosSuficientes ==
  \A p \in Procesos : \A s \in Solos[p] :
    s.c.ip \in DOMAIN Programa[p] => PasoSola(p, s) \in Solos[p]

(* INVARIANT. Sharing the CPU does not show, until two threads share         *)
(* contexto: whenever a process is not in EXEC, or has told the Kernel where *)
(* it is, its registers, its instruction pointer and its memory are ones it  *)
(* has when it runs alone: no instruction is skipped or half done, through   *)
(* interrupts, page faults, blocks and threads that take the place of others. *)
ComoSolo ==
  cpu = "VIVA" =>
    /\ \A p \in Procesos :
         estado[p] # "EXEC" => [c |-> pcb[p], palabra |-> palabra[p]] \in Solos[p]
    /\ \A i \in DOMAIN a_kernel :
         LET c == a_kernel[i].contexto
         IN [c |-> c, palabra |-> palabra[c.pid]] \in Solos[c.pid]

(* Only who was to be killed by console is told so. See the run muerte_ajena. *)
MuereElPedido ==
  \A i \in DOMAIN a_kernel :
    a_kernel[i].motivo = "DESALOJO_POR_CONSOLA" => a_kernel[i].contexto.pid \in pedidos
===============================================================================
