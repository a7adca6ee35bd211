------------------------------- MODULE Archivos -------------------------------
(***************************************************************************)
(* F_OPEN, F_CLOSE, F_TRUNCATE, F_READ and F_WRITE in the Kernel: the read *)
(* and the write lock of each file, the queue of those that wait for one,  *)
(* the files each process has open, and the dialogue with the FileSystem,  *)
(* which serves each request in a thread of its own.                       *)
(*                                                                         *)
(* Planificador models who runs next; here any process in READY may.  All  *)
(* the handlers run in the thread of CPU dispatch, so an action of it ends *)
(* where it waits: for the FileSystem, or in pausador() before it wakes a  *)
(* process.  Left out: positions and sizes, with F_SEEK; who holds a lock, *)
(* which lista_participantes and lock_escritura->pcb record and no code    *)
(* reads.                                                                  *)
(***************************************************************************)
EXTENDS Integers, Sequences, FiniteSets, SequencesExt

CONSTANTS
  Procesos,       (* PCBs, all of them admitted                             *)
  Nombres,        (* names of files                                         *)
  Finalizables,   (* the processes FINALIZAR_PROCESO may be asked to kill   *)
  MaxAbiertos,    (* bound: entries of archivos_abiertos, of all the PCBs   *)
  MaxLectores,    (* bound: |cantidad_participantes|                        *)
  NULL

ASSUME ConstantesArchivos ==
  /\ IsFiniteSet(Procesos) /\ IsFiniteSet(Nombres)
  /\ NULL \notin Procesos \cup Nombres
  /\ Finalizables \subseteq Procesos
  /\ MaxAbiertos \in Nat /\ MaxLectores \in Nat

VARIABLES
  estado,                   (* pcb->estado                                  *)
  archivos_abiertos,        (* of each PCB: its t_archivo_abierto_pcb       *)
  lista_archivos_abiertos,  (* the files that have a t_archivo              *)
  lock_lectura, lock_escritura, cola_block_procesos,
  despacho,                 (* where the dispatch thread waits, and for whom *)
  fcbs,                     (* FileSystem: the files that have an FCB       *)
  pedidos,                  (* FileSystem: its threads that have not answered *)
  kernel                    (* "VIVO", or "CAIDO"                           *)

locks == <<lock_lectura, lock_escritura, cola_block_procesos>>
filesystem == <<fcbs, pedidos>>
vars == <<estado, archivos_abiertos, lista_archivos_abiertos, locks, despacho,
          filesystem, kernel>>

Modos == {"R", "W"}
Libre == [op |-> "LIBRE", pcb |-> NULL, archivo |-> NULL, modo |-> NULL]

Init ==
  /\ estado = [p \in Procesos |-> "READY"]
  /\ archivos_abiertos = [p \in Procesos |-> <<>>]
  /\ lista_archivos_abiertos = {}
  /\ lock_lectura = [f \in Nombres |-> [locked |-> FALSE, cantidad |-> 0]]
  /\ lock_escritura = [f \in Nombres |-> FALSE]
  /\ cola_block_procesos = [f \in Nombres |-> <<>>]
  /\ despacho = Libre
  /\ fcbs \in SUBSET Nombres
  /\ pedidos = {}
  /\ kernel = "VIVO"

-------------------------------------------------------------------------------
EnHandler(op) == despacho.op = op
Atender(op, p, f, m) == despacho' = [op |-> op, pcb |-> p, archivo |-> f, modo |-> m]
Pedido(op, p, f) == [op |-> op, pcb |-> p, archivo |-> f]
EnCola(f, p) == p \in ToSet(cola_block_procesos[f])

(* The process in EXEC traps and the dispatch thread is free to serve it.   *)
Atrapa(p) == EnHandler("LIBRE") /\ estado[p] = "EXEC"

(* Mutant of Bloquear: the process stays in EXEC.                           *)
DejarEnExec(p) == UNCHANGED estado

Bloquear(p) == estado' = [estado EXCEPT ![p] = "BLOCKED"]

(* desbloquear_proceso_por_pid: nothing if it is not in BLOCKED.            *)
Desbloquear(p) ==
  estado' = [estado EXCEPT ![p] = IF @ = "BLOCKED" THEN "READY" ELSE @]

(* obtener_archivo_pcb: the first entry of that name.                       *)
TieneEntrada(p, f) == \E i \in DOMAIN archivos_abiertos[p] : archivos_abiertos[p][i].archivo = f
Primera(s, f) == CHOOSE i \in DOMAIN s :
  s[i].archivo = f /\ \A j \in 1..i-1 : s[j].archivo # f
Entrada(p, f) == archivos_abiertos[p][Primera(archivos_abiertos[p], f)]

(* The list of a PCB once the lock of f is given to its first entry.        *)
Otorgado(s, f) == [s EXCEPT ![Primera(s, f)].otorgado = TRUE]

ConLector(l) == [locked |-> TRUE, cantidad |-> l.cantidad + 1]

(* liberar_lock_lectura: one less, whether or not the process was one.      *)
SinLector(l) == [locked |-> l.locked /\ l.cantidad > 1, cantidad |-> l.cantidad - 1]

(* Room for one entry more within the bound.                                *)
CabeOtro ==
  Cardinality({e \in Procesos \X (1..MaxAbiertos) : e[2] <= Len(archivos_abiertos[e[1]])})
    < MaxAbiertos

-------------------------------------------------------------------------------
(* The rest of the Kernel, as far as files see it.                          *)

Ejecutar(p) ==
  /\ estado[p] = "READY" /\ \A q \in Procesos : estado[q] # "EXEC"
  /\ estado' = [estado EXCEPT ![p] = "EXEC"]
  /\ UNCHANGED <<archivos_abiertos, lista_archivos_abiertos, locks, despacho, filesystem, kernel>>

Reubicar(p) ==
  /\ Atrapa(p)
  /\ estado' = [estado EXCEPT ![p] = "READY"]
  /\ UNCHANGED <<archivos_abiertos, lista_archivos_abiertos, locks, despacho, filesystem, kernel>>

(* The end of a process leaves its locks, its entries and its place in a    *)
(* queue as they are: liberar_archivo_pcb is commented out.                 *)
Salir(p) ==
  /\ Atrapa(p)
  /\ estado' = [estado EXCEPT ![p] = "EXIT"]
  /\ UNCHANGED <<archivos_abiertos, lista_archivos_abiertos, locks, despacho, filesystem, kernel>>

Finalizar(p) ==
  /\ p \in Finalizables /\ estado[p] \in {"READY", "BLOCKED"}
  /\ estado' = [estado EXCEPT ![p] = "EXIT"]
  /\ UNCHANGED <<archivos_abiertos, lista_archivos_abiertos, locks, despacho, filesystem, kernel>>

Caer ==
  /\ kernel' = "CAIDO"
  /\ UNCHANGED <<estado, archivos_abiertos, lista_archivos_abiertos, locks, despacho, filesystem>>

-------------------------------------------------------------------------------
(* F_OPEN.                                                                  *)

(* Mutant of PuedeAbrir: a writer does not look at the readers.             *)
AbrirSinMirarLectores(f, m) == ~lock_escritura[f]

(* The lock is given at once.                                               *)
PuedeAbrir(f, m) ==
  /\ ~lock_escritura[f]
  /\ m = "W" => ~lock_lectura[f].locked

(* asignar_archivo_pcb and what follows it, for a file with a t_archivo.    *)
ConcederOBloquear(p, f, m) ==
  LET nuevas == Append(archivos_abiertos[p], [archivo |-> f, modo |-> m, otorgado |-> FALSE])
      da == PuedeAbrir(f, m)
  IN
  /\ archivos_abiertos' = [archivos_abiertos EXCEPT ![p] =
       IF da THEN Otorgado(nuevas, f) ELSE nuevas]
  /\ lock_lectura' = IF da /\ m = "R"
                     THEN [lock_lectura EXCEPT ![f] = ConLector(@)] ELSE lock_lectura
  /\ lock_escritura' = IF da /\ m = "W"
                       THEN [lock_escritura EXCEPT ![f] = TRUE]
                       ELSE lock_escritura
  /\ cola_block_procesos' = IF da THEN cola_block_procesos
                            ELSE [cola_block_procesos EXCEPT ![f] = Append(@, p)]
  /\ IF da THEN UNCHANGED estado ELSE Bloquear(p)
  /\ despacho' = Libre

AbrirPrimeraVez(p, f, m) ==
  /\ f \notin lista_archivos_abiertos
  /\ pedidos' = pedidos \cup {Pedido("ABRIR", NULL, f)}
  /\ Atender("ABRIENDO", p, f, m)
  /\ UNCHANGED <<estado, archivos_abiertos, lista_archivos_abiertos, locks, fcbs, kernel>>

FOpen(p, f, m) ==
  /\ Atrapa(p) /\ CabeOtro
  /\ lock_lectura[f].cantidad < MaxLectores
  /\ \/ AbrirPrimeraVez(p, f, m)
     \/ /\ f \in lista_archivos_abiertos
        /\ ConcederOBloquear(p, f, m)
        /\ UNCHANGED <<lista_archivos_abiertos, filesystem, kernel>>

(* Mutant of RespuestaAbrir: the file is created although it exists.        *)
CrearSiempre ==
  /\ EnHandler("ABRIENDO")
  /\ Pedido("ABRIR", NULL, despacho.archivo) \in pedidos
  /\ lista_archivos_abiertos' = lista_archivos_abiertos \cup {despacho.archivo}
  /\ pedidos' = (pedidos \ {Pedido("ABRIR", NULL, despacho.archivo)})
                  \cup {Pedido("CREAR", NULL, despacho.archivo)}
  /\ despacho' = [despacho EXCEPT !.op = "CREANDO"]
  /\ UNCHANGED <<estado, archivos_abiertos, locks, fcbs, kernel>>

(* The FileSystem answers ABRIR_ARCHIVO, and the handler goes on.           *)
RespuestaAbrir ==
  LET f == despacho.archivo IN
  /\ EnHandler("ABRIENDO")
  /\ Pedido("ABRIR", NULL, f) \in pedidos
  /\ lista_archivos_abiertos' = lista_archivos_abiertos \cup {f}
  /\ IF f \in fcbs
     THEN /\ ConcederOBloquear(despacho.pcb, f, despacho.modo)
          /\ pedidos' = pedidos \ {Pedido("ABRIR", NULL, f)}
     ELSE /\ pedidos' = (pedidos \ {Pedido("ABRIR", NULL, f)}) \cup {Pedido("CREAR", NULL, f)}
          /\ despacho' = [despacho EXCEPT !.op = "CREANDO"]
          /\ UNCHANGED <<estado, archivos_abiertos, locks>>
  /\ UNCHANGED <<fcbs, kernel>>

RespuestaCrear ==
  LET f == despacho.archivo IN
  /\ EnHandler("CREANDO")
  /\ Pedido("CREAR", NULL, f) \in pedidos
  /\ fcbs' = fcbs \cup {f}
  /\ pedidos' = pedidos \ {Pedido("CREAR", NULL, f)}
  /\ ConcederOBloquear(despacho.pcb, f, despacho.modo)
  /\ UNCHANGED <<lista_archivos_abiertos, kernel>>

-------------------------------------------------------------------------------
(* F_CLOSE, and the locks it gives to those that wait.                      *)

(* Mutant of DarLock: lock_otorgado is not set.                             *)
DarSinMarcar(p, f, lectura, escritura) ==
  /\ IF Entrada(p, f).modo = "R"
     THEN /\ lock_lectura' = [lectura EXCEPT ![f] = ConLector(@)]
          /\ lock_escritura' = escritura
     ELSE /\ lock_escritura' = [escritura EXCEPT ![f] = TRUE]
          /\ lock_lectura' = lectura
  /\ UNCHANGED archivos_abiertos

(* The lock that asignar_lock_pcb gives p: that of its first entry.         *)
DarLock(p, f, lectura, escritura) ==
  /\ archivos_abiertos' = [archivos_abiertos EXCEPT ![p] = Otorgado(@, f)]
  /\ IF Entrada(p, f).modo = "R"
     THEN /\ lock_lectura' = [lectura EXCEPT ![f] = ConLector(@)]
          /\ lock_escritura' = escritura
     ELSE /\ lock_escritura' = [escritura EXCEPT ![f] = TRUE]
          /\ lock_lectura' = lectura

(* Mutant of Repartible: the queue is looked at by the last writer only.    *)
SoloElEscritor(f, lectura, escritura) ==
  lectura = lock_lectura /\ ~lectura[f].locked /\ ~escritura[f]

Repartible(f, lectura, escritura) == ~lectura[f].locked /\ ~escritura[f]

(* A stale first entry decides which lock is released.  Without a lock, or  *)
(* without an entry, nothing changes.                                       *)
FClose(p, f) ==
  LET e == Entrada(p, f)
      lectura == IF e.modo = "R"
                 THEN [lock_lectura EXCEPT ![f] = SinLector(@)] ELSE lock_lectura
      escritura == IF e.modo = "W"
                   THEN [lock_escritura EXCEPT ![f] = FALSE] ELSE lock_escritura
      q == Head(cola_block_procesos[f])
  IN
  /\ Atrapa(p) /\ TieneEntrada(p, f) /\ e.otorgado
  /\ lock_lectura[f].cantidad > -MaxLectores
  /\ \/ /\ ~Repartible(f, lectura, escritura)
        /\ lock_lectura' = lectura /\ lock_escritura' = escritura
        /\ UNCHANGED <<archivos_abiertos, cola_block_procesos, despacho>>
     \/ /\ Repartible(f, lectura, escritura) /\ cola_block_procesos[f] = <<>>
        /\ lock_lectura' = lectura /\ lock_escritura' = escritura
        /\ archivos_abiertos' = [archivos_abiertos EXCEPT ![p] =
             RemoveAt(@, Primera(@, f))]
        /\ UNCHANGED <<cola_block_procesos, despacho>>
     \/ /\ Repartible(f, lectura, escritura) /\ cola_block_procesos[f] # <<>>
        /\ cola_block_procesos' = [cola_block_procesos EXCEPT ![f] = Tail(@)]
        /\ DarLock(q, f, lectura, escritura)
        /\ Atender("DESPIERTA", q, f, Entrada(q, f).modo)
  /\ UNCHANGED <<estado, lista_archivos_abiertos, filesystem, kernel>>

(* The first of the queue is woken; after a reader, those behind it follow. *)
DespertarPrimero ==
  LET f == despacho.archivo
      sigue == despacho.modo = "R" /\ cola_block_procesos[f] # <<>>
  IN
  /\ EnHandler("DESPIERTA")
  /\ Desbloquear(despacho.pcb)
  /\ IF sigue THEN Atender("REPARTE", Head(cola_block_procesos[f]), f, NULL)
              ELSE despacho' = Libre
  /\ UNCHANGED <<archivos_abiertos, lista_archivos_abiertos, locks, filesystem, kernel>>

(* The test of the loop and its body up to pausador().  With the queue      *)
(* empty the process under consideration is the one served before.          *)
RepartirALector ==
  LET p == despacho.pcb  f == despacho.archivo IN
  /\ EnHandler("REPARTE")
  /\ Entrada(p, f).modo = "R"
  /\ lock_lectura[f].cantidad < MaxLectores
  /\ DarLock(p, f, lock_lectura, lock_escritura)
  /\ cola_block_procesos' = [cola_block_procesos EXCEPT ![f] = RemoveFirst(@, p)]
  /\ despacho' = [despacho EXCEPT !.op = "SIGUE"]
  /\ UNCHANGED <<estado, lista_archivos_abiertos, filesystem, kernel>>

FinReparto ==
  /\ EnHandler("REPARTE")
  /\ Entrada(despacho.pcb, despacho.archivo).modo = "W"
  /\ despacho' = Libre
  /\ UNCHANGED <<estado, archivos_abiertos, lista_archivos_abiertos, locks, filesystem, kernel>>

(* The PID is written to memory already freed and freed once more: the C    *)
(* library may end the Kernel.                                              *)
DespertarLector ==
  LET f == despacho.archivo
      q == IF cola_block_procesos[f] # <<>> THEN Head(cola_block_procesos[f])
           ELSE despacho.pcb
  IN
  /\ EnHandler("SIGUE")
  /\ \/ /\ Desbloquear(despacho.pcb)
        /\ Atender("REPARTE", q, f, NULL)
        /\ UNCHANGED <<archivos_abiertos, lista_archivos_abiertos, locks, filesystem, kernel>>
     \/ Caer

-------------------------------------------------------------------------------
(* F_TRUNCATE, F_READ and F_WRITE.                                          *)

(* Mutant of PedirYBloquear: the process is left in EXEC.                   *)
PedirSinBloquear(op, p, f) ==
  /\ pedidos' = pedidos \cup {Pedido(op, p, f)}
  /\ UNCHANGED <<estado, archivos_abiertos, lista_archivos_abiertos, locks, despacho, fcbs, kernel>>

PedirYBloquear(op, p, f) ==
  /\ pedidos' = pedidos \cup {Pedido(op, p, f)}
  /\ Bloquear(p)
  /\ UNCHANGED <<archivos_abiertos, lista_archivos_abiertos, locks, despacho, fcbs, kernel>>

FTruncate(p, f) ==
  Atrapa(p) /\ TieneEntrada(p, f) /\ PedirYBloquear("TRUNCATE", p, f)

(* Not open: no answer.  The CPU has let go of the process, the Kernel      *)
(* keeps it in EXEC, and no trap comes any more.                            *)
FTruncateSinAbrir(p, f) ==
  /\ Atrapa(p) /\ ~TieneEntrada(p, f)
  /\ Atender("SIN_PROCESO", p, f, NULL)
  /\ UNCHANGED <<estado, archivos_abiertos, lista_archivos_abiertos, locks, filesystem, kernel>>

(* F_READ asks the FileSystem to write.                                     *)
FRead(p, f) ==
  Atrapa(p) /\ TieneEntrada(p, f) /\ PedirYBloquear("WRITE", p, f)

FWrite(p, f) ==
  /\ Atrapa(p) /\ TieneEntrada(p, f)
  /\ Entrada(p, f).modo = "W" /\ Entrada(p, f).otorgado
  /\ PedirYBloquear("WRITE", p, f)

(* Without the lock it is blocked and nobody is asked to wake it.           *)
FWriteSinLock(p, f) ==
  /\ Atrapa(p) /\ TieneEntrada(p, f)
  /\ Entrada(p, f).modo = "W" /\ ~Entrada(p, f).otorgado
  /\ Bloquear(p)
  /\ UNCHANGED <<archivos_abiertos, lista_archivos_abiertos, locks, despacho, filesystem, kernel>>

(* INVALID_WRITE ends the process: Salir.  Not open: archivo_pcb is NULL.   *)
FReadWriteSinAbrir(p, f) ==
  Atrapa(p) /\ ~TieneEntrada(p, f) /\ Caer

(* A thread of the FileSystem answers, and the Kernel wakes the process.    *)
Responder(m) ==
  /\ m \in pedidos /\ m.pcb # NULL
  /\ pedidos' = pedidos \ {m}
  /\ Desbloquear(m.pcb)
  /\ UNCHANGED <<archivos_abiertos, lista_archivos_abiertos, locks, despacho, fcbs, kernel>>

-------------------------------------------------------------------------------
Acciones ==
  \/ \E p \in Procesos :
       \/ Ejecutar(p) \/ Reubicar(p) \/ Salir(p) \/ Finalizar(p)
       \/ \E f \in Nombres :
            \/ \E m \in Modos : FOpen(p, f, m)
            \/ FClose(p, f) \/ FTruncate(p, f) \/ FTruncateSinAbrir(p, f) \/ FRead(p, f)
            \/ FWrite(p, f) \/ FWriteSinLock(p, f) \/ FReadWriteSinAbrir(p, f)
  \/ RespuestaAbrir \/ RespuestaCrear
  \/ DespertarPrimero \/ RepartirALector \/ FinReparto \/ DespertarLector
  \/ \E m \in pedidos : Responder(m)

Next == kernel = "VIVO" /\ Acciones

Spec == Init /\ [][Next]_vars

-------------------------------------------------------------------------------
Ops == {"LIBRE", "ABRIENDO", "CREANDO", "DESPIERTA", "REPARTE", "SIGUE", "SIN_PROCESO"}
Peticiones == [op : {"ABRIR", "CREAR", "TRUNCATE", "WRITE"},
               pcb : Procesos \cup {NULL}, archivo : Nombres]

(* Types of the PCBs, the locks and the requests.                           *)
TypeOK ==
  /\ estado \in [Procesos -> {"READY", "EXEC", "BLOCKED", "EXIT"}]
  /\ archivos_abiertos \in
       [Procesos -> Seq([archivo : Nombres, modo : Modos, otorgado : BOOLEAN])]
  /\ lista_archivos_abiertos \subseteq Nombres
  /\ lock_lectura \in
       [Nombres -> [locked : BOOLEAN, cantidad : Int]]
  /\ lock_escritura \in [Nombres -> BOOLEAN]
  /\ cola_block_procesos \in [Nombres -> Seq(Procesos)]
  /\ despacho \in [op : Ops, pcb : Procesos \cup {NULL}, archivo : Nombres \cup {NULL},
                   modo : Modos \cup {NULL}]
  /\ fcbs \subseteq Nombres
  /\ pedidos \subseteq Peticiones
  /\ kernel \in {"VIVO", "CAIDO"}

(* A file is never locked for reading and for writing at once, however      *)
(* stale the entry that F_CLOSE goes by (atender_F_open, atender_F_close,   *)
(* asignar_lock_pcb).                                                       *)
LocksExcluyentes ==
  \A f \in Nombres : ~(lock_lectura[f].locked /\ lock_escritura[f])

(* No lost wake-up: a file with a queue is locked (atender_F_close).        *)
ColaConLock ==
  \A f \in Nombres : cola_block_procesos[f] # <<>> =>
    lock_lectura[f].locked \/ lock_escritura[f]

(* A living process in the queue of a file is in BLOCKED, in the queue once, *)
(* and waits for no answer of the FileSystem that would wake it without the *)
(* lock (bloquear_proceso_cola_fs, desbloquear_proceso_por_pid). *)
EnColaSoloEspera ==
  \A p \in Procesos, f \in Nombres : estado[p] # "EXIT" /\ EnCola(f, p) =>
    /\ estado[p] = "BLOCKED"
    /\ Cardinality({i \in DOMAIN cola_block_procesos[f] : cola_block_procesos[f][i] = p}) = 1
    /\ \A m \in pedidos : m.pcb # p

(* A living process for which the FileSystem works is in BLOCKED and waits  *)
(* for that one answer (_gestionar_peticiones_de_filesystem).               *)
UnPedidoPorBloqueado ==
  \A m \in pedidos : m.pcb # NULL /\ estado[m.pcb] # "EXIT" =>
    /\ estado[m.pcb] = "BLOCKED"
    /\ \A n \in pedidos : n.pcb = m.pcb => n = m

(* The FileSystem is asked to work on files it has and to create those it   *)
(* has not: with no FCB it reads a NULL pointer, and a second FCB of a name *)
(* would hide the first (atender_f_truncate_de_kernel, crear_fcb).          *)
FileSystemConoce ==
  \A m \in pedidos :
    /\ m.pcb # NULL => m.archivo \in fcbs
    /\ m.op = "CREAR" => m.archivo \notin fcbs

(* A process that waits for a file is served before those behind it, and    *)
(* nobody leaves the queue but to be given the lock (asignar_lock_pcb).     *)
TurnoDeLaCola ==
  [][\A f \in Nombres :
       \/ cola_block_procesos'[f] = cola_block_procesos[f]
       \/ \E p \in Procesos :
            cola_block_procesos'[f] = Append(cola_block_procesos[f], p)
       \/ /\ cola_block_procesos'[f] = Tail(cola_block_procesos[f])
          /\ LET p == Head(cola_block_procesos[f]) IN
             \E e \in ToSet(archivos_abiertos'[p]) : e.archivo = f /\ e.otorgado]_vars

(* The locks that asignar_lock_pcb gives go to those that wait: "Saco el    *)
(* primer pcb en la cola de blocks".                                        *)
RepartoALosQueEsperan ==
  [][EnHandler("REPARTE") =>
       \A f \in Nombres : lock_lectura'[f].cantidad > lock_lectura[f].cantidad =>
         EnCola(f, despacho.pcb)]_vars
===============================================================================
