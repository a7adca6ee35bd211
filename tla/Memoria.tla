------------------------------- MODULE Memoria -------------------------------
(***************************************************************************)
(* Memoria: page tables, frames, replacement and the user space, with the  *)
(* swap area that the FileSystem keeps for it.  Three threads share the    *)
(* tables without a mutex, one per connection: Kernel (processes and page  *)
(* faults), CPU (translations and accesses) and FileSystem (what comes     *)
(* from swap, and what goes to files).  Each serves its socket in order.   *)
(*                                                                         *)
(* The Kernel appears as the state of each process and as the one page     *)
(* fault at a time that mutex_manejo_page_fault lets through; the CPU as   *)
(* the address that its MMU has translated and it has not used yet.        *)
(*                                                                         *)
(* Contents are abstract: what a page holds is Vacio, as swap has it, or   *)
(* the page for which the CPU wrote it.  Instructions, info_old and the    *)
(* offset of an address in its page are left out; pages count from 1.      *)
(***************************************************************************)
EXTENDS Integers, Sequences, FiniteSets, SequencesExt

CONSTANTS
  Procesos,
  Finalizables,         (* the processes FINALIZAR_PROCESO may be asked to kill *)
  Paginas,              (* of each process: floor of size over TAM_PAGINA   *)
  CANT_MARCOS,          (* TAM_MEMORIA / TAM_PAGINA                         *)
  CANT_BLOQUES_SWAP,
  Algoritmos,           (* values of ALGORITMO_REEMPLAZO to consider        *)
  NULL

ASSUME ConstantesMemoria ==
  /\ IsFiniteSet(Procesos) /\ Finalizables \subseteq Procesos
  /\ NULL \notin Procesos \cup Nat
  /\ Paginas \in [Procesos -> Nat]
  /\ CANT_MARCOS \in Nat \ {0} /\ CANT_BLOQUES_SWAP \in Nat
  /\ Algoritmos \subseteq {"FIFO", "LRU"}

Marcos == 0..CANT_MARCOS-1
Bloques == 0..CANT_BLOQUES_SWAP-1

VARIABLES
  ALGORITMO_REEMPLAZO,
  procesos,                 (* list_procss_recibidos                        *)
  tabla_paginas,            (* of each process                              *)
  marcos,                   (* of each frame: libre and info_new            *)
  orden,                    (* the frames by orden_carga or by ultimo_uso,  *)
                            (* the oldest first; without those that have none *)
  espacio_usuario,          (* what each frame holds                        *)
  sem_control_swap_asign,
  creando,                  (* the process the Kernel's thread is creating  *)
  cargada,                  (* the process whose page the FileSystem's      *)
                            (* thread has loaded and not told the Kernel of *)
  a_fs, a_memoria,          (* messages to and from the FileSystem          *)
  bitmapSWAP, bloques,      (* FileSystem: used bits and contents of swap   *)
  escrituras,               (* FileSystem: threads of an F_WRITE that have  *)
                            (* not yet asked for the frame                  *)
  estado,                   (* Kernel: where each process is                *)
  fallos,                   (* Kernel: the page its thread wants, if any    *)
  page_fault,               (* Kernel: who holds mutex_manejo_page_fault    *)
  traduccion,               (* CPU: the page its MMU has just translated    *)
  memoria                   (* "VIVA", or "CAIDA"                           *)

tablas == <<procesos, tabla_paginas, marcos, orden, espacio_usuario>>
hilos == <<sem_control_swap_asign, creando, cargada>>
canales == <<a_fs, a_memoria>>
filesystem == <<bitmapSWAP, bloques, escrituras>>
pedidos == <<fallos, page_fault, traduccion>>
vars == <<ALGORITMO_REEMPLAZO, tablas, hilos, canales, filesystem, estado, pedidos, memoria>>

Vacio == NULL
PaginaNueva == [presente |-> FALSE, modificado |-> FALSE, nro_marco |-> NULL,
                pos_en_swap |-> NULL]
TablaNueva(p) == [i \in 1..Paginas[p] |-> PaginaNueva]
MarcoLibre == [libre |-> TRUE, info_new |-> NULL]

Init ==
  /\ ALGORITMO_REEMPLAZO \in Algoritmos
  /\ procesos = {}
  /\ tabla_paginas = [p \in Procesos |-> <<>>]
  /\ marcos = [f \in Marcos |-> MarcoLibre]
  /\ orden = <<>>
  /\ espacio_usuario = [f \in Marcos |-> Vacio]
  /\ sem_control_swap_asign = 0 /\ creando = NULL /\ cargada = NULL
  /\ a_fs = <<>> /\ a_memoria = <<>>
  /\ bitmapSWAP = [b \in Bloques |-> FALSE]
  /\ bloques = [b \in Bloques |-> Vacio]
  /\ escrituras = {}
  /\ estado = [p \in Procesos |-> "NEW"]
  /\ fallos = [p \in Procesos |-> NULL] /\ page_fault = NULL /\ traduccion = NULL
  /\ memoria = "VIVA"

-------------------------------------------------------------------------------
(* Messages to the FileSystem, and its answers.                             *)

PeticionDeBloques(p) ==
  [op |-> "ASIGNAR", proceso |-> p, cant |-> Paginas[p]]

OrdenDeLiberacion(p) ==
  [op |-> "LIBERAR",
   bloques |-> {tabla_paginas[p][i].pos_en_swap : i \in DOMAIN tabla_paginas[p]}]

PaginaASwap(pos, contenido) == [op |-> "GUARDAR", pos |-> pos, contenido |-> contenido]

LecturaDeSwap(p, i, pos) == [op |-> "LECTURA", proceso |-> p, pagina |-> i, pos |-> pos]

MarcoAFs(p) == [op |-> "BLOQUE", proceso |-> p]

ListaDeBloques(p, lista) == [op |-> "ASIGNADAS", proceso |-> p, bloques |-> lista]

BloqueAMemoria(p, i, bloque) ==
  [op |-> "PAGINA", proceso |-> p, pagina |-> i, contenido |-> bloque]

-------------------------------------------------------------------------------
(* exit(EXIT_FAILURE), or a NULL pointer.                                   *)
Caer ==
  /\ memoria' = "CAIDA"
  /\ UNCHANGED <<ALGORITMO_REEMPLAZO, tablas, hilos, canales, filesystem, estado, pedidos>>

(* Mutant of AlFinal: the frame is given no order.                          *)
SinOrden(f) == RemoveFirst(orden, f)

AlFinal(f) == Append(RemoveFirst(orden, f), f)

(* setear_config_por_ultima_referencia.                                     *)
Referenciar(f) == IF ALGORITMO_REEMPLAZO = "LRU" THEN AlFinal(f) ELSE orden

-------------------------------------------------------------------------------
(* The Kernel and the CPU, as far as Memoria sees them.                     *)

Ejecutar(p) ==
  /\ estado[p] = "READY" /\ \A q \in Procesos : estado[q] # "EXEC"
  /\ estado' = [estado EXCEPT ![p] = "EXEC"]
  /\ UNCHANGED <<ALGORITMO_REEMPLAZO, tablas, hilos, canales, filesystem, pedidos, memoria>>

Desalojar(p, destino) ==
  /\ estado[p] = "EXEC" /\ traduccion = NULL
  /\ estado' = [estado EXCEPT ![p] = destino]
  /\ UNCHANGED <<ALGORITMO_REEMPLAZO, tablas, hilos, canales, filesystem, pedidos, memoria>>

Finalizar(p) ==
  /\ p \in Finalizables /\ estado[p] \in {"READY", "PAGE_FAULT", "ARCHIVO"}
  /\ estado' = [estado EXCEPT ![p] = "EXIT"]
  /\ UNCHANGED <<ALGORITMO_REEMPLAZO, tablas, hilos, canales, filesystem, pedidos, memoria>>

Despertar(p, espera) ==
  estado' = [estado EXCEPT ![p] = IF @ = espera THEN "READY" ELSE @]

-------------------------------------------------------------------------------
(* The thread of the Kernel.  While it creates a process it serves nobody.  *)

HiloKernel == creando = NULL

IniciarEstructura(p) ==
  /\ HiloKernel /\ estado[p] = "NEW"
  /\ procesos' = procesos \cup {p}
  /\ tabla_paginas' = [tabla_paginas EXCEPT ![p] = TablaNueva(p)]
  /\ a_fs' = Append(a_fs, PeticionDeBloques(p))
  /\ creando' = p
  /\ UNCHANGED <<ALGORITMO_REEMPLAZO, marcos, orden, espacio_usuario, sem_control_swap_asign,
                 cargada, a_memoria, filesystem, estado, pedidos, memoria>>

(* Mutant of ConfirmarCreacion: the semaphore is not waited for.            *)
ConfirmarSinEsperar ==
  /\ ~HiloKernel
  /\ estado' = [estado EXCEPT ![creando] = "READY"]
  /\ creando' = NULL
  /\ UNCHANGED <<ALGORITMO_REEMPLAZO, tablas, sem_control_swap_asign, cargada, canales,
                 filesystem, pedidos, memoria>>

(* The FileSystem's thread has posted the semaphore.                        *)
ConfirmarCreacion ==
  /\ ~HiloKernel /\ sem_control_swap_asign > 0
  /\ sem_control_swap_asign' = sem_control_swap_asign - 1
  /\ estado' = [estado EXCEPT ![creando] = "READY"]
  /\ creando' = NULL
  /\ UNCHANGED <<ALGORITMO_REEMPLAZO, tablas, cargada, canales, filesystem, pedidos, memoria>>

(* Mutant of MarcosDe: no frame is freed.                                   *)
NingunMarco(p) == {}

(* The frames that eliminar_tabla_de_paginas frees.                         *)
MarcosDe(p) ==
  {tabla_paginas[p][i].nro_marco :
     i \in {j \in DOMAIN tabla_paginas[p] : tabla_paginas[p][j].presente}}

(* The list s without the elements of M, in the same order.                 *)
Sin(s, M) ==
  LET quedan == {k \in DOMAIN s : s[k] \notin M}
      Hasta(k) == {j \in quedan : j <= k}
  IN [n \in 1..Cardinality(quedan) |-> s[CHOOSE k \in quedan : Cardinality(Hasta(k)) = n]]

EliminarProceso(p) ==
  /\ a_fs' = Append(a_fs, OrdenDeLiberacion(p))
  /\ marcos' = [f \in Marcos |-> IF f \in MarcosDe(p) THEN MarcoLibre ELSE marcos[f]]
  /\ orden' = Sin(orden, MarcosDe(p))
  /\ tabla_paginas' = [tabla_paginas EXCEPT ![p] = <<>>]

LiberarEstructura(p) ==
  /\ HiloKernel /\ estado[p] = "EXIT" /\ p \in procesos
  /\ procesos' = procesos \ {p}
  /\ EliminarProceso(p)
  /\ UNCHANGED <<ALGORITMO_REEMPLAZO, espacio_usuario, hilos, a_memoria, filesystem, estado,
                 pedidos, memoria>>

HayLibre == \E f \in Marcos : marcos[f].libre
PrimerLibre == CHOOSE f \in Marcos : marcos[f].libre /\ \A g \in 0..f-1 : ~marcos[g].libre

(* elegir_victima_segun_algoritmo, when no frame is free.                   *)
Victima == Head(orden)

(* What goes to swap when the page leaves its frame.                        *)
Guardado(f) ==
  LET pagina == tabla_paginas[marcos[f].info_new[1]][marcos[f].info_new[2]] IN
  IF pagina.modificado
  THEN <<PaginaASwap(pagina.pos_en_swap, espacio_usuario[f])>>
  ELSE <<>>

(* Mutant of Quitar: the page that leaves keeps its presence bit.           *)
NoQuitar(t, f) == t

(* The page in f is in memory no more.                                      *)
Quitar(t, f) ==
  LET duenio == marcos[f].info_new IN
  [t EXCEPT ![duenio[1]][duenio[2]].presente = FALSE,
            ![duenio[1]][duenio[2]].modificado = FALSE]

OcuparMarco(f, p, i) == [marcos EXCEPT ![f] = [libre |-> FALSE, info_new |-> <<p, i>>]]

Cargar(p, i, f, t, guardado) ==
  /\ marcos' = OcuparMarco(f, p, i)
  /\ orden' = AlFinal(f)
  /\ tabla_paginas' = [t EXCEPT ![p][i].nro_marco = f]
  /\ a_fs' = a_fs \o guardado \o <<LecturaDeSwap(p, i, t[p][i].pos_en_swap)>>

PageFault(p) ==
  LET i == fallos[p] IN
  /\ HiloKernel /\ i # NULL /\ page_fault = NULL
  /\ p \in procesos
  /\ \/ HayLibre /\ Cargar(p, i, PrimerLibre, tabla_paginas, <<>>)
     \/ /\ ~HayLibre
        /\ Cargar(p, i, Victima, Quitar(tabla_paginas, Victima), Guardado(Victima))
  /\ page_fault' = p
  /\ fallos' = [fallos EXCEPT ![p] = NULL]
  /\ UNCHANGED <<ALGORITMO_REEMPLAZO, procesos, espacio_usuario, hilos, a_memoria, filesystem,
                 estado, traduccion, memoria>>

(* The process was killed while it waited for its turn.                     *)
PageFaultSinProceso(p) ==
  /\ HiloKernel /\ fallos[p] # NULL /\ page_fault = NULL
  /\ p \notin procesos
  /\ Caer

-------------------------------------------------------------------------------
(* The thread of the CPU.                                                   *)

ConsultarPagina(p, i) ==
  LET pagina == tabla_paginas[p][i] IN
  /\ estado[p] = "EXEC" /\ traduccion = NULL
  /\ \/ /\ pagina.presente
        /\ traduccion' = [proceso |-> p, pagina |-> i, nro_marco |-> pagina.nro_marco]
        /\ orden' = Referenciar(pagina.nro_marco)
        /\ UNCHANGED <<estado, fallos>>
     \/ /\ ~pagina.presente
        /\ estado' = [estado EXCEPT ![p] = "PAGE_FAULT"]
        /\ fallos' = [fallos EXCEPT ![p] = i]
        /\ UNCHANGED <<orden, traduccion>>
  /\ UNCHANGED <<ALGORITMO_REEMPLAZO, procesos, tabla_paginas, marcos, espacio_usuario, hilos,
                 canales, filesystem, page_fault, memoria>>

(* An address beyond the last whole page: list_get returns NULL.            *)
ConsultarFuera(p) ==
  estado[p] = "EXEC" /\ traduccion = NULL /\ Caer

Leer ==
  /\ traduccion # NULL
  /\ orden' = Referenciar(traduccion.nro_marco)
  /\ traduccion' = NULL
  /\ UNCHANGED <<ALGORITMO_REEMPLAZO, procesos, tabla_paginas, marcos, espacio_usuario, hilos,
                 canales, filesystem, estado, fallos, page_fault, memoria>>

(* By physical address: whose frame it is by now is not looked at.          *)
Escribir ==
  /\ traduccion # NULL
  /\ orden' = Referenciar(traduccion.nro_marco)
  /\ espacio_usuario' = [espacio_usuario EXCEPT
       ![traduccion.nro_marco] = <<traduccion.proceso, traduccion.pagina>>]
  /\ traduccion' = NULL
  /\ UNCHANGED <<ALGORITMO_REEMPLAZO, procesos, tabla_paginas, marcos, hilos, canales,
                 filesystem, estado, fallos, page_fault, memoria>>

(* F_READ and F_WRITE: the physical address goes by the Kernel to a thread  *)
(* of the FileSystem, and the process waits.                                *)
FWrite ==
  /\ traduccion # NULL
  /\ estado' = [estado EXCEPT ![traduccion.proceso] = "ARCHIVO"]
  /\ escrituras' = escrituras \cup
       {[proceso |-> traduccion.proceso, nro_marco |-> traduccion.nro_marco]}
  /\ traduccion' = NULL
  /\ UNCHANGED <<ALGORITMO_REEMPLAZO, tablas, hilos, canales, bitmapSWAP, bloques, fallos,
                 page_fault, memoria>>

-------------------------------------------------------------------------------
(* The thread of the FileSystem.  It sleeps between the load of a page and  *)
(* its answer to the Kernel.                                                *)

HiloFileSystem == cargada = NULL
Recibe(op) == HiloFileSystem /\ a_memoria # <<>> /\ Head(a_memoria).op = op

CargarBloquesAsignados(p, lista) ==
  tabla_paginas' = [tabla_paginas EXCEPT ![p] =
    [i \in DOMAIN @ |-> [@[i] EXCEPT !.pos_en_swap = lista[i]]]]

(* Mutant of AsignarPosiciones: sem_control_swap_asign is not posted.       *)
AsignarSinAvisar ==
  LET m == Head(a_memoria) IN
  /\ Recibe("ASIGNADAS")
  /\ Len(m.bloques) = Len(tabla_paginas[m.proceso])
  /\ CargarBloquesAsignados(m.proceso, m.bloques)
  /\ a_memoria' = Tail(a_memoria)
  /\ UNCHANGED <<ALGORITMO_REEMPLAZO, procesos, marcos, orden, espacio_usuario, hilos,
                 a_fs, filesystem, estado, pedidos, memoria>>

AsignarPosiciones ==
  LET m == Head(a_memoria) IN
  /\ Recibe("ASIGNADAS")
  /\ Len(m.bloques) = Len(tabla_paginas[m.proceso])
  /\ CargarBloquesAsignados(m.proceso, m.bloques)
  /\ sem_control_swap_asign' = sem_control_swap_asign + 1
  /\ a_memoria' = Tail(a_memoria)
  /\ UNCHANGED <<ALGORITMO_REEMPLAZO, procesos, marcos, orden, espacio_usuario, creando, cargada,
                 a_fs, filesystem, estado, pedidos, memoria>>

(* "NO COINCIDE la cant_paginas del proceso".                               *)
NoCoincide ==
  /\ Recibe("ASIGNADAS")
  /\ Len(Head(a_memoria).bloques) # Len(tabla_paginas[Head(a_memoria).proceso])
  /\ Caer

LlegaPagina ==
  LET m == Head(a_memoria)
      f == tabla_paginas[m.proceso][m.pagina].nro_marco
  IN
  /\ Recibe("PAGINA")
  /\ m.proceso \in procesos
  /\ espacio_usuario' = [espacio_usuario EXCEPT ![f] = m.contenido]
  /\ orden' = AlFinal(f)
  /\ tabla_paginas' = [tabla_paginas EXCEPT ![m.proceso][m.pagina].presente = TRUE]
  /\ cargada' = m.proceso
  /\ a_memoria' = Tail(a_memoria)
  /\ UNCHANGED <<ALGORITMO_REEMPLAZO, procesos, marcos, sem_control_swap_asign, creando, a_fs,
                 filesystem, estado, pedidos, memoria>>

(* The process was killed while FileSystem read its page.                   *)
LlegaPaginaSinProceso ==
  Recibe("PAGINA") /\ Head(a_memoria).proceso \notin procesos /\ Caer

(* The Kernel frees mutex_manejo_page_fault and wakes the process.          *)
ResponderPageFault ==
  /\ ~HiloFileSystem
  /\ Despertar(cargada, "PAGE_FAULT")
  /\ page_fault' = NULL
  /\ cargada' = NULL
  /\ UNCHANGED <<ALGORITMO_REEMPLAZO, tablas, sem_control_swap_asign, creando, canales,
                 filesystem, fallos, traduccion, memoria>>

(* The frame is copied and sent to be written in the file.  Under LRU the   *)
(* copy itself is taken for a t_marco: with pages of 16 or 32 bytes, those  *)
(* of the configurations, ultimo_uso falls beyond its end.                  *)
CopiarMarco(e) ==
  /\ HiloFileSystem /\ e \in escrituras
  /\ \/ /\ a_fs' = Append(a_fs, MarcoAFs(e.proceso))
        /\ escrituras' = escrituras \ {e}
        /\ UNCHANGED <<ALGORITMO_REEMPLAZO, tablas, hilos, a_memoria, bitmapSWAP, bloques, estado,
                       pedidos, memoria>>
     \/ ALGORITMO_REEMPLAZO = "LRU" /\ Caer

-------------------------------------------------------------------------------
(* The FileSystem serves the messages of Memoria in order.                  *)

Corrida(i, n) == i + n <= CANT_BLOQUES_SWAP /\ \A b \in i..i+n-1 : ~bitmapSWAP[b]
Desde(i, n) == [k \in 1..n |-> i + k - 1]

(* Mutant of SwapObtener: the bits are not looked at.                       *)
ObtenerLosPrimeros(n) == Desde(0, n)

(* swap_obtener_n_cantidad_de_bloques: the first n that follow each other;  *)
(* if there are not, or n is 0, the free ones at the end, however many.     *)
SwapObtener(n) ==
  IF n > 0 /\ \E i \in Bloques : Corrida(i, n)
  THEN Desde(CHOOSE i \in Bloques : Corrida(i, n) /\ \A j \in 0..i-1 : ~Corrida(j, n), n)
  ELSE LET i == CHOOSE i \in 0..CANT_BLOQUES_SWAP :
                  /\ Corrida(i, CANT_BLOQUES_SWAP - i)
                  /\ i > 0 => ~Corrida(i - 1, CANT_BLOQUES_SWAP - i + 1)
       IN Desde(i, CANT_BLOQUES_SWAP - i)

FsAtiende(op) == a_fs # <<>> /\ Head(a_fs).op = op /\ a_fs' = Tail(a_fs)

FsAsignar ==
  LET obtenidos == SwapObtener(Head(a_fs).cant) IN
  /\ FsAtiende("ASIGNAR")
  /\ bitmapSWAP' = [b \in Bloques |-> bitmapSWAP[b] \/ b \in ToSet(obtenidos)]
  /\ a_memoria' = Append(a_memoria, ListaDeBloques(Head(a_fs).proceso, obtenidos))
  /\ UNCHANGED <<ALGORITMO_REEMPLAZO, tablas, hilos, bloques, escrituras, estado, pedidos, memoria>>

ObtenerBloque(pos) == bloques[pos]

ModificarBloque(pos, contenido) ==
  bloques' = [bloques EXCEPT ![pos] = contenido]

SetearComoLibres(liberados) ==
  bitmapSWAP' = [b \in Bloques |-> bitmapSWAP[b] /\ b \notin liberados]

FsCambiarSwap ==
  LET m == Head(a_fs) IN
  /\ \/ FsAtiende("LIBERAR") /\ SetearComoLibres(m.bloques) /\ UNCHANGED bloques
     \/ FsAtiende("GUARDAR") /\ ModificarBloque(m.pos, m.contenido) /\ UNCHANGED bitmapSWAP
  /\ UNCHANGED <<ALGORITMO_REEMPLAZO, tablas, hilos, a_memoria, escrituras, estado, pedidos,
                 memoria>>

FsLeerSwap ==
  LET m == Head(a_fs) IN
  /\ FsAtiende("LECTURA")
  /\ a_memoria' = Append(a_memoria, BloqueAMemoria(m.proceso, m.pagina, ObtenerBloque(m.pos)))
  /\ UNCHANGED <<ALGORITMO_REEMPLAZO, tablas, hilos, filesystem, estado, pedidos, memoria>>

(* The block of the file is written, and the Kernel wakes the process.      *)
FsEscribirBloque ==
  /\ FsAtiende("BLOQUE")
  /\ Despertar(Head(a_fs).proceso, "ARCHIVO")
  /\ UNCHANGED <<ALGORITMO_REEMPLAZO, tablas, hilos, a_memoria, filesystem, pedidos, memoria>>

-------------------------------------------------------------------------------
Acciones ==
  \/ \E p \in Procesos :
       \/ Ejecutar(p) \/ Finalizar(p)
       \/ Desalojar(p, "READY") \/ Desalojar(p, "EXIT")
       \/ IniciarEstructura(p) \/ LiberarEstructura(p)
       \/ PageFault(p) \/ PageFaultSinProceso(p)
       \/ \E i \in DOMAIN tabla_paginas[p] : ConsultarPagina(p, i)
       \/ ConsultarFuera(p)
  \/ ConfirmarCreacion
  \/ Leer \/ Escribir \/ FWrite
  \/ AsignarPosiciones \/ NoCoincide
  \/ LlegaPagina \/ LlegaPaginaSinProceso \/ ResponderPageFault
  \/ \E e \in escrituras : CopiarMarco(e)
  \/ FsAsignar \/ FsCambiarSwap \/ FsLeerSwap \/ FsEscribirBloque

Next == memoria = "VIVA" /\ Acciones

Vive(A) == memoria = "VIVA" /\ A

(* The threads run, and each socket is served in order.                     *)
Justicia ==
  /\ WF_vars(Vive(ConfirmarCreacion))
  /\ WF_vars(Vive(AsignarPosiciones \/ NoCoincide \/ LlegaPagina \/ LlegaPaginaSinProceso))
  /\ WF_vars(Vive(ResponderPageFault))
  /\ WF_vars(Vive(FsAsignar \/ FsCambiarSwap \/ FsLeerSwap \/ FsEscribirBloque))

Spec == Init /\ [][Next]_vars /\ Justicia

-------------------------------------------------------------------------------
Contenidos == {Vacio} \cup UNION {{p} \X (1..Paginas[p]) : p \in Procesos}
Pagina == [presente : BOOLEAN, modificado : BOOLEAN, nro_marco : Marcos \cup {NULL},
           pos_en_swap : Bloques \cup {NULL}]
Estados == {"NEW", "READY", "EXEC", "PAGE_FAULT", "ARCHIVO", "EXIT"}
MensajesAFs ==
  [op : {"ASIGNAR"}, proceso : Procesos, cant : Nat]
  \cup [op : {"LIBERAR"}, bloques : SUBSET Bloques]
  \cup [op : {"GUARDAR"}, pos : Bloques, contenido : Contenidos]
  \cup [op : {"LECTURA"}, proceso : Procesos, pagina : Nat \ {0}, pos : Bloques]
  \cup [op : {"BLOQUE"}, proceso : Procesos]
MensajesAMemoria ==
  [op : {"ASIGNADAS"}, proceso : Procesos, bloques : Seq(Bloques)]
  \cup [op : {"PAGINA"}, proceso : Procesos, pagina : Nat \ {0}, contenido : Contenidos]

(* Types of the tables, the frames, swap, the messages and the requests.    *)
TypeOK ==
  /\ ALGORITMO_REEMPLAZO \in Algoritmos
  /\ procesos \subseteq Procesos
  /\ tabla_paginas \in [Procesos -> Seq(Pagina)]
  /\ marcos \in [Marcos -> [libre : BOOLEAN, info_new : Contenidos]]
  /\ orden \in Seq(Marcos)
  /\ espacio_usuario \in [Marcos -> Contenidos]
  /\ sem_control_swap_asign \in 0..1
  /\ {creando, cargada, page_fault} \subseteq Procesos \cup {NULL}
  /\ a_fs \in Seq(MensajesAFs) /\ a_memoria \in Seq(MensajesAMemoria)
  /\ bitmapSWAP \in [Bloques -> BOOLEAN]
  /\ bloques \in [Bloques -> Contenidos]
  /\ escrituras \subseteq [proceso : Procesos, nro_marco : Marcos]
  /\ estado \in [Procesos -> Estados]
  /\ fallos \in [Procesos -> Nat \cup {NULL}]
  /\ traduccion = NULL \/ /\ traduccion.proceso \in Procesos
                          /\ traduccion.pagina \in 1..Paginas[traduccion.proceso]
                          /\ traduccion.nro_marco \in Marcos
  /\ memoria \in {"VIVA", "CAIDA"}

(* A page in memory has its frame to itself: no other page in memory is in  *)
(* it, and its info_new is that page (atender_pagefault_kernel,             *)
(* evaluar_si_esta_o_no_el_bit_modificado_del_marco, liberar_marco).        *)
MarcosExclusivos ==
  \A p \in procesos : \A i \in DOMAIN tabla_paginas[p] :
    tabla_paginas[p][i].presente =>
      marcos[tabla_paginas[p][i].nro_marco] = [libre |-> FALSE, info_new |-> <<p, i>>]

EnCamino(p, i) ==
  \E m \in ToSet(a_fs) \cup ToSet(a_memoria) :
    m.op \in {"LECTURA", "PAGINA"} /\ m.proceso = p /\ m.pagina = i

(* No frame is lost: a used one holds a page in memory or waits for one on  *)
(* its way from swap.  So the page that a victim loses is one of a process  *)
(* that exists (marcos.c:123 would read freed memory).                      *)
SinMarcosPerdidos ==
  \A f \in Marcos : ~marcos[f].libre =>
    LET p == marcos[f].info_new[1]  i == marcos[f].info_new[2] IN
    \/ p \in procesos /\ tabla_paginas[p][i].presente /\ tabla_paginas[p][i].nro_marco = f
    \/ EnCamino(p, i)

(* When no frame is free all of them have an order: the exit of             *)
(* elegir_victima_segun_algoritmo is not reached, nor a NULL ultimo_uso.    *)
VictimaElegible == ~HayLibre => ToSet(orden) = Marcos

PorLiberar == UNION {m.bloques : m \in {n \in ToSet(a_fs) : n.op = "LIBERAR"}}
Posiciones(p) == {tabla_paginas[p][i].pos_en_swap : i \in DOMAIN tabla_paginas[p]} \ {NULL}

(* The swap of a process is its own: no other process has a position of it, *)
(* the FileSystem has it as used, and no message on its way frees it.       *)
SwapExclusivo ==
  \A p \in procesos :
    /\ \A q \in procesos \ {p} : Posiciones(p) \cap Posiciones(q) = {}
    /\ \A b \in Posiciones(p) : bitmapSWAP[b] /\ b \notin PorLiberar
    /\ Cardinality(Posiciones(p)) \in {0, Len(tabla_paginas[p])}

(* What the FileSystem is asked to read from swap is still the page's when  *)
(* it reads it: the order to free it comes after.                           *)
LecturaAntesDeLiberar ==
  \A k \in DOMAIN a_fs : a_fs[k].op = "LECTURA" =>
    /\ a_fs[k].pos \in Bloques /\ bitmapSWAP[a_fs[k].pos]
    /\ \A j \in 1..k-1 : a_fs[j].op = "LIBERAR" => a_fs[k].pos \notin a_fs[j].bloques

(* While Memoria lives, every creation is confirmed, and the Kernel's mutex *)
(* is released after every page fault: none of the three threads waits for  *)
(* ever for the others (sem_control_swap_asign, mutex_manejo_page_fault).   *)
EsperasTerminan ==
  /\ creando # NULL ~> creando = NULL \/ memoria = "CAIDA"
  /\ page_fault # NULL ~> page_fault = NULL \/ memoria = "CAIDA"

===============================================================================
