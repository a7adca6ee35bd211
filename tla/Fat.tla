--------------------------------- MODULE Fat ---------------------------------
(***************************************************************************)
(* FileSystem: the FCBs and the file allocation table.  Each request of    *)
(* the Kernel is served by a detached thread of its own, with no mutex     *)
(* over FCBs or FAT, and each access to an entry of the FAT is followed by *)
(* a sleep: an action here is what a thread does between two sleeps.       *)
(*                                                                         *)
(* The FAT is a shared mapping of a file and outlives the FileSystem; the  *)
(* FCBs on disk are written and never read back, so a restart finds the    *)
(* FAT as it was and no file.  A null pointer, or an index outside the     *)
(* FAT, ends the program: filesystem = "CAIDO".                            *)
(*                                                                         *)
(* Each requesting process waits for its answer, so Hilos bounds the       *)
(* processes that ask at one time.  The F_READ handler walks the FAT as    *)
(* the F_WRITE one and is never called: the Kernel sends F_WRITE for both. *)
(***************************************************************************)
EXTENDS Integers, Sequences, FiniteSets, SequencesExt

CONSTANTS
  Hilos,
  Nombres,
  CANT_BLOQUES,         (* CANT_BLOQUES_TOTAL - CANT_BLOQUES_SWAP           *)
  TAM_BLOQUE,
  Tamanios,             (* arguments of F_TRUNCATE                          *)
  Punteros,             (* positions of F_WRITE                             *)
  MaxPedidos,           (* bound: requests of the Kernel                    *)
  MaxReinicios,         (* bound: restarts of the FileSystem                *)
  NULL

Bloques == 0..CANT_BLOQUES-1
EOF_FS == -1          (* UINT32_MAX                                         *)
Basura == -2          (* bloque_inicial as malloc left it                   *)
Fuera == -3           (* any number that is not an entry of the FAT         *)

Fcbs == [tamanio : Nat, bloque_inicial : Bloques \cup {Basura}]

ASSUME ConstantesFat ==
  /\ IsFiniteSet(Hilos) /\ IsFiniteSet(Nombres) /\ NULL \notin Nombres \cup Fcbs
  /\ CANT_BLOQUES \in Nat \ {0} /\ TAM_BLOQUE \in Nat \ {0}
  /\ Tamanios \subseteq Nat /\ Punteros \subseteq Nat /\ MaxReinicios \in Nat /\ MaxPedidos \in Nat

VARIABLES
  tabla_fat,            (* tablaFatEnMemoria                                *)
  fcbs,                 (* lista_struct_fcbs: the FCB of each file, or NULL *)
  hilo,                 (* the request each thread serves, and its locals   *)
  filesystem,           (* "VIVO", or "CAIDO"                               *)
  pedidos, reinicios,   (* how many requests and restarts, for the bounds   *)
  historia              (* of what ran at the same time since the last      *)
                        (* restart, for the properties: see Mezcla          *)

contadores == <<pedidos, reinicios>>
vars == <<tabla_fat, fcbs, hilo, filesystem, contadores, historia>>

Libre == [op |-> "LIBRE", archivo |-> NULL, arg |-> 0, viejo |-> 0, pc |-> "FIN", rama |-> NULL,
          bloque |-> 0, unico |-> TRUE, i |-> 0, cant |-> 0, lista |-> <<>>]

Historias == [encimadas : BOOLEAN, archivos : SUBSET Nombres]
SinHistoria == [encimadas |-> FALSE, archivos |-> {}]

Init ==
  /\ tabla_fat = [b \in Bloques |-> IF b = 0 THEN EOF_FS ELSE 0]
  /\ fcbs = [f \in Nombres |-> NULL]
  /\ hilo = [h \in Hilos |-> Libre]
  /\ filesystem = "VIVO"
  /\ pedidos = 0 /\ reinicios = 0
  /\ historia = SinHistoria
------------------------------------------------------------------------------
Existe(f) == fcbs[f] # NULL
Sirve(h, op, pc) == filesystem = "VIVO" /\ hilo[h].op = op /\ hilo[h].pc = pc
Sigue(h, nuevo) == hilo' = [hilo EXCEPT ![h] = nuevo]

(* What obtener_fcb(...)->bloque_inicial can be when it is read.             *)
Inicial(f) == IF fcbs[f].bloque_inicial = Basura THEN Bloques \cup {Fuera}
              ELSE {fcbs[f].bloque_inicial}

(* A null pointer, or an index out of the table: the threads and the FCBs in *)
(* memory are gone, the FAT keeps what it had.                               *)
Caer ==
  /\ filesystem' = "CAIDO"
  /\ hilo' = [t \in Hilos |-> Libre]
  /\ fcbs' = [f \in Nombres |-> NULL]
Vive == UNCHANGED <<fcbs, filesystem>>

(* Two truncations at the same time take the same free blocks, and may leave *)
(* two files that share them, or a chain through a free block that a third   *)
(* file takes later: encimadas, and nothing is promised of any file.  A      *)
(* write that runs while its file is truncated, or that starts from an unset *)
(* bloque_inicial, only goes astray itself: archivos has its file.           *)
Mezcla(h, op, f) ==
  LET otros == {o \in Hilos \ {h} : hilo[o] # Libre /\ "F_TRUNCATE" \in {op, hilo[o].op}}
      extraviado == \/ op = "F_WRITE" /\ fcbs[f].bloque_inicial = Basura
                    \/ \E o \in otros : hilo[o].archivo = f
  IN  [encimadas |-> historia.encimadas \/ \E o \in otros : hilo[o].op = op,
       archivos |-> historia.archivos \cup (IF extraviado THEN {f} ELSE {})]
------------------------------------------------------------------------------
(* F_OPEN of a file without FCB: it has been answered -1 to ABRIR_ARCHIVO,   *)
(* and the Kernel asks for CREAR_ARCHIVO.  It asks for one file at a time.   *)
CrearFcb(f) ==
  /\ filesystem = "VIVO" /\ ~Existe(f)
  /\ fcbs' = [fcbs EXCEPT ![f] = [tamanio |-> 0, bloque_inicial |-> Basura]]
  /\ UNCHANGED <<tabla_fat, hilo, filesystem, contadores, historia>>

(* The Kernel asks for a file that a process has open: a thread takes the    *)
(* request.                                                                  *)
Pide(h, op, f) ==
  /\ filesystem = "VIVO" /\ hilo[h] = Libre /\ Existe(f) /\ pedidos < MaxPedidos
  /\ pedidos' = pedidos + 1
  /\ historia' = Mezcla(h, op, f)
------------------------------------------------------------------------------
(* F_TRUNCATE: the new size is in the FCB before anything else is done.      *)
Truncar(h, f, n) ==
  /\ Pide(h, "F_TRUNCATE", f)
  /\ fcbs' = [fcbs EXCEPT ![f].tamanio = n]
  /\ Sigue(h, [Libre EXCEPT !.op = "F_TRUNCATE", !.archivo = f, !.arg = n,
                            !.viejo = fcbs[f].tamanio, !.pc = "ELEGIR"])
  /\ UNCHANGED <<tabla_fat, filesystem, reinicios>>

(* obtener_secuencia_de_bloques_de_archivo has reached b.  All the elements  *)
(* of its list are one integer, the last block; of its length the callers    *)
(* only tell whether it is one.                                              *)
Alcanza(h, b, unico, rama, cant) ==
  Sigue(h, [hilo[h] EXCEPT !.bloque = b, !.unico = unico, !.rama = rama, !.cant = cant, !.i = 0,
              !.pc = IF tabla_fat[b] # EOF_FS THEN "SECUENCIA"
                     ELSE IF rama = "MAS" THEN "BUSCAR" ELSE "REDUCIR"])

(* Grow from nothing, grow, shrink, or leave the blocks as they are.         *)
Elegir(h) ==
  LET f == hilo[h].archivo
      nuevos == hilo[h].arg \div TAM_BLOQUE
      viejos == hilo[h].viejo \div TAM_BLOQUE
      cantidad == fcbs[f].tamanio \div TAM_BLOQUE
      crece == hilo[h].arg > hilo[h].viejo
      deCero == crece /\ hilo[h].viejo = 0
  IN  /\ Sirve(h, "F_TRUNCATE", "ELEGIR")
      /\ \/ /\ deCero /\ cantidad > 0
            /\ Sigue(h, [hilo[h] EXCEPT !.rama = "CERO", !.cant = cantidad, !.pc = "BUSCAR"])
            /\ Vive
         \/ /\ deCero /\ cantidad = 0
            /\ Caer
         \/ /\ ~deCero /\ nuevos # viejos
            /\ \E b \in Inicial(f) :
                 IF b \notin Bloques
                 THEN Caer
                 ELSE /\ IF crece THEN Alcanza(h, b, TRUE, "MAS", nuevos - viejos)
                                  ELSE Alcanza(h, b, TRUE, "MENOS", viejos - nuevos)
                      /\ Vive
         \/ /\ ~deCero /\ nuevos = viejos
            /\ Sigue(h, [hilo[h] EXCEPT !.pc = "RESPONDER"])
            /\ Vive
      /\ UNCHANGED <<tabla_fat, contadores, historia>>

Secuencia(h) ==
  LET b == tabla_fat[hilo[h].bloque]
  IN  /\ Sirve(h, "F_TRUNCATE", "SECUENCIA")
      /\ IF b \notin Bloques
         THEN Caer
         ELSE Alcanza(h, b, FALSE, hilo[h].rama, hilo[h].cant) /\ Vive
      /\ UNCHANGED <<tabla_fat, contadores, historia>>

(* obtener_n_cantidad_de_bloques_libres_de_tabla_fat: one entry looked at.   *)
(* If there are not enough the list is NULL, and the caller follows it.      *)
MirarEntrada(h) ==
  LET t == hilo[h]
      lista == IF tabla_fat[t.i] = 0 THEN Append(t.lista, t.i) ELSE t.lista
  IN  IF Len(lista) < t.cant /\ t.i + 1 = CANT_BLOQUES
      THEN Caer
      ELSE /\ Sigue(h, IF Len(lista) < t.cant
                       THEN [t EXCEPT !.lista = lista, !.i = @ + 1]
                       ELSE [t EXCEPT !.lista = lista, !.i = 1, !.pc = "ENLAZAR"])
           /\ Vive

Buscar(h) ==
  /\ Sirve(h, "F_TRUNCATE", "BUSCAR")
  /\ MirarEntrada(h)
  /\ UNCHANGED <<tabla_fat, contadores, historia>>

(* The i-th of the new blocks is linked; with the first one, if the file had *)
(* others, the last of those.                                                *)
EnlazarYFijar(h) ==
  LET t == hilo[h]
      ultimo == t.i = Len(t.lista)
      enlace == [tabla_fat EXCEPT ![t.lista[t.i]] = IF ultimo THEN EOF_FS ELSE t.lista[t.i + 1]]
  IN  /\ Sirve(h, "F_TRUNCATE", "ENLAZAR")
      /\ tabla_fat' = IF t.rama = "MAS" /\ t.i = 1 /\ t.bloque # t.lista[1]
                      THEN [enlace EXCEPT ![t.bloque] = t.lista[1]]
                      ELSE enlace
      /\ Sigue(h, [t EXCEPT !.i = @ + 1, !.pc = IF ultimo THEN "FIJAR" ELSE "ENLAZAR"])
      /\ UNCHANGED <<fcbs, filesystem, contadores, historia>>

Enlazar(h) ==
  LET t == hilo[h]
      ultimo == t.i = Len(t.lista)
      enlace == [tabla_fat EXCEPT ![t.lista[t.i]] = IF ultimo THEN EOF_FS ELSE t.lista[t.i + 1]]
  IN  /\ Sirve(h, "F_TRUNCATE", "ENLAZAR")
      /\ tabla_fat' = IF t.rama = "MAS" /\ t.i = 1 /\ t.bloque # t.lista[1]
                      THEN [enlace EXCEPT ![t.bloque] = t.lista[1]]
                      ELSE enlace
      /\ Sigue(h, [t EXCEPT !.i = @ + 1,
                            !.pc = IF ~ultimo THEN "ENLAZAR"
                                   ELSE IF t.rama = "CERO" THEN "FIJAR" ELSE "RESPONDER"])
      /\ UNCHANGED <<fcbs, filesystem, contadores, historia>>

Fijar(h) ==
  /\ Sirve(h, "F_TRUNCATE", "FIJAR")
  /\ fcbs' = [fcbs EXCEPT ![hilo[h].archivo].bloque_inicial = hilo[h].lista[1]]
  /\ Sigue(h, [hilo[h] EXCEPT !.pc = "RESPONDER"])
  /\ UNCHANGED <<tabla_fat, filesystem, contadores, historia>>

(* reducir_nro_de_bloques...: each turn empties the last block, and takes as *)
(* the next one the previous element of the list: the last block again, or   *)
(* NULL if the list has one element.  At the end the block is the EOF again. *)
Reducir(h) ==
  LET t == hilo[h]
  IN  /\ Sirve(h, "F_TRUNCATE", "REDUCIR")
      /\ \/ /\ t.cant > 0
            /\ tabla_fat' = [tabla_fat EXCEPT ![t.bloque] = 0]
            /\ IF t.unico
               THEN Caer
               ELSE Sigue(h, [t EXCEPT !.cant = @ - 1]) /\ Vive
         \/ /\ t.cant = 0
            /\ tabla_fat' = [tabla_fat EXCEPT ![t.bloque] = EOF_FS]
            /\ Sigue(h, [t EXCEPT !.pc = "RESPONDER"])
            /\ Vive
      /\ UNCHANGED <<contadores, historia>>

(* The answer; then list_is_empty of a list that only the growth from        *)
(* nothing has set.                                                          *)
Responder(h) ==
  /\ Sirve(h, "F_TRUNCATE", "RESPONDER")
  /\ \/ Sigue(h, Libre) /\ Vive
     \/ hilo[h].rama # "CERO" /\ Caer
  /\ UNCHANGED <<tabla_fat, contadores, historia>>
------------------------------------------------------------------------------
(* F_WRITE: the block of the position, counted along the chain.              *)
BuscarBloqueRedondeando(h, f, n) ==
  LET saltos == (n + TAM_BLOQUE - 1) \div TAM_BLOQUE
  IN  /\ Pide(h, "F_WRITE", f)
      /\ \E b \in Inicial(f) :
           IF b \notin Bloques
           THEN Caer
           ELSE /\ Sigue(h, [Libre EXCEPT !.op = "F_WRITE", !.archivo = f, !.arg = n,
                               !.bloque = b, !.cant = saltos,
                               !.pc = IF saltos = 0 THEN "EN_MEMORIA" ELSE "DESPLAZAR"])
                /\ Vive
      /\ UNCHANGED <<tabla_fat, reinicios>>

BuscarBloque(h, f, n) ==
  LET saltos == n \div TAM_BLOQUE
  IN  /\ Pide(h, "F_WRITE", f)
      /\ \E b \in Inicial(f) :
           IF b \notin Bloques
           THEN Caer
           ELSE /\ Sigue(h, [Libre EXCEPT !.op = "F_WRITE", !.archivo = f, !.arg = n,
                               !.bloque = b, !.cant = saltos,
                               !.pc = IF saltos = 0 THEN "EN_MEMORIA" ELSE "DESPLAZAR"])
                /\ Vive
      /\ UNCHANGED <<tabla_fat, reinicios>>

Desplazar(h) ==
  LET t == hilo[h]
      b == tabla_fat[t.bloque]
  IN  /\ Sirve(h, "F_WRITE", "DESPLAZAR")
      /\ IF t.cant > 1 /\ b \notin Bloques
         THEN Caer
         ELSE /\ Sigue(h, [t EXCEPT !.bloque = b, !.cant = @ - 1,
                                    !.pc = IF t.cant = 1 THEN "EN_MEMORIA" ELSE "DESPLAZAR"])
              /\ Vive
      /\ UNCHANGED <<tabla_fat, contadores, historia>>

(* Memoria has sent the frame, with the number of block it was asked with:   *)
(* modificar_bloque, and the answer.                                         *)
Escribir(h) ==
  /\ Sirve(h, "F_WRITE", "EN_MEMORIA")
  /\ IF hilo[h].bloque \in Bloques
     THEN Sigue(h, Libre) /\ Vive
     ELSE Caer
  /\ UNCHANGED <<tabla_fat, contadores, historia>>
------------------------------------------------------------------------------
(* After a fall, or when the Kernel disconnects, at any moment.              *)
ReiniciarSinReservar ==
  /\ reinicios < MaxReinicios
  /\ filesystem' = "VIVO"
  /\ reinicios' = reinicios + 1
  /\ UNCHANGED <<tabla_fat, pedidos>>
  /\ fcbs' = [f \in Nombres |-> NULL]
  /\ hilo' = [h \in Hilos |-> Libre]
  /\ historia' = SinHistoria

Reiniciar ==
  /\ reinicios < MaxReinicios
  /\ filesystem' = "VIVO"
  /\ reinicios' = reinicios + 1
  /\ UNCHANGED pedidos
  /\ tabla_fat' = [tabla_fat EXCEPT ![0] = EOF_FS]
  /\ fcbs' = [f \in Nombres |-> NULL]
  /\ hilo' = [h \in Hilos |-> Libre]
  /\ historia' = SinHistoria

Hilo(h) ==
  \/ Elegir(h) \/ Secuencia(h) \/ Buscar(h) \/ Enlazar(h) \/ Fijar(h)
  \/ Reducir(h) \/ Responder(h)
  \/ Desplazar(h) \/ Escribir(h)

Next ==
  \/ \E f \in Nombres : CrearFcb(f)
  \/ \E h \in Hilos, f \in Nombres, n \in Tamanios : Truncar(h, f, n)
  \/ \E h \in Hilos, f \in Nombres, n \in Punteros : BuscarBloque(h, f, n)
  \/ \E h \in Hilos : Hilo(h)
  \/ Reiniciar

Spec == Init /\ [][Next]_vars
------------------------------------------------------------------------------
(* The blocks of f in order, as far as the table can be followed.            *)
Alargar(s) ==
  LET x == tabla_fat[s[Len(s)]]
  IN  IF x \in Bloques \ {0} THEN Append(s, x) ELSE s

Recorrido(b) ==
  LET tras[n \in 0..CANT_BLOQUES] == IF n = 0 THEN <<b>> ELSE Alargar(tras[n - 1])
  IN  tras[CANT_BLOQUES]

ConBloques(f) == Existe(f) /\ fcbs[f].bloque_inicial \in Bloques
Cadena(f) == IF ConBloques(f) THEN Recorrido(fcbs[f].bloque_inicial) ELSE <<>>

Truncando(f) == \E h \in Hilos :
  hilo[h].op = "F_TRUNCATE" /\ hilo[h].archivo = f

EnPaz(f) == Existe(f) /\ ~Truncando(f)

(* The types of the state: what the FAT, the FCBs and the threads hold.       *)
Hilados ==
  [op : {"LIBRE", "F_TRUNCATE", "F_WRITE"}, archivo : Nombres \cup {NULL},
   arg : Nat, viejo : Nat,
   pc : {"FIN", "ELEGIR", "SECUENCIA", "BUSCAR", "ENLAZAR", "FIJAR", "REDUCIR", "RESPONDER",
         "DESPLAZAR", "EN_MEMORIA"},
   rama : {NULL, "CERO", "MAS", "MENOS"}, bloque : Bloques \cup {EOF_FS}, unico : BOOLEAN,
   i : Nat, cant : Nat, lista : Seq(Bloques)]

TypeOK ==
  /\ tabla_fat \in [Bloques -> Bloques \cup {EOF_FS}]
  /\ fcbs \in [Nombres -> Fcbs \cup {NULL}]
  /\ hilo \in [Hilos -> Hilados]
  /\ filesystem \in {"VIVO", "CAIDO"} /\ reinicios \in 0..MaxReinicios /\ pedidos \in 0..MaxPedidos
  /\ historia \in Historias

(* As long as no two truncations have run at the same time since the         *)
(* FileSystem started, a file that is not being truncated has a chain that   *)
(* ends, does not go twice through a block, leaves block 0 alone, has all    *)
(* the blocks its size needs, and shares none with any other file, however   *)
(* writes and truncations of other files come between, and however many      *)
(* times the FileSystem fell and started again with the same FAT, the ones   *)
(* that two truncations damaged included.  The code does not stop two        *)
(* truncations from running together: then it is false, of any file.         *)
CadenasSanas ==
  ~historia.encimadas => \A f \in Nombres : EnPaz(f) =>
    LET c == Cadena(f)
    IN  /\ Len(c) >= fcbs[f].tamanio \div TAM_BLOQUE
        /\ IsInjective(c) /\ 0 \notin ToSet(c)
        /\ c # <<>> => tabla_fat[Last(c)] = EOF_FS
        /\ \A g \in Nombres \ {f} : ToSet(c) \cap ToSet(Cadena(g)) = {}

(* The data of f: the positions below its size, or below the smaller of its  *)
(* sizes while a truncation changes it.                                      *)
ConDatos(f) ==
  LET tamanios == {fcbs[f].tamanio} \cup
        {hilo[h].viejo : h \in {t \in Hilos : hilo[t].op = "F_TRUNCATE" /\ hilo[t].archivo = f}}
  IN  (CHOOSE n \in tamanios : \A m \in tamanios : n <= m) \div TAM_BLOQUE

(* As long as no two truncations have run at the same time, no step of any   *)
(* thread moves or cuts off the data a file keeps: not the truncation of the *)
(* file while it grows or shrinks, nor the requests of others.               *)
DatosQuietos ==
  [][~historia'.encimadas =>
       \A f \in Nombres : Existe(f) /\ Existe(f)' =>
         LET n == IF ConDatos(f) < ConDatos(f)' THEN ConDatos(f) ELSE ConDatos(f)'
         IN  SubSeq(Cadena(f), 1, n) = SubSeq(Cadena(f)', 1, n)]_vars

(* The frame that Memoria sends back lands in the block of the position that *)
(* was asked for, if it is in a whole block of the file, nobody truncates it *)
(* while it is written, and no two truncations have run at the same time.    *)
(* What is left of a size over its whole blocks has no block.                *)
EscribeEnLoSuyo ==
  ~historia.encimadas => \A h \in Hilos :
    LET f == hilo[h].archivo
    IN  ( /\ hilo[h].pc = "EN_MEMORIA" /\ EnPaz(f) /\ f \notin historia.archivos
         /\ hilo[h].arg \div TAM_BLOQUE < fcbs[f].tamanio \div TAM_BLOQUE )
          => /\ Len(Cadena(f)) > hilo[h].arg \div TAM_BLOQUE
             /\ hilo[h].bloque = Cadena(f)[hilo[h].arg \div TAM_BLOQUE + 1]
==============================================================================
