------------------------------ MODULE Cpu_proofs ------------------------------
(***************************************************************************)
(* Theorems about Cpu, for any programs, any number of processes and of    *)
(* threads and any word: until a thread installs its contexto before the   *)
(* one told -1 has left, one thread at a time works on the global contexto *)
(* and never without one, the turn of the process in EXEC is in one place, *)
(* neither lost nor doubled, and each process computes what it would alone. *)
(***************************************************************************)
EXTENDS Cpu, Listas_proofs, FiniteSetTheorems

-------------------------------------------------------------------------------
(* The inductive invariant.                                                 *)

(* hay_que_desalojar_sin_mensaje: told -1, the CPU is to leave its process. *)
Callado == hay_que_desalojar_sin_mensaje

(* A thread works for the process in EXEC, or is about to: its answer has   *)
(* been posted.                                                             *)
Trabaja ==
  ~Callado /\ (semaforos["respuesta"] > 0 \/ \E h \in Despiertos : ~En(h, "DESTRUYE"))

(* The Kernel has been asked, or has answered, and no thread knows it yet.  *)
Pregunta == \E k \in DOMAIN a_kernel : a_kernel[k].motivo \in Sincronicas
Contesta == \E k \in DOMAIN a_cpu : ~Despachado(a_cpu[k])

(* Nothing is twice on its way or at work.                                  *)
Unicos ==
  /\ \A k \in DOMAIN a_cpu : ~Despachado(a_cpu[k]) => k = 1
  /\ \A j, k \in EnCamino : j = k
  /\ \A j, k \in DOMAIN a_kernel : j = k
  /\ \A g, h \in Naciendo : g = h
  /\ \A g, h \in Despiertos : g = h
  /\ semaforos["respuesta"] <= 1
  /\ semaforos["respuesta"] > 0 => Despiertos = {}

(* The turn, while somebody is in EXEC: going to the CPU, being born,       *)
(* coming back to the Kernel, or at work.                                   *)
Turno ==
  /\ en_exec # NULL => EnCamino # {} \/ Naciendo # {} \/ a_kernel # <<>> \/ Trabaja
  /\ EnCamino # {} => en_exec # NULL /\ Naciendo = {} /\ a_kernel = <<>> /\ ~Trabaja
  /\ Naciendo # {} => en_exec # NULL /\ a_kernel = <<>> /\ ~Trabaja
  /\ a_kernel # <<>> => en_exec # NULL /\ ~Trabaja
  /\ Trabaja => en_exec # NULL

(* While the Kernel is to answer, or has, no thread touches the contexto    *)
(* that the one which asked left.                                           *)
Espera ==
  /\ Pregunta \/ Contesta \/ semaforos["respuesta"] > 0 =>
       Despiertos = {} /\ contexto \in Contextos
  /\ Contesta => semaforos["respuesta"] = 0 /\ a_kernel = <<>> /\ Naciendo = {} /\ ~Callado
  /\ Callado =>
       a_kernel = <<>> /\ \A h \in Despiertos : hilos[h].paso \in {"REVISA", "SALE", "DESTRUYE"}
  /\ mutex_manejo_contexto = NULL => \A h \in Hilos : ~En(h, "DESTRUYE")

(* Whose context is where.                                                  *)
Duenos ==
  /\ \A p \in Procesos : pcb[p].pid = p
  /\ \A k \in DOMAIN a_kernel : a_kernel[k].contexto.pid = en_exec
  /\ \A k \in DOMAIN a_cpu : Despachado(a_cpu[k]) => a_cpu[k].contexto.pid = en_exec
  /\ \A h \in Naciendo : hilos[h].buffer \in Contextos /\ hilos[h].buffer.pid = en_exec
  /\ Despiertos # {} => contexto \in Contextos
  /\ Trabaja \/ Pregunta \/ (\E k \in DOMAIN a_cpu : a_cpu[k].estado = 1) =>
       contexto.pid = en_exec

(* What is executed has been fetched.                                       *)
Leida ==
  instruccion \in Instruccion
    \/ ( /\ semaforos["decode"] = 0
         /\ \A h \in Hilos : hilos[h].paso \notin {"EJECUTA", "MMU", "LECTURA", "ESCRITURA"} )

(* Why a process leaves is known when it does.                              *)
Salida ==
  /\ hay_que_desalojar => mochila \in Motivos
  /\ interruptFlag => interrupcion \in Interrupciones

Nucleo == Unicos /\ Turno /\ Espera /\ Duenos

(* Once two threads have shared contexto only the types are left.           *)
Inv == TypeOK /\ Leida /\ Salida /\ (cpu = "VIVA" => Nucleo)

-------------------------------------------------------------------------------
(* Types.                                                                   *)

(* A word is what is left of a sum when it goes over.                       *)
LEMMA RestoEsPalabra ==
  ASSUME NEW n \in Int
  PROVE  n % MODULO \in Palabras
BY ConstantesCpu, SMT DEF Palabras

(* What an instruction without requests leaves in contexto.                 *)
LEMMA CalcularDaContexto ==
  ASSUME NEW c \in Contextos, NEW i \in Instruccion, i.op \in Simples
  PROVE  Calcular(i, c) \in Contextos /\ Calcular(i, c).pid = c.pid
<1>1. /\ i.r \in Registros /\ i.r2 \in Registros /\ i.n \in Nat
      /\ c.ip \in Nat /\ c.ip + 1 \in Nat
      /\ c.reg[i.r] \in Int /\ c.reg[i.r2] \in Int
  BY ConstantesCpu DEF Instruccion, Contextos, Palabras
<1> DEFINE sum == c.reg[i.r] + c.reg[i.r2]
           sub == c.reg[i.r] - c.reg[i.r2]
           Asignado(v) == [c EXCEPT !.ip = c.ip + 1, !.reg[i.r] = v]
<1>2. i.n \in Int /\ sum \in Int /\ sub \in Int
  BY <1>1
<1>3. \A v \in Palabras : Asignado(v) \in Contextos /\ Asignado(v).pid = c.pid
  BY <1>1 DEF Contextos
<1>4. CASE i.op = "SET"
  <2>1. Calcular(i, c) = Asignado(i.n % MODULO)
    BY <1>4, Zenon DEF Calcular
  <2> HIDE DEF Asignado
  <2> QED BY <2>1, <1>2, <1>3, RestoEsPalabra
<1>5. CASE i.op = "SUM"
  <2>1. Calcular(i, c) = Asignado(sum % MODULO)
    BY <1>5 DEF Calcular
  <2> HIDE DEF sum, Asignado
  <2> QED BY <2>1, <1>2, <1>3, RestoEsPalabra
<1>6. CASE i.op = "SUB"
  <2>1. Calcular(i, c) = Asignado(sub % MODULO)
    BY <1>6 DEF Calcular
  <2> HIDE DEF sub, Asignado
  <2> QED BY <2>1, <1>2, <1>3, RestoEsPalabra
<1>7. CASE i.op = "JNZ"
  <2> DEFINE ip == IF c.reg[i.r] # 0 THEN i.n ELSE c.ip + 1
  <2>1. Calcular(i, c) = [c EXCEPT !.ip = ip]
    BY <1>7 DEF Calcular
  <2>2. ip \in Nat
    BY <1>1
  <2> HIDE DEF ip
  <2> QED BY <2>1, <2>2 DEF Contextos
<1> QED BY <1>4, <1>5, <1>6, <1>7 DEF Simples

LEMMA CargarDaContexto ==
  ASSUME NEW c \in Contextos, NEW i \in Instruccion, NEW v \in Palabras
  PROVE  Cargar(i, c, v) \in Contextos /\ Cargar(i, c, v).pid = c.pid
BY DEF Cargar, Contextos, Instruccion

LEMMA AvanzarDaContexto ==
  ASSUME contexto \in Contextos, AvanzarIp
  PROVE  contexto' \in Contextos /\ contexto'.pid = contexto.pid
BY DEF AvanzarIp, Contextos

-------------------------------------------------------------------------------
(* Every step keeps the types, and knows why a process leaves.              *)

LEMMA TiposAlIniciar == Init => TypeOK /\ Leida /\ Salida
<1> SUFFICES ASSUME Init
             PROVE  TypeOK /\ Leida /\ Salida
  OBVIOUS
<1>1. 0 \in Palabras
  BY ConstantesCpu DEF Palabras
<1>2. \A p \in Procesos : ContextoInicial(p) \in Contextos
  BY <1>1 DEF ContextoInicial, Contextos
<1>3. hilos \in [Hilos -> [paso : Pasos, buffer : Contextos \cup {NULL}]]
  BY DEF Init, HiloLibre, Pasos
<1>4. pcb \in [Procesos -> Contextos]
  BY <1>2 DEF Init
<1>5. MaxHilos \in Nat /\ semaforos \in [Semaforos -> Nat] /\ semaforos["decode"] = 0
  BY ConstantesCpu DEF Init, Semaforos
<1>6. a_cpu \in Seq(MensajesACpu) /\ a_kernel \in Seq(MensajesAKernel)
  BY DEF Init
<1>7. a_interrupt \in Seq(Interrupciones) /\ a_memoria \in Seq(PedidosAMemoria)
  BY DEF Init
<1>8. Leida
  BY <1>5 DEF Init, Leida, HiloLibre
<1> QED BY <1>1, <1>3, <1>4, <1>5, <1>6, <1>7, <1>8 DEF Init, TypeOK, Salida

(* The thread of a process: what it goes on to do.                          *)
LEMMA IrATipos ==
  ASSUME TypeOK, NEW h \in Hilos, NEW x \in Pasos, IrA(h, x)
  PROVE  hilos' \in [Hilos -> [paso : Pasos, buffer : Contextos \cup {NULL}]]
BY DEF TypeOK, IrA

LEMMA PedirTipos ==
  ASSUME TypeOK, contexto # NULL, NEW v \in Palabras,
         NEW op \in {"PETICION_DE_INSTRUCCIONES_CM", "CONSULTA_DE_PAGINA_CM",
                     "LECTURA_BLOQUE_CM", "ESCRITURA_BLOQUE_CM"},
         PedirAMemoria(op, v)
  PROVE  a_memoria' \in Seq(PedidosAMemoria)
<1>1. contexto.pid \in Procesos /\ contexto.ip \in Nat
  BY DEF TypeOK, Contextos
<1> QED BY <1>1 DEF TypeOK, PedirAMemoria, PedidosAMemoria

LEMMA CicloTipos ==
  ASSUME TypeOK, Leida, Salida, NEW h \in Hilos, Ciclo(h)
  PROVE  TypeOK' /\ Salida'
<1> USE DEF Viva, En, globales, interrup, salida, respuestas, sockets, memoria, kernel
<1>0. 0 \in Palabras
  BY ConstantesCpu DEF Palabras
<1>1. CASE Instalar(h)
  <2>1. hilos' \in [Hilos -> [paso : Pasos, buffer : Contextos \cup {NULL}]]
    BY <1>1 DEF Instalar, TypeOK, Pasos
  <2> QED BY <1>1, <2>1 DEF Instalar, TypeOK, Salida
<1>2. CASE UsarDestruido(h)
  BY <1>2 DEF UsarDestruido, Caer, TypeOK, Salida
<1>3. CASE Fetch(h)
  <2>1. hilos' \in [Hilos -> [paso : Pasos, buffer : Contextos \cup {NULL}]]
    BY <1>3, IrATipos DEF Fetch, Pasos
  <2>2. a_memoria' \in Seq(PedidosAMemoria)
    BY <1>0, <1>3, PedirTipos DEF Fetch
  <2> QED BY <1>3, <2>1, <2>2 DEF Fetch, TypeOK, Salida
<1>4. CASE Decode(h)
  <2>1. hilos' \in [Hilos -> [paso : Pasos, buffer : Contextos \cup {NULL}]]
    BY <1>4, IrATipos DEF Decode, Pasos
  <2> QED BY <1>4, <2>1 DEF Decode, Wait, Semaforos, TypeOK, Salida
<1>5. CASE EjecutarSimple(h)
  <2>1. hilos' \in [Hilos -> [paso : Pasos, buffer : Contextos \cup {NULL}]]
    BY <1>5, IrATipos DEF EjecutarSimple, Pasos
  <2>2. contexto' \in Contextos
    BY <1>5, CalcularDaContexto DEF EjecutarSimple, TypeOK, Leida
  <2> QED BY <1>5, <2>1, <2>2 DEF EjecutarSimple, TypeOK, Salida
<1>6. CASE EjecutarSincronica(h)
  <2>1. hilos' \in [Hilos -> [paso : Pasos, buffer : Contextos \cup {NULL}]]
    BY <1>6, IrATipos DEF EjecutarSincronica, Pasos
  <2>2. contexto' \in Contextos
    BY <1>6, AvanzarDaContexto DEF EjecutarSincronica, TypeOK
  <2>3. a_kernel' \in Seq(MensajesAKernel)
    BY <1>6, <2>2 DEF EjecutarSincronica, TypeOK, Mensaje, MensajesAKernel
  <2> QED BY <1>6, <2>1, <2>2, <2>3 DEF EjecutarSincronica, TypeOK, Salida
<1>7. CASE EjecutarVoluntaria(h)
  <2>1. hilos' \in [Hilos -> [paso : Pasos, buffer : Contextos \cup {NULL}]]
    BY <1>7, IrATipos DEF EjecutarVoluntaria, Pasos
  <2>2. contexto' \in Contextos
    BY <1>7, AvanzarDaContexto DEF EjecutarVoluntaria, TypeOK
  <2>3. mochila' \in Motivos
    BY <1>7 DEF EjecutarVoluntaria, Desalojarse, Motivos
  <2> QED BY <1>7, <2>1, <2>2, <2>3 DEF EjecutarVoluntaria, Desalojarse, TypeOK, Salida
<1>8. CASE EjecutarDeMemoria(h)
  <2>1. hilos' \in [Hilos -> [paso : Pasos, buffer : Contextos \cup {NULL}]]
    BY <1>8, IrATipos DEF EjecutarDeMemoria, Pasos
  <2>2. a_memoria' \in Seq(PedidosAMemoria)
    BY <1>0, <1>8, PedirTipos DEF EjecutarDeMemoria
  <2> QED BY <1>8, <2>1, <2>2 DEF EjecutarDeMemoria, TypeOK, Salida
<1>9. CASE SinMarco(h)
  <2>1. hilos' \in [Hilos -> [paso : Pasos, buffer : Contextos \cup {NULL}]]
    BY <1>9, IrATipos DEF SinMarco, Pasos
  <2>2. mochila' \in Motivos
    BY <1>9 DEF SinMarco, Fallar, Desalojarse, Motivos
  <2> QED BY <1>9, <2>1, <2>2 DEF SinMarco, Fallar, Desalojarse, Wait, Semaforos, TypeOK, Salida
<1>10. CASE Acceder(h)
  <2>1. hilos' \in [Hilos -> [paso : Pasos, buffer : Contextos \cup {NULL}]]
    BY <1>10, IrATipos DEF Acceder, Pasos
  <2>2. contexto' \in Contextos
    BY <1>10, AvanzarDaContexto DEF Acceder, TypeOK
  <2>3. instruccion.op = "MOV_OUT" => contexto.reg[instruccion.r] \in Palabras
    BY <1>10 DEF Acceder, Leida, TypeOK, Contextos, Instruccion
  <2>4. a_memoria' \in Seq(PedidosAMemoria)
    BY <1>0, <1>10, <2>3, PedirTipos DEF Acceder
  <2> QED BY <1>10, <2>1, <2>2, <2>4 DEF Acceder, Wait, Semaforos, TypeOK, Salida
<1>11. CASE LlevarDireccion(h)
  <2>1. hilos' \in [Hilos -> [paso : Pasos, buffer : Contextos \cup {NULL}]]
    BY <1>11, IrATipos DEF LlevarDireccion, Pasos
  <2>2. contexto' \in Contextos
    BY <1>11, AvanzarDaContexto DEF LlevarDireccion, TypeOK
  <2>3. mochila' \in Motivos
    BY <1>11 DEF LlevarDireccion, Desalojarse, Motivos
  <2> QED BY <1>11, <2>1, <2>2, <2>3
          DEF LlevarDireccion, Desalojarse, Wait, Semaforos, TypeOK, Salida
<1>12. CASE TerminarLectura(h)
  <2>1. hilos' \in [Hilos -> [paso : Pasos, buffer : Contextos \cup {NULL}]]
    BY <1>12, IrATipos DEF TerminarLectura, Pasos
  <2>2. contexto' \in Contextos
    BY <1>12, CargarDaContexto DEF TerminarLectura, TypeOK, Leida
  <2> QED BY <1>12, <2>1, <2>2 DEF TerminarLectura, Wait, Semaforos, TypeOK, Salida
<1>13. CASE TerminarEscritura(h)
  <2>1. hilos' \in [Hilos -> [paso : Pasos, buffer : Contextos \cup {NULL}]]
    BY <1>13, IrATipos DEF TerminarEscritura, Pasos
  <2> QED BY <1>13, <2>1 DEF TerminarEscritura, Wait, Semaforos, TypeOK, Salida
<1>14. CASE TerminarSincronica(h)
  <2>1. hilos' \in [Hilos -> [paso : Pasos, buffer : Contextos \cup {NULL}]]
    BY <1>14, IrATipos DEF TerminarSincronica, Pasos
  <2> QED BY <1>14, <2>1 DEF TerminarSincronica, Wait, Semaforos, TypeOK, Salida
<1>15. CASE Revisar(h)
  <2>1. hilos' \in [Hilos -> [paso : Pasos, buffer : Contextos \cup {NULL}]]
    BY <1>15, IrATipos DEF Revisar, Pasos
  <2> QED BY <1>15, <2>1 DEF Revisar, TypeOK, Salida
<1>16. CASE Salir(h)
  <2>1. hilos' \in [Hilos -> [paso : Pasos, buffer : Contextos \cup {NULL}]]
    BY <1>16, IrATipos DEF Salir, Pasos
  <2>2. ~hay_que_desalojar_sin_mensaje => MensajeDeSalida \in MensajesAKernel
    BY <1>16 DEF Salir, MensajeDeSalida, Mensaje, MensajesAKernel, Interrupciones, TypeOK, Salida
  <2>3. a_kernel' \in Seq(MensajesAKernel)
    BY <1>16, <2>2 DEF Salir, TypeOK
  <2> QED BY <1>16, <2>1, <2>3 DEF Salir, TypeOK, Salida
<1>17. CASE Destruir(h)
  <2>1. hilos' \in [Hilos -> [paso : Pasos, buffer : Contextos \cup {NULL}]]
    BY <1>17 DEF Destruir, HiloLibre, Pasos, TypeOK
  <2> QED BY <1>17, <2>1 DEF Destruir, TypeOK, Salida
<1> QED BY <1>1, <1>2, <1>3, <1>4, <1>5, <1>6, <1>7, <1>8, <1>9, <1>10, <1>11, <1>12, <1>13,
           <1>14, <1>15, <1>16, <1>17 DEF Ciclo

LEMMA CicloLee ==
  ASSUME TypeOK, Leida, NEW h \in Hilos, Ciclo(h)
  PROVE  Leida'
<1> USE DEF Viva, En, globales, interrup, salida, respuestas, sockets, memoria, kernel
<1> SUFFICES ASSUME instruccion \notin Instruccion
             PROVE  Leida'
  <2>1. instruccion' = instruccion
    BY DEF Ciclo, Instalar, UsarDestruido, Caer, Fetch, Decode, EjecutarSimple, EjecutarSincronica,
           EjecutarVoluntaria, EjecutarDeMemoria, SinMarco, Acceder, LlevarDireccion,
           TerminarLectura, TerminarEscritura, TerminarSincronica, Revisar, Salir, Destruir,
           Fallar, AvanzarIp
  <2> QED BY <2>1 DEF Leida
<1>1. /\ semaforos["decode"] = 0
      /\ \A g \in Hilos : hilos[g].paso \notin {"EJECUTA", "MMU", "LECTURA", "ESCRITURA"}
  BY DEF Leida
<1>2. /\ semaforos'["decode"] = 0
      /\ \A g \in Hilos : hilos'[g].paso \notin {"EJECUTA", "MMU", "LECTURA", "ESCRITURA"}
  <2>1. CASE Instalar(h)
    BY <1>1, <2>1 DEF Instalar, TypeOK
  <2>2. CASE UsarDestruido(h)
    BY <1>1, <2>2 DEF UsarDestruido, Caer
  <2>3. CASE Fetch(h)
    BY <1>1, <2>3 DEF Fetch, IrA, TypeOK
  <2>4. CASE TerminarSincronica(h)
    BY <1>1, <2>4 DEF TerminarSincronica, IrA, Wait, Semaforos, TypeOK
  <2>5. CASE Revisar(h)
    BY <1>1, <2>5 DEF Revisar, IrA, TypeOK
  <2>6. CASE Salir(h)
    BY <1>1, <2>6 DEF Salir, IrA, TypeOK
  <2>7. CASE Destruir(h)
    BY <1>1, <2>7 DEF Destruir, HiloLibre, TypeOK
  <2>8. CASE Decode(h)
    BY <1>1, <2>8 DEF Decode, Wait
  <2> QED
    BY <1>1, <2>1, <2>2, <2>3, <2>4, <2>5, <2>6, <2>7, <2>8
       DEF Ciclo, EjecutarSimple, EjecutarSincronica, EjecutarVoluntaria, EjecutarDeMemoria,
           SinMarco, Acceder, LlevarDireccion, TerminarLectura, TerminarEscritura
<1> QED BY <1>2 DEF Leida

LEMMA SocketsTipos ==
  ASSUME TypeOK, Leida, Salida, HiloDispatch \/ HiloInterrupt \/ AtenderMemoria
  PROVE  TypeOK' /\ Leida' /\ Salida'
<1> USE DEF Viva, En, globales, interrup, salida, respuestas, sockets, memoria, kernel
<1>1. ASSUME NEW h \in Hilos, RecibirProceso(h)
      PROVE  TypeOK' /\ Leida' /\ Salida'
  <2>1. /\ Head(a_cpu) \in MensajesACpu /\ a_cpu' \in Seq(MensajesACpu)
    BY <1>1 DEF RecibirProceso, TypeOK
  <2>2. Head(a_cpu).contexto \in Contextos \cup {NULL}
    BY <2>1 DEF MensajesACpu
  <2>3. hilos' \in [Hilos -> [paso : Pasos, buffer : Contextos \cup {NULL}]]
    BY <1>1, <2>2 DEF RecibirProceso, Pasos, TypeOK
  <2>4. Leida'
    BY <1>1 DEF RecibirProceso, Leida, TypeOK
  <2> QED BY <1>1, <2>1, <2>3, <2>4 DEF RecibirProceso, TypeOK, Salida
<1>2. CASE RecibirRespuesta
  <2>1. semaforos' \in [Semaforos -> Nat] /\ semaforos'["decode"] = semaforos["decode"]
    BY <1>2 DEF RecibirRespuesta, Post, Semaforos, TypeOK
  <2>2. a_cpu' \in Seq(MensajesACpu)
    BY <1>2 DEF RecibirRespuesta, TypeOK
  <2> QED BY <1>2, <2>1, <2>2 DEF RecibirRespuesta, TypeOK, Leida, Salida
<1>3. CASE ManejarInterrupcion
  <2>1. /\ Head(a_interrupt) \in Interrupciones /\ a_interrupt' \in Seq(Interrupciones)
    BY <1>3 DEF ManejarInterrupcion, TypeOK
  <2>2. interrupcion' \in Interrupciones \/ interrupcion' = interrupcion
    <3>1. interrupcion = NULL \/ interrupcion \in Interrupciones
      BY DEF TypeOK
    <3>2. interrupcion \in Interrupciones =>
            [interrupcion EXCEPT !.motivo = Head(a_interrupt).motivo] \in Interrupciones
      BY <2>1 DEF Interrupciones
    <3> QED BY <1>3, <2>1, <3>1, <3>2 DEF ManejarInterrupcion
  <2>3. comparar' \in BOOLEAN /\ (interrupcion' \in Interrupciones \cup {NULL})
    BY <1>3, <2>2 DEF ManejarInterrupcion, TypeOK
  <2>4. TypeOK'
    BY <1>3, <2>1, <2>3 DEF ManejarInterrupcion, TypeOK
  <2>5. Salida'
    BY <1>3, <2>2 DEF ManejarInterrupcion, Salida
  <2>6. Leida'
    BY <1>3 DEF ManejarInterrupcion, Leida
  <2> QED BY <2>4, <2>5, <2>6
<1>4. CASE CompararPid
  BY <1>4 DEF CompararPid, TypeOK, Leida, Salida
<1>5. CASE CompararSinContexto
  BY <1>5 DEF CompararSinContexto, Caer, TypeOK, Leida, Salida
<1>6. CASE AtenderMemoria
  <2>1. PICK pedido \in PedidosAMemoria :
          /\ pedido = Head(a_memoria)
          /\ \/ RecibirInstruccion(pedido) \/ RecibirMarco(pedido)
             \/ RecibirValor(pedido) \/ RecibirEscritura(pedido)
    BY <1>6 DEF AtenderMemoria, TypeOK
  <2>2. pedido.pid \in Procesos /\ pedido.ip \in Nat /\ pedido.valor \in Palabras
    BY DEF PedidosAMemoria
  <2>3. a_memoria' \in Seq(PedidosAMemoria)
    BY <1>6 DEF AtenderMemoria, TypeOK
  <2>4. CASE RecibirInstruccion(pedido)
    <3>1. instruccion' \in Instruccion
      BY <2>2, <2>4, ConstantesCpu DEF RecibirInstruccion
    <3> QED BY <1>6, <2>3, <2>4, <3>1
            DEF AtenderMemoria, RecibirInstruccion, Post, Semaforos, TypeOK, Leida, Salida
  <2>5. CASE RecibirMarco(pedido)
    BY <1>6, <2>2, <2>3, <2>5
       DEF AtenderMemoria, RecibirMarco, Post, Semaforos, TypeOK, Leida, Salida
  <2>6. CASE RecibirValor(pedido)
    BY <1>6, <2>2, <2>3, <2>6
       DEF AtenderMemoria, RecibirValor, Post, Semaforos, TypeOK, Leida, Salida
  <2>7. CASE RecibirEscritura(pedido)
    BY <1>6, <2>2, <2>3, <2>7
       DEF AtenderMemoria, RecibirEscritura, Post, Semaforos, TypeOK, Leida, Salida
  <2> QED BY <2>1, <2>4, <2>5, <2>6, <2>7
<1> QED BY <1>1, <1>2, <1>3, <1>4, <1>5, <1>6 DEF HiloDispatch, HiloInterrupt

LEMMA KernelTipos ==
  ASSUME TypeOK, Leida, Salida,
         \/ KernelDispatch \/ EnviarInterrupcion
         \/ \E p \in Procesos : Despachar(p) \/ Despertar(p) \/ Reemplazar(p) \/ Finalizar(p)
  PROVE  TypeOK' /\ Leida' /\ Salida'
<1> USE DEF Viva, globales, interrup, salida, respuestas, sockets, memoria, kernel
<1>1. ASSUME NEW p \in Procesos, NEW M, Recibido(p, M), a_cpu' \in Seq(MensajesACpu),
             en_exec' \in Procesos \cup {NULL},
             estado' \in [Procesos -> {"READY", "EXEC", "BLOCKED", "FALLO", "EXIT"}],
             flag_finalizar_proceso' \in BOOLEAN, pedidos' = pedidos
      PROVE  TypeOK' /\ Leida' /\ Salida'
  <2>1. Head(a_kernel) \in MensajesAKernel /\ a_kernel' \in Seq(MensajesAKernel)
    BY <1>1 DEF Recibido, TypeOK
  <2>2. pcb' \in [Procesos -> Contextos]
    BY <1>1, <2>1 DEF Recibido, MensajesAKernel, TypeOK
  <2> QED BY <1>1, <2>1, <2>2 DEF Recibido, TypeOK, Leida, Salida
<1>2. \A e \in {1, -1} : Respuesta(e) \in MensajesACpu
  BY DEF Respuesta, MensajesACpu
<1>3. ASSUME NEW e \in {1, -1}, Responder(e)
      PROVE  a_cpu' \in Seq(MensajesACpu)
  BY <1>2, <1>3 DEF Responder, TypeOK
<1>4. ASSUME NEW p \in Procesos, NEW e \in {"READY", "EXEC", "BLOCKED", "FALLO", "EXIT"},
             SacarDeExec(p, e)
      PROVE  /\ en_exec' \in Procesos \cup {NULL}
             /\ estado' \in [Procesos -> {"READY", "EXEC", "BLOCKED", "FALLO", "EXIT"}]
  BY <1>4 DEF SacarDeExec, TypeOK
<1>5. ASSUME NEW p \in Procesos, Otorgar(p)
      PROVE  TypeOK' /\ Leida' /\ Salida'
  BY <1>1, <1>3, <1>5 DEF Otorgar, SinBandera, TypeOK
<1>6. ASSUME NEW p \in Procesos, Negar(p)
      PROVE  TypeOK' /\ Leida' /\ Salida'
  BY <1>1, <1>3, <1>4, <1>6 DEF Negar, SinBandera, TypeOK
<1>7. ASSUME NEW p \in Procesos, Invalidar(p)
      PROVE  TypeOK' /\ Leida' /\ Salida'
  BY <1>1, <1>3, <1>4, <1>7 DEF Invalidar, SinBandera, TypeOK
<1>8. ASSUME NEW p \in Procesos,
             \/ NegarSinResponder(p) \/ Bloquear(p) \/ BloquearPorFallo(p)
             \/ PlpExit(p) \/ Reubicar(p)
      PROVE  TypeOK' /\ Leida' /\ Salida'
  <2>1. /\ a_cpu' = a_cpu /\ flag_finalizar_proceso' = flag_finalizar_proceso
        /\ pedidos' = pedidos
        /\ \E M : Recibido(p, M)
        /\ \E e \in {"READY", "EXEC", "BLOCKED", "FALLO", "EXIT"} : SacarDeExec(p, e)
    BY <1>8 DEF NegarSinResponder, Bloquear, BloquearPorFallo, PlpExit, Reubicar, SinBandera
  <2> QED BY <1>1, <1>4, <2>1 DEF TypeOK
<1>9. ASSUME NEW p \in Procesos, Desalojar(p)
      PROVE  TypeOK' /\ Leida' /\ Salida'
  BY <1>1, <1>4, <1>9 DEF Desalojar, TypeOK
<1>10. ASSUME NEW p \in Procesos, Despachar(p)
       PROVE  TypeOK' /\ Leida' /\ Salida'
  <2>1. Ejecutar(pcb[p]) \in MensajesACpu
    BY DEF Ejecutar, MensajesACpu, TypeOK
  <2>2. a_cpu' \in Seq(MensajesACpu)
    BY <1>10, <2>1 DEF Despachar, TypeOK
  <2> QED BY <1>10, <2>2 DEF Despachar, TypeOK, Leida, Salida
<1>11. ASSUME NEW p \in Procesos, Despertar(p)
       PROVE  TypeOK' /\ Leida' /\ Salida'
  BY <1>11 DEF Despertar, TypeOK, Leida, Salida
<1>12. ASSUME NEW p \in Procesos, Reemplazar(p)
       PROVE  TypeOK' /\ Leida' /\ Salida'
  BY <1>12 DEF Reemplazar, TypeOK, Leida, Salida
<1>13. ASSUME NEW p \in Procesos, Finalizar(p)
       PROVE  TypeOK' /\ Leida' /\ Salida'
  BY <1>13 DEF Finalizar, TypeOK, Leida, Salida
<1>14. CASE EnviarInterrupcion
  <2>1. a_interrupt' \in Seq(Interrupciones)
    BY <1>14, ConstantesCpu DEF EnviarInterrupcion, Interrupciones, TypeOK
  <2> QED BY <1>14, <2>1 DEF EnviarInterrupcion, TypeOK, Leida, Salida
<1> QED BY <1>5, <1>6, <1>7, <1>8, <1>9, <1>10, <1>11, <1>12, <1>13, <1>14 DEF KernelDispatch

-------------------------------------------------------------------------------
(* The turn. What moves it is a thread that changes its step, a message, or *)
(* the semaphore of the answers.                                            *)

LEMMA NucleoAlIniciar == Init => Nucleo
<1> SUFFICES ASSUME Init
             PROVE  Nucleo
  OBVIOUS
<1>1. /\ a_cpu = <<>> /\ a_kernel = <<>> /\ en_exec = NULL /\ ~Callado
      /\ semaforos["respuesta"] = 0 /\ \A h \in Hilos : hilos[h].paso = "LIBRE"
  BY DEF Init, HiloLibre, Semaforos, Callado
<1>2. EnCamino = {} /\ Naciendo = {} /\ Despiertos = {} /\ ~Trabaja /\ ~Pregunta /\ ~Contesta
  BY <1>1 DEF EnCamino, Naciendo, Despiertos, En, Trabaja, Pregunta, Contesta
<1>3. \A p \in Procesos : pcb[p].pid = p
  BY DEF Init, ContextoInicial
<1>4. Unicos /\ Turno
  BY <1>1, <1>2 DEF Unicos, Turno
<1>5. Espera
  BY <1>1, <1>2 DEF Espera, En
<1>6. Duenos
  BY <1>1, <1>2, <1>3 DEF Duenos
<1> QED BY <1>4, <1>5, <1>6 DEF Nucleo

(* A step that changes nothing of this.                                     *)
LEMMA SinTurno ==
  ASSUME Nucleo,
         UNCHANGED <<hilos, a_cpu, a_kernel, en_exec, hay_que_desalojar_sin_mensaje, contexto,
                     pcb, mutex_manejo_contexto>>,
         semaforos'["respuesta"] = semaforos["respuesta"]
  PROVE  Nucleo'
<1>1. /\ EnCamino' = EnCamino /\ Naciendo' = Naciendo /\ Despiertos' = Despiertos
      /\ Callado' = Callado /\ Trabaja' = Trabaja /\ Pregunta' = Pregunta /\ Contesta' = Contesta
  BY DEF EnCamino, Naciendo, Despiertos, En, Callado, Trabaja, Pregunta, Contesta, Despachado
<1>2. Unicos'
  BY <1>1 DEF Nucleo, Unicos, Despachado
<1>3. Turno'
  BY <1>1 DEF Nucleo, Turno
<1>4. Espera'
  BY <1>1 DEF Nucleo, Espera, En
<1>5. Duenos'
  BY <1>1 DEF Nucleo, Duenos, Despachado
<1> QED BY <1>2, <1>3, <1>4, <1>5 DEF Nucleo

(* The steps of the others.                                                 *)
LEMMA PasoDelHilo ==
  ASSUME TypeOK, NEW h \in Hilos, NEW x \in Pasos, IrA(h, x)
  PROVE  \A g \in Hilos : /\ hilos'[g].paso = IF g = h THEN x ELSE hilos[g].paso
                          /\ hilos'[g].buffer = hilos[g].buffer
BY DEF TypeOK, IrA

(* The thread that executes goes on.                                        *)
LEMMA SigueTrabajando ==
  ASSUME TypeOK, Nucleo, NEW h \in Hilos,
         hilos[h].paso \notin {"LIBRE", "NACE", "RESPUESTA", "DESTRUYE"},
         NEW x \in Pasos \ {"LIBRE", "NACE", "RESPUESTA", "DESTRUYE"},
         Callado => x \in {"REVISA", "SALE"},
         IrA(h, x),
         UNCHANGED <<a_cpu, a_kernel, en_exec, hay_que_desalojar_sin_mensaje, pcb,
                     mutex_manejo_contexto>>,
         semaforos'["respuesta"] = semaforos["respuesta"],
         contexto' \in Contextos, contexto'.pid = contexto.pid
  PROVE  Nucleo'
<1>1. \A g \in Hilos : /\ hilos'[g].paso = IF g = h THEN x ELSE hilos[g].paso
                       /\ hilos'[g].buffer = hilos[g].buffer
  BY PasoDelHilo
<1>2. h \in Despiertos /\ Despiertos' = Despiertos /\ Naciendo' = Naciendo
  BY <1>1 DEF Despiertos, Naciendo, En
<1>3. Despiertos = {h}
  BY <1>2 DEF Nucleo, Unicos
<1>4. /\ EnCamino' = EnCamino /\ Callado' = Callado
      /\ Pregunta' = Pregunta /\ Contesta' = Contesta
  BY DEF EnCamino, Callado, Pregunta, Contesta, Despachado
<1>5. Trabaja' = Trabaja
  BY <1>1, <1>2, <1>4 DEF Trabaja, En
<1>6. Unicos'
  BY <1>2, <1>4 DEF Nucleo, Unicos, Despachado
<1>7. Turno'
  BY <1>2, <1>4, <1>5 DEF Nucleo, Turno
<1>8. Espera'
  BY <1>1, <1>2, <1>3, <1>4 DEF Nucleo, Espera, En
<1>9. Duenos'
  BY <1>1, <1>2, <1>4, <1>5 DEF Nucleo, Duenos, Despachado, Naciendo
<1> QED BY <1>6, <1>7, <1>8, <1>9 DEF Nucleo

(* A thread is born: the turn leaves the socket.                            *)
LEMMA RecibirProcesoTurno ==
  ASSUME TypeOK, Nucleo, NEW h \in Hilos, RecibirProceso(h)
  PROVE  Nucleo'
<1>1. /\ a_cpu # <<>> /\ Despachado(Head(a_cpu)) /\ hilos[h].paso = "LIBRE"
      /\ hilos' = [hilos EXCEPT ![h] = [paso |-> "NACE", buffer |-> Head(a_cpu).contexto]]
      /\ a_cpu' = Tail(a_cpu)
      /\ UNCHANGED <<a_kernel, en_exec, hay_que_desalojar_sin_mensaje, contexto, pcb,
                     mutex_manejo_contexto, semaforos>>
  BY DEF RecibirProceso, En, globales, salida, kernel, respuestas
<1>2. /\ 1 \in DOMAIN a_cpu /\ Head(a_cpu) = a_cpu[1]
      /\ a_cpu[1] \in MensajesACpu /\ Len(a_cpu) \in Nat /\ DOMAIN a_cpu = 1..Len(a_cpu)
  BY <1>1 DEF TypeOK
<1>3. a_cpu[1].estado = 0 /\ a_cpu[1].contexto \in Contextos
  BY <1>1, <1>2 DEF MensajesACpu, Despachado
<1>4. 1 \in EnCamino /\ EnCamino = {1}
  BY <1>2, <1>3 DEF EnCamino, Nucleo, Unicos
<1>5. \A k \in DOMAIN a_cpu : k = 1
  <2> SUFFICES ASSUME NEW k \in DOMAIN a_cpu, k # 1
               PROVE  FALSE
    OBVIOUS
  <2>1. a_cpu[k] \in MensajesACpu /\ k \notin EnCamino
    BY <1>4 DEF TypeOK
  <2>2. a_cpu[k].estado = -1 /\ a_cpu[k].op = "RESPUESTA_INSTRUCCION_KC"
    BY <2>1 DEF EnCamino, MensajesACpu
  <2> QED BY <2>2 DEF Nucleo, Unicos, Despachado
<1>6. Len(a_cpu) = 1
  BY <1>2, <1>5
<1>7. a_cpu' = <<>> /\ EnCamino' = {} /\ ~Contesta'
  BY <1>1, <1>6 DEF TypeOK, EnCamino, Contesta
<1>8. /\ en_exec # NULL /\ Naciendo = {} /\ a_kernel = <<>> /\ ~Trabaja
      /\ a_cpu[1].contexto.pid = en_exec
  BY <1>1, <1>2, <1>4 DEF Nucleo, Turno, Duenos
<1>9. /\ hilos'[h].paso = "NACE" /\ hilos'[h].buffer = a_cpu[1].contexto
      /\ \A g \in Hilos : g # h => hilos'[g] = hilos[g]
  BY <1>1, <1>2 DEF TypeOK
<1>10. Naciendo' = {h} /\ Despiertos' = Despiertos
  BY <1>1, <1>8, <1>9 DEF Naciendo, Despiertos, En
<1>11. Callado' = Callado /\ Pregunta' = Pregunta /\ ~Trabaja'
  <2>1. Callado' = Callado /\ Pregunta' = Pregunta
    BY <1>1 DEF Callado, Pregunta
  <2> QED BY <1>1, <1>8, <1>9, <1>10, <2>1 DEF Trabaja, En, Despiertos
<1>12. Unicos'
  BY <1>1, <1>7, <1>10 DEF Nucleo, Unicos
<1>13. Turno'
  BY <1>1, <1>7, <1>8, <1>10, <1>11 DEF Turno
<1>14. Espera'
  BY <1>1, <1>7, <1>8, <1>9, <1>10, <1>11 DEF Nucleo, Espera, En, Despiertos
<1>15. Duenos'
  BY <1>1, <1>3, <1>7, <1>8, <1>9, <1>10, <1>11 DEF Nucleo, Duenos
<1> QED BY <1>12, <1>13, <1>14, <1>15 DEF Nucleo

(* An answer comes: the turn is in the semaphore, or no longer in the CPU.  *)
LEMMA RecibirRespuestaTurno ==
  ASSUME TypeOK, Nucleo, RecibirRespuesta
  PROVE  Nucleo'
<1>1. /\ a_cpu # <<>> /\ ~Despachado(Head(a_cpu))
      /\ hay_que_desalojar_sin_mensaje' =
           (hay_que_desalojar_sin_mensaje \/ Head(a_cpu).estado = -1)
      /\ semaforos'["respuesta"] = semaforos["respuesta"] + 1
      /\ a_cpu' = Tail(a_cpu)
      /\ UNCHANGED <<a_kernel, en_exec, hilos, contexto, pcb, mutex_manejo_contexto>>
  BY DEF RecibirRespuesta, Post, Semaforos, globales, salida, kernel, TypeOK
<1>2. /\ 1 \in DOMAIN a_cpu /\ Head(a_cpu) = a_cpu[1]
      /\ a_cpu[1] \in MensajesACpu /\ Len(a_cpu) \in Nat /\ DOMAIN a_cpu = 1..Len(a_cpu)
  BY <1>1 DEF TypeOK
<1>3. a_cpu[1].estado \in {1, -1}
  BY <1>1, <1>2 DEF MensajesACpu, Despachado
<1>4. /\ semaforos["respuesta"] = 0 /\ a_kernel = <<>> /\ Naciendo = {} /\ ~Callado
      /\ Despiertos = {} /\ contexto \in Contextos
  <2>1. Contesta
    BY <1>1, <1>2 DEF Contesta
  <2> QED BY <2>1 DEF Nucleo, Espera
<1>5. /\ Naciendo' = Naciendo /\ Despiertos' = Despiertos /\ Pregunta' = Pregunta
      /\ ~Pregunta
  BY <1>1, <1>4 DEF Naciendo, Despiertos, En, Pregunta
<1>6. /\ DOMAIN a_cpu' = 1..Len(a_cpu)-1
      /\ \A k \in DOMAIN a_cpu' : k + 1 \in DOMAIN a_cpu /\ a_cpu'[k] = a_cpu[k + 1]
      /\ \A k \in DOMAIN a_cpu : k # 1 => k - 1 \in DOMAIN a_cpu' /\ a_cpu'[k - 1] = a_cpu[k]
  BY <1>1, <1>2 DEF TypeOK
<1>7. \A k \in DOMAIN a_cpu' : Despachado(a_cpu'[k]) /\ a_cpu'[k].estado = 0
  <2> TAKE k \in DOMAIN a_cpu'
  <2>1. k \in Nat \ {0} /\ k + 1 \in DOMAIN a_cpu /\ a_cpu'[k] = a_cpu[k + 1]
    BY <1>2, <1>6
  <2>2. Despachado(a_cpu[k + 1])
    <3>1. k + 1 # 1
      BY <2>1
    <3> QED BY <2>1, <3>1 DEF Nucleo, Unicos
  <2>3. a_cpu[k + 1] \in MensajesACpu
    BY <2>1 DEF TypeOK
  <2> QED BY <2>1, <2>2, <2>3 DEF MensajesACpu, Despachado
<1>8. ~Contesta' /\ EnCamino' = DOMAIN a_cpu'
  BY <1>7 DEF Contesta, EnCamino
<1>9. \A j, k \in EnCamino' : j = k
  <2> TAKE j, k \in EnCamino'
  <2>1. j + 1 \in DOMAIN a_cpu /\ k + 1 \in DOMAIN a_cpu /\ j \in Nat /\ k \in Nat
    BY <1>2, <1>6, <1>8
  <2>2. j + 1 \in EnCamino /\ k + 1 \in EnCamino
    BY <1>6, <1>7, <1>8, <2>1 DEF EnCamino
  <2>3. j + 1 = k + 1
    BY <2>2 DEF Nucleo, Unicos
  <2> QED BY <2>1, <2>3
<1>10. Unicos'
  BY <1>1, <1>4, <1>5, <1>7, <1>9 DEF Nucleo, Unicos
<1>11. a_cpu[1].estado = -1 => Callado'
  BY <1>1, <1>2, Zenon DEF Callado
<1>12. a_cpu[1].estado # -1 => ~Callado'
  BY <1>1, <1>2, <1>4, Zenon DEF Callado
<1>13. CASE a_cpu[1].estado = -1
  <2>1. Callado' /\ ~Trabaja' /\ ~Trabaja
    BY <1>4, <1>13, <1>11 DEF Trabaja
  <2>2. EnCamino # {} => EnCamino' # {}
    <3> SUFFICES ASSUME NEW k \in EnCamino
                 PROVE  EnCamino' # {}
      OBVIOUS
    <3>1. k \in DOMAIN a_cpu /\ k # 1
      BY <1>13 DEF EnCamino
    <3> QED BY <1>6, <1>8, <3>1
  <2>3. EnCamino' # {} => EnCamino # {}
    <3> SUFFICES ASSUME NEW k \in EnCamino'
                 PROVE  EnCamino # {}
      OBVIOUS
    <3>1. k + 1 \in DOMAIN a_cpu /\ a_cpu[k + 1].estado = 0
      BY <1>6, <1>7, <1>8
    <3> QED BY <3>1 DEF EnCamino
  <2>4. Turno'
    BY <1>1, <1>4, <1>5, <2>1, <2>2, <2>3 DEF Nucleo, Turno
  <2>5. Espera'
    BY <1>1, <1>4, <1>5, <1>8, <2>1 DEF Nucleo, Espera, En
  <2>6. Duenos'
    BY <1>1, <1>4, <1>5, <1>6, <1>7, <2>1 DEF Nucleo, Duenos, Naciendo
  <2> QED BY <1>10, <2>4, <2>5, <2>6 DEF Nucleo
<1>14. CASE a_cpu[1].estado = 1
  <2>1. 1 \in EnCamino
    BY <1>2, <1>14 DEF EnCamino
  <2>2. en_exec # NULL /\ ~Trabaja /\ contexto.pid = en_exec
    BY <1>2, <1>14, <2>1 DEF Nucleo, Turno, Duenos
  <2>3. EnCamino' = {}
    <3> SUFFICES ASSUME NEW k \in EnCamino'
                 PROVE  FALSE
      OBVIOUS
    <3>1. k + 1 \in DOMAIN a_cpu /\ a_cpu[k + 1].estado = 0 /\ k \in Nat \ {0}
      BY <1>2, <1>6, <1>7, <1>8
    <3>2. k + 1 \in EnCamino
      BY <3>1 DEF EnCamino
    <3>3. k + 1 = 1
      BY <2>1, <3>2 DEF Nucleo, Unicos
    <3> QED BY <3>1, <3>3
  <2>4. ~Callado'
    BY <1>14, <1>12
  <2>5. Turno'
    BY <1>1, <1>4, <1>5, <2>2, <2>3, <2>4 DEF Turno, Trabaja
  <2>6. Espera'
    BY <1>1, <1>4, <1>5, <1>8, <2>4 DEF Nucleo, Espera, En
  <2>7. Duenos'
    BY <1>1, <1>4, <1>5, <1>6, <1>7, <2>2 DEF Nucleo, Duenos, Naciendo
  <2> QED BY <1>10, <2>5, <2>6, <2>7 DEF Nucleo
<1> QED BY <1>3, <1>13, <1>14

(* The new thread installs its contexto when nobody else has one to use.    *)
LEMMA InstalarTurno ==
  ASSUME TypeOK, Nucleo, NEW h \in Hilos, Instalar(h), cpu' = "VIVA"
  PROVE  Nucleo'
<1>1. /\ hilos[h].paso = "NACE" /\ mutex_manejo_contexto = NULL /\ ~Callado
      /\ contexto' = hilos[h].buffer
      /\ hilos' = [hilos EXCEPT ![h] = [paso |-> "CICLO", buffer |-> NULL]]
      /\ UNCHANGED <<a_cpu, a_kernel, en_exec, hay_que_desalojar_sin_mensaje, pcb,
                     mutex_manejo_contexto, semaforos>>
  BY DEF Instalar, En, Callado, salida, sockets, kernel, respuestas
<1>2. h \in Naciendo
  BY <1>1 DEF Naciendo, En
<1>3. /\ en_exec # NULL /\ a_kernel = <<>> /\ ~Trabaja /\ EnCamino = {} /\ ~Contesta
      /\ ~Pregunta /\ hilos[h].buffer \in Contextos /\ hilos[h].buffer.pid = en_exec
      /\ semaforos["respuesta"] = 0 /\ Despiertos = {}
  <2>1. /\ en_exec # NULL /\ a_kernel = <<>> /\ ~Trabaja /\ EnCamino = {} /\ ~Contesta
        /\ hilos[h].buffer \in Contextos /\ hilos[h].buffer.pid = en_exec
    BY <1>2 DEF Nucleo, Turno, Espera, Duenos
  <2>2. semaforos["respuesta"] \in Nat /\ ~(semaforos["respuesta"] > 0)
    BY <1>1, <2>1 DEF Trabaja, TypeOK, Semaforos
  <2>3. \A g \in Hilos : ~En(g, "DESTRUYE")
    BY <1>1 DEF Nucleo, Espera
  <2>4. Despiertos = {}
    BY <1>1, <2>1, <2>3 DEF Trabaja, Despiertos
  <2> QED BY <2>1, <2>2, <2>4 DEF Pregunta
<1>4. /\ hilos'[h].paso = "CICLO" /\ \A g \in Hilos : g # h => hilos'[g] = hilos[g]
  BY <1>1 DEF TypeOK
<1>5. Naciendo' = {} /\ Despiertos' = {h}
  <2>1. \A g \in Naciendo : g = h
    BY <1>2 DEF Nucleo, Unicos
  <2> QED BY <1>3, <1>4, <2>1 DEF Naciendo, Despiertos, En
<1>6. /\ EnCamino' = {} /\ ~Contesta' /\ ~Pregunta' /\ ~Callado' /\ Trabaja'
  <2>1. EnCamino' = {} /\ ~Contesta' /\ ~Pregunta' /\ ~Callado'
    BY <1>1, <1>3 DEF EnCamino, Contesta, Pregunta, Callado, Despachado
  <2> QED BY <1>4, <1>5, <2>1 DEF Trabaja, En
<1>7. Unicos'
  BY <1>1, <1>3, <1>5, <1>6 DEF Nucleo, Unicos, Despachado
<1>8. Turno'
  BY <1>1, <1>3, <1>5, <1>6 DEF Turno
<1>9. Espera'
  BY <1>1, <1>3, <1>4, <1>5, <1>6 DEF Nucleo, Espera, En
<1>10. Duenos'
  BY <1>1, <1>3, <1>5, <1>6 DEF Nucleo, Duenos, Despachado
<1> QED BY <1>7, <1>8, <1>9, <1>10 DEF Nucleo

(* A thread that executes, not told to leave, has the turn.                 *)
LEMMA ElQueTrabaja ==
  ASSUME TypeOK, Nucleo, NEW h \in Despiertos, ~En(h, "DESTRUYE")
  PROVE  /\ Despiertos = {h} /\ contexto \in Contextos
         /\ semaforos["respuesta"] = 0 /\ ~Contesta /\ ~Pregunta
         /\ ~Callado => /\ Trabaja /\ en_exec # NULL /\ contexto.pid = en_exec
                        /\ EnCamino = {} /\ Naciendo = {} /\ a_kernel = <<>>
<1>1. Despiertos = {h} /\ contexto \in Contextos
  BY DEF Nucleo, Unicos, Duenos
<1>2. semaforos["respuesta"] \in Nat
  BY DEF TypeOK, Semaforos
<1>3. semaforos["respuesta"] = 0 /\ ~Contesta /\ ~Pregunta
  BY <1>1, <1>2 DEF Nucleo, Unicos, Espera
<1>4. ~Callado => Trabaja
  BY DEF Trabaja
<1> QED BY <1>1, <1>3, <1>4 DEF Nucleo, Turno, Duenos

(* The thread asks the Kernel and waits.                                    *)
LEMMA EjecutarSincronicaTurno ==
  ASSUME TypeOK, Nucleo, NEW h \in Hilos, EjecutarSincronica(h)
  PROVE  Nucleo'
<1> DEFINE m == Mensaje("ATENDER_INSTRUCCION_CPK", contexto', instruccion.op)
<1>1. /\ hilos[h].paso = "EJECUTA" /\ IrA(h, "RESPUESTA") /\ "RESPUESTA" \in Pasos
      /\ AvanzarIp /\ a_kernel' = Append(a_kernel, m)
      /\ instruccion.op \in Sincronicas
      /\ UNCHANGED <<a_cpu, en_exec, hay_que_desalojar_sin_mensaje, pcb,
                     mutex_manejo_contexto, semaforos>>
  BY DEF EjecutarSincronica, En, salida, kernel, respuestas, Pasos
<1>2. m.contexto = contexto' /\ m.motivo = instruccion.op
  BY DEF Mensaje
<1> HIDE DEF m
<1>3. h \in Despiertos /\ ~En(h, "DESTRUYE") /\ ~Callado
  <2>1. h \in Despiertos
    BY <1>1 DEF Despiertos
  <2> QED BY <1>1, <2>1 DEF En, Nucleo, Espera
<1>4. /\ Despiertos = {h} /\ contexto \in Contextos /\ contexto.pid = en_exec /\ en_exec # NULL
      /\ semaforos["respuesta"] = 0 /\ ~Contesta /\ EnCamino = {} /\ Naciendo = {}
      /\ a_kernel = <<>>
  BY <1>3, ElQueTrabaja
<1>5. contexto' \in Contextos /\ contexto'.pid = en_exec
  BY <1>1, <1>4, AvanzarDaContexto
<1>6. a_kernel' = <<m>> /\ DOMAIN a_kernel' = {1} /\ a_kernel'[1] = m
  BY <1>1, <1>4
<1>7. \A g \in Hilos : hilos'[g].paso = IF g = h THEN "RESPUESTA" ELSE hilos[g].paso
  BY <1>1, PasoDelHilo
<1>8. Despiertos' = {} /\ Naciendo' = {}
  BY <1>4, <1>7 DEF Despiertos, Naciendo, En
<1>9. EnCamino' = {} /\ ~Contesta' /\ ~Callado'
  BY <1>1, <1>3, <1>4 DEF EnCamino, Contesta, Callado, Despachado
<1>10. ~Trabaja'
  BY <1>1, <1>4, <1>8 DEF Trabaja
<1>11. Unicos'
  BY <1>1, <1>4, <1>6, <1>8, <1>9 DEF Nucleo, Unicos, Despachado
<1>12. Turno'
  BY <1>1, <1>4, <1>6, <1>8, <1>9, <1>10 DEF Turno
<1>13. Espera'
  <2>1. mutex_manejo_contexto' = NULL => \A g \in Hilos : ~En(g, "DESTRUYE")'
    BY <1>1, <1>7 DEF Nucleo, Espera, En
  <2> QED BY <1>5, <1>8, <1>9, <2>1 DEF Espera, En
<1>14. Duenos'
  <2>1. ~(\E k \in DOMAIN a_cpu' : Despachado(a_cpu'[k]) \/ a_cpu'[k].estado = 1)
    <3> SUFFICES ASSUME NEW k \in DOMAIN a_cpu
                 PROVE  ~Despachado(a_cpu[k]) /\ a_cpu[k].estado # 1
      BY <1>1
    <3>1. a_cpu[k].estado = -1
      BY <1>4 DEF EnCamino
    <3>2. a_cpu[k] \in MensajesACpu
      BY DEF TypeOK
    <3> QED BY <3>1, <3>2 DEF MensajesACpu, Despachado
  <2> QED BY <1>1, <1>2, <1>5, <1>6, <1>8, <1>10, <2>1 DEF Nucleo, Duenos, Despachado
<1> QED BY <1>11, <1>12, <1>13, <1>14 DEF Nucleo

(* Whichever thread waits takes the answer, and with it the turn.           *)
LEMMA TerminarSincronicaTurno ==
  ASSUME TypeOK, Nucleo, NEW h \in Hilos, TerminarSincronica(h)
  PROVE  Nucleo'
<1>1. /\ hilos[h].paso = "RESPUESTA" /\ IrA(h, "REVISA") /\ "REVISA" \in Pasos
      /\ semaforos["respuesta"] > 0 /\ semaforos'["respuesta"] = semaforos["respuesta"] - 1
      /\ UNCHANGED <<a_cpu, a_kernel, en_exec, hay_que_desalojar_sin_mensaje, contexto, pcb,
                     mutex_manejo_contexto>>
  BY DEF TerminarSincronica, En, Wait, Semaforos, globales, salida, sockets, kernel, Pasos, TypeOK
<1>2. semaforos["respuesta"] = 1 /\ semaforos'["respuesta"] = 0
  BY <1>1 DEF TypeOK, Semaforos, Nucleo, Unicos
<1>3. /\ Despiertos = {} /\ contexto \in Contextos /\ ~Contesta
  BY <1>1, <1>2 DEF Nucleo, Unicos, Espera
<1>4. ~Pregunta
  <2>1. ~Callado => Trabaja
    BY <1>1 DEF Trabaja
  <2>2. a_kernel = <<>>
    BY <2>1 DEF Nucleo, Turno, Espera
  <2> QED BY <2>2 DEF Pregunta
<1>5. \A g \in Hilos : /\ hilos'[g].paso = IF g = h THEN "REVISA" ELSE hilos[g].paso
                       /\ hilos'[g].buffer = hilos[g].buffer
  BY <1>1, PasoDelHilo
<1>6. Despiertos' = {h} /\ Naciendo' = Naciendo
  BY <1>1, <1>3, <1>5 DEF Despiertos, Naciendo, En
<1>7. EnCamino' = EnCamino /\ ~Contesta' /\ ~Pregunta' /\ Callado' = Callado
  BY <1>1, <1>3, <1>4 DEF EnCamino, Contesta, Pregunta, Callado, Despachado
<1>8. Trabaja' = Trabaja
  BY <1>1, <1>5, <1>6, <1>7 DEF Trabaja, En
<1>9. Unicos'
  BY <1>1, <1>2, <1>6, <1>7 DEF Nucleo, Unicos, Despachado
<1>10. Turno'
  BY <1>1, <1>6, <1>7, <1>8 DEF Nucleo, Turno
<1>11. Espera'
  BY <1>1, <1>2, <1>3, <1>5, <1>6, <1>7 DEF Nucleo, Espera, En
<1>12. Duenos'
  BY <1>1, <1>3, <1>5, <1>6, <1>7, <1>8 DEF Nucleo, Duenos, Despachado, Naciendo
<1> QED BY <1>9, <1>10, <1>11, <1>12 DEF Nucleo

(* The thread leaves, with a message for the Kernel or without.             *)
LEMMA SalirTurno ==
  ASSUME TypeOK, Salida, Nucleo, NEW h \in Hilos, Salir(h)
  PROVE  Nucleo'
<1>1. /\ hilos[h].paso = "SALE" /\ IrA(h, "DESTRUYE") /\ "DESTRUYE" \in Pasos
      /\ contexto \in Contextos /\ mutex_manejo_contexto' = h
      /\ Callado \/ hay_que_desalojar \/ interruptFlag
      /\ Callado => a_kernel' = a_kernel
      /\ ~Callado => a_kernel' = Append(a_kernel, MensajeDeSalida)
      /\ UNCHANGED <<a_cpu, en_exec, hay_que_desalojar_sin_mensaje, pcb, contexto, semaforos>>
  BY DEF Salir, En, Callado, globales, salida, kernel, respuestas, Pasos, TypeOK
<1>2. h \in Despiertos /\ ~En(h, "DESTRUYE")
  BY <1>1 DEF Despiertos, En
<1>3. /\ Despiertos = {h} /\ semaforos["respuesta"] = 0 /\ ~Contesta /\ ~Pregunta
      /\ ~Callado => /\ Trabaja /\ en_exec # NULL /\ contexto.pid = en_exec
                     /\ EnCamino = {} /\ Naciendo = {} /\ a_kernel = <<>>
  BY <1>2, ElQueTrabaja
<1>4. \A g \in Hilos : /\ hilos'[g].paso = IF g = h THEN "DESTRUYE" ELSE hilos[g].paso
                       /\ hilos'[g].buffer = hilos[g].buffer
  BY <1>1, PasoDelHilo
<1>5. Despiertos' = {h} /\ Naciendo' = Naciendo
  BY <1>1, <1>3, <1>4 DEF Despiertos, Naciendo, En
<1>6. EnCamino' = EnCamino /\ ~Contesta' /\ Callado' = Callado /\ ~Trabaja'
  <2>1. EnCamino' = EnCamino /\ ~Contesta' /\ Callado' = Callado
    BY <1>1, <1>3 DEF EnCamino, Contesta, Callado, Despachado
  <2> QED BY <1>1, <1>3, <1>4, <1>5, <2>1 DEF Trabaja, En
<1>7. mutex_manejo_contexto' # NULL
  BY <1>1, ConstantesCpu DEF Hilos
<1>8. CASE Callado
  <2>1. a_kernel' = <<>> /\ a_kernel = <<>> /\ ~Trabaja /\ ~Pregunta'
    BY <1>1, <1>8 DEF Nucleo, Espera, Trabaja, Pregunta
  <2>2. Unicos'
    BY <1>1, <1>3, <1>5, <1>6, <2>1 DEF Nucleo, Unicos, Despachado
  <2>3. Turno'
    BY <1>1, <1>5, <1>6, <2>1 DEF Nucleo, Turno
  <2>4. Espera'
    BY <1>1, <1>3, <1>4, <1>5, <1>6, <1>7, <2>1 DEF Espera, En
  <2>5. Duenos'
    BY <1>1, <1>4, <1>5, <1>6, <2>1 DEF Nucleo, Duenos, Despachado, Naciendo
  <2> QED BY <2>2, <2>3, <2>4, <2>5 DEF Nucleo
<1>9. CASE ~Callado
  <2> DEFINE m == MensajeDeSalida
  <2>1. m.contexto = contexto /\ m.motivo \notin Sincronicas
    BY <1>1, <1>9 DEF MensajeDeSalida, Mensaje, Salida, Motivos, Interrupciones, Sincronicas,
                      Voluntarias
  <2> HIDE DEF m
  <2>2. a_kernel' = <<m>> /\ DOMAIN a_kernel' = {1} /\ a_kernel'[1] = m
    BY <1>1, <1>3, <1>9 DEF m
  <2>3. ~Pregunta'
    BY <2>1, <2>2 DEF Pregunta
  <2>4. Unicos'
    BY <1>1, <1>3, <1>5, <1>6, <2>2 DEF Nucleo, Unicos, Despachado
  <2>5. Turno'
    BY <1>1, <1>3, <1>5, <1>6, <1>9, <2>2 DEF Turno
  <2>6. Espera'
    BY <1>1, <1>3, <1>4, <1>5, <1>6, <1>7, <1>9, <2>3 DEF Espera, En
  <2>7. ~(\E k \in DOMAIN a_cpu' : a_cpu'[k].estado = 1)
    BY <1>1, <1>3, <1>9 DEF EnCamino
  <2>8. Duenos'
    BY <1>1, <1>3, <1>5, <1>6, <1>9, <2>1, <2>2, <2>3, <2>7 DEF Nucleo, Duenos, Despachado
  <2> QED BY <2>4, <2>5, <2>6, <2>8 DEF Nucleo
<1> QED BY <1>8, <1>9

(* The thread ends; by now nobody else uses its contexto.                   *)
LEMMA DestruirTurno ==
  ASSUME TypeOK, Nucleo, NEW h \in Hilos, Destruir(h)
  PROVE  Nucleo'
<1>1. /\ hilos[h].paso = "DESTRUYE" /\ hilos' = [hilos EXCEPT ![h] = HiloLibre]
      /\ hay_que_desalojar_sin_mensaje' = FALSE
      /\ UNCHANGED <<a_cpu, a_kernel, en_exec, pcb, semaforos>>
  BY DEF Destruir, En, sockets, kernel, respuestas
<1>2. Despiertos = {h}
  BY <1>1 DEF Despiertos, Nucleo, Unicos
<1>3. semaforos["respuesta"] = 0 /\ ~Contesta /\ ~Pregunta /\ ~Trabaja
  <2>1. semaforos["respuesta"] \in Nat
    BY DEF TypeOK, Semaforos
  <2>2. semaforos["respuesta"] = 0 /\ ~Contesta /\ ~Pregunta
    BY <1>2, <2>1 DEF Nucleo, Unicos, Espera
  <2> QED BY <1>1, <1>2, <2>2 DEF Trabaja, En
<1>4. hilos'[h].paso = "LIBRE" /\ \A g \in Hilos : g # h => hilos'[g] = hilos[g]
  BY <1>1 DEF HiloLibre, TypeOK
<1>5. Despiertos' = {} /\ Naciendo' = Naciendo
  BY <1>1, <1>2, <1>4 DEF Despiertos, Naciendo, En
<1>6. /\ EnCamino' = EnCamino /\ ~Contesta' /\ ~Pregunta' /\ ~Callado' /\ ~Trabaja'
  <2>1. EnCamino' = EnCamino /\ ~Contesta' /\ ~Pregunta' /\ ~Callado'
    BY <1>1, <1>3 DEF EnCamino, Contesta, Pregunta, Callado, Despachado
  <2> QED BY <1>1, <1>3, <1>5, <2>1 DEF Trabaja
<1>7. ~(\E k \in DOMAIN a_cpu' : a_cpu'[k].estado = 1)
  <2> SUFFICES ASSUME NEW k \in DOMAIN a_cpu
               PROVE  a_cpu[k].estado # 1
    BY <1>1
  <2>1. a_cpu[k] \in MensajesACpu /\ Despachado(a_cpu[k])
    BY <1>3 DEF Contesta, TypeOK
  <2> QED BY <2>1 DEF MensajesACpu, Despachado
<1>8. Unicos'
  BY <1>1, <1>3, <1>5, <1>6 DEF Nucleo, Unicos, Despachado
<1>9. Turno'
  BY <1>1, <1>3, <1>5, <1>6 DEF Nucleo, Turno
<1>10. Espera'
  <2>1. \A g \in Hilos : hilos'[g].paso # "DESTRUYE"
    BY <1>2, <1>4 DEF Despiertos, En
  <2> QED BY <1>1, <1>3, <1>6, <2>1 DEF Espera, En
<1>11. Duenos'
  <2>1. \A g \in Naciendo' : hilos'[g].buffer = hilos[g].buffer
    BY <1>4, <1>5 DEF Naciendo, En
  <2> QED BY <1>1, <1>5, <1>6, <1>7, <2>1 DEF Nucleo, Duenos, Despachado
<1> QED BY <1>8, <1>9, <1>10, <1>11 DEF Nucleo

-------------------------------------------------------------------------------
(* The Kernel: what it knows when it takes a message of the CPU.            *)
LEMMA AlRecibir ==
  ASSUME TypeOK, Nucleo, NEW p \in Procesos, NEW M, Recibido(p, M)
  PROVE  /\ a_kernel' = <<>> /\ a_cpu = <<>> /\ Naciendo = {} /\ ~Callado /\ ~Trabaja
         /\ semaforos["respuesta"] = 0
         /\ M \subseteq Sincronicas => Despiertos = {} /\ contexto \in Contextos /\ contexto.pid = p
         /\ p = en_exec /\ pcb' \in [Procesos -> Contextos] /\ \A q \in Procesos : pcb'[q].pid = q
         /\ UNCHANGED <<hilos, contexto, semaforos, hay_que_desalojar_sin_mensaje,
                        mutex_manejo_contexto>>
<1>1. /\ a_kernel # <<>> /\ p = Head(a_kernel).contexto.pid /\ p = en_exec
      /\ Head(a_kernel).motivo \in M /\ a_kernel' = Tail(a_kernel)
      /\ pcb' = [pcb EXCEPT ![p] = Head(a_kernel).contexto]
      /\ UNCHANGED <<hilos, contexto, semaforos, hay_que_desalojar_sin_mensaje,
                     mutex_manejo_contexto>>
  BY DEF Recibido, globales, salida, respuestas
<1>2. /\ 1 \in DOMAIN a_kernel /\ Head(a_kernel) = a_kernel[1] /\ a_kernel[1] \in MensajesAKernel
      /\ Len(a_kernel) \in Nat /\ DOMAIN a_kernel = 1..Len(a_kernel)
  BY <1>1 DEF TypeOK
<1>3. a_kernel' = <<>>
  <2>1. \A k \in DOMAIN a_kernel : k = 1
    BY <1>2 DEF Nucleo, Unicos
  <2>2. Len(a_kernel) = 1
    BY <1>2, <2>1
  <2> QED BY <1>1, <2>2 DEF TypeOK
<1>4. Naciendo = {} /\ ~Callado /\ ~Trabaja /\ ~Contesta /\ EnCamino = {}
  BY <1>1 DEF Nucleo, Turno, Espera
<1>5. a_cpu = <<>>
  <2>1. \A k \in DOMAIN a_cpu : FALSE
    <3> TAKE k \in DOMAIN a_cpu
    <3>1. a_cpu[k] \in MensajesACpu /\ Despachado(a_cpu[k])
      BY <1>4 DEF Contesta, TypeOK
    <3>2. k \in EnCamino
      BY <3>1 DEF EnCamino, MensajesACpu, Despachado
    <3> QED BY <1>4, <3>2
  <2>2. Len(a_cpu) \in Nat /\ DOMAIN a_cpu = 1..Len(a_cpu)
    BY DEF TypeOK
  <2>3. Len(a_cpu) = 0
    BY <2>1, <2>2
  <2> QED BY <2>3 DEF TypeOK
<1>6. semaforos["respuesta"] = 0
  <2>1. semaforos["respuesta"] \in Nat
    BY DEF TypeOK, Semaforos
  <2> QED BY <1>4, <2>1 DEF Trabaja
<1>7. M \subseteq Sincronicas => Despiertos = {} /\ contexto \in Contextos /\ contexto.pid = p
  <2> SUFFICES ASSUME M \subseteq Sincronicas
               PROVE  Despiertos = {} /\ contexto \in Contextos /\ contexto.pid = p
    OBVIOUS
  <2>1. Pregunta
    BY <1>1, <1>2 DEF Pregunta
  <2> QED BY <1>1, <2>1 DEF Nucleo, Espera, Duenos
<1>8. pcb' \in [Procesos -> Contextos] /\ \A q \in Procesos : pcb'[q].pid = q
  <2>1. Head(a_kernel).contexto \in Contextos
    BY <1>2 DEF MensajesAKernel
  <2> QED BY <1>1, <2>1 DEF Nucleo, Duenos, TypeOK
<1> QED BY <1>1, <1>3, <1>4, <1>5, <1>6, <1>7, <1>8

(* It lets the process go on.                                               *)
LEMMA OtorgarTurno ==
  ASSUME TypeOK, Nucleo, NEW p \in Procesos, Otorgar(p)
  PROVE  Nucleo'
<1> DEFINE m == Respuesta(1)
<1>1. Recibido(p, Sincronicas) /\ a_cpu' = Append(a_cpu, m) /\ en_exec' = en_exec
  BY DEF Otorgar, Responder
<1>2. /\ a_kernel' = <<>> /\ a_cpu = <<>> /\ Naciendo = {} /\ ~Callado
      /\ semaforos["respuesta"] = 0 /\ Despiertos = {} /\ contexto \in Contextos
      /\ contexto.pid = p /\ p = en_exec /\ \A q \in Procesos : pcb'[q].pid = q
      /\ UNCHANGED <<hilos, contexto, semaforos, hay_que_desalojar_sin_mensaje,
                     mutex_manejo_contexto>>
  BY <1>1, AlRecibir, Zenon
<1>3. m.estado = 1 /\ ~Despachado(m)
  BY DEF Respuesta, Despachado
<1> HIDE DEF m
<1>4. DOMAIN a_cpu' = {1} /\ a_cpu'[1] = m
  BY <1>1, <1>2
<1>5. /\ EnCamino' = {1} /\ Naciendo' = {} /\ Despiertos' = {} /\ ~Callado' /\ ~Trabaja'
      /\ ~Pregunta'
  <2>1. EnCamino' = {1} /\ ~Callado' /\ ~Pregunta'
    BY <1>2, <1>3, <1>4 DEF EnCamino, Callado, Pregunta
  <2>2. Naciendo' = {} /\ Despiertos' = {}
    BY <1>2 DEF Naciendo, Despiertos, En
  <2> QED BY <1>2, <2>1, <2>2 DEF Trabaja
<1>6. Unicos'
  BY <1>2, <1>3, <1>4, <1>5 DEF Unicos
<1>7. Turno'
  BY <1>1, <1>2, <1>5, ConstantesCpu DEF Turno
<1>8. Espera'
  BY <1>2, <1>5 DEF Nucleo, Espera, En
<1>9. Duenos'
  BY <1>1, <1>2, <1>3, <1>4, <1>5 DEF Duenos
<1> QED BY <1>6, <1>7, <1>8, <1>9 DEF Nucleo

(* It takes the process out of EXEC and says so.                            *)
LEMMA NegarTurno ==
  ASSUME TypeOK, Nucleo, NEW p \in Procesos, Negar(p) \/ Invalidar(p)
  PROVE  Nucleo'
<1> DEFINE m == Respuesta(-1)
<1>1. /\ a_cpu' = Append(a_cpu, m) /\ en_exec' = NULL
      /\ \E M \in SUBSET Sincronicas : Recibido(p, M)
  BY DEF Negar, Invalidar, Responder, SacarDeExec, Sincronicas
<1>2. /\ a_kernel' = <<>> /\ a_cpu = <<>> /\ Naciendo = {} /\ ~Callado
      /\ semaforos["respuesta"] = 0 /\ Despiertos = {} /\ contexto \in Contextos
      /\ \A q \in Procesos : pcb'[q].pid = q
      /\ UNCHANGED <<hilos, contexto, semaforos, hay_que_desalojar_sin_mensaje,
                     mutex_manejo_contexto>>
  BY <1>1, AlRecibir
<1>3. m.estado = -1 /\ ~Despachado(m)
  BY DEF Respuesta, Despachado
<1> HIDE DEF m
<1>4. DOMAIN a_cpu' = {1} /\ a_cpu'[1] = m
  BY <1>1, <1>2
<1>5. /\ EnCamino' = {} /\ Naciendo' = {} /\ Despiertos' = {} /\ ~Callado' /\ ~Trabaja'
      /\ ~Pregunta'
  <2>1. EnCamino' = {} /\ ~Callado' /\ ~Pregunta'
    BY <1>2, <1>3, <1>4 DEF EnCamino, Callado, Pregunta
  <2>2. Naciendo' = {} /\ Despiertos' = {}
    BY <1>2 DEF Naciendo, Despiertos, En
  <2> QED BY <1>2, <2>1, <2>2 DEF Trabaja
<1>6. Unicos'
  BY <1>2, <1>3, <1>4, <1>5 DEF Unicos
<1>7. Turno'
  BY <1>1, <1>2, <1>5 DEF Turno
<1>8. Espera'
  BY <1>2, <1>5 DEF Nucleo, Espera, En
<1>9. Duenos'
  BY <1>1, <1>2, <1>3, <1>4, <1>5 DEF Duenos
<1> QED BY <1>6, <1>7, <1>8, <1>9 DEF Nucleo

(* It takes the process out of EXEC, and there is nothing to say or nobody  *)
(* is told.                                                                 *)
LEMMA DejarExecTurno ==
  ASSUME TypeOK, Nucleo, NEW p \in Procesos,
         \/ NegarSinResponder(p) \/ Bloquear(p) \/ BloquearPorFallo(p)
         \/ PlpExit(p) \/ Reubicar(p) \/ Desalojar(p)
  PROVE  Nucleo'
<1>1. a_cpu' = a_cpu /\ en_exec' = NULL /\ \E M : Recibido(p, M)
  BY DEF NegarSinResponder, Bloquear, BloquearPorFallo, PlpExit, Reubicar, Desalojar, SacarDeExec
<1>2. /\ a_kernel' = <<>> /\ a_cpu = <<>> /\ Naciendo = {} /\ ~Callado /\ ~Trabaja
      /\ semaforos["respuesta"] = 0 /\ \A q \in Procesos : pcb'[q].pid = q
      /\ UNCHANGED <<hilos, contexto, semaforos, hay_que_desalojar_sin_mensaje,
                     mutex_manejo_contexto>>
  BY <1>1, AlRecibir
<1>3. /\ EnCamino' = {} /\ Naciendo' = {} /\ Despiertos' = Despiertos /\ ~Callado'
      /\ ~Trabaja' /\ ~Pregunta' /\ ~Contesta'
  <2>1. EnCamino' = {} /\ ~Callado' /\ ~Pregunta' /\ ~Contesta'
    BY <1>1, <1>2 DEF EnCamino, Callado, Pregunta, Contesta
  <2>2. Naciendo' = {} /\ Despiertos' = Despiertos
    BY <1>2 DEF Naciendo, Despiertos, En
  <2> QED BY <1>2, <2>1, <2>2 DEF Trabaja, En
<1>4. Unicos'
  BY <1>1, <1>2, <1>3 DEF Nucleo, Unicos
<1>5. Turno'
  BY <1>1, <1>2, <1>3 DEF Turno
<1>6. Espera'
  BY <1>2, <1>3 DEF Nucleo, Espera, En
<1>7. Duenos'
  BY <1>1, <1>2, <1>3 DEF Nucleo, Duenos
<1> QED BY <1>4, <1>5, <1>6, <1>7 DEF Nucleo

(* It dispatches when nobody is in EXEC.                                    *)
LEMMA DespacharTurno ==
  ASSUME TypeOK, Nucleo, NEW p \in Procesos, Despachar(p)
  PROVE  Nucleo'
<1> DEFINE m == Ejecutar(pcb[p])
<1>1. /\ en_exec = NULL /\ en_exec' = p /\ p # NULL /\ a_cpu' = Append(a_cpu, m)
      /\ UNCHANGED <<hilos, contexto, semaforos, hay_que_desalojar_sin_mensaje,
                     mutex_manejo_contexto, a_kernel, pcb>>
  BY ConstantesCpu DEF Despachar, globales, salida, respuestas
<1>2. EnCamino = {} /\ Naciendo = {} /\ a_kernel = <<>> /\ ~Trabaja
  BY <1>1 DEF Nucleo, Turno
<1>3. m.estado = 0 /\ Despachado(m) /\ m.contexto = pcb[p] /\ m.contexto.pid = p
  BY DEF Ejecutar, Despachado, Nucleo, Duenos
<1> HIDE DEF m
<1> DEFINE n == Len(a_cpu)
<1>4. /\ n \in Nat /\ DOMAIN a_cpu = 1..n /\ DOMAIN a_cpu' = 1..n+1
      /\ a_cpu'[n + 1] = m /\ \A k \in 1..n : a_cpu'[k] = a_cpu[k]
  BY <1>1 DEF TypeOK
<1>5. \A k \in 1..n : a_cpu[k].estado = -1 /\ ~Despachado(a_cpu[k])
  <2> TAKE k \in 1..n
  <2>1. a_cpu[k].estado = -1
    BY <1>2, <1>4 DEF EnCamino
  <2>2. a_cpu[k] \in MensajesACpu
    BY <1>4 DEF TypeOK
  <2> QED BY <2>1, <2>2 DEF MensajesACpu, Despachado
<1> HIDE DEF n
<1>6. EnCamino' = {n + 1}
  BY <1>3, <1>4, <1>5 DEF EnCamino
<1>7. Contesta' = Contesta
  <2>1. Contesta => Contesta'
    BY <1>4 DEF Contesta, Despachado
  <2>2. Contesta' => Contesta
    BY <1>3, <1>4 DEF Contesta, Despachado
  <2> QED BY <2>1, <2>2 DEF Contesta
<1>8. /\ Naciendo' = {} /\ Despiertos' = Despiertos /\ Callado' = Callado
      /\ ~Trabaja' /\ ~Pregunta' /\ ~Pregunta
  <2>1. Naciendo' = {} /\ Despiertos' = Despiertos /\ Callado' = Callado
    BY <1>1, <1>2 DEF Naciendo, Despiertos, En, Callado
  <2>2. ~Trabaja'
    BY <1>1, <1>2, <2>1 DEF Trabaja, En
  <2> QED BY <1>1, <1>2, <2>1, <2>2 DEF Pregunta
<1>9. Unicos'
  <2>1. \A k \in DOMAIN a_cpu' : ~Despachado(a_cpu'[k]) => k = 1
    BY <1>3, <1>4 DEF Nucleo, Unicos, Despachado
  <2> QED BY <1>1, <1>2, <1>6, <1>8, <2>1 DEF Nucleo, Unicos
<1>10. Turno'
  BY <1>1, <1>2, <1>6, <1>8 DEF Turno
<1>11. Espera'
  BY <1>1, <1>2, <1>7, <1>8 DEF Nucleo, Espera, En
<1>12. Duenos'
  <2>1. \A k \in DOMAIN a_cpu' : a_cpu'[k] = m \/ (a_cpu'[k].estado = -1 /\ ~Despachado(a_cpu'[k]))
    BY <1>4, <1>5 DEF Despachado
  <2> QED BY <1>1, <1>2, <1>3, <1>8, <2>1 DEF Nucleo, Duenos
<1> QED BY <1>9, <1>10, <1>11, <1>12 DEF Nucleo

-------------------------------------------------------------------------------
(* Each action preserves Nucleo.                                            *)

(* The steps of the thread that executes, other than the ones above.        *)
LEMMA SeguirTurno ==
  ASSUME TypeOK, Leida, Nucleo, NEW h \in Hilos,
         \/ Fetch(h) \/ Decode(h) \/ EjecutarSimple(h) \/ EjecutarVoluntaria(h)
         \/ EjecutarDeMemoria(h) \/ SinMarco(h) \/ Acceder(h) \/ LlevarDireccion(h)
         \/ TerminarLectura(h) \/ TerminarEscritura(h) \/ Revisar(h)
  PROVE  Nucleo'
<1> DEFINE Dormidos == {"LIBRE", "NACE", "RESPUESTA", "DESTRUYE"}
<1>1. /\ hilos[h].paso \notin Dormidos
      /\ UNCHANGED <<a_cpu, a_kernel, en_exec, hay_que_desalojar_sin_mensaje, pcb,
                     mutex_manejo_contexto>>
  BY DEF Fetch, Decode, EjecutarSimple, EjecutarVoluntaria, EjecutarDeMemoria, SinMarco, Acceder,
         LlevarDireccion, TerminarLectura, TerminarEscritura, Revisar, En, salida, sockets, kernel
<1>2. h \in Despiertos /\ ~En(h, "DESTRUYE")
  BY <1>1 DEF Despiertos, En
<1>3. contexto \in Contextos /\ (Callado => hilos[h].paso \in {"REVISA", "SALE"})
  BY <1>1, <1>2, ElQueTrabaja DEF Nucleo, Espera, En
<1>4. semaforos'["respuesta"] = semaforos["respuesta"]
  BY DEF Fetch, Decode, EjecutarSimple, EjecutarVoluntaria, EjecutarDeMemoria, SinMarco, Acceder,
         LlevarDireccion, TerminarLectura, TerminarEscritura, Revisar, Wait, respuestas, TypeOK,
         Semaforos
<1>5. \E x \in Pasos \ Dormidos : IrA(h, x) /\ (Callado => x \in {"REVISA", "SALE"})
  <2>1. CASE Revisar(h)
    BY <2>1, Zenon DEF Revisar, Callado, Pasos
  <2>2. CASE ~Revisar(h)
    <3>1. ~Callado
      BY <2>2, <1>3 DEF Fetch, Decode, EjecutarSimple, EjecutarVoluntaria, EjecutarDeMemoria,
            SinMarco, Acceder, LlevarDireccion, TerminarLectura, TerminarEscritura, En
    <3>2. \E x \in Pasos \ Dormidos : IrA(h, x)
      BY <2>2, Zenon DEF Fetch, Decode, EjecutarSimple, EjecutarVoluntaria, EjecutarDeMemoria,
            SinMarco, Acceder, LlevarDireccion, TerminarLectura, TerminarEscritura, Pasos
    <3> QED BY <3>1, <3>2
  <2> QED BY <2>1, <2>2
<1>6. contexto' \in Contextos /\ contexto'.pid = contexto.pid
  <2>1. CASE contexto' = contexto \/ AvanzarIp
    BY <2>1, <1>3, AvanzarDaContexto
  <2>2. CASE EjecutarSimple(h)
    <3>1. instruccion \in Instruccion /\ instruccion.op \in Simples
          /\ contexto' = Calcular(instruccion, contexto)
      BY <2>2 DEF EjecutarSimple, Leida, En
    <3> QED BY <3>1, <1>3, CalcularDaContexto
  <2>3. CASE TerminarLectura(h)
    <3>1. /\ instruccion \in Instruccion /\ valorMarco \in Palabras
          /\ contexto' = Cargar(instruccion, contexto, valorMarco)
      BY <2>3 DEF TerminarLectura, Leida, En, TypeOK
    <3> QED BY <3>1, <1>3, CargarDaContexto
  <2> QED BY <2>1, <2>2, <2>3 DEF Fetch, Decode, EjecutarVoluntaria, EjecutarDeMemoria, SinMarco,
               Acceder, LlevarDireccion, TerminarEscritura, Revisar, Fallar, globales
<1>7. PICK x \in Pasos \ Dormidos : IrA(h, x) /\ (Callado => x \in {"REVISA", "SALE"})
  BY <1>5
<1> HIDE DEF Dormidos
<1> QED
  <2>1. hilos[h].paso \notin {"LIBRE", "NACE", "RESPUESTA", "DESTRUYE"}
    BY <1>1 DEF Dormidos
  <2>2. x \in Pasos \ {"LIBRE", "NACE", "RESPUESTA", "DESTRUYE"}
    BY <1>7 DEF Dormidos
  <2> QED BY <2>1, <2>2, <1>1, <1>4, <1>6, <1>7, SigueTrabajando

(* Those that leave the turn where it is.                                   *)
LEMMA QuietosTurno ==
  ASSUME TypeOK, Nucleo,
         \/ \E h \in Hilos : UsarDestruido(h)
         \/ HiloInterrupt \/ AtenderMemoria \/ EnviarInterrupcion
         \/ \E p \in Procesos : Despertar(p) \/ Reemplazar(p) \/ Finalizar(p)
         \/ UNCHANGED vars
  PROVE  Nucleo'
<1>1. UNCHANGED <<hilos, a_cpu, a_kernel, en_exec, hay_que_desalojar_sin_mensaje, contexto, pcb,
                  mutex_manejo_contexto>>
  BY DEF UsarDestruido, HiloInterrupt, ManejarInterrupcion, CompararPid, CompararSinContexto, Caer,
         AtenderMemoria, RecibirInstruccion, RecibirMarco, RecibirValor, RecibirEscritura,
         EnviarInterrupcion, Despertar, Reemplazar, Finalizar, vars, globales, salida, sockets,
         kernel
<1>2. semaforos'["respuesta"] = semaforos["respuesta"]
  BY DEF UsarDestruido, HiloInterrupt, ManejarInterrupcion, CompararPid, CompararSinContexto, Caer,
         AtenderMemoria, RecibirInstruccion, RecibirMarco, RecibirValor, RecibirEscritura, Post,
         EnviarInterrupcion, Despertar, Reemplazar, Finalizar, vars, respuestas, TypeOK, Semaforos
<1> QED BY <1>1, <1>2, SinTurno

(* That two threads have shared contexto is not forgotten.                  *)
LEMMA VivaAntes ==
  ASSUME [Next]_vars, cpu' = "VIVA"
  PROVE  cpu = "VIVA"
<1> USE DEF Viva, EnPie
<1>1. CASE \E h \in Hilos : Ciclo(h)
  BY <1>1 DEF Ciclo, Instalar, UsarDestruido, Caer, Fetch, Decode, EjecutarSimple,
              EjecutarSincronica, EjecutarVoluntaria, EjecutarDeMemoria, SinMarco, Acceder,
              LlevarDireccion, TerminarLectura, TerminarEscritura, TerminarSincronica, Revisar,
              Salir, Destruir
<1>2. CASE HiloDispatch \/ HiloInterrupt \/ AtenderMemoria \/ EnviarInterrupcion
  BY <1>2 DEF HiloDispatch, RecibirProceso, RecibirRespuesta, HiloInterrupt,
              ManejarInterrupcion, CompararPid, CompararSinContexto, Caer, AtenderMemoria,
              EnviarInterrupcion
<1>3. CASE KernelDispatch
  BY <1>3 DEF KernelDispatch, Otorgar, Negar, NegarSinResponder, Invalidar, Bloquear,
              BloquearPorFallo, PlpExit, Reubicar, Desalojar, Recibido
<1>4. CASE \E p \in Procesos : Despachar(p) \/ Despertar(p) \/ Reemplazar(p) \/ Finalizar(p)
  BY <1>4 DEF Despachar, Despertar, Reemplazar, Finalizar
<1>5. CASE UNCHANGED vars
  BY <1>5 DEF vars
<1> QED BY <1>1, <1>2, <1>3, <1>4, <1>5 DEF Next

LEMMA NucleoPaso ==
  ASSUME TypeOK, Leida, Salida, Nucleo, [Next]_vars, cpu' = "VIVA"
  PROVE  Nucleo'
<1>1. CASE \E h \in Hilos : Ciclo(h)
  <2>1. PICK h \in Hilos : Ciclo(h)
    BY <1>1
  <2> QED BY <2>1, InstalarTurno, QuietosTurno, SeguirTurno, EjecutarSincronicaTurno,
             TerminarSincronicaTurno, SalirTurno, DestruirTurno DEF Ciclo
<1>2. CASE HiloDispatch
  BY <1>2, RecibirProcesoTurno, RecibirRespuestaTurno DEF HiloDispatch
<1>3. CASE KernelDispatch
  BY <1>3, OtorgarTurno, NegarTurno, DejarExecTurno DEF KernelDispatch
<1>4. CASE \E p \in Procesos : Despachar(p)
  BY <1>4, DespacharTurno
<1>5. CASE \/ HiloInterrupt \/ AtenderMemoria \/ EnviarInterrupcion \/ UNCHANGED vars
           \/ \E p \in Procesos : Despertar(p) \/ Reemplazar(p) \/ Finalizar(p)
  BY <1>5, QuietosTurno
<1> QED BY <1>1, <1>2, <1>3, <1>4, <1>5 DEF Next

LEMMA InvAlIniciar == Init => Inv
BY TiposAlIniciar, NucleoAlIniciar DEF Inv

LEMMA InvPaso == Inv /\ [Next]_vars => Inv'
<1> SUFFICES ASSUME Inv, [Next]_vars
             PROVE  Inv'
  OBVIOUS
<1>1. TypeOK /\ Leida /\ Salida
  BY DEF Inv
<1>2. cpu' = "VIVA" => Nucleo'
  BY <1>1, VivaAntes, NucleoPaso DEF Inv
<1>3. TypeOK' /\ Leida' /\ Salida'
  <2>1. CASE \E h \in Hilos : Ciclo(h)
    BY <2>1, <1>1, CicloTipos, CicloLee
  <2>2. CASE HiloDispatch \/ HiloInterrupt \/ AtenderMemoria
    BY <2>2, <1>1, SocketsTipos
  <2>3. CASE \/ KernelDispatch \/ EnviarInterrupcion
             \/ \E p \in Procesos : Despachar(p) \/ Despertar(p) \/ Reemplazar(p) \/ Finalizar(p)
    BY <2>3, <1>1, KernelTipos
  <2>4. CASE UNCHANGED vars
    BY <2>4, <1>1 DEF vars, globales, interrup, salida, respuestas, sockets, memoria, kernel,
                      TypeOK, Leida, Salida
  <2> QED BY <2>1, <2>2, <2>3, <2>4 DEF Next
<1> QED BY <1>2, <1>3 DEF Inv

-------------------------------------------------------------------------------
(* The theorems.                                                            *)

(* The inductive invariant holds in every state.                            *)
THEOREM InvariantesDeCpu == Spec => []Inv
<1>1. Init => Inv
  BY InvAlIniciar
<1>2. Inv /\ [Next]_vars => Inv'
  BY InvPaso
<1> QED BY <1>1, <1>2, PTL DEF Spec

(* The global contexto, the buffers, the messages and the PCBs are always    *)
(* of the kind that the code reads from them, with registers of 32 bits.    *)
THEOREM TiposDeCpu == Spec => []TypeOK
<1>1. Inv => TypeOK
  BY DEF Inv
<1> QED BY <1>1, InvariantesDeCpu, PTL

(* A set whose elements are all the same one.                               *)
LEMMA CardinalDeUnicos ==
  ASSUME NEW S, \A x, y \in S : x = y
  PROVE  Cardinality(S) = IF S = {} THEN 0 ELSE 1
<1>1. CASE S = {}
  BY <1>1, FS_EmptySet
<1>2. CASE S # {}
  <2>1. PICK x : S = {x}
    BY <1>2
  <2> QED BY <1>2, <2>1, FS_Singleton
<1> QED BY <1>1, <1>2

(* Until a thread has installed its contexto before the one told -1 had      *)
(* left, one thread at a time works on it, and never without one, whatever   *)
(* threads wait for answers that other processes will get.                  *)
THEOREM UnSoloHiloSobreElContexto == Spec => []UnoSobreElContexto
<1>1. Inv => UnoSobreElContexto
  <2> SUFFICES ASSUME Inv, cpu = "VIVA"
               PROVE  Cardinality(Despiertos) <= 1 /\ (Despiertos # {} => contexto # NULL)
    BY DEF UnoSobreElContexto
  <2>1. Cardinality(Despiertos) = IF Despiertos = {} THEN 0 ELSE 1
    BY CardinalDeUnicos DEF Inv, Nucleo, Unicos
  <2>2. Despiertos # {} => contexto # NULL
    BY ConstantesCpu DEF Inv, Nucleo, Duenos
  <2> QED BY <2>1, <2>2
<1> QED BY <1>1, InvariantesDeCpu, PTL

(* At work: in a thread, or in the answer that has been posted for it.      *)
LEMMA EjecutandoUno ==
  ASSUME TypeOK, Unicos
  PROVE  Ejecutando = IF Trabaja THEN 1 ELSE 0
<1> DEFINE D == {h \in Despiertos : ~En(h, "DESTRUYE")}
<1>1. Cardinality(D) = IF D = {} THEN 0 ELSE 1
  <2>1. \A x, y \in D : x = y
    BY DEF Unicos
  <2> HIDE DEF D
  <2> QED BY <2>1, CardinalDeUnicos
<1>2. semaforos["respuesta"] \in {0, 1} /\ (semaforos["respuesta"] = 1 => D = {})
  BY DEF TypeOK, Semaforos, Unicos
<1>3. Trabaja <=> (~Callado /\ (semaforos["respuesta"] = 1 \/ D # {}))
  BY <1>2 DEF Trabaja
<1>4. Ejecutando = IF Callado THEN 0 ELSE semaforos["respuesta"] + Cardinality(D)
  BY DEF Ejecutando, Callado
<1> HIDE DEF D
<1> QED BY <1>1, <1>2, <1>3, <1>4

(* Until two threads share contexto, the turn of the process in EXEC is in   *)
(* one place of the CPU, of the sockets or of its threads, so EXEC is never  *)
(* taken with the CPU idle nor served twice; and what travels is of the      *)
(* process in EXEC.                                                         *)
THEOREM TurnoSiempreUnico == Spec => []TurnoUnico
<1>1. Inv => TurnoUnico
  <2> SUFFICES ASSUME Inv, cpu = "VIVA"
               PROVE  TurnoUnico
    BY DEF TurnoUnico
  <2>1. TypeOK /\ Unicos /\ Turno /\ Duenos
    BY DEF Inv, Nucleo
  <2>2. Cardinality(EnCamino) = IF EnCamino = {} THEN 0 ELSE 1
    BY <2>1, CardinalDeUnicos DEF Unicos
  <2>3. Cardinality(Naciendo) = IF Naciendo = {} THEN 0 ELSE 1
    BY <2>1, CardinalDeUnicos DEF Unicos
  <2>4. Len(a_kernel) = IF a_kernel = <<>> THEN 0 ELSE 1
    <3>1. Len(a_kernel) \in Nat /\ DOMAIN a_kernel = 1..Len(a_kernel)
      BY <2>1 DEF TypeOK
    <3>2. Len(a_kernel) <= 1
      <4>1. CASE Len(a_kernel) >= 2
        <5>1. 1 \in DOMAIN a_kernel /\ 2 \in DOMAIN a_kernel
          BY <3>1, <4>1
        <5> QED BY <2>1, <5>1 DEF Unicos
      <4> QED BY <3>1, <4>1
    <3> QED BY <2>1, <3>1, <3>2 DEF TypeOK
  <2>5. Ejecutando = IF Trabaja THEN 1 ELSE 0
    BY <2>1, EjecutandoUno
  <2>6. Lugares = IF en_exec = NULL THEN 0 ELSE 1
    BY <2>1, <2>2, <2>3, <2>4, <2>5 DEF Lugares, Turno
  <2> QED BY <2>1, <2>6 DEF TurnoUnico, Duenos
<1> QED BY <1>1, InvariantesDeCpu, PTL

-------------------------------------------------------------------------------
(* Sharing the CPU does not show.  U gives each process a set of states of   *)
(* its program, contexts with the word in memory: where it begins, and all   *)
(* that follows when it runs alone.                                         *)

Cerrada(U) ==
  \A p \in Procesos :
    /\ [c |-> ContextoInicial(p), palabra |-> 0] \in U[p]
    /\ \A s \in U[p] : s.c.ip \in DOMAIN Programa[p] => PasoSola(p, s) \in U[p]

Vale(U, c, w) == [c |-> c, palabra |-> w[c.pid]] \in U[c.pid]

(* EXEC is the list of who is in EXEC.                                      *)
EnListas == \A p \in Procesos : estado[p] = "EXEC" <=> en_exec = p

(* The contexts that nobody works on: in a PCB, in a message, in a buffer.  *)
Guardados(U) ==
  /\ \A p \in Procesos : estado[p] # "EXEC" => Vale(U, pcb[p], palabra)
  /\ \A k \in DOMAIN a_kernel : Vale(U, a_kernel[k].contexto, palabra)
  /\ \A k \in DOMAIN a_cpu : Despachado(a_cpu[k]) => Vale(U, a_cpu[k].contexto, palabra)
  /\ \A h \in Naciendo : Vale(U, hilos[h].buffer, palabra)

(* The one left in contexto, while the Kernel is to answer 1 or has.        *)
EnMano(U) ==
  ( \/ Pregunta
    \/ \E k \in DOMAIN a_cpu : a_cpu[k].estado = 1
    \/ ~Callado /\ semaforos["respuesta"] > 0 )
  => Vale(U, contexto, palabra)

(* What has been asked to Memoria, and what it has answered.                *)
DeLaMemoria == {"decode", "marco", "lectura", "escritura"}
NadaPosteado == \A s \in DeLaMemoria : semaforos[s] = 0
Quieta == a_memoria = <<>> /\ NadaPosteado
Ida(op) ==
  /\ Len(a_memoria) = 1 /\ a_memoria[1].op = op /\ a_memoria[1].pid = contexto.pid
  /\ NadaPosteado
Vuelta(s) ==
  /\ a_memoria = <<>> /\ semaforos[s] = 1
  /\ \A t \in DeLaMemoria \ {s} : semaforos[t] = 0

Leyo ==
  /\ contexto.ip \in DOMAIN Programa[contexto.pid]
  /\ instruccion = Programa[contexto.pid][contexto.ip]

(* The thread that executes: where its instruction is.                      *)
PorPaso(U, x) ==
  /\ x \in {"CICLO", "REVISA", "SALE"} => Quieta /\ (~Callado => Vale(U, contexto, palabra))
  /\ x = "DECODE" =>
       /\ Vale(U, contexto, palabra)
       /\ \/ Ida("PETICION_DE_INSTRUCCIONES_CM") /\ a_memoria[1].ip = contexto.ip
          \/ Vuelta("decode") /\ Leyo
  /\ x = "EJECUTA" => Vale(U, contexto, palabra) /\ Leyo /\ Quieta
  /\ x = "MMU" =>
       /\ Vale(U, contexto, palabra) /\ Leyo
       /\ Ida("CONSULTA_DE_PAGINA_CM") \/ Vuelta("marco")
  /\ x = "LECTURA" =>
       /\ Vale(U, Cargar(instruccion, contexto, palabra[contexto.pid]), palabra)
       /\ \/ Ida("LECTURA_BLOQUE_CM")
          \/ Vuelta("lectura") /\ valorMarco = palabra[contexto.pid]
  /\ x = "ESCRITURA" =>
       \/ /\ Ida("ESCRITURA_BLOQUE_CM")
          /\ [c |-> contexto, palabra |-> a_memoria[1].valor] \in U[contexto.pid]
       \/ Vuelta("escritura") /\ Vale(U, contexto, palabra)
  /\ x = "DESTRUYE" => Quieta

EnCurso(U) ==
  /\ \A h \in Despiertos : PorPaso(U, hilos[h].paso)
  /\ Despiertos = {} => Quieta

Solo(U) == EnListas /\ Guardados(U) /\ EnMano(U) /\ EnCurso(U)
SoloHastaSolaparse(U) == cpu = "VIVA" => Solo(U)

-------------------------------------------------------------------------------
(* One instruction of the program, as the CPU executes it.                  *)

LEMMA UnPasoSola ==
  ASSUME NEW U, Cerrada(U), NEW p \in Procesos, NEW c \in Contextos, NEW v, c.pid = p,
         [c |-> c, palabra |-> v] \in U[p],
         c.ip \in DOMAIN Programa[p], NEW i, i = Programa[p][c.ip]
  PROVE  LET siguiente == [c EXCEPT !.ip = @ + 1]
         IN /\ i.op \in Simples => [c |-> Calcular(i, c), palabra |-> v] \in U[p]
            /\ i.op \in Sincronicas \cup {"SLEEP", "F_TRUNCATE", "F_READ", "F_WRITE"} =>
                 [c |-> siguiente, palabra |-> v] \in U[p]
            /\ i.op = "MOV_IN" => [c |-> Cargar(i, siguiente, v), palabra |-> v] \in U[p]
            /\ i.op = "MOV_OUT" => [c |-> siguiente, palabra |-> c.reg[i.r]] \in U[p]
<1> DEFINE s == [c |-> c, palabra |-> v]
           siguiente == [c EXCEPT !.ip = @ + 1]
<1>1. s.c = c /\ s.palabra = v
  OBVIOUS
<1>2. PasoSola(p, s) \in U[p]
  BY <1>1 DEF Cerrada
<1>3. \A x : [s EXCEPT !.c = x] = [c |-> x, palabra |-> v]
  OBVIOUS
<1> HIDE DEF s
<1>4. ASSUME i.op \in Simples
      PROVE  PasoSola(p, s) = [s EXCEPT !.c = Calcular(i, c)]
  BY <1>1, <1>4 DEF PasoSola, Simples
<1>5. ASSUME i.op \in Sincronicas \cup {"SLEEP", "F_TRUNCATE", "F_READ", "F_WRITE"}
      PROVE  PasoSola(p, s) = [s EXCEPT !.c = siguiente]
  BY <1>1, <1>5 DEF PasoSola, Simples, Sincronicas
<1>6. ASSUME i.op = "MOV_IN"
      PROVE  PasoSola(p, s) = [s EXCEPT !.c = Cargar(i, siguiente, v)]
  BY <1>1, <1>6 DEF PasoSola, Simples
<1>7. ASSUME i.op = "MOV_OUT"
      PROVE  PasoSola(p, s) = [c |-> siguiente, palabra |-> c.reg[i.r]]
  BY <1>1, <1>7 DEF PasoSola, Simples
<1> HIDE DEF siguiente
<1>8. /\ i.op \in Simples => [c |-> Calcular(i, c), palabra |-> v] \in U[p]
      /\ i.op \in Sincronicas \cup {"SLEEP", "F_TRUNCATE", "F_READ", "F_WRITE"} =>
           [c |-> siguiente, palabra |-> v] \in U[p]
      /\ i.op = "MOV_IN" => [c |-> Cargar(i, siguiente, v), palabra |-> v] \in U[p]
      /\ i.op = "MOV_OUT" => [c |-> siguiente, palabra |-> c.reg[i.r]] \in U[p]
  BY <1>2, <1>3, <1>4, <1>5, <1>6, <1>7
<1> QED BY <1>8 DEF siguiente

(* The same, of the instruction that has been fetched.                      *)
LEMMA LoQueEjecuta ==
  ASSUME NEW U, Cerrada(U), TypeOK, contexto \in Contextos, Leyo, Vale(U, contexto, palabra)
  PROVE  LET c == contexto
             siguiente == [c EXCEPT !.ip = @ + 1]
             i == instruccion
         IN /\ siguiente \in Contextos /\ siguiente.pid = c.pid
            /\ i.op \in Simples => Vale(U, Calcular(i, c), palabra)
            /\ i.op \in Sincronicas \cup {"SLEEP", "F_TRUNCATE", "F_READ", "F_WRITE"} =>
                 Vale(U, siguiente, palabra)
            /\ i.op = "MOV_IN" => Vale(U, Cargar(i, siguiente, palabra[c.pid]), palabra)
            /\ i.op = "MOV_OUT" => [c |-> siguiente, palabra |-> c.reg[i.r]] \in U[c.pid]
<1> DEFINE siguiente == [contexto EXCEPT !.ip = @ + 1]
<1>1. contexto.pid \in Procesos /\ contexto.ip \in DOMAIN Programa[contexto.pid]
  BY DEF Contextos, Leyo
<1>2. siguiente \in Contextos /\ siguiente.pid = contexto.pid
  BY DEF Contextos
<1>3. instruccion \in Instruccion
  BY <1>1, ConstantesCpu DEF Leyo
<1>4. PICK p, v, i : p = contexto.pid /\ v = palabra[p] /\ i = instruccion
  OBVIOUS
<1>5. p \in Procesos /\ v \in Palabras
  BY <1>1, <1>4 DEF TypeOK
<1>6. [c |-> contexto, palabra |-> v] \in U[p] /\ i = Programa[p][contexto.ip]
  BY <1>4 DEF Vale, Leyo
<1>7. /\ i.op \in Simples => [c |-> Calcular(i, contexto), palabra |-> v] \in U[p]
      /\ i.op \in Sincronicas \cup {"SLEEP", "F_TRUNCATE", "F_READ", "F_WRITE"} =>
           [c |-> siguiente, palabra |-> v] \in U[p]
      /\ i.op = "MOV_IN" => [c |-> Cargar(i, siguiente, v), palabra |-> v] \in U[p]
      /\ i.op = "MOV_OUT" => [c |-> siguiente, palabra |-> contexto.reg[i.r]] \in U[p]
  BY <1>1, <1>4, <1>5, <1>6, UnPasoSola
<1>8. /\ i.op \in Simples => Calcular(i, contexto).pid = p
      /\ Cargar(i, siguiente, v).pid = p
  BY <1>2, <1>3, <1>4, <1>5, CalcularDaContexto, CargarDaContexto
<1> HIDE DEF siguiente
<1>9. /\ siguiente \in Contextos /\ siguiente.pid = contexto.pid
      /\ instruccion.op \in Simples => Vale(U, Calcular(instruccion, contexto), palabra)
      /\ instruccion.op \in Sincronicas \cup {"SLEEP", "F_TRUNCATE", "F_READ", "F_WRITE"} =>
           Vale(U, siguiente, palabra)
      /\ instruccion.op = "MOV_IN" =>
           Vale(U, Cargar(instruccion, siguiente, palabra[contexto.pid]), palabra)
      /\ instruccion.op = "MOV_OUT" =>
           [c |-> siguiente, palabra |-> contexto.reg[instruccion.r]] \in U[contexto.pid]
  BY <1>2, <1>4, <1>7, <1>8 DEF Vale
<1> QED BY <1>9 DEF siguiente

-------------------------------------------------------------------------------
(* The steps of the thread that executes.                                   *)

LEMMA GuardadosIgual ==
  ASSUME NEW U, Guardados(U), UNCHANGED <<palabra, estado, pcb, a_cpu, a_kernel>>,
         \A g \in Naciendo' : g \in Naciendo /\ hilos'[g].buffer = hilos[g].buffer
  PROVE  Guardados(U)'
<1>1. \A g \in Naciendo' : Vale(U, hilos'[g].buffer, palabra)
  BY DEF Guardados
<1> QED BY <1>1 DEF Guardados, Despachado

(* A thread that executes and is to go on: nobody else has anything to say  *)
(* about its contexto.                                                      *)
LEMMA SigueSolo ==
  ASSUME NEW U, TypeOK, Nucleo, EnListas, Guardados(U), NEW h \in Hilos,
         hilos[h].paso \notin {"LIBRE", "NACE", "RESPUESTA", "DESTRUYE"},
         NEW x \in Pasos \ {"LIBRE", "NACE", "RESPUESTA"},
         IrA(h, x),
         UNCHANGED <<palabra, estado, en_exec, pcb, a_cpu, a_kernel>>,
         semaforos'["respuesta"] = semaforos["respuesta"],
         PorPaso(U, x)'
  PROVE  Solo(U)'
<1>1. \A g \in Hilos : /\ hilos'[g].paso = IF g = h THEN x ELSE hilos[g].paso
                       /\ hilos'[g].buffer = hilos[g].buffer
  BY PasoDelHilo
<1>2. h \in Despiertos /\ ~En(h, "DESTRUYE")
  BY DEF Despiertos, En
<1>3. Despiertos = {h} /\ semaforos["respuesta"] = 0 /\ ~Contesta /\ ~Pregunta
  BY <1>2, ElQueTrabaja
<1>4. Despiertos' = {h} /\ hilos'[h].paso = x
  BY <1>1, <1>3 DEF Despiertos
<1>5. EnListas'
  BY DEF EnListas
<1>6. Guardados(U)'
  <2>1. \A g \in Naciendo' : g \in Naciendo /\ hilos'[g].buffer = hilos[g].buffer
    BY <1>1 DEF Naciendo, En
  <2> QED BY <2>1, GuardadosIgual
<1>7. EnMano(U)'
  <2>1. ~Pregunta' /\ ~(semaforos'["respuesta"] > 0)
    BY <1>3 DEF Pregunta
  <2>2. \A k \in DOMAIN a_cpu' : a_cpu'[k].estado # 1
    <3> SUFFICES ASSUME NEW k \in DOMAIN a_cpu
                 PROVE  a_cpu[k].estado # 1
      OBVIOUS
    <3>1. a_cpu[k] \in MensajesACpu /\ Despachado(a_cpu[k])
      BY <1>3 DEF Contesta, TypeOK
    <3> QED BY <3>1 DEF MensajesACpu, Despachado
  <2> QED BY <2>1, <2>2 DEF EnMano
<1>8. EnCurso(U)'
  BY <1>4 DEF EnCurso
<1> QED BY <1>5, <1>6, <1>7, <1>8 DEF Solo

(* What holds when a thread takes a step other than the last one.           *)
LEMMA AlEjecutar ==
  ASSUME NEW U, TypeOK, Nucleo, Solo(U), NEW h \in Hilos,
         hilos[h].paso \notin {"LIBRE", "NACE", "RESPUESTA", "DESTRUYE"}
  PROVE  /\ PorPaso(U, hilos[h].paso) /\ contexto \in Contextos
         /\ semaforos["respuesta"] = 0 /\ Despiertos = {h}
         /\ ~Callado => contexto.pid = en_exec /\ a_kernel = <<>>
         /\ Callado => hilos[h].paso \in {"REVISA", "SALE"}
<1>1. h \in Despiertos /\ ~En(h, "DESTRUYE")
  BY DEF Despiertos, En
<1>2. PorPaso(U, hilos[h].paso)
  BY <1>1 DEF Solo, EnCurso
<1>3. Callado => hilos[h].paso \in {"REVISA", "SALE"}
  BY <1>1 DEF Nucleo, Espera
<1> QED BY <1>1, <1>2, <1>3, ElQueTrabaja

(* Taking an answer of Memoria leaves nothing of it.                        *)
LEMMA AlEsperar ==
  ASSUME TypeOK, NEW s \in DeLaMemoria, Wait(s)
  PROVE  /\ semaforos'["respuesta"] = semaforos["respuesta"]
         /\ ~NadaPosteado
         /\ \A t \in DeLaMemoria : Vuelta(t) => t = s
         /\ Vuelta(s) => NadaPosteado'
<1>1. /\ semaforos[s] \in Nat /\ semaforos[s] > 0
      /\ \A t \in Semaforos : semaforos'[t] = IF t = s THEN semaforos[s] - 1 ELSE semaforos[t]
  BY DEF Wait, TypeOK, DeLaMemoria, Semaforos
<1>2. DeLaMemoria \subseteq Semaforos /\ "respuesta" \in Semaforos /\ "respuesta" # s
  BY DEF DeLaMemoria, Semaforos
<1>3. \A t \in DeLaMemoria : Vuelta(t) => t = s
  BY <1>1 DEF Vuelta
<1>4. Vuelta(s) => \A t \in DeLaMemoria : semaforos'[t] = 0
  BY <1>1, <1>2 DEF Vuelta
<1> QED BY <1>1, <1>2, <1>3, <1>4 DEF NadaPosteado

LEMMA AlPedir ==
  ASSUME NEW op, NEW v, a_memoria = <<>>, PedirAMemoria(op, v), NadaPosteado',
         contexto'.pid = contexto.pid
  PROVE  Ida(op)' /\ a_memoria'[1].ip = contexto.ip /\ a_memoria'[1].valor = v
<1> DEFINE m == [op |-> op, pid |-> contexto.pid, ip |-> contexto.ip, valor |-> v]
<1>1. m.op = op /\ m.pid = contexto.pid /\ m.ip = contexto.ip /\ m.valor = v
  OBVIOUS
<1>2. a_memoria' = Append(<<>>, m)
  BY DEF PedirAMemoria
<1> HIDE DEF m
<1>3. a_memoria' = <<m>> /\ Len(a_memoria') = 1 /\ a_memoria'[1] = m
  BY <1>2
<1> QED BY <1>1, <1>3 DEF Ida

LEMMA FetchSolo ==
  ASSUME NEW U, TypeOK, Nucleo, Solo(U), NEW h \in Hilos, Fetch(h)
  PROVE  Solo(U)'
<1>1. /\ hilos[h].paso = "CICLO" /\ IrA(h, "DECODE")
      /\ PedirAMemoria("PETICION_DE_INSTRUCCIONES_CM", 0)
      /\ UNCHANGED <<palabra, estado, en_exec, pcb, a_cpu, a_kernel, contexto, semaforos>>
  BY DEF Fetch, En, globales, respuestas, memoria, kernel
<1>2. PorPaso(U, "CICLO") /\ ~Callado
  BY <1>1, AlEjecutar
<1>3. a_memoria = <<>> /\ NadaPosteado' /\ Vale(U, contexto, palabra)
  BY <1>1, <1>2 DEF PorPaso, Quieta, NadaPosteado
<1>4. Ida("PETICION_DE_INSTRUCCIONES_CM")' /\ a_memoria'[1].ip = contexto'.ip
  BY <1>1, <1>3, AlPedir
<1>5. PorPaso(U, "DECODE")'
  BY <1>1, <1>3, <1>4 DEF PorPaso
<1> QED BY <1>1, <1>5, SigueSolo DEF Solo, Pasos

LEMMA DecodeSolo ==
  ASSUME NEW U, TypeOK, Nucleo, Solo(U), NEW h \in Hilos, Decode(h)
  PROVE  Solo(U)'
<1>1. /\ hilos[h].paso = "DECODE" /\ IrA(h, "EJECUTA") /\ Wait("decode")
      /\ UNCHANGED <<palabra, estado, en_exec, pcb, a_cpu, a_kernel, contexto, instruccion,
                     a_memoria>>
  BY DEF Decode, En, globales, sockets, memoria, kernel
<1>2. PorPaso(U, "DECODE")
  BY <1>1, AlEjecutar
<1>3. /\ semaforos'["respuesta"] = semaforos["respuesta"] /\ ~NadaPosteado
      /\ Vuelta("decode") => NadaPosteado'
  BY <1>1, AlEsperar DEF DeLaMemoria
<1>4. Vuelta("decode") /\ Leyo /\ Vale(U, contexto, palabra)
  BY <1>2, <1>3 DEF PorPaso, Ida
<1>5. Quieta' /\ Leyo'
  BY <1>1, <1>3, <1>4 DEF Quieta, Vuelta, Leyo
<1>6. PorPaso(U, "EJECUTA")'
  BY <1>1, <1>4, <1>5 DEF PorPaso
<1> QED BY <1>1, <1>3, <1>6, SigueSolo DEF Solo, Pasos

LEMMA EjecutarSimpleSolo ==
  ASSUME NEW U, Cerrada(U), TypeOK, Nucleo, Solo(U), NEW h \in Hilos, EjecutarSimple(h)
  PROVE  Solo(U)'
<1>1. /\ hilos[h].paso = "EJECUTA" /\ IrA(h, "REVISA") /\ instruccion.op \in Simples
      /\ contexto' = Calcular(instruccion, contexto)
      /\ UNCHANGED <<palabra, estado, en_exec, pcb, a_cpu, a_kernel, semaforos, a_memoria>>
  BY DEF EjecutarSimple, En, respuestas, sockets, memoria, kernel
<1>2. PorPaso(U, "EJECUTA") /\ contexto \in Contextos
  BY <1>1, AlEjecutar
<1>3. Leyo /\ Vale(U, contexto, palabra) /\ Quieta
  BY <1>2 DEF PorPaso
<1>4. Vale(U, Calcular(instruccion, contexto), palabra)
  BY <1>1, <1>2, <1>3, LoQueEjecuta
<1>5. Vale(U, contexto', palabra') /\ Quieta'
  BY <1>1, <1>3, <1>4 DEF Quieta, NadaPosteado
<1>6. PorPaso(U, "REVISA")'
  BY <1>5 DEF PorPaso
<1> QED BY <1>1, <1>6, SigueSolo DEF Solo, Pasos

LEMMA EjecutarVoluntariaSolo ==
  ASSUME NEW U, Cerrada(U), TypeOK, Nucleo, Solo(U), NEW h \in Hilos, EjecutarVoluntaria(h)
  PROVE  Solo(U)'
<1>1. /\ hilos[h].paso = "EJECUTA" /\ IrA(h, "REVISA") /\ instruccion.op \in Voluntarias
      /\ IF instruccion.op = "EXIT" THEN UNCHANGED contexto ELSE AvanzarIp
      /\ UNCHANGED <<palabra, estado, en_exec, pcb, a_cpu, a_kernel, semaforos, a_memoria>>
  BY DEF EjecutarVoluntaria, En, respuestas, sockets, memoria, kernel
<1>2. PorPaso(U, "EJECUTA") /\ contexto \in Contextos
  BY <1>1, AlEjecutar
<1>3. Leyo /\ Vale(U, contexto, palabra) /\ Quieta
  BY <1>2 DEF PorPaso
<1>4. instruccion.op # "EXIT" => Vale(U, contexto', palabra)
  BY <1>1, <1>2, <1>3, LoQueEjecuta DEF Voluntarias, AvanzarIp
<1>5. Vale(U, contexto', palabra') /\ Quieta'
  BY <1>1, <1>3, <1>4 DEF Quieta, NadaPosteado
<1>6. PorPaso(U, "REVISA")'
  BY <1>5 DEF PorPaso
<1> QED BY <1>1, <1>6, SigueSolo DEF Solo, Pasos

LEMMA EjecutarDeMemoriaSolo ==
  ASSUME NEW U, TypeOK, Nucleo, Solo(U), NEW h \in Hilos, EjecutarDeMemoria(h)
  PROVE  Solo(U)'
<1>1. /\ hilos[h].paso = "EJECUTA" /\ IrA(h, "MMU")
      /\ PedirAMemoria("CONSULTA_DE_PAGINA_CM", 0)
      /\ UNCHANGED <<palabra, estado, en_exec, pcb, a_cpu, a_kernel, contexto, instruccion,
                     semaforos>>
  BY DEF EjecutarDeMemoria, En, globales, respuestas, memoria, kernel
<1>2. PorPaso(U, "EJECUTA")
  BY <1>1, AlEjecutar
<1>3. a_memoria = <<>> /\ NadaPosteado' /\ Vale(U, contexto, palabra) /\ Leyo
  BY <1>1, <1>2 DEF PorPaso, Quieta, NadaPosteado
<1>4. Ida("CONSULTA_DE_PAGINA_CM")' /\ Leyo'
  BY <1>1, <1>3, AlPedir DEF Leyo
<1>5. PorPaso(U, "MMU")'
  BY <1>1, <1>3, <1>4 DEF PorPaso
<1> QED BY <1>1, <1>5, SigueSolo DEF Solo, Pasos

(* The frame has come.                                                      *)
LEMMA AlTraducir ==
  ASSUME NEW U, TypeOK, Nucleo, Solo(U), NEW h \in Hilos, En(h, "MMU"), Wait("marco")
  PROVE  /\ contexto \in Contextos /\ Leyo /\ Vale(U, contexto, palabra)
         /\ a_memoria = <<>> /\ NadaPosteado'
         /\ semaforos'["respuesta"] = semaforos["respuesta"]
<1>1. PorPaso(U, "MMU") /\ contexto \in Contextos
  BY AlEjecutar DEF En
<1>2. /\ semaforos'["respuesta"] = semaforos["respuesta"] /\ ~NadaPosteado
      /\ Vuelta("marco") => NadaPosteado'
  BY AlEsperar DEF DeLaMemoria
<1>3. Leyo /\ Vale(U, contexto, palabra) /\ Vuelta("marco")
  BY <1>1, <1>2 DEF PorPaso, Ida
<1> QED BY <1>1, <1>2, <1>3 DEF Vuelta

LEMMA SinMarcoSolo ==
  ASSUME NEW U, TypeOK, Nucleo, Solo(U), NEW h \in Hilos, SinMarco(h)
  PROVE  Solo(U)'
<1>1. /\ En(h, "MMU") /\ IrA(h, "REVISA") /\ Wait("marco")
      /\ UNCHANGED <<palabra, estado, en_exec, pcb, a_cpu, a_kernel, contexto, a_memoria>>
  BY DEF SinMarco, Fallar, sockets, memoria, kernel
<1>2. /\ Vale(U, contexto, palabra) /\ a_memoria = <<>> /\ NadaPosteado'
      /\ semaforos'["respuesta"] = semaforos["respuesta"]
  BY <1>1, AlTraducir
<1>3. PorPaso(U, "REVISA")'
  BY <1>1, <1>2 DEF PorPaso, Quieta
<1> QED BY <1>1, <1>2, <1>3, SigueSolo DEF Solo, Pasos, En

LEMMA AccederSolo ==
  ASSUME NEW U, Cerrada(U), TypeOK, Nucleo, Solo(U), NEW h \in Hilos, Acceder(h)
  PROVE  Solo(U)'
<1>1. /\ En(h, "MMU") /\ Wait("marco") /\ AvanzarIp
      /\ UNCHANGED <<palabra, estado, en_exec, pcb, a_cpu, a_kernel, instruccion>>
  BY DEF Acceder, memoria, kernel
<1>2. /\ contexto \in Contextos /\ Leyo /\ Vale(U, contexto, palabra)
      /\ a_memoria = <<>> /\ NadaPosteado'
      /\ semaforos'["respuesta"] = semaforos["respuesta"]
  BY <1>1, AlTraducir
<1>3. /\ contexto'.pid = contexto.pid
      /\ instruccion.op = "MOV_IN" =>
           Vale(U, Cargar(instruccion, contexto', palabra[contexto.pid]), palabra)
      /\ instruccion.op = "MOV_OUT" =>
           [c |-> contexto', palabra |-> contexto.reg[instruccion.r]] \in U[contexto.pid]
  BY <1>1, <1>2, LoQueEjecuta DEF AvanzarIp
<1>4. CASE instruccion.op = "MOV_IN"
  <2>1. PedirAMemoria("LECTURA_BLOQUE_CM", 0) /\ IrA(h, "LECTURA")
    BY <1>4 DEF Acceder
  <2>2. Ida("LECTURA_BLOQUE_CM")'
    BY <1>2, <1>3, <2>1, AlPedir
  <2>3. PorPaso(U, "LECTURA")'
    BY <1>1, <1>3, <1>4, <2>2 DEF PorPaso
  <2> QED BY <1>1, <1>2, <2>1, <2>3, SigueSolo DEF Solo, Pasos, En
<1>5. CASE instruccion.op = "MOV_OUT"
  <2>1. /\ PedirAMemoria("ESCRITURA_BLOQUE_CM", contexto.reg[instruccion.r])
        /\ IrA(h, "ESCRITURA")
    BY <1>5 DEF Acceder
  <2>2. /\ Ida("ESCRITURA_BLOQUE_CM")'
        /\ a_memoria'[1].valor = contexto.reg[instruccion.r]
    BY <1>2, <1>3, <2>1, AlPedir
  <2>3. PorPaso(U, "ESCRITURA")'
    BY <1>1, <1>3, <1>5, <2>2 DEF PorPaso
  <2> QED BY <1>1, <1>2, <2>1, <2>3, SigueSolo DEF Solo, Pasos, En
<1> QED BY <1>4, <1>5 DEF Acceder

LEMMA LlevarDireccionSolo ==
  ASSUME NEW U, Cerrada(U), TypeOK, Nucleo, Solo(U), NEW h \in Hilos, LlevarDireccion(h)
  PROVE  Solo(U)'
<1>1. /\ En(h, "MMU") /\ Wait("marco") /\ AvanzarIp /\ IrA(h, "REVISA")
      /\ instruccion.op \in {"F_READ", "F_WRITE"}
      /\ UNCHANGED <<palabra, estado, en_exec, pcb, a_cpu, a_kernel, a_memoria>>
  BY DEF LlevarDireccion, sockets, memoria, kernel
<1>2. /\ contexto \in Contextos /\ Leyo /\ Vale(U, contexto, palabra)
      /\ a_memoria = <<>> /\ NadaPosteado'
      /\ semaforos'["respuesta"] = semaforos["respuesta"]
  BY <1>1, AlTraducir
<1>3. Vale(U, contexto', palabra)
  BY <1>1, <1>2, LoQueEjecuta DEF AvanzarIp
<1>4. PorPaso(U, "REVISA")'
  BY <1>1, <1>2, <1>3 DEF PorPaso, Quieta
<1> QED BY <1>1, <1>2, <1>4, SigueSolo DEF Solo, Pasos, En

LEMMA TerminarLecturaSolo ==
  ASSUME NEW U, TypeOK, Nucleo, Solo(U), NEW h \in Hilos, TerminarLectura(h)
  PROVE  Solo(U)'
<1>1. /\ hilos[h].paso = "LECTURA" /\ IrA(h, "REVISA") /\ Wait("lectura")
      /\ contexto' = Cargar(instruccion, contexto, valorMarco)
      /\ UNCHANGED <<palabra, estado, en_exec, pcb, a_cpu, a_kernel, a_memoria>>
  BY DEF TerminarLectura, En, sockets, memoria, kernel
<1>2. PorPaso(U, "LECTURA")
  BY <1>1, AlEjecutar
<1>3. /\ semaforos'["respuesta"] = semaforos["respuesta"] /\ ~NadaPosteado
      /\ Vuelta("lectura") => NadaPosteado'
  BY <1>1, AlEsperar DEF DeLaMemoria
<1>4. /\ Vuelta("lectura") /\ valorMarco = palabra[contexto.pid]
      /\ Vale(U, Cargar(instruccion, contexto, palabra[contexto.pid]), palabra)
  BY <1>2, <1>3 DEF PorPaso, Ida
<1>5. Vale(U, contexto', palabra') /\ Quieta'
  BY <1>1, <1>3, <1>4 DEF Quieta, Vuelta
<1>6. PorPaso(U, "REVISA")'
  BY <1>5 DEF PorPaso
<1> QED BY <1>1, <1>3, <1>6, SigueSolo DEF Solo, Pasos

LEMMA TerminarEscrituraSolo ==
  ASSUME NEW U, TypeOK, Nucleo, Solo(U), NEW h \in Hilos, TerminarEscritura(h)
  PROVE  Solo(U)'
<1>1. /\ hilos[h].paso = "ESCRITURA" /\ IrA(h, "REVISA") /\ Wait("escritura")
      /\ UNCHANGED <<palabra, estado, en_exec, pcb, a_cpu, a_kernel, a_memoria, contexto>>
  BY DEF TerminarEscritura, En, globales, sockets, memoria, kernel
<1>2. PorPaso(U, "ESCRITURA")
  BY <1>1, AlEjecutar
<1>3. /\ semaforos'["respuesta"] = semaforos["respuesta"] /\ ~NadaPosteado
      /\ Vuelta("escritura") => NadaPosteado'
  BY <1>1, AlEsperar DEF DeLaMemoria
<1>4. Vuelta("escritura") /\ Vale(U, contexto, palabra)
  BY <1>2, <1>3 DEF PorPaso, Ida
<1>5. Vale(U, contexto', palabra') /\ Quieta'
  BY <1>1, <1>3, <1>4 DEF Quieta, Vuelta
<1>6. PorPaso(U, "REVISA")'
  BY <1>5 DEF PorPaso
<1> QED BY <1>1, <1>3, <1>6, SigueSolo DEF Solo, Pasos

LEMMA RevisarSolo ==
  ASSUME NEW U, TypeOK, Nucleo, Solo(U), NEW h \in Hilos, Revisar(h)
  PROVE  Solo(U)'
<1>1. /\ IrA(h, "SALE") \/ IrA(h, "CICLO")
      /\ UNCHANGED <<palabra, estado, en_exec, pcb, a_cpu, a_kernel, a_memoria, contexto,
                     semaforos, hay_que_desalojar_sin_mensaje>>
  BY Zenon DEF Revisar, En, globales, salida, respuestas, sockets, memoria, kernel
<1>2. hilos[h].paso = "REVISA"
  BY DEF Revisar, En
<1>3. PorPaso(U, "REVISA")
  BY <1>2, AlEjecutar
<1>4. PorPaso(U, "SALE")' /\ PorPaso(U, "CICLO")'
  BY <1>1, <1>3 DEF PorPaso, Quieta, NadaPosteado, Callado
<1> QED BY <1>1, <1>2, <1>4, SigueSolo DEF Solo, Pasos

(* It leaves, with its contexto in the message, or without a message.       *)
LEMMA SalirSolo ==
  ASSUME NEW U, TypeOK, Salida, Nucleo, Solo(U), NEW h \in Hilos, Salir(h)
  PROVE  Solo(U)'
<1>1. /\ hilos[h].paso = "SALE" /\ IrA(h, "DESTRUYE")
      /\ Callado \/ hay_que_desalojar \/ interruptFlag
      /\ Callado => a_kernel' = a_kernel
      /\ ~Callado => a_kernel' = Append(a_kernel, MensajeDeSalida)
      /\ UNCHANGED <<palabra, estado, en_exec, pcb, a_cpu, a_memoria, contexto, semaforos,
                     hay_que_desalojar_sin_mensaje>>
  BY DEF Salir, En, Callado, globales, salida, respuestas, memoria, kernel
<1>2. /\ PorPaso(U, "SALE") /\ Despiertos = {h}
      /\ ~Callado => contexto.pid = en_exec /\ a_kernel = <<>>
  BY <1>1, AlEjecutar
<1>3. Quieta /\ (~Callado => Vale(U, contexto, palabra))
  BY <1>2 DEF PorPaso
<1>4. PorPaso(U, "DESTRUYE")'
  BY <1>1, <1>3 DEF PorPaso, Quieta, NadaPosteado
<1>5. CASE Callado
  <2>1. UNCHANGED <<palabra, estado, en_exec, pcb, a_cpu, a_kernel>>
    BY <1>1, <1>5
  <2> QED BY <1>1, <1>4, <2>1, SigueSolo DEF Solo, Pasos
<1>6. CASE ~Callado
  <2> DEFINE m == MensajeDeSalida
  <2>1. m.contexto = contexto /\ m.motivo \notin Sincronicas
    BY <1>1, <1>6 DEF MensajeDeSalida, Mensaje, Salida, Motivos, Interrupciones, Sincronicas,
                      Voluntarias
  <2> HIDE DEF m
  <2>2. a_kernel' = <<m>> /\ DOMAIN a_kernel' = {1} /\ a_kernel'[1] = m
    BY <1>1, <1>2, <1>6 DEF m
  <2>3. \A g \in Hilos : /\ hilos'[g].paso = IF g = h THEN "DESTRUYE" ELSE hilos[g].paso
                         /\ hilos'[g].buffer = hilos[g].buffer
    BY <1>1, PasoDelHilo DEF Pasos
  <2>4. EnListas'
    BY <1>1 DEF Solo, EnListas
  <2>5. Guardados(U)'
    <3>1. \A g \in Naciendo' : Vale(U, hilos'[g].buffer, palabra)
      BY <2>3 DEF Solo, Guardados, Naciendo, En
    <3>2. \A k \in DOMAIN a_kernel' : Vale(U, a_kernel'[k].contexto, palabra')
      BY <1>1, <1>3, <1>6, <2>1, <2>2
    <3> QED BY <1>1, <3>1, <3>2 DEF Solo, Guardados, Despachado
  <2>6. EnMano(U)'
    BY <1>1, <1>3, <1>6 DEF EnMano
  <2>7. Despiertos' = {h} /\ hilos'[h].paso = "DESTRUYE"
    BY <1>2, <2>3 DEF Despiertos
  <2>8. EnCurso(U)'
    BY <1>4, <2>7 DEF EnCurso
  <2> QED BY <2>4, <2>5, <2>6, <2>8 DEF Solo
<1> QED BY <1>5, <1>6

(* It asks the Kernel, and leaves its contexto as the message says.         *)
LEMMA EjecutarSincronicaSolo ==
  ASSUME NEW U, Cerrada(U), TypeOK, Nucleo, Solo(U), NEW h \in Hilos, EjecutarSincronica(h)
  PROVE  Solo(U)'
<1> DEFINE m == Mensaje("ATENDER_INSTRUCCION_CPK", contexto', instruccion.op)
<1>1. /\ hilos[h].paso = "EJECUTA" /\ IrA(h, "RESPUESTA") /\ AvanzarIp
      /\ instruccion.op \in Sincronicas /\ a_kernel' = Append(a_kernel, m)
      /\ UNCHANGED <<palabra, estado, en_exec, pcb, a_cpu, a_memoria, semaforos,
                     hay_que_desalojar_sin_mensaje>>
  BY DEF EjecutarSincronica, En, salida, respuestas, memoria, kernel
<1>2. m.contexto = contexto'
  BY DEF Mensaje
<1> HIDE DEF m
<1>3. /\ PorPaso(U, "EJECUTA") /\ contexto \in Contextos /\ Despiertos = {h} /\ ~Callado
  BY <1>1, AlEjecutar
<1>4. a_kernel = <<>>
  BY <1>1, <1>3, AlEjecutar
<1>5. Leyo /\ Vale(U, contexto, palabra) /\ Quieta
  BY <1>3 DEF PorPaso
<1>6. Vale(U, contexto', palabra')
  BY <1>1, <1>3, <1>5, LoQueEjecuta DEF AvanzarIp
<1>7. DOMAIN a_kernel' = {1} /\ a_kernel'[1] = m
  BY <1>1, <1>4
<1>8. \A g \in Hilos : /\ hilos'[g].paso = IF g = h THEN "RESPUESTA" ELSE hilos[g].paso
                       /\ hilos'[g].buffer = hilos[g].buffer
  BY <1>1, PasoDelHilo DEF Pasos
<1>9. EnListas'
  BY <1>1 DEF Solo, EnListas
<1>10. Guardados(U)'
  <2>1. \A g \in Naciendo' : Vale(U, hilos'[g].buffer, palabra)
    BY <1>8 DEF Solo, Guardados, Naciendo, En
  <2> QED BY <1>1, <1>2, <1>6, <1>7, <2>1 DEF Solo, Guardados, Despachado
<1>11. EnMano(U)'
  BY <1>6 DEF EnMano
<1>12. EnCurso(U)'
  <2>1. Despiertos' = {}
    BY <1>3, <1>8 DEF Despiertos
  <2>2. Quieta'
    BY <1>1, <1>5 DEF Quieta, NadaPosteado
  <2> QED BY <2>1, <2>2 DEF EnCurso
<1> QED BY <1>9, <1>10, <1>11, <1>12 DEF Solo

(* Whichever thread takes the answer, it finds the contexto it was left.    *)
LEMMA TerminarSincronicaSolo ==
  ASSUME NEW U, TypeOK, Nucleo, Solo(U), NEW h \in Hilos, TerminarSincronica(h)
  PROVE  Solo(U)'
<1>1. /\ hilos[h].paso = "RESPUESTA" /\ IrA(h, "REVISA") /\ semaforos["respuesta"] > 0
      /\ semaforos'["respuesta"] = semaforos["respuesta"] - 1
      /\ \A s \in DeLaMemoria : semaforos'[s] = semaforos[s]
      /\ UNCHANGED <<palabra, estado, en_exec, pcb, a_cpu, a_kernel, a_memoria, contexto,
                     hay_que_desalojar_sin_mensaje>>
  BY DEF TerminarSincronica, En, Wait, TypeOK, Semaforos, DeLaMemoria, globales, salida, sockets,
         memoria, kernel
<1>2. \A g \in Hilos : /\ hilos'[g].paso = IF g = h THEN "REVISA" ELSE hilos[g].paso
                       /\ hilos'[g].buffer = hilos[g].buffer
  BY <1>1, PasoDelHilo DEF Pasos
<1>3. Despiertos = {} /\ Quieta
  BY <1>1 DEF Nucleo, Unicos, Solo, EnCurso
<1>4. ~Callado => Vale(U, contexto, palabra)
  BY <1>1 DEF Solo, EnMano
<1>5. EnListas'
  BY <1>1 DEF Solo, EnListas
<1>6. Guardados(U)'
  <2>1. \A g \in Naciendo' : g \in Naciendo /\ hilos'[g].buffer = hilos[g].buffer
    BY <1>2 DEF Naciendo, En
  <2> QED BY <1>1, <2>1, GuardadosIgual DEF Solo
<1>7. EnMano(U)'
  <2>1. semaforos["respuesta"] \in Nat /\ Callado' = Callado
    BY <1>1 DEF TypeOK, Semaforos, Callado
  <2>2. Pregunta' = Pregunta /\ (Pregunta => Vale(U, contexto, palabra))
    BY <1>1 DEF Pregunta, Solo, EnMano
  <2>3. (\E k \in DOMAIN a_cpu' : a_cpu'[k].estado = 1) => Vale(U, contexto, palabra)
    BY <1>1 DEF Solo, EnMano
  <2> QED BY <1>1, <1>4, <2>1, <2>2, <2>3 DEF EnMano
<1>8. EnCurso(U)'
  <2>1. Despiertos' = {h} /\ hilos'[h].paso = "REVISA"
    BY <1>2, <1>3 DEF Despiertos
  <2>2. PorPaso(U, "REVISA")'
    BY <1>1, <1>3, <1>4 DEF PorPaso, Quieta, NadaPosteado, Callado
  <2> QED BY <2>1, <2>2 DEF EnCurso
<1> QED BY <1>5, <1>6, <1>7, <1>8 DEF Solo

-------------------------------------------------------------------------------
(* The other steps of the threads.                                          *)

LEMMA RecibirProcesoSolo ==
  ASSUME NEW U, TypeOK, Nucleo, Solo(U), NEW h \in Hilos, RecibirProceso(h)
  PROVE  Solo(U)'
<1>1. /\ a_cpu # <<>> /\ Despachado(Head(a_cpu)) /\ hilos[h].paso = "LIBRE"
      /\ hilos' = [hilos EXCEPT ![h] = [paso |-> "NACE", buffer |-> Head(a_cpu).contexto]]
      /\ a_cpu' = Tail(a_cpu)
      /\ UNCHANGED <<palabra, estado, en_exec, pcb, a_kernel, a_memoria, contexto, semaforos,
                     instruccion, valorMarco, hay_que_desalojar_sin_mensaje>>
  BY DEF RecibirProceso, En, globales, salida, respuestas, memoria, kernel
<1>2. /\ 1 \in DOMAIN a_cpu /\ Head(a_cpu) = a_cpu[1]
      /\ Len(a_cpu) \in Nat /\ DOMAIN a_cpu = 1..Len(a_cpu)
      /\ \A k \in DOMAIN a_cpu' : k + 1 \in DOMAIN a_cpu /\ a_cpu'[k] = a_cpu[k + 1]
  BY <1>1 DEF TypeOK
<1>3. /\ hilos'[h].paso = "NACE" /\ hilos'[h].buffer = a_cpu[1].contexto
      /\ \A g \in Hilos : g # h => hilos'[g] = hilos[g]
  BY <1>1, <1>2 DEF TypeOK
<1>4. EnListas'
  BY <1>1 DEF Solo, EnListas
<1>5. Guardados(U)'
  <2>1. Vale(U, a_cpu[1].contexto, palabra)
    BY <1>1, <1>2 DEF Solo, Guardados
  <2>2. \A g \in Naciendo' : Vale(U, hilos'[g].buffer, palabra)
    BY <1>3, <2>1 DEF Solo, Guardados, Naciendo, En
  <2>3. \A k \in DOMAIN a_cpu' : Despachado(a_cpu'[k]) => Vale(U, a_cpu'[k].contexto, palabra)
    BY <1>2 DEF Solo, Guardados
  <2> QED BY <1>1, <2>2, <2>3 DEF Solo, Guardados, Despachado
<1>6. EnMano(U)'
  <2>1. (\E k \in DOMAIN a_cpu' : a_cpu'[k].estado = 1) => Vale(U, contexto, palabra)
    BY <1>2 DEF Solo, EnMano
  <2>2. Pregunta' \/ (~Callado' /\ semaforos'["respuesta"] > 0) => Vale(U, contexto, palabra)
    BY <1>1 DEF Solo, EnMano, Pregunta, Callado
  <2> QED BY <1>1, <2>1, <2>2 DEF EnMano
<1>7. EnCurso(U)'
  <2>1. Despiertos' = Despiertos /\ \A g \in Despiertos : hilos'[g] = hilos[g]
    BY <1>1, <1>3 DEF Despiertos
  <2>2. Quieta => Quieta'
    BY <1>1 DEF Quieta, NadaPosteado
  <2>3. \A x : PorPaso(U, x) => PorPaso(U, x)'
    BY <1>1 DEF PorPaso, Quieta, Ida, Vuelta, Leyo, NadaPosteado, Callado
  <2> QED BY <2>1, <2>2, <2>3 DEF Solo, EnCurso
<1> QED BY <1>4, <1>5, <1>6, <1>7 DEF Solo

LEMMA RecibirRespuestaSolo ==
  ASSUME NEW U, TypeOK, Nucleo, Solo(U), RecibirRespuesta
  PROVE  Solo(U)'
<1>1. /\ a_cpu # <<>> /\ ~Despachado(Head(a_cpu))
      /\ hay_que_desalojar_sin_mensaje' =
           (hay_que_desalojar_sin_mensaje \/ Head(a_cpu).estado = -1)
      /\ \A s \in DeLaMemoria : semaforos'[s] = semaforos[s]
      /\ a_cpu' = Tail(a_cpu)
      /\ UNCHANGED <<palabra, estado, en_exec, pcb, a_kernel, a_memoria, contexto, hilos>>
  BY DEF RecibirRespuesta, Post, Semaforos, DeLaMemoria, TypeOK, globales, memoria, kernel
<1>2. /\ 1 \in DOMAIN a_cpu /\ Head(a_cpu) = a_cpu[1] /\ a_cpu[1] \in MensajesACpu
      /\ Len(a_cpu) \in Nat /\ DOMAIN a_cpu = 1..Len(a_cpu)
      /\ \A k \in DOMAIN a_cpu' : k + 1 \in DOMAIN a_cpu /\ a_cpu'[k] = a_cpu[k + 1]
  BY <1>1 DEF TypeOK
<1>3. a_cpu[1].estado = 1 \/ a_cpu[1].estado = -1
  BY <1>1, <1>2 DEF MensajesACpu, Despachado
<1>4. Despiertos = {} /\ Quieta
  <2>1. Contesta
    BY <1>1, <1>2 DEF Contesta
  <2> QED BY <2>1 DEF Nucleo, Espera, Solo, EnCurso
<1>5. EnListas'
  BY <1>1 DEF Solo, EnListas
<1>6. Guardados(U)'
  <2>1. \A g \in Naciendo' : Vale(U, hilos'[g].buffer, palabra)
    BY <1>1 DEF Solo, Guardados, Naciendo, En
  <2>2. \A k \in DOMAIN a_cpu' : Despachado(a_cpu'[k]) => Vale(U, a_cpu'[k].contexto, palabra)
    BY <1>2 DEF Solo, Guardados
  <2> QED BY <1>1, <2>1, <2>2 DEF Solo, Guardados, Despachado
<1>7. EnMano(U)'
  <2>1. (\E k \in DOMAIN a_cpu' : a_cpu'[k].estado = 1) => Vale(U, contexto, palabra)
    BY <1>2 DEF Solo, EnMano
  <2>2. Pregunta' => Vale(U, contexto, palabra)
    BY <1>1 DEF Solo, EnMano, Pregunta
  <2>3. a_cpu[1].estado = 1 => Vale(U, contexto, palabra)
    BY <1>2 DEF Solo, EnMano
  <2>4. a_cpu[1].estado = -1 => Callado'
    BY <1>1, <1>2, Zenon DEF Callado
  <2> QED BY <1>1, <1>3, <2>1, <2>2, <2>3, <2>4 DEF EnMano
<1>8. EnCurso(U)'
  BY <1>1, <1>4 DEF EnCurso, Despiertos, Quieta, NadaPosteado
<1> QED BY <1>5, <1>6, <1>7, <1>8 DEF Solo

LEMMA InstalarSolo ==
  ASSUME NEW U, TypeOK, Nucleo, Solo(U), NEW h \in Hilos, Instalar(h), cpu' = "VIVA"
  PROVE  Solo(U)'
<1>1. /\ hilos[h].paso = "NACE" /\ mutex_manejo_contexto = NULL /\ ~Callado
      /\ contexto' = hilos[h].buffer
      /\ hilos' = [hilos EXCEPT ![h] = [paso |-> "CICLO", buffer |-> NULL]]
      /\ UNCHANGED <<palabra, estado, en_exec, pcb, a_cpu, a_kernel, a_memoria, semaforos,
                     hay_que_desalojar_sin_mensaje>>
  BY DEF Instalar, En, Callado, salida, sockets, memoria, kernel, respuestas
<1>2. h \in Naciendo
  BY <1>1 DEF Naciendo, En
<1>3. Despiertos = {} /\ Quieta /\ Vale(U, hilos[h].buffer, palabra)
  <2>1. ~Trabaja /\ \A g \in Hilos : ~En(g, "DESTRUYE")
    BY <1>1, <1>2 DEF Nucleo, Turno, Espera
  <2>2. Despiertos = {}
    BY <1>1, <2>1 DEF Trabaja, Despiertos
  <2> QED BY <1>2, <2>2 DEF Solo, EnCurso, Guardados
<1>4. hilos'[h].paso = "CICLO" /\ \A g \in Hilos : g # h => hilos'[g] = hilos[g]
  BY <1>1 DEF TypeOK
<1>5. Vale(U, contexto', palabra')
  BY <1>1, <1>3
<1>6. EnListas'
  BY <1>1 DEF Solo, EnListas
<1>7. Guardados(U)'
  <2>1. \A g \in Naciendo' : g \in Naciendo /\ hilos'[g].buffer = hilos[g].buffer
    BY <1>4 DEF Naciendo, En
  <2> QED BY <1>1, <2>1, GuardadosIgual DEF Solo
<1>8. EnMano(U)'
  BY <1>5 DEF EnMano
<1>9. EnCurso(U)'
  <2>1. Despiertos' = {h}
    BY <1>3, <1>4 DEF Despiertos
  <2>2. PorPaso(U, "CICLO")'
    BY <1>1, <1>3, <1>5 DEF PorPaso, Quieta, NadaPosteado
  <2> QED BY <1>4, <2>1, <2>2 DEF EnCurso
<1> QED BY <1>6, <1>7, <1>8, <1>9 DEF Solo

LEMMA DestruirSolo ==
  ASSUME NEW U, TypeOK, Nucleo, Solo(U), NEW h \in Hilos, Destruir(h)
  PROVE  Solo(U)'
<1>1. /\ hilos[h].paso = "DESTRUYE" /\ hilos' = [hilos EXCEPT ![h] = HiloLibre]
      /\ UNCHANGED <<palabra, estado, en_exec, pcb, a_cpu, a_kernel, a_memoria, semaforos>>
  BY DEF Destruir, En, sockets, memoria, kernel, respuestas
<1>2. h \in Despiertos /\ Despiertos = {h}
  BY <1>1 DEF Despiertos, Nucleo, Unicos
<1>3. Quieta
  BY <1>1, <1>2 DEF Solo, EnCurso, PorPaso
<1>4. semaforos["respuesta"] = 0 /\ ~Contesta /\ ~Pregunta
  <2>1. semaforos["respuesta"] \in Nat
    BY DEF TypeOK, Semaforos
  <2> QED BY <1>2, <2>1 DEF Nucleo, Unicos, Espera
<1>5. hilos'[h].paso = "LIBRE" /\ \A g \in Hilos : g # h => hilos'[g] = hilos[g]
  BY <1>1 DEF HiloLibre, TypeOK
<1>6. EnListas'
  BY <1>1 DEF Solo, EnListas
<1>7. Guardados(U)'
  <2>1. \A g \in Naciendo' : g \in Naciendo /\ hilos'[g].buffer = hilos[g].buffer
    BY <1>5 DEF Naciendo, En
  <2> QED BY <1>1, <2>1, GuardadosIgual DEF Solo
<1>8. EnMano(U)'
  <2>1. ~Pregunta' /\ ~(semaforos'["respuesta"] > 0)
    BY <1>1, <1>4 DEF Pregunta
  <2>2. \A k \in DOMAIN a_cpu' : a_cpu'[k].estado # 1
    <3> SUFFICES ASSUME NEW k \in DOMAIN a_cpu
                 PROVE  a_cpu[k].estado # 1
      BY <1>1
    <3>1. a_cpu[k] \in MensajesACpu /\ Despachado(a_cpu[k])
      BY <1>4 DEF Contesta, TypeOK
    <3> QED BY <3>1 DEF MensajesACpu, Despachado
  <2> QED BY <2>1, <2>2 DEF EnMano
<1>9. EnCurso(U)'
  <2>1. Despiertos' = {}
    BY <1>2, <1>5 DEF Despiertos
  <2>2. Quieta'
    BY <1>1, <1>3 DEF Quieta, NadaPosteado
  <2> QED BY <2>1, <2>2 DEF EnCurso
<1> QED BY <1>6, <1>7, <1>8, <1>9 DEF Solo

-------------------------------------------------------------------------------
(* Memoria answers the thread that executes, and writes only its word.      *)

(* Who asked.                                                               *)
LEMMA QuienPidio ==
  ASSUME NEW U, TypeOK, Nucleo, Solo(U), a_memoria # <<>>
  PROVE  \E h \in Hilos :
           /\ Despiertos = {h} /\ PorPaso(U, hilos[h].paso)
           /\ contexto \in Contextos /\ contexto.pid = en_exec
           /\ semaforos["respuesta"] = 0 /\ ~Contesta /\ ~Pregunta
           /\ EnCamino = {} /\ Naciendo = {} /\ a_kernel = <<>>
           /\ \/ hilos[h].paso = "DECODE" /\ Ida("PETICION_DE_INSTRUCCIONES_CM")
              \/ hilos[h].paso = "MMU" /\ Ida("CONSULTA_DE_PAGINA_CM")
              \/ hilos[h].paso = "LECTURA" /\ Ida("LECTURA_BLOQUE_CM")
              \/ hilos[h].paso = "ESCRITURA" /\ Ida("ESCRITURA_BLOQUE_CM")
<1>1. PICK h \in Despiertos : TRUE
  BY DEF Solo, EnCurso, Quieta
<1>2. h \in Hilos /\ hilos[h].paso \in Pasos \ {"LIBRE", "NACE", "RESPUESTA"}
  BY <1>1 DEF Despiertos, TypeOK
<1>3. PorPaso(U, hilos[h].paso)
  BY <1>1 DEF Solo, EnCurso
<1>4. \/ hilos[h].paso = "DECODE" /\ Ida("PETICION_DE_INSTRUCCIONES_CM")
      \/ hilos[h].paso = "MMU" /\ Ida("CONSULTA_DE_PAGINA_CM")
      \/ hilos[h].paso = "LECTURA" /\ Ida("LECTURA_BLOQUE_CM")
      \/ hilos[h].paso = "ESCRITURA" /\ Ida("ESCRITURA_BLOQUE_CM")
  BY <1>2, <1>3 DEF PorPaso, Quieta, Vuelta, Pasos
<1>5. ~En(h, "DESTRUYE") /\ ~Callado
  BY <1>1, <1>4 DEF En, Nucleo, Espera
<1> QED BY <1>1, <1>2, <1>3, <1>4, <1>5, ElQueTrabaja

(* The answer posts one semaphore and leaves no request.                    *)
LEMMA AlContestar ==
  ASSUME TypeOK, NEW s \in DeLaMemoria, NEW op, Ida(op), Post(s), a_memoria' = Tail(a_memoria)
  PROVE  Vuelta(s)' /\ semaforos'["respuesta"] = semaforos["respuesta"]
<1>1. \A t \in Semaforos : semaforos'[t] = IF t = s THEN semaforos[s] + 1 ELSE semaforos[t]
  BY DEF Post, TypeOK, DeLaMemoria, Semaforos
<1>2. DeLaMemoria \subseteq Semaforos /\ "respuesta" \in Semaforos /\ "respuesta" # s
  BY DEF DeLaMemoria, Semaforos
<1>3. a_memoria' = <<>>
  <2>1. a_memoria \in Seq(PedidosAMemoria) /\ Len(a_memoria) = 1
    BY DEF Ida, TypeOK
  <2> QED BY <2>1
<1>4. semaforos'[s] = 1 /\ \A t \in DeLaMemoria \ {s} : semaforos'[t] = 0
  BY <1>1, <1>2 DEF Ida, NadaPosteado
<1> QED BY <1>1, <1>2, <1>3, <1>4 DEF Vuelta

LEMMA AtenderMemoriaSolo ==
  ASSUME NEW U, TypeOK, Nucleo, Solo(U), AtenderMemoria
  PROVE  Solo(U)'
<1> DEFINE pedido == Head(a_memoria)
<1>1. /\ a_memoria # <<>> /\ a_memoria' = Tail(a_memoria)
      /\ \/ pedido.op = "PETICION_DE_INSTRUCCIONES_CM" /\ RecibirInstruccion(pedido)
         \/ pedido.op = "CONSULTA_DE_PAGINA_CM" /\ RecibirMarco(pedido)
         \/ pedido.op = "LECTURA_BLOQUE_CM" /\ RecibirValor(pedido)
         \/ pedido.op = "ESCRITURA_BLOQUE_CM" /\ RecibirEscritura(pedido)
      /\ UNCHANGED <<hilos, a_cpu, a_kernel, pcb, estado, en_exec,
                     hay_que_desalojar_sin_mensaje>>
  BY Zenon DEF AtenderMemoria, salida, kernel
<1>2. PICK h \in Hilos :
           /\ Despiertos = {h} /\ PorPaso(U, hilos[h].paso)
           /\ contexto \in Contextos /\ contexto.pid = en_exec
           /\ semaforos["respuesta"] = 0 /\ ~Contesta /\ ~Pregunta
           /\ EnCamino = {} /\ Naciendo = {} /\ a_kernel = <<>>
           /\ \/ hilos[h].paso = "DECODE" /\ Ida("PETICION_DE_INSTRUCCIONES_CM")
              \/ hilos[h].paso = "MMU" /\ Ida("CONSULTA_DE_PAGINA_CM")
              \/ hilos[h].paso = "LECTURA" /\ Ida("LECTURA_BLOQUE_CM")
              \/ hilos[h].paso = "ESCRITURA" /\ Ida("ESCRITURA_BLOQUE_CM")
  BY <1>1, QuienPidio
<1>3. /\ pedido = a_memoria[1] /\ pedido.pid = contexto.pid
      /\ hilos[h].paso = "DECODE" <=> pedido.op = "PETICION_DE_INSTRUCCIONES_CM"
      /\ hilos[h].paso = "MMU" <=> pedido.op = "CONSULTA_DE_PAGINA_CM"
      /\ hilos[h].paso = "LECTURA" <=> pedido.op = "LECTURA_BLOQUE_CM"
      /\ hilos[h].paso = "ESCRITURA" <=> pedido.op = "ESCRITURA_BLOQUE_CM"
  <2>1. pedido = a_memoria[1]
    BY <1>1 DEF TypeOK
  <2> HIDE DEF pedido
  <2> QED BY <1>2, <2>1 DEF Ida
<1> HIDE DEF pedido
<1>4. contexto.pid \in Procesos
  BY <1>2 DEF Contextos
<1>5. /\ contexto' = contexto /\ semaforos'["respuesta"] = 0
      /\ \A p \in Procesos : p # contexto.pid => palabra'[p] = palabra[p]
      /\ PorPaso(U, hilos[h].paso)'
  <2>1. CASE pedido.op = "PETICION_DE_INSTRUCCIONES_CM"
    <3>1. /\ RecibirInstruccion(pedido) /\ hilos[h].paso = "DECODE"
          /\ Ida("PETICION_DE_INSTRUCCIONES_CM")
      BY <1>1, <1>2, <1>3, <2>1
    <3>2. /\ contexto' = contexto /\ palabra' = palabra /\ Post("decode")
          /\ pedido.ip \in DOMAIN Programa[pedido.pid]
          /\ instruccion' = Programa[pedido.pid][pedido.ip]
      BY <3>1 DEF RecibirInstruccion, memoria
    <3>3. Vuelta("decode")' /\ semaforos'["respuesta"] = semaforos["respuesta"]
      BY <1>1, <3>1, <3>2, AlContestar DEF DeLaMemoria
    <3>4. Vale(U, contexto, palabra) /\ pedido.ip = contexto.ip
      BY <1>1, <1>2, <1>3, <3>1 DEF PorPaso, Vuelta
    <3>5. Leyo'
      BY <1>3, <3>2, <3>4 DEF Leyo
    <3>6. PorPaso(U, "DECODE")'
      BY <3>2, <3>3, <3>4, <3>5 DEF PorPaso
    <3> QED BY <1>1, <1>2, <3>1, <3>2, <3>3, <3>6
  <2>2. CASE pedido.op = "CONSULTA_DE_PAGINA_CM"
    <3>1. /\ RecibirMarco(pedido) /\ hilos[h].paso = "MMU"
          /\ Ida("CONSULTA_DE_PAGINA_CM")
      BY <1>1, <1>2, <1>3, <2>2
    <3>2. UNCHANGED <<contexto, instruccion, palabra>> /\ Post("marco")
      BY <3>1 DEF RecibirMarco, globales, memoria
    <3>3. Vuelta("marco")' /\ semaforos'["respuesta"] = semaforos["respuesta"]
      BY <1>1, <3>1, <3>2, AlContestar DEF DeLaMemoria
    <3>4. Vale(U, contexto, palabra) /\ Leyo
      BY <1>2, <3>1 DEF PorPaso
    <3>5. PorPaso(U, "MMU")'
      BY <3>2, <3>3, <3>4 DEF PorPaso, Leyo
    <3> QED BY <1>1, <1>2, <3>1, <3>2, <3>3, <3>5
  <2>3. CASE pedido.op = "LECTURA_BLOQUE_CM"
    <3>1. /\ RecibirValor(pedido) /\ hilos[h].paso = "LECTURA"
          /\ Ida("LECTURA_BLOQUE_CM")
      BY <1>1, <1>2, <1>3, <2>3
    <3>2. /\ UNCHANGED <<contexto, instruccion, palabra>> /\ Post("lectura")
          /\ valorMarco' = palabra[contexto.pid]
      BY <1>3, <3>1 DEF RecibirValor, globales, memoria
    <3>3. Vuelta("lectura")' /\ semaforos'["respuesta"] = semaforos["respuesta"]
      BY <1>1, <3>1, <3>2, AlContestar DEF DeLaMemoria
    <3>4. Vale(U, Cargar(instruccion, contexto, palabra[contexto.pid]), palabra)
      BY <1>2, <3>1 DEF PorPaso
    <3>5. PorPaso(U, "LECTURA")'
      BY <3>2, <3>3, <3>4 DEF PorPaso
    <3> QED BY <1>1, <1>2, <3>1, <3>2, <3>3, <3>5
  <2>4. CASE pedido.op = "ESCRITURA_BLOQUE_CM"
    <3>1. /\ RecibirEscritura(pedido) /\ hilos[h].paso = "ESCRITURA"
          /\ Ida("ESCRITURA_BLOQUE_CM")
      BY <1>1, <1>2, <1>3, <2>4
    <3>2. /\ contexto' = contexto /\ Post("escritura")
          /\ palabra' = [palabra EXCEPT ![contexto.pid] = pedido.valor]
      BY <1>3, <3>1 DEF RecibirEscritura, globales
    <3>3. Vuelta("escritura")' /\ semaforos'["respuesta"] = semaforos["respuesta"]
      BY <1>1, <3>1, <3>2, AlContestar DEF DeLaMemoria
    <3>4. [c |-> contexto, palabra |-> pedido.valor] \in U[contexto.pid]
      BY <1>1, <1>2, <1>3, <3>1 DEF PorPaso, Vuelta
    <3>5. /\ palabra'[contexto.pid] = pedido.valor
          /\ \A p \in Procesos : p # contexto.pid => palabra'[p] = palabra[p]
      BY <1>4, <3>2 DEF TypeOK
    <3>6. Vale(U, contexto', palabra')
      BY <3>2, <3>4, <3>5 DEF Vale
    <3>7. PorPaso(U, "ESCRITURA")'
      BY <3>3, <3>6 DEF PorPaso
    <3> QED BY <1>1, <1>2, <3>1, <3>2, <3>3, <3>5, <3>7
  <2> QED BY <1>1, <2>1, <2>2, <2>3, <2>4
<1>6. EnListas'
  BY <1>1 DEF Solo, EnListas
<1>7. Guardados(U)'
  <2>1. \A p \in Procesos : estado'[p] # "EXEC" => Vale(U, pcb'[p], palabra')
    <3> SUFFICES ASSUME NEW p \in Procesos, estado[p] # "EXEC"
                 PROVE  Vale(U, pcb[p], palabra')
      BY <1>1
    <3>1. p # contexto.pid /\ pcb[p].pid = p /\ Vale(U, pcb[p], palabra)
      BY <1>2 DEF Solo, EnListas, Guardados, Nucleo, Duenos
    <3> QED BY <1>5, <3>1 DEF Vale
  <2>2. \A k \in DOMAIN a_cpu' : ~Despachado(a_cpu'[k])
    <3> SUFFICES ASSUME NEW k \in DOMAIN a_cpu, Despachado(a_cpu[k])
                 PROVE  FALSE
      BY <1>1 DEF Despachado
    <3>1. a_cpu[k] \in MensajesACpu /\ a_cpu[k].estado = -1
      BY <1>2 DEF TypeOK, EnCamino
    <3> QED BY <3>1 DEF MensajesACpu, Despachado
  <2>3. Naciendo' = {} /\ DOMAIN a_kernel' = {}
    BY <1>1, <1>2 DEF Naciendo, En
  <2> QED BY <2>1, <2>2, <2>3 DEF Guardados, Despachado
<1>8. EnMano(U)'
  <2>1. ~Pregunta' /\ ~(semaforos'["respuesta"] > 0)
    BY <1>1, <1>2, <1>5 DEF Pregunta
  <2>2. \A k \in DOMAIN a_cpu' : a_cpu'[k].estado # 1
    BY <1>1, <1>2 DEF EnCamino
  <2> QED BY <2>1, <2>2 DEF EnMano
<1>9. EnCurso(U)'
  <2>1. Despiertos' = {h}
    BY <1>1, <1>2 DEF Despiertos
  <2>2. hilos'[h].paso = hilos[h].paso
    BY <1>1
  <2>3. PICK x : x = hilos[h].paso
    OBVIOUS
  <2>4. PorPaso(U, x)'
    BY <1>1, <1>5, <2>3 DEF PorPaso
  <2> QED BY <2>1, <2>2, <2>3, <2>4 DEF EnCurso
<1> QED BY <1>6, <1>7, <1>8, <1>9 DEF Solo

-------------------------------------------------------------------------------
(* The Kernel.                                                              *)

(* What EnCurso is of.                                                      *)
LEMMA EnCursoIgual ==
  ASSUME NEW U, EnCurso(U),
         UNCHANGED <<hilos, contexto, instruccion, valorMarco, semaforos, palabra, a_memoria,
                     hay_que_desalojar_sin_mensaje>>
  PROVE  EnCurso(U)'
<1>1. Despiertos' = Despiertos /\ (Quieta => Quieta')
  BY DEF Despiertos, Quieta, NadaPosteado
<1>2. \A x : PorPaso(U, x) => PorPaso(U, x)'
  BY DEF PorPaso, Quieta, Ida, Vuelta, Leyo, NadaPosteado, Callado
<1> QED BY <1>1, <1>2 DEF EnCurso

(* It keeps in the PCB the contexto of the message, and either answers it or *)
(* takes the process out of EXEC, or both.                                  *)
LEMMA RecibidoSolo ==
  ASSUME NEW U, TypeOK, Nucleo, Solo(U), NEW p \in Procesos, NEW M, Recibido(p, M),
         \/ a_cpu' = a_cpu
         \/ \E e \in {1, -1} : Responder(e) /\ (e = 1 => M \subseteq Sincronicas),
         \/ UNCHANGED <<estado, en_exec>>
         \/ \E e : SacarDeExec(p, e) /\ e # "EXEC"
  PROVE  Solo(U)'
<1>1. /\ a_kernel # <<>> /\ p = Head(a_kernel).contexto.pid /\ p = en_exec
      /\ Head(a_kernel).motivo \in M
      /\ pcb' = [pcb EXCEPT ![p] = Head(a_kernel).contexto]
      /\ UNCHANGED <<hilos, contexto, instruccion, valorMarco, semaforos, palabra, a_memoria,
                     hay_que_desalojar_sin_mensaje>>
  BY DEF Recibido, globales, salida, respuestas, memoria
<1>2. /\ a_kernel' = <<>> /\ a_cpu = <<>> /\ Naciendo = {} /\ semaforos["respuesta"] = 0
  BY AlRecibir
<1>3. 1 \in DOMAIN a_kernel /\ Head(a_kernel) = a_kernel[1]
  BY <1>1 DEF TypeOK
<1>4. Vale(U, Head(a_kernel).contexto, palabra)
  BY <1>3 DEF Solo, Guardados
<1>5. M \subseteq Sincronicas => Vale(U, contexto, palabra)
  <2>1. M \subseteq Sincronicas => Pregunta
    BY <1>1, <1>3 DEF Pregunta
  <2> QED BY <2>1 DEF Solo, EnMano
<1>6. \A k \in DOMAIN a_cpu' : /\ ~Despachado(a_cpu'[k])
                               /\ a_cpu'[k].estado = 1 => Vale(U, contexto, palabra)
  <2>1. CASE a_cpu' = a_cpu
    BY <1>2, <2>1
  <2>2. ASSUME NEW e \in {1, -1}, Responder(e), e = 1 => M \subseteq Sincronicas
        PROVE  \A k \in DOMAIN a_cpu' : /\ ~Despachado(a_cpu'[k])
                                        /\ a_cpu'[k].estado = 1 => Vale(U, contexto, palabra)
    <3> DEFINE m == Respuesta(e)
    <3>1. m.estado = e /\ ~Despachado(m)
      BY DEF Respuesta, Despachado
    <3>2. a_cpu' = Append(a_cpu, m)
      BY <2>2 DEF Responder
    <3> HIDE DEF m
    <3>3. DOMAIN a_cpu' = {1} /\ a_cpu'[1] = m
      BY <1>2, <3>2
    <3> QED BY <1>5, <2>2, <3>1, <3>3
  <2> QED BY <2>1, <2>2
<1>7. EnListas'
  <2>1. CASE UNCHANGED <<estado, en_exec>>
    BY <2>1 DEF Solo, EnListas
  <2>2. ASSUME NEW e, SacarDeExec(p, e), e # "EXEC"
        PROVE  EnListas'
    <3>1. en_exec' = NULL /\ estado'[p] = e /\ \A q \in Procesos \ {p} : estado'[q] = estado[q]
      BY <2>2 DEF SacarDeExec, TypeOK
    <3>2. \A q \in Procesos : estado'[q] # "EXEC" /\ q # NULL
      BY <1>1, <2>2, <3>1, ConstantesCpu DEF Solo, EnListas
    <3> QED BY <3>1, <3>2 DEF EnListas
  <2> QED BY <2>1, <2>2
<1>8. Guardados(U)'
  <2>1. \A q \in Procesos : estado'[q] # "EXEC" => Vale(U, pcb'[q], palabra)
    <3> SUFFICES ASSUME NEW q \in Procesos, estado'[q] # "EXEC"
                 PROVE  Vale(U, pcb'[q], palabra)
      OBVIOUS
    <3>1. CASE q = p
      <4>1. pcb'[q] = Head(a_kernel).contexto
        BY <1>1, <3>1 DEF TypeOK
      <4> QED BY <1>4, <4>1
    <3>2. CASE q # p
      <4>1. pcb'[q] = pcb[q] /\ estado[q] # "EXEC"
        BY <1>1, <3>2 DEF TypeOK, Solo, EnListas
      <4> QED BY <4>1 DEF Solo, Guardados
    <3> QED BY <3>1, <3>2
  <2>2. Naciendo' = {} /\ DOMAIN a_kernel' = {}
    BY <1>1, <1>2 DEF Naciendo, En
  <2> QED BY <1>1, <1>6, <2>1, <2>2 DEF Guardados, Despachado
<1>9. EnMano(U)'
  <2>1. ~Pregunta' /\ ~(semaforos'["respuesta"] > 0)
    BY <1>1, <1>2 DEF Pregunta
  <2>2. (\E k \in DOMAIN a_cpu' : a_cpu'[k].estado = 1) => Vale(U, contexto, palabra)
    BY <1>6
  <2> QED BY <1>1, <2>1, <2>2 DEF EnMano
<1>10. EnCurso(U)'
  BY <1>1, EnCursoIgual DEF Solo
<1> QED BY <1>7, <1>8, <1>9, <1>10 DEF Solo

LEMMA KernelDispatchSolo ==
  ASSUME NEW U, TypeOK, Nucleo, Solo(U), KernelDispatch
  PROVE  Solo(U)'
<1> PICK p \in Procesos :
      \/ Otorgar(p) \/ Negar(p) \/ NegarSinResponder(p) \/ Invalidar(p)
      \/ Bloquear(p) \/ BloquearPorFallo(p) \/ PlpExit(p)
      \/ Reubicar(p) \/ Desalojar(p)
  BY DEF KernelDispatch
<1>1. CASE Otorgar(p)
  BY <1>1, RecibidoSolo DEF Otorgar
<1>2. CASE Negar(p) \/ Invalidar(p)
  <2>1. /\ \E M : Recibido(p, M)
        /\ Responder(-1) /\ \E e : SacarDeExec(p, e) /\ e # "EXEC"
    BY <1>2 DEF Negar, Invalidar
  <2> QED BY <2>1, RecibidoSolo
<1>3. CASE \/ NegarSinResponder(p) \/ Bloquear(p) \/ BloquearPorFallo(p) \/ PlpExit(p)
           \/ Reubicar(p) \/ Desalojar(p)
  <2>1. /\ \E M : Recibido(p, M)
        /\ a_cpu' = a_cpu /\ \E e : SacarDeExec(p, e) /\ e # "EXEC"
    BY <1>3 DEF NegarSinResponder, Bloquear, BloquearPorFallo, PlpExit, Reubicar, Desalojar
  <2> QED BY <2>1, RecibidoSolo
<1> QED BY <1>1, <1>2, <1>3

LEMMA DespacharSolo ==
  ASSUME NEW U, TypeOK, Nucleo, Solo(U), NEW p \in Procesos, Despachar(p)
  PROVE  Solo(U)'
<1> DEFINE m == Ejecutar(pcb[p])
<1>1. /\ en_exec = NULL /\ en_exec' = p /\ estado[p] = "READY"
      /\ estado' = [estado EXCEPT ![p] = "EXEC"] /\ a_cpu' = Append(a_cpu, m)
      /\ UNCHANGED <<hilos, contexto, instruccion, valorMarco, semaforos, palabra, a_memoria,
                     hay_que_desalojar_sin_mensaje, a_kernel, pcb>>
  BY DEF Despachar, globales, salida, respuestas, memoria
<1>2. m.estado = 0 /\ m.contexto = pcb[p]
  BY DEF Ejecutar
<1> HIDE DEF m
<1>3. Vale(U, pcb[p], palabra)
  BY <1>1 DEF Solo, Guardados
<1>4. \A k \in DOMAIN a_cpu' : a_cpu'[k] = m \/ (k \in DOMAIN a_cpu /\ a_cpu'[k] = a_cpu[k])
  BY <1>1 DEF TypeOK
<1>5. estado'[p] = "EXEC" /\ \A q \in Procesos \ {p} : estado'[q] = estado[q]
  BY <1>1 DEF TypeOK
<1>6. EnListas'
  <2>1. \A q \in Procesos : estado[q] # "EXEC"
    BY <1>1, ConstantesCpu DEF Solo, EnListas
  <2> QED BY <1>1, <1>5, <2>1 DEF EnListas
<1>7. Guardados(U)'
  <2>1. \A k \in DOMAIN a_cpu' : Despachado(a_cpu'[k]) => Vale(U, a_cpu'[k].contexto, palabra)
    BY <1>2, <1>3, <1>4 DEF Solo, Guardados
  <2>2. \A q \in Procesos : estado'[q] # "EXEC" => Vale(U, pcb'[q], palabra')
    BY <1>1, <1>5 DEF Solo, Guardados
  <2>3. \A h \in Naciendo' : Vale(U, hilos'[h].buffer, palabra')
    BY <1>1 DEF Solo, Guardados, Naciendo, En
  <2> QED BY <1>1, <2>1, <2>2, <2>3 DEF Solo, Guardados, Despachado
<1>8. EnMano(U)'
  <2>1. (\E k \in DOMAIN a_cpu' : a_cpu'[k].estado = 1) => Vale(U, contexto, palabra)
    BY <1>2, <1>4 DEF Solo, EnMano
  <2>2. Pregunta' \/ (~Callado' /\ semaforos'["respuesta"] > 0) => Vale(U, contexto, palabra)
    BY <1>1 DEF Solo, EnMano, Pregunta, Callado
  <2> QED BY <1>1, <2>1, <2>2 DEF EnMano
<1>9. EnCurso(U)'
  BY <1>1, EnCursoIgual DEF Solo
<1> QED BY <1>6, <1>7, <1>8, <1>9 DEF Solo

(* Those that touch nothing of it, or wake a process.                       *)
LEMMA QuietosSolo ==
  ASSUME NEW U, TypeOK, Solo(U),
         \/ \E h \in Hilos : UsarDestruido(h)
         \/ HiloInterrupt \/ EnviarInterrupcion
         \/ \E p \in Procesos : Despertar(p) \/ Reemplazar(p) \/ Finalizar(p)
         \/ UNCHANGED vars
  PROVE  Solo(U)'
<1>1. /\ UNCHANGED <<hilos, contexto, instruccion, valorMarco, semaforos, palabra, a_memoria,
                     hay_que_desalojar_sin_mensaje, a_cpu, a_kernel, pcb, en_exec>>
      /\ \/ estado' = estado
         \/ \E p \in Procesos : estado[p] # "EXEC" /\ estado' = [estado EXCEPT ![p] = "READY"]
  BY DEF UsarDestruido, HiloInterrupt, ManejarInterrupcion, CompararPid, CompararSinContexto, Caer,
         EnviarInterrupcion, Despertar, Reemplazar, Finalizar, vars, globales, salida,
         respuestas, sockets, memoria, kernel
<1>2. \A p \in Procesos : estado'[p] = "EXEC" <=> estado[p] = "EXEC"
  BY <1>1 DEF TypeOK
<1>3. EnListas'
  BY <1>1, <1>2 DEF Solo, EnListas
<1>4. Guardados(U)'
  BY <1>1, <1>2 DEF Solo, Guardados, Naciendo, En, Despachado
<1>5. EnMano(U)'
  BY <1>1 DEF Solo, EnMano, Pregunta, Callado
<1>6. EnCurso(U)'
  BY <1>1, EnCursoIgual DEF Solo
<1> QED BY <1>3, <1>4, <1>5, <1>6 DEF Solo

LEMMA SoloPaso ==
  ASSUME NEW U, Cerrada(U), Inv, SoloHastaSolaparse(U), [Next]_vars
  PROVE  SoloHastaSolaparse(U)'
<1> SUFFICES ASSUME cpu' = "VIVA"
             PROVE  Solo(U)'
  BY DEF SoloHastaSolaparse
<1>1. TypeOK /\ Salida /\ Nucleo /\ Solo(U)
  BY VivaAntes DEF Inv, SoloHastaSolaparse
<1>2. CASE \E h \in Hilos : Ciclo(h)
  <2>1. PICK h \in Hilos : Ciclo(h)
    BY <1>2
  <2> QED BY <1>1, <2>1, InstalarSolo, QuietosSolo, FetchSolo, DecodeSolo, EjecutarSimpleSolo,
             EjecutarSincronicaSolo, EjecutarVoluntariaSolo, EjecutarDeMemoriaSolo,
             SinMarcoSolo, AccederSolo, LlevarDireccionSolo, TerminarLecturaSolo,
             TerminarEscrituraSolo, TerminarSincronicaSolo, RevisarSolo, SalirSolo,
             DestruirSolo DEF Ciclo
<1>3. CASE HiloDispatch
  BY <1>1, <1>3, RecibirProcesoSolo, RecibirRespuestaSolo DEF HiloDispatch
<1>4. CASE AtenderMemoria
  BY <1>1, <1>4, AtenderMemoriaSolo
<1>5. CASE KernelDispatch
  BY <1>1, <1>5, KernelDispatchSolo
<1>6. CASE \E p \in Procesos : Despachar(p)
  BY <1>1, <1>6, DespacharSolo
<1>7. CASE \/ HiloInterrupt \/ EnviarInterrupcion \/ UNCHANGED vars
           \/ \E p \in Procesos : Despertar(p) \/ Reemplazar(p) \/ Finalizar(p)
  BY <1>1, <1>7, QuietosSolo
<1> QED BY <1>2, <1>3, <1>4, <1>5, <1>6, <1>7 DEF Next

LEMMA SoloAlIniciar ==
  ASSUME NEW U, Cerrada(U), Init
  PROVE  Solo(U)
<1>1. /\ a_cpu = <<>> /\ a_kernel = <<>> /\ en_exec = NULL /\ a_memoria = <<>>
      /\ palabra = [p \in Procesos |-> 0] /\ pcb = [p \in Procesos |-> ContextoInicial(p)]
      /\ \A s \in Semaforos : semaforos[s] = 0
      /\ \A h \in Hilos : hilos[h].paso = "LIBRE"
      /\ \A p \in Procesos : estado[p] = "READY"
  BY DEF Init, HiloLibre
<1>2. EnListas
  BY <1>1, ConstantesCpu DEF EnListas
<1>3. Guardados(U)
  <2>1. \A p \in Procesos : ContextoInicial(p).pid = p
    BY DEF ContextoInicial
  <2>2. \A p \in Procesos : Vale(U, pcb[p], palabra)
    BY <1>1, <2>1 DEF Vale, Cerrada
  <2>3. Naciendo = {}
    BY <1>1 DEF Naciendo, En
  <2> QED BY <1>1, <2>2, <2>3 DEF Guardados
<1>4. EnMano(U)
  BY <1>1 DEF EnMano, Pregunta, Semaforos
<1>5. EnCurso(U)
  BY <1>1 DEF EnCurso, Despiertos, Quieta, NadaPosteado, DeLaMemoria, Semaforos
<1> QED BY <1>2, <1>3, <1>4, <1>5 DEF Solo

-------------------------------------------------------------------------------
(* Solos is such a set of states: its recursion has a solution, which begins *)
(* where the programs do.                                                   *)

(* One more instruction of each program.                                    *)
TodosUnPaso(t) == [p \in Procesos |-> PasoSola(p, t[p])]

EsSolitario(g, x, n) == g = [i \in 0..n |-> IF i = 0 THEN x ELSE TodosUnPaso(g[i-1])]

LEMMA SolitariosPasoAPaso ==
  ASSUME NEW x, NEW N \in Nat
  PROVE  \E g : EsSolitario(g, x, N)
<1> DEFINE Ec(g, m) == g = [n \in 0..m |-> IF n = 0 THEN x ELSE TodosUnPaso(g[n-1])]
           Faltan == {m \in 0..N : ~\E g : Ec(g, m)}
<1>1. Faltan = {}
  <2>1. SUFFICES ASSUME Faltan # {}
                 PROVE  FALSE
    OBVIOUS
  <2>2. PICK m \in Faltan : \A i \in Faltan : m <= i
    <3>1. Faltan \subseteq Nat
      OBVIOUS
    <3> HIDE DEF Faltan
    <3> QED BY <3>1, <2>1, HayMinimo
  <2>3. m # 0
    <3>1. PICK g : g = [n \in 0..0 |-> x]
      OBVIOUS
    <3>2. Ec(g, 0)
      <4>1. \A n \in 0..0 : n = 0
        OBVIOUS
      <4> QED BY <3>1, <4>1
    <3> HIDE DEF Ec
    <3> QED BY <2>2, <3>2
  <2>4. m \in Nat /\ m - 1 \in 0..N /\ ~(m <= m - 1)
    BY <2>2, <2>3
  <2>5. PICK g : Ec(g, m - 1)
    <3>1. m - 1 \notin Faltan
      BY <2>2, <2>4
    <3> HIDE DEF Ec
    <3> QED BY <2>4, <3>1
  <2>6. PICK f : f = [n \in 0..m |-> IF n = m THEN TodosUnPaso(g[m-1]) ELSE g[n]]
    OBVIOUS
  <2>7. ASSUME NEW n \in 0..m
        PROVE  f[n] = IF n = 0 THEN x ELSE TodosUnPaso(f[n-1])
    <3>1. CASE n = 0
      <4>1. 0 \in 0..m-1 /\ n # m
        BY <3>1, <2>3, <2>4
      <4> QED BY <3>1, <4>1, <2>5, <2>6
    <3>2. CASE n # 0
      <4>1. n - 1 \in 0..m /\ n - 1 # m
        BY <3>2, <2>4
      <4>2. f[n-1] = g[n-1]
        BY <4>1, <2>6
      <4>3. CASE n = m
        BY <3>2, <4>2, <4>3, <2>6
      <4>4. CASE n # m
        <5>1. n \in 0..m-1
          BY <4>4, <2>4
        <5>2. g[n] = TodosUnPaso(g[n-1])
          BY <3>2, <5>1, <2>5
        <5> QED BY <3>2, <4>2, <4>4, <5>2, <2>6
      <4> QED BY <4>3, <4>4
    <3> QED BY <3>1, <3>2
  <2>8. Ec(f, m)
    BY <2>6, <2>7
  <2> HIDE DEF Ec
  <2> QED BY <2>2, <2>8
<1>2. \E g : Ec(g, N)
  <2> HIDE DEF Ec
  <2> QED BY <1>1
<1> QED BY <1>2 DEF EsSolitario

LEMMA SolosCerrada == Cerrada(Solos)
<1> DEFINE x == [p \in Procesos |-> [c |-> ContextoInicial(p), palabra |-> 0]]
           Ec(g) == g = [n \in 0..MaxPasos |->
                           IF n = 0 THEN x ELSE [p \in Procesos |-> PasoSola(p, g[n-1][p])]]
           tras == CHOOSE g : Ec(g)
<1>1. MaxPasos \in Nat
  BY ConstantesCpu
<1>2. Ec(tras)
  <2>1. \E g : EsSolitario(g, x, MaxPasos)
    <3> HIDE DEF x
    <3> QED BY <1>1, SolitariosPasoAPaso
  <2>2. \E g : Ec(g)
    <3> HIDE DEF x
    <3> QED BY <2>1 DEF EsSolitario, TodosUnPaso
  <2> HIDE DEF Ec
  <2> QED BY <2>2
<1>3. Solos = [p \in Procesos |-> {tras[n][p] : n \in 0..MaxPasos}]
  BY DEF Solos
<1> HIDE DEF tras
<1>4. tras[0] = x
  BY <1>1, <1>2
<1>5. ASSUME NEW p \in Procesos
      PROVE  [c |-> ContextoInicial(p), palabra |-> 0] \in Solos[p]
  <2>1. tras[0][p] = [c |-> ContextoInicial(p), palabra |-> 0]
    BY <1>4
  <2>2. tras[0][p] \in Solos[p]
    BY <1>1, <1>3
  <2> QED BY <2>1, <2>2
<1> QED BY <1>5, PasosSuficientes DEF Cerrada

-------------------------------------------------------------------------------
(* ComoSolo, of any such states: those of each process that is not in EXEC, *)
(* or that has told the Kernel where it is, are among the ones of U.        *)
ComoSoloEn(U) ==
  cpu = "VIVA" =>
    /\ \A p \in Procesos :
         estado[p] # "EXEC" => [c |-> pcb[p], palabra |-> palabra[p]] \in U[p]
    /\ \A k \in DOMAIN a_kernel :
         LET c == a_kernel[k].contexto
         IN [c |-> c, palabra |-> palabra[c.pid]] \in U[c.pid]

(* Until two threads share contexto, sharing the CPU does not show, for any  *)
(* program, also one that never ends: whatever set of states a program does  *)
(* not leave when it runs alone, it does not leave when others use the CPU   *)
(* in between.                                                              *)
THEOREM CompartirNoSeNota ==
  ASSUME NEW U, Cerrada(U)
  PROVE  Spec => []ComoSoloEn(U)
<1>1. Init => SoloHastaSolaparse(U)
  BY SoloAlIniciar DEF SoloHastaSolaparse
<1>2. Inv /\ SoloHastaSolaparse(U) /\ [Next]_vars => SoloHastaSolaparse(U)'
  BY SoloPaso
<1>3. Inv /\ SoloHastaSolaparse(U) => ComoSoloEn(U)
  BY DEF Inv, Nucleo, Duenos, SoloHastaSolaparse, Solo, Guardados, Vale, ComoSoloEn
<1> QED BY <1>1, <1>2, <1>3, InvariantesDeCpu, PTL DEF Spec

(* Until then, what a process shows when it leaves the CPU is a state it     *)
(* goes through alone, whatever interrupts, page faults and threads in the   *)
(* place of others come: no instruction is skipped or half done.            *)
THEOREM SiempreComoSolo == Spec => []ComoSolo
<1>1. Init => SoloHastaSolaparse(Solos)
  BY SolosCerrada, SoloAlIniciar DEF SoloHastaSolaparse
<1>2. Inv /\ SoloHastaSolaparse(Solos) /\ [Next]_vars => SoloHastaSolaparse(Solos)'
  BY SolosCerrada, SoloPaso
<1>3. Inv /\ SoloHastaSolaparse(Solos) => ComoSolo
  BY DEF Inv, Nucleo, Duenos, SoloHastaSolaparse, Solo, Guardados, Vale, ComoSolo
<1> QED BY <1>1, <1>2, <1>3, InvariantesDeCpu, PTL DEF Spec
===============================================================================
