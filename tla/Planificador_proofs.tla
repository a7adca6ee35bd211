------------------------- MODULE Planificador_proofs -------------------------
(***************************************************************************)
(* Theorems about Planificador, for any number of processes, any degree of *)
(* multiprogramming, any priorities and any bound on the pending threads.  *)
(***************************************************************************)
EXTENDS Planificador, Listas_proofs, FiniteSetTheorems

-------------------------------------------------------------------------------
(* Each move of a PCB between lists keeps the lists coherent with estado.   *)

(* SIN_CREAR -> NEW.                                                        *)
LEMMA MoverCrear ==
  ASSUME TypeOK, ListasCoherentes, NEW p \in Procesos, IniciarProceso(p)
  PROVE  ListasCoherentes' /\ lista_new' \in Seq(Procesos)
<1>1. /\ lista_new \in Seq(Procesos) /\ p \notin ToSet(lista_new)
      /\ IsInjective(lista_new) /\ estado \in [Procesos -> Estados]
  BY DEF TypeOK, ListasCoherentes, IniciarProceso
<1>2. /\ lista_new' \in Seq(Procesos) /\ IsInjective(lista_new')
      /\ ToSet(lista_new') = ToSet(lista_new) \cup {p}
  BY <1>1, ListaConAppend DEF IniciarProceso
<1> QED
  BY <1>1, <1>2 DEF ListasCoherentes, IniciarProceso, PasarA

(* NEW -> READY.                                                            *)
LEMMA MoverAdmitir ==
  ASSUME TypeOK, ListasCoherentes, Admitir
  PROVE  /\ ListasCoherentes'
         /\ lista_new' \in Seq(Procesos) /\ lista_ready' \in Seq(Procesos)
         /\ Head(lista_new) \in Procesos /\ estado[Head(lista_new)] = "NEW"
<1> DEFINE p == Head(lista_new)
<1>1. /\ lista_new \in Seq(Procesos) /\ lista_new # <<>> /\ IsInjective(lista_new)
      /\ lista_ready \in Seq(Procesos) /\ IsInjective(lista_ready)
      /\ estado \in [Procesos -> Estados]
  BY DEF TypeOK, ListasCoherentes, Admitir
<1>2. /\ lista_new' \in Seq(Procesos) /\ p \in ToSet(lista_new)
      /\ ToSet(lista_new') = ToSet(lista_new) \ {p}
      /\ IsInjective(lista_new')
  BY <1>1, ListaSinCabeza DEF Admitir
<1>3. p \in Procesos
  BY <1>1, HeadTailProperties
<1>4. estado[p] = "NEW" /\ p \notin ToSet(lista_ready)
  BY <1>2, <1>3 DEF ListasCoherentes
<1>5. /\ lista_ready' \in Seq(Procesos) /\ IsInjective(lista_ready')
      /\ ToSet(lista_ready') = ToSet(lista_ready) \cup {p}
  BY <1>1, <1>3, <1>4, ListaConAppend DEF Admitir
<1>6. /\ estado' = [estado EXCEPT ![p] = "READY"]
      /\ UNCHANGED <<lista_execute, lista_blocked, lista_exit>>
  BY DEF Admitir, PasarA
<1> HIDE DEF p
<1>7. ListasCoherentes'
  BY <1>1, <1>2, <1>3, <1>4, <1>5, <1>6 DEF ListasCoherentes
<1> QED
  BY <1>2, <1>3, <1>4, <1>5, <1>7 DEF p

(* EXEC holds at most one PCB, so its PCB is all of it.                     *)
LEMMA ExecConUno ==
  ASSUME TypeOK, ListasCoherentes, NEW p \in ToSet(lista_execute)
  PROVE  /\ p \in Procesos /\ IsInjective(lista_execute)
         /\ ToSet(lista_execute) = {p}
<1>1. lista_execute \in Seq(Procesos) /\ Len(lista_execute) \in Nat
      /\ Len(lista_execute) <= 1 /\ DOMAIN lista_execute = 1..Len(lista_execute)
      /\ \A i \in 1..Len(lista_execute) : lista_execute[i] \in Procesos
  BY LenProperties, ElementOfSeq DEF TypeOK, ListasCoherentes
<1>2. \A i \in DOMAIN lista_execute : i = 1
  BY <1>1
<1> QED
  BY <1>1, <1>2 DEF ToSet, IsInjective

(* READY -> EXEC, when EXEC is empty.                                       *)
LEMMA MoverEjecutar ==
  ASSUME TypeOK, ListasCoherentes, NEW p \in ToSet(lista_ready), Ejecutar(p),
         lista_execute = <<>>
  PROVE  /\ ListasCoherentes' /\ p \in Procesos /\ estado[p] = "READY"
         /\ lista_execute' \in Seq(Procesos) /\ lista_ready' \in Seq(Procesos)
<1>1. /\ lista_ready \in Seq(Procesos) /\ IsInjective(lista_ready)
      /\ estado \in [Procesos -> Estados]
  BY DEF TypeOK, ListasCoherentes
<1>2. p \in Procesos
  BY <1>1, ElementOfSeq, LenProperties DEF ToSet
<1>3. /\ lista_ready' \in Seq(Procesos) /\ IsInjective(lista_ready')
      /\ ToSet(lista_ready') = ToSet(lista_ready) \ {p}
  BY <1>1, ListaSinElemento DEF Ejecutar
<1>4. lista_execute' = <<p>>
  BY DEF Ejecutar
<1>5. /\ lista_execute' \in Seq(Procesos) /\ Len(lista_execute') = 1
      /\ ToSet(lista_execute') = {p} /\ ToSet(lista_execute) = {}
  BY <1>2, <1>4 DEF ToSet
<1>6. /\ estado[p] = "READY" /\ estado' = [estado EXCEPT ![p] = "EXEC"]
      /\ UNCHANGED <<lista_new, lista_blocked, lista_exit>>
  BY <1>2 DEF ListasCoherentes, Ejecutar, PasarA
<1>7. ListasCoherentes'
  BY <1>1, <1>2, <1>3, <1>5, <1>6 DEF ListasCoherentes
<1> QED
  BY <1>2, <1>3, <1>5, <1>6, <1>7

(* EXEC is empty once its PCB leaves it.                                    *)
LEMMA MoverSalirDeExec ==
  ASSUME TypeOK, ListasCoherentes, NEW p \in ToSet(lista_execute), SalirDeExec(p)
  PROVE  /\ p \in Procesos /\ estado[p] = "EXEC"
         /\ lista_execute' \in Seq(Procesos)
         /\ ToSet(lista_execute') = {} /\ Len(lista_execute') <= 1
<1>1. lista_execute \in Seq(Procesos) /\ Len(lista_execute) \in Nat
      /\ Len(lista_execute) <= 1
  BY LenProperties DEF TypeOK, ListasCoherentes
<1>2. /\ p \in Procesos /\ IsInjective(lista_execute)
      /\ ToSet(lista_execute) = {p}
  BY ExecConUno
<1>3. /\ lista_execute' \in Seq(Procesos)
      /\ ToSet(lista_execute') = ToSet(lista_execute) \ {p}
      /\ Len(lista_execute') = Len(lista_execute) - 1
  BY <1>1, <1>2, ListaSinElemento DEF SalirDeExec
<1>4. estado[p] = "EXEC"
  BY <1>2 DEF ListasCoherentes
<1> QED
  BY <1>1, <1>2, <1>3, <1>4

(* EXEC -> BLOCKED, EXIT or READY.                                          *)
LEMMA MoverDesdeExec ==
  ASSUME TypeOK, ListasCoherentes, NEW p \in ToSet(lista_execute), SalirDeExec(p),
         lista_new' = lista_new,
         \/ /\ PasarA(p, "BLOCKED") /\ lista_blocked' = lista_blocked \cup {p}
            /\ UNCHANGED <<lista_ready, lista_exit>>
         \/ /\ PasarA(p, "EXIT") /\ lista_exit' = lista_exit \cup {p}
            /\ UNCHANGED <<lista_ready, lista_blocked>>
         \/ /\ PasarA(p, "READY") /\ lista_ready' = Append(lista_ready, p)
            /\ UNCHANGED <<lista_blocked, lista_exit>>
  PROVE  ListasCoherentes' /\ lista_ready' \in Seq(Procesos)
<1>1. /\ p \in Procesos /\ estado[p] = "EXEC"
      /\ ToSet(lista_execute') = {} /\ Len(lista_execute') <= 1
      /\ ToSet(lista_execute) = {p}
  BY MoverSalirDeExec, ExecConUno
<1>2. /\ lista_ready \in Seq(Procesos) /\ IsInjective(lista_ready)
      /\ p \notin ToSet(lista_ready) /\ estado \in [Procesos -> Estados]
  BY <1>1 DEF TypeOK, ListasCoherentes
<1>3. CASE PasarA(p, "BLOCKED") /\ lista_blocked' = lista_blocked \cup {p}
           /\ UNCHANGED <<lista_ready, lista_exit>>
  BY <1>1, <1>2, <1>3 DEF ListasCoherentes, PasarA
<1>4. CASE PasarA(p, "EXIT") /\ lista_exit' = lista_exit \cup {p}
           /\ UNCHANGED <<lista_ready, lista_blocked>>
  BY <1>1, <1>2, <1>4 DEF ListasCoherentes, PasarA
<1>5. CASE PasarA(p, "READY") /\ lista_ready' = Append(lista_ready, p)
           /\ UNCHANGED <<lista_blocked, lista_exit>>
  <2>1. /\ lista_ready' \in Seq(Procesos) /\ IsInjective(lista_ready')
        /\ ToSet(lista_ready') = ToSet(lista_ready) \cup {p}
    BY <1>1, <1>2, <1>5, ListaConAppend
  <2> QED
    BY <1>1, <1>2, <1>5, <2>1 DEF ListasCoherentes, PasarA
<1> QED
  BY <1>3, <1>4, <1>5

(* BLOCKED -> READY.                                                        *)
LEMMA MoverDespertar ==
  ASSUME TypeOK, ListasCoherentes, NEW p \in lista_blocked,
         lista_blocked' = lista_blocked \ {p},
         lista_ready' = Append(lista_ready, p), PasarA(p, "READY"),
         UNCHANGED <<lista_new, lista_execute, lista_exit>>
  PROVE  /\ ListasCoherentes' /\ lista_ready' \in Seq(Procesos)
         /\ p \in Procesos /\ estado[p] = "BLOCKED"
<1>1. /\ p \in Procesos /\ estado[p] = "BLOCKED"
      /\ lista_ready \in Seq(Procesos) /\ IsInjective(lista_ready)
      /\ p \notin ToSet(lista_ready) /\ estado \in [Procesos -> Estados]
  BY DEF TypeOK, ListasCoherentes
<1>2. /\ lista_ready' \in Seq(Procesos) /\ IsInjective(lista_ready')
      /\ ToSet(lista_ready') = ToSet(lista_ready) \cup {p}
  BY <1>1, ListaConAppend
<1> QED
  BY <1>1, <1>2 DEF ListasCoherentes, PasarA

-------------------------------------------------------------------------------
(* The count of the core.                                                   *)

(* The core is a finite set, so that it can be counted.                     *)
LEMMA CoreFinito == IsFiniteSet(EnCore) /\ Cardinality(EnCore) \in Nat
BY FS_Subset, FS_CardinalityType, ConstantesPlanificador DEF EnCore

(* Moves inside the core do not change the count.                           *)
LEMMA CoreIgual ==
  ASSUME CuentaDelCore, UNCHANGED <<en_memoria, procesos_en_core>>, EnCore' = EnCore
  PROVE  CuentaDelCore'
BY DEF CuentaDelCore

(* A process enters the core: the planner counts it and tells Memoria.      *)
LEMMA CoreEntra ==
  ASSUME TypeOK, CuentaDelCore, NEW p \in Procesos,
         estado[p] \notin {"READY", "EXEC", "BLOCKED"}, PasarA(p, "READY"),
         en_memoria' = en_memoria \cup {p}, procesos_en_core' = procesos_en_core + 1
  PROVE  CuentaDelCore'
<1>1. p \notin EnCore /\ EnCore' = EnCore \cup {p}
  BY DEF TypeOK, EnCore, PasarA
<1>2. Cardinality(EnCore') = Cardinality(EnCore) + 1
  BY <1>1, CoreFinito, FS_AddElement
<1> QED
  BY <1>1, <1>2 DEF CuentaDelCore

(* A process leaves the core.                                               *)
LEMMA CoreSale ==
  ASSUME TypeOK, CuentaDelCore, NEW p \in Procesos,
         estado[p] \in {"READY", "EXEC", "BLOCKED"}, PasarA(p, "EXIT"),
         LiberarEnMemoria(p)
  PROVE  CuentaDelCore'
<1>1. p \in EnCore /\ EnCore' = EnCore \ {p}
  BY DEF TypeOK, EnCore, PasarA
<1>2. Cardinality(EnCore') = Cardinality(EnCore) - 1
  BY <1>1, CoreFinito, FS_RemoveElement
<1> QED
  BY <1>1, <1>2 DEF CuentaDelCore, LiberarEnMemoria

-------------------------------------------------------------------------------
(* InvProcesos is inductive: one lemma per group of actions.                *)

(* Actions that move no PCB and complete no wait.                           *)
LEMMA SinMover ==
  ASSUME InvProcesos, TypeOK', SinDesacuerdos', CpuConElDeExec',
         UNCHANGED <<listas, procesos_en_core, en_memoria, hilos>>
  PROVE  InvProcesos'
<1>1. ListasCoherentes'
  BY DEF InvProcesos, ListasCoherentes, listas
<1>2. CuentaDelCore'
  BY CoreIgual DEF InvProcesos, EnCore, listas
<1>3. EsperasEnBlocked'
  BY DEF InvProcesos, EsperasEnBlocked, hilos, listas
<1> QED
  BY <1>1, <1>2, <1>3 DEF InvProcesos

(* INICIAR_PROCESO.                                                         *)
LEMMA PasoIniciar ==
  ASSUME InvProcesos, NEW p \in Procesos, IniciarProceso(p)
  PROVE  InvProcesos'
<1>1. ListasCoherentes' /\ lista_new' \in Seq(Procesos)
  BY MoverCrear DEF InvProcesos
<1>2. TypeOK'
  BY <1>1 DEF InvProcesos, TypeOK, IniciarProceso, Sigue, PasarA, LanzarPlp, Estados,
         core, pcp, hilos, consola, banderas, interrup
<1>3. EnCore' = EnCore
  BY DEF InvProcesos, TypeOK, EnCore, IniciarProceso, PasarA
<1>4. CuentaDelCore'
  BY <1>3, CoreIgual DEF InvProcesos, IniciarProceso, core
<1>5. EsperasEnBlocked'
  BY DEF InvProcesos, EsperasEnBlocked, IniciarProceso, hilos
<1>6. CpuConElDeExec' /\ SinDesacuerdos'
  BY DEF InvProcesos, CpuConElDeExec, SinDesacuerdos, TypeOK, IniciarProceso, PasarA, Sigue
<1> QED
  BY <1>1, <1>2, <1>4, <1>5, <1>6 DEF InvProcesos

(* MULTIPROGRAMACION.                                                       *)
LEMMA PasoCambiarGrado ==
  ASSUME InvProcesos, NEW g \in Grados, CambiarGrado(g)
  PROVE  InvProcesos'
<1>1. TypeOK'
  BY ConstantesPlanificador DEF InvProcesos, TypeOK, CambiarGrado, Sigue, listas,
         pcp, hilos, consola, banderas, interrup
<1>2. CpuConElDeExec' /\ SinDesacuerdos'
  BY DEF InvProcesos, CpuConElDeExec, SinDesacuerdos, CambiarGrado, Sigue, listas
<1>3. UNCHANGED <<listas, procesos_en_core, en_memoria, hilos>>
  BY DEF CambiarGrado
<1> QED
  BY <1>1, <1>2, <1>3, SinMover

(* The long term planner, whether it admits a process or not.               *)
LEMMA PasoPlpPlanifica ==
  ASSUME InvProcesos, PlpPlanifica
  PROVE  InvProcesos'
<1> USE DEF InvProcesos
<1>1. /\ hilos_plp' \in Nat /\ hilos_pcp' \in [Hilos -> Nat]
      /\ hilos_despacho' \in [Hilos -> Nat]
  BY DEF TypeOK, PlpPlanifica, LlamarPcp, Hilos
<1>2. CASE Admitir
  <2> DEFINE p == Head(lista_new)
  <2>1. /\ ListasCoherentes' /\ p \in Procesos /\ estado[p] = "NEW"
        /\ lista_new' \in Seq(Procesos) /\ lista_ready' \in Seq(Procesos)
    BY <1>2, MoverAdmitir
  <2>2. /\ PasarA(p, "READY") /\ en_memoria' = en_memoria \cup {p}
        /\ procesos_en_core' = procesos_en_core + 1
        /\ UNCHANGED <<lista_execute, lista_blocked, lista_exit, grado>>
    BY <1>2 DEF Admitir
  <2> HIDE DEF p
  <2>3. CuentaDelCore'
    BY <2>1, <2>2, CoreEntra
  <2>4. TypeOK'
    BY <1>1, <2>1, <2>2 DEF TypeOK, PlpPlanifica, Sigue, PasarA, Estados,
           hilos, consola, banderas, interrup
  <2>5. EsperasEnBlocked'
    BY <2>2 DEF EsperasEnBlocked, PlpPlanifica, hilos
  <2>6. CpuConElDeExec' /\ SinDesacuerdos'
    BY <2>1, <2>2 DEF CpuConElDeExec, SinDesacuerdos, TypeOK, PlpPlanifica, PasarA, Sigue
  <2> QED
    BY <2>1, <2>3, <2>4, <2>5, <2>6
<1>3. CASE UNCHANGED <<listas, core>>
  <2>1. TypeOK'
    BY <1>1, <1>3 DEF TypeOK, PlpPlanifica, Sigue, listas, core, hilos, consola,
           banderas, interrup
  <2>2. CpuConElDeExec' /\ SinDesacuerdos'
    BY <1>3 DEF CpuConElDeExec, SinDesacuerdos, PlpPlanifica, Sigue, listas
  <2>3. UNCHANGED <<listas, procesos_en_core, en_memoria, hilos>>
    BY <1>3 DEF PlpPlanifica, core
  <2> QED
    BY <2>1, <2>2, <2>3, SinMover
<1> QED
  BY <1>2, <1>3 DEF PlpPlanifica

(* The look of the short term planner at READY.                             *)
LEMMA PasoPcpPlanificar ==
  ASSUME InvProcesos, NEW h \in Hilos, PcpPlanificar(h)
  PROVE  InvProcesos'
<1>0. hilos_pcp' \in [Hilos -> Nat] /\ hilos_despacho' \in [Hilos -> Nat]
  BY DEF InvProcesos, TypeOK, PcpPlanificar
<1>1. TypeOK'
  BY <1>0 DEF InvProcesos, TypeOK, PcpPlanificar, Sigue, listas, core, hilos, consola,
         banderas, interrup
<1>2. CpuConElDeExec' /\ SinDesacuerdos'
  BY DEF InvProcesos, CpuConElDeExec, SinDesacuerdos, PcpPlanificar, Sigue, listas
<1>3. UNCHANGED <<listas, procesos_en_core, en_memoria, hilos>>
  BY DEF PcpPlanificar, core
<1> QED
  BY <1>1, <1>2, <1>3, SinMover

(* The two places that dispatch, once they have chosen a PCB of READY.      *)
LEMMA PasoEjecutar ==
  ASSUME InvProcesos, NEW h \in Hilos, NEW p \in ToSet(lista_ready),
         lista_execute = <<>>, Ejecutar(p), SeguirDespacho(h), Sigue,
         flag_exit' \in BOOLEAN, temporizador' \in BOOLEAN,
         UNCHANGED <<core, hilos_plp, hilos, consola, flag_proceso_desalojado,
                     flag_finalizar_proceso, sem_interrupcion, interrumpido>>
  PROVE  InvProcesos'
<1>1. /\ ListasCoherentes' /\ p \in Procesos /\ estado[p] = "READY"
      /\ lista_execute' \in Seq(Procesos) /\ lista_ready' \in Seq(Procesos)
  BY MoverEjecutar DEF InvProcesos
<1>2. /\ estado' = [estado EXCEPT ![p] = "EXEC"]
      /\ cpu' = [cpu EXCEPT !.pid = p, !.instr = "NINGUNA"]
      /\ UNCHANGED <<lista_new, lista_blocked, lista_exit>>
  BY DEF Ejecutar, PasarA
<1>3. TypeOK'
  <2>1. cpu' \in [pid : Procesos \cup {NULL}, instr : Instrucciones,
                  recibida : BOOLEAN, para : Procesos \cup {NULL}, motivo : Motivos,
                  flag : BOOLEAN]
    BY <1>1, <1>2 DEF InvProcesos, TypeOK, Instrucciones
  <2>2. /\ hilos_pcp' \in [Hilos -> Nat] /\ hilos_despacho' \in [Hilos -> Nat]
    BY DEF InvProcesos, TypeOK, SeguirDespacho
  <2> QED
    BY <1>1, <1>2, <2>1, <2>2 DEF InvProcesos, TypeOK, Sigue, Estados, core, hilos, consola
<1>4. EnCore' = EnCore
  BY <1>1, <1>2 DEF InvProcesos, TypeOK, EnCore
<1>5. CuentaDelCore'
  BY <1>4, CoreIgual DEF InvProcesos, core
<1>6. EsperasEnBlocked'
  BY <1>2 DEF InvProcesos, EsperasEnBlocked, hilos
<1>7. CpuConElDeExec' /\ SinDesacuerdos'
  BY <1>1, <1>2, ConstantesPlanificador
  DEF InvProcesos, TypeOK, CpuConElDeExec, SinDesacuerdos, Sigue
<1> QED
  BY <1>1, <1>3, <1>5, <1>6, <1>7 DEF InvProcesos

(* The same, when they find nothing to dispatch.                            *)
LEMMA PasoNoEjecutar ==
  ASSUME InvProcesos, NEW h \in Hilos, SeguirDespacho(h), Sigue,
         sem_interrupcion' \in Nat,
         UNCHANGED <<listas, cpu, core, hilos_plp, hilos, consola, banderas,
                     interrumpido, temporizador>>
  PROVE  InvProcesos'
<1>1. TypeOK'
  BY DEF InvProcesos, TypeOK, SeguirDespacho, Sigue, listas, core, hilos, consola,
         banderas
<1>2. CpuConElDeExec' /\ SinDesacuerdos'
  BY DEF InvProcesos, CpuConElDeExec, SinDesacuerdos, Sigue, listas
<1>3. UNCHANGED <<procesos_en_core, en_memoria>>
  BY DEF core
<1> QED
  BY <1>1, <1>2, <1>3, SinMover

(* The dispatch under FIFO and RR.                                          *)
LEMMA PasoRRFIFO ==
  ASSUME InvProcesos, NEW h \in Hilos, AtenderRRFIFO(h)
  PROVE  InvProcesos'
<1>1. CASE lista_execute = <<>> /\ lista_ready # <<>>
  <2>1. Head(lista_ready) \in ToSet(lista_ready)
    BY <1>1, ListaSinCabeza DEF InvProcesos, TypeOK, ListasCoherentes
  <2>2. Ejecutar(Head(lista_ready)) /\ ArmarQuantum
    BY <1>1 DEF AtenderRRFIFO
  <2>3. flag_exit' \in BOOLEAN /\ temporizador' \in BOOLEAN
    BY <2>2 DEF InvProcesos, TypeOK, ArmarQuantum
  <2>4. SeguirDespacho(h) /\ Sigue
        /\ UNCHANGED <<core, hilos_plp, hilos, consola, flag_proceso_desalojado,
                       flag_finalizar_proceso, sem_interrupcion, interrumpido>>
    BY DEF AtenderRRFIFO
  <2> QED
    BY <1>1, <2>1, <2>2, <2>3, <2>4, PasoEjecutar
<1>2. CASE ~(lista_execute = <<>> /\ lista_ready # <<>>)
  <2>1. /\ SeguirDespacho(h) /\ Sigue /\ sem_interrupcion' \in Nat
        /\ UNCHANGED <<listas, cpu, core, hilos_plp, hilos, consola, banderas,
                     interrumpido, temporizador>>
    BY <1>2 DEF AtenderRRFIFO, InvProcesos, TypeOK, banderas
  <2> QED
    BY <2>1, PasoNoEjecutar
<1> QED
  BY <1>1, <1>2

(* The PCB that PRIORIDADES chooses is one of READY.                        *)
LEMMA ElegidaEnReady ==
  ASSUME TypeOK, NEW p \in Procesos, EsElegida(p)
  PROVE  p \in ToSet(lista_ready)
BY LenProperties DEF TypeOK, EsElegida, ToSet

(* The dispatch, the preemption or neither, under PRIORIDADES.              *)
LEMMA PasoPrioridades ==
  ASSUME InvProcesos, NEW h \in Hilos, AtenderPrioridades(h)
  PROVE  InvProcesos'
<1>1. SeguirDespacho(h) /\ Sigue
      /\ UNCHANGED <<core, hilos_plp, hilos, consola, banderas, interrumpido,
                     temporizador>>
  BY DEF AtenderPrioridades
<1>2. CASE UNCHANGED <<listas, cpu>> /\ sem_interrupcion' \in Nat
  BY <1>1, <1>2, PasoNoEjecutar
<1>3. ASSUME NEW p \in Procesos, EsElegida(p), lista_execute = <<>>, Ejecutar(p),
             UNCHANGED sem_interrupcion
      PROVE  InvProcesos'
  <2>1. p \in ToSet(lista_ready)
    BY <1>3, ElegidaEnReady DEF InvProcesos
  <2>2. /\ flag_exit' \in BOOLEAN /\ temporizador' \in BOOLEAN
        /\ UNCHANGED <<core, hilos_plp, hilos, consola, flag_proceso_desalojado,
                     flag_finalizar_proceso, sem_interrupcion, interrumpido>>
    BY <1>1, <1>3 DEF InvProcesos, TypeOK, banderas
  <2> QED
    BY <1>1, <1>3, <2>1, <2>2, PasoEjecutar
<1>4. ASSUME PostInterrupcion \/ UNCHANGED sem_interrupcion
      PROVE  sem_interrupcion' \in Nat
  BY <1>4 DEF InvProcesos, TypeOK, PostInterrupcion
<1>5. \/ \E p \in Procesos : /\ EsElegida(p) /\ lista_execute = <<>>
                             /\ Ejecutar(p) /\ UNCHANGED sem_interrupcion
      \/ /\ UNCHANGED <<listas, cpu>>
         /\ PostInterrupcion \/ UNCHANGED sem_interrupcion
  BY Zenon DEF AtenderPrioridades
<1> QED
  BY <1>2, <1>3, <1>4, <1>5

(* The quantum, the interrupt thread and the CPU.                           *)
LEMMA PasoInterrupciones ==
  ASSUME InvProcesos, FinDeQuantum \/ LeerEjecutando
  PROVE  InvProcesos'
<1>1. lista_execute # <<>> => Head(lista_execute) \in Procesos
  BY HeadTailProperties DEF InvProcesos, TypeOK
<1>2. /\ sem_interrupcion' \in Nat /\ temporizador' \in BOOLEAN
      /\ interrumpido' \in Procesos \cup {NULL}
  <2>1. CASE FinDeQuantum
    <3>1. sem_interrupcion' \in Nat
      BY <2>1 DEF InvProcesos, TypeOK, FinDeQuantum, PostInterrupcion
    <3>2. temporizador' \in BOOLEAN
      BY <2>1 DEF FinDeQuantum
    <3>3. interrumpido' \in Procesos \cup {NULL}
      BY <2>1 DEF InvProcesos, TypeOK, FinDeQuantum
    <3> QED
      BY <3>1, <3>2, <3>3
  <2>2. CASE LeerEjecutando
    BY <1>1, <2>2 DEF InvProcesos, TypeOK, LeerEjecutando
  <2> QED
    BY <2>1, <2>2
<1>3. /\ Sigue
      /\ UNCHANGED <<listas, core, hilos_plp, pcp, hilos, consola, banderas, cpu>>
  BY DEF FinDeQuantum, LeerEjecutando
<1>4. TypeOK'
  BY <1>2, <1>3 DEF InvProcesos, TypeOK, Sigue, listas, core, pcp, hilos, consola,
     banderas
<1>5. CpuConElDeExec' /\ SinDesacuerdos'
  BY <1>3 DEF InvProcesos, CpuConElDeExec, SinDesacuerdos, Sigue, listas
<1>6. UNCHANGED <<procesos_en_core, en_memoria>>
  BY <1>3 DEF core
<1> QED
  BY <1>3, <1>4, <1>5, <1>6, SinMover

(* Steps that change only what the CPU is doing with the same process, or   *)
(* the flags.                                                               *)
LEMMA PasoCpu ==
  ASSUME InvProcesos, Sigue,
         cpu' \in [pid : Procesos \cup {NULL}, instr : Instrucciones,
                  recibida : BOOLEAN, para : Procesos \cup {NULL}, motivo : Motivos,
                  flag : BOOLEAN],
         cpu'.pid = cpu.pid,
         cpu.pid = NULL => cpu'.instr = "NINGUNA" /\ ~cpu'.recibida,
         cpu.instr = "SIN_RESPUESTA" => cpu'.instr = cpu.instr /\ cpu'.recibida = cpu.recibida,
         flag_proceso_desalojado' \in BOOLEAN, flag_exit' \in BOOLEAN,
         interrumpido' \in Procesos \cup {NULL},
         UNCHANGED <<listas, core, hilos_plp, pcp, hilos, consola,
                     flag_finalizar_proceso, sem_interrupcion, temporizador>>
  PROVE  InvProcesos'
<1>3. TypeOK'
  BY DEF InvProcesos, TypeOK, Sigue, listas, core, pcp, hilos, consola
<1>4. CpuConElDeExec'
  BY DEF InvProcesos, CpuConElDeExec, listas
<1>5. SinDesacuerdos'
  BY DEF InvProcesos, SinDesacuerdos, Sigue
<1>6. UNCHANGED <<procesos_en_core, en_memoria>>
  BY DEF core
<1> QED
  BY <1>3, <1>4, <1>5, <1>6, SinMover

(* The interrupt that the CPU keeps, or is not sent.                        *)
LEMMA PasoEnviarInterrupcion ==
  ASSUME InvProcesos, EnviarInterrupcion
  PROVE  InvProcesos'
<1> DEFINE guardado == IF cpu.para = NULL THEN interrumpido ELSE cpu.para
           f == cpu.flag \/ guardado = cpu.pid
<1>1. guardado \in Procesos \cup {NULL} /\ f \in BOOLEAN
  BY DEF InvProcesos, TypeOK
<1>2. MotivoAEnviar \in Motivos
  BY DEF MotivoAEnviar, Motivos
<1>3. \/ cpu' = cpu
      \/ cpu' = [cpu EXCEPT !.para = guardado, !.motivo = MotivoAEnviar, !.flag = f]
  BY DEF EnviarInterrupcion, RecibirInterrupcion, InvProcesos, TypeOK
<1> HIDE DEF guardado, f
<1>4. /\ cpu' \in [pid : Procesos \cup {NULL}, instr : Instrucciones,
                  recibida : BOOLEAN, para : Procesos \cup {NULL}, motivo : Motivos,
                  flag : BOOLEAN]
      /\ cpu'.pid = cpu.pid /\ cpu'.instr = cpu.instr /\ cpu'.recibida = cpu.recibida
  BY <1>1, <1>2, <1>3 DEF InvProcesos, TypeOK
<1>5. cpu.pid = NULL => cpu.instr = "NINGUNA" /\ ~cpu.recibida
  BY DEF InvProcesos, CpuConElDeExec
<1>6. /\ Sigue /\ interrumpido' \in Procesos \cup {NULL}
      /\ flag_proceso_desalojado' \in BOOLEAN /\ flag_exit' \in BOOLEAN
      /\ UNCHANGED <<listas, core, hilos_plp, pcp, hilos, consola,
                     flag_finalizar_proceso, sem_interrupcion, temporizador>>
  BY DEF EnviarInterrupcion, InvProcesos, TypeOK, banderas
<1> QED
  BY <1>4, <1>5, <1>6, PasoCpu

(* The CPU's own steps, the reception and the instructions answered at once. *)
LEMMA PasoInstruccion ==
  ASSUME InvProcesos, Sigue, NEW i \in Instrucciones, NEW r \in BOOLEAN,
         cpu' = [cpu EXCEPT !.instr = i, !.recibida = r], cpu.pid # NULL,
         cpu.instr # "SIN_RESPUESTA",
         flag_proceso_desalojado' \in BOOLEAN, flag_exit' \in BOOLEAN,
         UNCHANGED <<listas, core, hilos_plp, pcp, hilos, consola,
                     flag_finalizar_proceso, interrup>>
  PROVE  InvProcesos'
<1>1. /\ cpu' \in [pid : Procesos \cup {NULL}, instr : Instrucciones,
                  recibida : BOOLEAN, para : Procesos \cup {NULL}, motivo : Motivos,
                  flag : BOOLEAN]
      /\ cpu'.pid = cpu.pid
  BY DEF InvProcesos, TypeOK
<1>2. /\ interrumpido' \in Procesos \cup {NULL}
      /\ UNCHANGED <<sem_interrupcion, temporizador>>
  BY DEF InvProcesos, TypeOK, interrup
<1> QED
  BY <1>1, <1>2, PasoCpu

(* The CPU calls the Kernel, or leaves the process for an interrupt.        *)
LEMMA PasoAtrapar ==
  ASSUME InvProcesos, (\E i \in Traps : Atrapar(i)) \/ Interrumpirse
  PROVE  InvProcesos'
<1>1. PICK i \in Instrucciones : cpu' = [cpu EXCEPT !.instr = i]
  BY DEF Atrapar, Interrumpirse, Instrucciones
<1>2. /\ Sigue /\ cpu.pid \in en_memoria /\ cpu.instr # "SIN_RESPUESTA"
      /\ UNCHANGED <<listas, core, hilos_plp, pcp, hilos, consola, banderas, interrup>>
  BY DEF Atrapar, Interrumpirse
<1>3. cpu.pid # NULL /\ cpu.recibida \in BOOLEAN
  BY <1>2, ConstantesPlanificador DEF InvProcesos, TypeOK
<1>4. cpu' = [cpu EXCEPT !.instr = i, !.recibida = cpu.recibida]
  BY <1>1 DEF InvProcesos, TypeOK
<1>5. flag_proceso_desalojado' \in BOOLEAN /\ flag_exit' \in BOOLEAN
      /\ UNCHANGED flag_finalizar_proceso
  BY <1>2 DEF InvProcesos, TypeOK, banderas
<1> QED
  BY <1>2, <1>3, <1>4, <1>5, PasoInstruccion

(* What the CPU sent is of the process in EXEC: the reception does not fail. *)
LEMMA PasoRecibir ==
  ASSUME InvProcesos, Recibir
  PROVE  InvProcesos'
<1>1. cpu.instr # "NINGUNA" /\ cpu.instr # "SIN_RESPUESTA"
  BY DEF Recibir, Traps
<1>2. cpu.pid # NULL /\ estado[cpu.pid] = "EXEC"
  BY <1>1 DEF InvProcesos, CpuConElDeExec
<1>3. cpu.pid \in ToSet(lista_execute)
  BY <1>2 DEF InvProcesos, TypeOK, ListasCoherentes
<1>4. cpu' = [cpu EXCEPT !.instr = cpu.instr, !.recibida = TRUE]
  BY <1>3 DEF Recibir, InvProcesos, TypeOK
<1>5. /\ Sigue /\ cpu.instr \in Instrucciones
      /\ flag_proceso_desalojado' \in BOOLEAN /\ flag_exit' \in BOOLEAN
      /\ UNCHANGED <<listas, core, hilos_plp, pcp, hilos, consola,
                     flag_finalizar_proceso, interrup>>
  BY <1>3 DEF Recibir, InvProcesos, TypeOK
<1> QED
  BY <1>1, <1>2, <1>4, <1>5, PasoInstruccion

(* An instruction that is answered at once.                                 *)
LEMMA PasoInmediata ==
  ASSUME InvProcesos, NEW p \in Procesos, AtenderInmediata(p)
  PROVE  InvProcesos'
<1>1. /\ cpu' = [cpu EXCEPT !.instr = "NINGUNA", !.recibida = FALSE]
      /\ cpu.pid = p /\ p # NULL /\ "NINGUNA" \in Instrucciones
      /\ cpu.instr # "SIN_RESPUESTA"
  BY ConstantesPlanificador DEF AtenderInmediata, AtenderTrap, Atender, Instrucciones
<1>2. /\ Sigue
      /\ flag_proceso_desalojado' \in BOOLEAN /\ flag_exit' \in BOOLEAN
      /\ UNCHANGED <<listas, core, hilos_plp, pcp, hilos, consola,
                     flag_finalizar_proceso, interrup>>
  BY DEF AtenderInmediata, AtenderTrap, Atender, InvProcesos, TypeOK
<1> QED
  BY <1>1, <1>2, PasoInstruccion

(* The crashes: those that a wrong PID would cause cannot happen.           *)
LEMMA PasoCaer ==
  ASSUME InvProcesos, NEW como \in {"SEGFAULT", "CPU_CAIDA"}, Caer(como)
  PROVE  InvProcesos'
<1>1. TypeOK'
  BY DEF InvProcesos, TypeOK, Caer, listas, core, pcp, hilos, consola, banderas, interrup
<1>2. CpuConElDeExec' /\ SinDesacuerdos'
  BY DEF InvProcesos, CpuConElDeExec, SinDesacuerdos, Caer, listas
<1>3. UNCHANGED <<listas, procesos_en_core, en_memoria, hilos>>
  BY DEF Caer, core
<1> QED
  BY <1>1, <1>2, <1>3, SinMover

(* Memoria has the process that the CPU runs.                               *)
LEMMA FetchConProceso ==
  ASSUME InvProcesos
  PROVE  ~FetchSinProceso
<1>1. cpu.pid # NULL /\ cpu.instr = "NINGUNA" => cpu.pid \in EnCore
  BY DEF InvProcesos, TypeOK, CpuConElDeExec, EnCore
<1> QED
  BY <1>1 DEF InvProcesos, CuentaDelCore, FetchSinProceso

(* Memoria has the processes whose page faults are pending.                 *)
LEMMA PageFaultConProceso ==
  ASSUME InvProcesos
  PROVE  ~PageFaultSinProceso
<1>1. lista_blocked \subseteq EnCore
  BY DEF InvProcesos, TypeOK, ListasCoherentes, EnCore
<1>2. fallos \subseteq en_memoria
      /\ (fallo_en_curso # NULL => fallo_en_curso \in en_memoria)
  BY <1>1 DEF InvProcesos, CuentaDelCore, EsperasEnBlocked
<1> QED
  BY <1>2 DEF PageFaultSinProceso

(* What every handler that takes the process out of EXEC has in common.     *)
LEMMA SaleDeExec ==
  ASSUME InvProcesos, NEW p \in Procesos, cpu.recibida, cpu.pid = p
  PROVE  p \in ToSet(lista_execute) /\ p \notin lista_blocked /\ estado[p] = "EXEC"
<1>1. estado[p] = "EXEC"
  BY ConstantesPlanificador DEF InvProcesos, CpuConElDeExec
<1> QED
  BY <1>1 DEF InvProcesos, ListasCoherentes

(* EXEC -> BLOCKED, whatever the process then waits for and whether or not  *)
(* the CPU is answered.                                                     *)
LEMMA PasoBloquear ==
  ASSUME InvProcesos, NEW p \in Procesos, NEW instrs, AtenderTrap(p, instrs),
         SalirDeExec(p), PasarA(p, "BLOCKED"), lista_blocked' = lista_blocked \cup {p},
         UNCHANGED <<lista_new, lista_ready, lista_exit>>,
         \/ cpu' = CpuLibre
         \/ cpu' = [cpu EXCEPT !.instr = "SIN_RESPUESTA", !.recibida = FALSE],
         hilos_pcp' \in [Hilos -> Nat], hilos_despacho' \in [Hilos -> Nat],
         \/ durmiendo' = durmiendo \cup {p}
            /\ UNCHANGED <<esperando, fallos, fallo_en_curso, desbloqueos>>
         \/ esperando' = esperando \cup {p}
            /\ UNCHANGED <<durmiendo, fallos, fallo_en_curso, desbloqueos>>
         \/ fallos' = fallos \cup {p}
            /\ UNCHANGED <<durmiendo, esperando, fallo_en_curso, desbloqueos>>,
         UNCHANGED <<core, hilos_plp, consola>>
  PROVE  InvProcesos'
<1>0. /\ cpu' \in [pid : Procesos \cup {NULL}, instr : Instrucciones,
                  recibida : BOOLEAN, para : Procesos \cup {NULL}, motivo : Motivos,
                  flag : BOOLEAN]
      /\ IF cpu'.pid = NULL THEN cpu'.instr = "NINGUNA" /\ ~cpu'.recibida
         ELSE cpu'.instr = "SIN_RESPUESTA" /\ ~cpu'.recibida
  <2>1. CASE cpu' = CpuLibre
    BY <2>1 DEF CpuLibre, Instrucciones, Motivos
  <2>2. CASE cpu' = [cpu EXCEPT !.instr = "SIN_RESPUESTA", !.recibida = FALSE]
    <3>1. cpu.pid # NULL
      BY ConstantesPlanificador DEF AtenderTrap, Atender
    <3> QED
      BY <2>2, <3>1 DEF Instrucciones, InvProcesos, TypeOK
  <2> QED
    BY <2>1, <2>2
<1>1. /\ p \in ToSet(lista_execute) /\ p \notin lista_blocked /\ estado[p] = "EXEC"
      /\ Sigue /\ flag_proceso_desalojado' = flag_proceso_desalojado
      /\ UNCHANGED <<flag_finalizar_proceso, flag_exit, interrup>>
  BY SaleDeExec DEF AtenderTrap, Atender
<1>2. /\ lista_new' = lista_new /\ UNCHANGED <<lista_ready, lista_exit>>
      /\ PasarA(p, "BLOCKED") /\ lista_blocked' = lista_blocked \cup {p}
      /\ SalirDeExec(p)
  OBVIOUS
<1>3. ListasCoherentes' /\ lista_execute' \in Seq(Procesos)
  BY <1>1, <1>2, MoverDesdeExec, MoverSalirDeExec DEF InvProcesos
<1>4. TypeOK'
  <2>1. cpu' \in [pid : Procesos \cup {NULL}, instr : Instrucciones,
                  recibida : BOOLEAN, para : Procesos \cup {NULL}, motivo : Motivos,
                  flag : BOOLEAN]
    BY <1>0
  <2>2. /\ durmiendo' \subseteq Procesos /\ esperando' \subseteq Procesos
        /\ fallos' \subseteq Procesos /\ desbloqueos' \subseteq Procesos
        /\ fallo_en_curso' \in Procesos \cup {NULL}
    BY DEF InvProcesos, TypeOK
  <2>3. /\ estado' \in [Procesos -> Estados] /\ lista_blocked' \subseteq Procesos
        /\ lista_exit' \subseteq Procesos
    BY <1>2 DEF InvProcesos, TypeOK, PasarA, Estados
  <2>4. lista_new' \in Seq(Procesos) /\ lista_ready' \in Seq(Procesos)
    BY <1>2 DEF InvProcesos, TypeOK
  <2> QED
    BY <1>1, <1>3, <2>1, <2>2, <2>3, <2>4
    DEF InvProcesos, TypeOK, Sigue, core, consola, interrup
<1>5. EnCore' = EnCore
  BY <1>1, <1>2 DEF InvProcesos, TypeOK, EnCore, PasarA
<1>6. CuentaDelCore'
  BY <1>5, CoreIgual DEF InvProcesos, core
<1>7. EsperasEnBlocked'
  <2>1. p # NULL
    BY ConstantesPlanificador
  <2>2. /\ p \notin durmiendo /\ p \notin esperando /\ p \notin fallos
        /\ p \notin desbloqueos /\ p # fallo_en_curso
    BY <1>1, <2>1 DEF InvProcesos, EsperasEnBlocked
  <2> QED
    BY <1>2, <2>2 DEF InvProcesos, EsperasEnBlocked
<1>8. CpuConElDeExec' /\ SinDesacuerdos'
  BY <1>0, <1>1 DEF InvProcesos, CpuConElDeExec, SinDesacuerdos, Sigue
<1> QED
  BY <1>3, <1>4, <1>6, <1>7, <1>8 DEF InvProcesos

(* A call of the short term planner is one more pending thread.             *)
LEMMA PcpLlamado ==
  ASSUME TypeOK, NEW h \in Hilos, LlamarPcp(h)
  PROVE  hilos_pcp' \in [Hilos -> Nat] /\ hilos_despacho' \in [Hilos -> Nat]
BY DEF TypeOK, LlamarPcp

(* The handlers that block the process.                                     *)
LEMMA PasoBloqueantes ==
  ASSUME InvProcesos, NEW p \in Procesos,
         \/ AtenderSleep(p) \/ AtenderBloqueante(p) \/ BloquearSinResponder(p)
         \/ AtenderTrapPageFault(p)
  PROVE  InvProcesos'
<1>1. CASE AtenderSleep(p)
  <2>1. hilos_pcp' \in [Hilos -> Nat] /\ hilos_despacho' \in [Hilos -> Nat]
    BY <1>1, PcpLlamado DEF AtenderSleep, InvProcesos, Hilos
  <2>2. /\ AtenderTrap(p, {"SLEEP"}) /\ SalirDeExec(p) /\ PasarA(p, "BLOCKED")
        /\ lista_blocked' = lista_blocked \cup {p}
        /\ UNCHANGED <<lista_new, lista_ready, lista_exit>> /\ cpu' = CpuLibre
        /\ durmiendo' = durmiendo \cup {p}
        /\ UNCHANGED <<esperando, fallos, fallo_en_curso, desbloqueos>>
        /\ UNCHANGED <<core, hilos_plp, consola>>
    BY <1>1 DEF AtenderSleep, Bloquear
  <2> QED
    BY <2>1, <2>2, PasoBloquear
<1>2. CASE AtenderBloqueante(p)
  <2>1. hilos_pcp' \in [Hilos -> Nat] /\ hilos_despacho' \in [Hilos -> Nat]
    BY <1>2, PcpLlamado DEF AtenderBloqueante, InvProcesos, Hilos
  <2>2. /\ AtenderTrap(p, {"SINCRONICA", "F_OPERACION"}) /\ SalirDeExec(p) /\ PasarA(p, "BLOCKED")
        /\ lista_blocked' = lista_blocked \cup {p}
        /\ UNCHANGED <<lista_new, lista_ready, lista_exit>> /\ cpu' = CpuLibre

        /\ esperando' = esperando \cup {p}
        /\ UNCHANGED <<durmiendo, fallos, fallo_en_curso, desbloqueos>>
        /\ UNCHANGED <<core, hilos_plp, consola>>
    BY <1>2 DEF AtenderBloqueante, Bloquear
  <2> QED
    BY <2>1, <2>2, PasoBloquear
<1>3. CASE AtenderTrapPageFault(p)
  <2>1. hilos_pcp' \in [Hilos -> Nat] /\ hilos_despacho' \in [Hilos -> Nat]
    BY <1>3 DEF AtenderTrapPageFault, InvProcesos, TypeOK, pcp
  <2>2. /\ AtenderTrap(p, {"PAGE_FAULT"}) /\ SalirDeExec(p) /\ PasarA(p, "BLOCKED")
        /\ lista_blocked' = lista_blocked \cup {p}
        /\ UNCHANGED <<lista_new, lista_ready, lista_exit>> /\ cpu' = CpuLibre
        /\ fallos' = fallos \cup {p}
        /\ UNCHANGED <<durmiendo, esperando, fallo_en_curso, desbloqueos>>
        /\ UNCHANGED <<core, hilos_plp, consola>>
    BY <1>3 DEF AtenderTrapPageFault, Bloquear
  <2> QED
    BY <2>1, <2>2, PasoBloquear
<1>4. CASE BloquearSinResponder(p)
  <2>1. hilos_pcp' \in [Hilos -> Nat] /\ hilos_despacho' \in [Hilos -> Nat]
    BY <1>4 DEF BloquearSinResponder, InvProcesos, TypeOK, pcp
  <2>2. /\ AtenderTrap(p, {"SINCRONICA"}) /\ SalirDeExec(p) /\ PasarA(p, "BLOCKED")
        /\ lista_blocked' = lista_blocked \cup {p}
        /\ UNCHANGED <<lista_new, lista_ready, lista_exit>>
        /\ cpu' = [cpu EXCEPT !.instr = "SIN_RESPUESTA", !.recibida = FALSE]
        /\ esperando' = esperando \cup {p}
        /\ UNCHANGED <<durmiendo, fallos, fallo_en_curso, desbloqueos>>
        /\ UNCHANGED <<core, hilos_plp, consola>>
    BY <1>4 DEF BloquearSinResponder
  <2> QED
    BY <2>1, <2>2, PasoBloquear
<1> QED
  BY <1>1, <1>2, <1>3, <1>4

(* An F_TRUNCATE that is not done: only the CPU is freed.                   *)
LEMMA PasoAbandonar ==
  ASSUME InvProcesos, NEW p \in Procesos, AbandonarEnExec(p)
  PROVE  InvProcesos'
<1>1. /\ Sigue /\ cpu' = CpuLibre
      /\ UNCHANGED <<listas, core, hilos_plp, pcp, hilos, consola, interrup,
                     flag_proceso_desalojado, flag_finalizar_proceso, flag_exit>>
  BY DEF AbandonarEnExec, AtenderTrap, Atender
<1>2. TypeOK'
  BY <1>1 DEF InvProcesos, TypeOK, CpuLibre, Instrucciones, Motivos, Sigue, listas, core,
     pcp, hilos, consola, interrup
<1>3. CpuConElDeExec' /\ SinDesacuerdos'
  BY <1>1 DEF InvProcesos, CpuConElDeExec, SinDesacuerdos, CpuLibre, Sigue
<1>4. UNCHANGED <<procesos_en_core, en_memoria>>
  BY <1>1 DEF core
<1> QED
  BY <1>1, <1>2, <1>3, <1>4, SinMover

(* EXEC -> EXIT.                                                            *)
LEMMA PasoPlpExit ==
  ASSUME InvProcesos, NEW p \in Procesos, PlpExit(p)
  PROVE  InvProcesos'
<1>1. /\ p \in ToSet(lista_execute) /\ p \notin lista_blocked /\ estado[p] = "EXEC"
      /\ Sigue /\ flag_proceso_desalojado' = flag_proceso_desalojado
      /\ UNCHANGED <<flag_finalizar_proceso, flag_exit, interrup>>
  BY SaleDeExec DEF PlpExit, AtenderTrap, Atender
<1>2. /\ lista_new' = lista_new /\ UNCHANGED <<lista_ready, lista_blocked>>
      /\ PasarA(p, "EXIT") /\ lista_exit' = lista_exit \cup {p}
      /\ SalirDeExec(p) /\ cpu' = CpuLibre /\ LiberarEnMemoria(p) /\ LanzarPlp
      /\ UNCHANGED <<pcp, hilos, consola>>
  BY DEF PlpExit
<1>3. ListasCoherentes' /\ lista_execute' \in Seq(Procesos)
  BY <1>1, <1>2, MoverDesdeExec, MoverSalirDeExec DEF InvProcesos
<1>4. TypeOK'
  <2>1. cpu' \in [pid : Procesos \cup {NULL}, instr : Instrucciones,
                  recibida : BOOLEAN, para : Procesos \cup {NULL}, motivo : Motivos,
                  flag : BOOLEAN]
    BY <1>2 DEF CpuLibre, Instrucciones, Motivos
  <2>2. /\ estado' \in [Procesos -> Estados] /\ lista_exit' \subseteq Procesos
    BY <1>2 DEF InvProcesos, TypeOK, PasarA, Estados
  <2>3. /\ procesos_en_core' \in Int /\ grado' = grado /\ en_memoria' \subseteq Procesos
        /\ hilos_plp' \in Nat
    BY <1>2 DEF InvProcesos, TypeOK, LiberarEnMemoria, LanzarPlp
  <2>4. /\ lista_new' \in Seq(Procesos) /\ lista_ready' \in Seq(Procesos)
        /\ lista_blocked' \subseteq Procesos
    BY <1>2 DEF InvProcesos, TypeOK
  <2> QED
    BY <1>1, <1>2, <1>3, <2>1, <2>2, <2>3, <2>4
    DEF InvProcesos, TypeOK, Sigue, pcp, hilos, consola, interrup
<1>5. CuentaDelCore'
  BY <1>1, <1>2, CoreSale DEF InvProcesos
<1>6. EsperasEnBlocked'
  BY <1>2 DEF InvProcesos, EsperasEnBlocked, hilos
<1>7. CpuConElDeExec' /\ SinDesacuerdos'
  BY <1>1, <1>2 DEF InvProcesos, CpuConElDeExec, SinDesacuerdos, Sigue, CpuLibre
<1> QED
  BY <1>3, <1>4, <1>5, <1>6, <1>7 DEF InvProcesos

(* EXEC -> READY, by the end of the quantum or by priority.                 *)
LEMMA PasoReubicar ==
  ASSUME InvProcesos, NEW p \in Procesos, Reubicar(p)
  PROVE  InvProcesos'
<1>1. /\ p \in ToSet(lista_execute) /\ estado[p] = "EXEC" /\ Sigue
      /\ UNCHANGED <<flag_finalizar_proceso, flag_exit, interrup>>
  BY SaleDeExec DEF Reubicar, Atender
<1>2. /\ lista_new' = lista_new /\ UNCHANGED <<lista_blocked, lista_exit>>
      /\ PasarA(p, "READY") /\ lista_ready' = Append(lista_ready, p)
      /\ SalirDeExec(p) /\ cpu' = CpuLibre /\ flag_proceso_desalojado' = FALSE
      /\ LlamarPcp("DISPATCH") /\ UNCHANGED <<core, hilos_plp, hilos, consola>>
  BY DEF Reubicar
<1>3. ListasCoherentes' /\ lista_execute' \in Seq(Procesos)
      /\ lista_ready' \in Seq(Procesos)
  BY <1>1, <1>2, MoverDesdeExec, MoverSalirDeExec DEF InvProcesos
<1>4. TypeOK'
  <2>1. cpu' \in [pid : Procesos \cup {NULL}, instr : Instrucciones,
                  recibida : BOOLEAN, para : Procesos \cup {NULL}, motivo : Motivos,
                  flag : BOOLEAN]
    BY <1>2 DEF CpuLibre, Instrucciones, Motivos
  <2>2. estado' \in [Procesos -> Estados]
    BY <1>2 DEF InvProcesos, TypeOK, PasarA, Estados
  <2>3. hilos_pcp' \in [Hilos -> Nat] /\ hilos_despacho' \in [Hilos -> Nat]
    BY <1>2, PcpLlamado DEF InvProcesos, Hilos
  <2> QED
    BY <1>1, <1>2, <1>3, <2>1, <2>2, <2>3
    DEF InvProcesos, TypeOK, Sigue, core, hilos, consola, interrup
<1>5. EnCore' = EnCore
  BY <1>1, <1>2 DEF InvProcesos, TypeOK, EnCore, PasarA
<1>6. CuentaDelCore'
  BY <1>2, <1>5, CoreIgual DEF InvProcesos, core
<1>7. EsperasEnBlocked'
  BY <1>2 DEF InvProcesos, EsperasEnBlocked, hilos
<1>8. CpuConElDeExec' /\ SinDesacuerdos'
  BY <1>1, <1>2 DEF InvProcesos, CpuConElDeExec, SinDesacuerdos, Sigue, CpuLibre
<1> QED
  BY <1>3, <1>4, <1>6, <1>7, <1>8 DEF InvProcesos

(* BLOCKED -> READY, whoever does it and whatever the wait was.             *)
LEMMA PasoDespertarPcb ==
  ASSUME InvProcesos, Sigue, NEW p \in lista_blocked, NEW h \in Hilos, LlamarPcp(h),
         lista_blocked' = lista_blocked \ {p},
         lista_ready' = Append(lista_ready, p), PasarA(p, "READY"),
         UNCHANGED <<lista_new, lista_execute, lista_exit>>,
         EsperasEnBlocked',
         durmiendo' \subseteq durmiendo, esperando' \subseteq esperando,
         fallos' = fallos, desbloqueos' \subseteq desbloqueos,
         fallo_en_curso' = fallo_en_curso,
         NEW i \in Instrucciones, NEW r \in BOOLEAN,
         cpu' = [cpu EXCEPT !.instr = i, !.recibida = r],
         cpu.pid = NULL => i = "NINGUNA" /\ ~r,
         cpu.instr = "SIN_RESPUESTA" => i = "SIN_RESPUESTA" /\ r = cpu.recibida,
         UNCHANGED <<core, hilos_plp, consola, banderas, interrup>>
  PROVE  InvProcesos'
<1>1. /\ ListasCoherentes' /\ lista_ready' \in Seq(Procesos)
      /\ p \in Procesos /\ estado[p] = "BLOCKED"
  BY MoverDespertar DEF InvProcesos
<1>2. /\ cpu' \in [pid : Procesos \cup {NULL}, instr : Instrucciones,
                  recibida : BOOLEAN, para : Procesos \cup {NULL}, motivo : Motivos,
                  flag : BOOLEAN]
      /\ cpu'.pid = cpu.pid /\ cpu'.instr = i /\ cpu'.recibida = r
  BY DEF InvProcesos, TypeOK
<1>3. TypeOK'
  <2>1. estado' \in [Procesos -> Estados]
    BY DEF InvProcesos, TypeOK, PasarA, Estados
  <2>2. hilos_pcp' \in [Hilos -> Nat] /\ hilos_despacho' \in [Hilos -> Nat]
    BY PcpLlamado DEF InvProcesos
  <2> QED
    BY <1>1, <1>2, <2>1, <2>2
    DEF InvProcesos, TypeOK, Sigue, core, consola, banderas, interrup
<1>4. EnCore' = EnCore
  BY <1>1 DEF InvProcesos, TypeOK, EnCore, PasarA
<1>5. CuentaDelCore'
  BY <1>4, CoreIgual DEF InvProcesos, core
<1>6. CpuConElDeExec'
  BY <1>1, <1>2 DEF InvProcesos, TypeOK, CpuConElDeExec, PasarA
<1>7. SinDesacuerdos'
  BY DEF InvProcesos, SinDesacuerdos, Sigue
<1> QED
  BY <1>1, <1>3, <1>5, <1>6, <1>7 DEF InvProcesos

(* The end of a SLEEP.                                                      *)
LEMMA PasoDespertar ==
  ASSUME InvProcesos, NEW p \in Procesos, Despertar(p)
  PROVE  InvProcesos'
<1>1. p \in lista_blocked
  BY DEF InvProcesos, EsperasEnBlocked, Despertar
<1>2. /\ Sigue /\ durmiendo' = durmiendo \ {p} /\ lista_blocked' = lista_blocked \ {p}
      /\ lista_ready' = Append(lista_ready, p) /\ PasarA(p, "READY")
      /\ LlamarPcp("HILO") /\ "HILO" \in Hilos
      /\ UNCHANGED <<lista_new, lista_execute, lista_exit, core, hilos_plp,
                 esperando, fallos, fallo_en_curso, desbloqueos, consola, banderas,
                 interrup, cpu>>
  BY DEF Despertar, Hilos
<1>3. EsperasEnBlocked'
  BY <1>2, ConstantesPlanificador DEF InvProcesos, EsperasEnBlocked, Despertar
<1>4. /\ UNCHANGED <<lista_new, lista_execute, lista_exit>>
      /\ durmiendo' \subseteq durmiendo /\ esperando' \subseteq esperando
      /\ fallos' = fallos /\ desbloqueos' \subseteq desbloqueos
      /\ fallo_en_curso' = fallo_en_curso
      /\ UNCHANGED <<core, hilos_plp, consola, banderas, interrup>>
  BY <1>2
<1>5. /\ cpu.instr \in Instrucciones /\ cpu.recibida \in BOOLEAN
      /\ cpu' = [cpu EXCEPT !.instr = cpu.instr, !.recibida = cpu.recibida]
      /\ cpu.pid = NULL => cpu.instr = "NINGUNA" /\ ~cpu.recibida
  BY <1>2 DEF InvProcesos, TypeOK, CpuConElDeExec
<1> QED
  BY <1>1, <1>2, <1>3, <1>4, <1>5, PasoDespertarPcb

(* The end of a wait for a resource, a file, the FileSystem or a page.      *)
LEMMA PasoConceder ==
  ASSUME InvProcesos, NEW p \in Procesos, Conceder(p) \/ Desbloquear(p)
  PROVE  InvProcesos'
<1>1. p \in lista_blocked
  BY DEF InvProcesos, EsperasEnBlocked, Conceder, Desbloquear
<1>2. /\ lista_blocked' = lista_blocked \ {p}
      /\ lista_ready' = Append(lista_ready, p) /\ PasarA(p, "READY")
      /\ UNCHANGED <<lista_new, lista_execute, lista_exit>>
      /\ LlamarPcp("HILO") /\ "HILO" \in Hilos
  BY <1>1 DEF Conceder, Desbloquear, DesbloquearPcb, Hilos
<1>3. /\ Sigue /\ UNCHANGED <<core, hilos_plp, durmiendo, fallos, fallo_en_curso,
                 consola, banderas, interrup, cpu>>
      /\ \/ esperando' = esperando \ {p} /\ p \in esperando
            /\ desbloqueos' = desbloqueos
         \/ desbloqueos' = desbloqueos \ {p} /\ p \in desbloqueos
            /\ esperando' = esperando
  BY DEF Conceder, Desbloquear
<1>4. EsperasEnBlocked'
  BY <1>2, <1>3, ConstantesPlanificador DEF InvProcesos, EsperasEnBlocked
<1>5. /\ durmiendo' \subseteq durmiendo /\ esperando' \subseteq esperando
      /\ fallos' = fallos /\ desbloqueos' \subseteq desbloqueos
      /\ fallo_en_curso' = fallo_en_curso
      /\ UNCHANGED <<core, hilos_plp, consola, banderas, interrup>>
  BY <1>3
<1>6. /\ cpu.instr \in Instrucciones /\ cpu.recibida \in BOOLEAN
      /\ cpu' = [cpu EXCEPT !.instr = cpu.instr, !.recibida = cpu.recibida]
      /\ cpu.pid = NULL => cpu.instr = "NINGUNA" /\ ~cpu.recibida
  BY <1>3 DEF InvProcesos, TypeOK, CpuConElDeExec
<1> QED
  BY <1>1, <1>2, <1>3, <1>4, <1>5, <1>6, PasoDespertarPcb

(* SIGNAL or F_CLOSE of the running process ends the wait of another.       *)
LEMMA PasoLiberadora ==
  ASSUME InvProcesos, NEW p \in Procesos, NEW q \in Procesos, AtenderLiberadora(p, q)
  PROVE  InvProcesos'
<1>1. q \in esperando /\ q \in lista_blocked
  BY DEF InvProcesos, EsperasEnBlocked, AtenderLiberadora
<1>2. /\ lista_blocked' = lista_blocked \ {q}
      /\ lista_ready' = Append(lista_ready, q) /\ PasarA(q, "READY")
      /\ UNCHANGED <<lista_new, lista_execute, lista_exit>>
      /\ LlamarPcp("DISPATCH") /\ "DISPATCH" \in Hilos
  BY <1>1 DEF AtenderLiberadora, DesbloquearPcb, Hilos
<1>3. /\ Sigue /\ esperando' = esperando \ {q}
      /\ UNCHANGED <<core, hilos_plp, durmiendo, fallos, fallo_en_curso, desbloqueos,
                     consola, banderas, interrup>>
      /\ cpu' = [cpu EXCEPT !.instr = "NINGUNA", !.recibida = FALSE]
      /\ cpu.pid # NULL /\ "NINGUNA" \in Instrucciones /\ cpu.instr # "SIN_RESPUESTA"
  BY ConstantesPlanificador DEF AtenderLiberadora, AtenderTrap, Atender, banderas,
     Instrucciones
<1>4. EsperasEnBlocked'
  BY <1>1, <1>2, <1>3, ConstantesPlanificador DEF InvProcesos, EsperasEnBlocked
<1> QED
  BY <1>1, <1>2, <1>3, <1>4, PasoDespertarPcb

(* A page fault is sent to Memoria, and answered: its wait goes on.         *)
LEMMA PasoPageFault ==
  ASSUME InvProcesos, (\E p \in Procesos : AtenderPageFault(p)) \/ RespuestaPageFault
  PROVE  InvProcesos'
<1>1. /\ Sigue /\ UNCHANGED <<listas, core, hilos_plp, pcp, durmiendo, esperando,
                              consola, banderas, interrup, cpu>>
      /\ \/ \E p \in fallos : /\ fallo_en_curso = NULL /\ fallos' = fallos \ {p}
                              /\ fallo_en_curso' = p /\ desbloqueos' = desbloqueos
         \/ /\ fallo_en_curso # NULL /\ fallo_en_curso' = NULL /\ fallos' = fallos
            /\ desbloqueos' = desbloqueos \cup {fallo_en_curso}
  BY DEF AtenderPageFault, RespuestaPageFault
<1>2. TypeOK'
  <2>1. /\ fallos' \subseteq Procesos /\ desbloqueos' \subseteq Procesos
        /\ fallo_en_curso' \in Procesos \cup {NULL}
    BY <1>1 DEF InvProcesos, TypeOK
  <2> QED
    BY <1>1, <2>1 DEF InvProcesos, TypeOK, Sigue, listas, core, pcp, consola, banderas,
       interrup
<1>3. ListasCoherentes'
  BY <1>1 DEF InvProcesos, ListasCoherentes, listas
<1>4. CuentaDelCore'
  BY <1>1, CoreIgual DEF InvProcesos, EnCore, listas, core
<1>5. EsperasEnBlocked'
  <2>1. NULL \notin lista_blocked /\ lista_blocked' = lista_blocked
    BY <1>1, ConstantesPlanificador DEF InvProcesos, TypeOK, listas
  <2>2. NULL \notin durmiendo \cup esperando \cup fallos \cup desbloqueos
    BY <2>1 DEF InvProcesos, EsperasEnBlocked
  <2> QED
    BY <1>1, <2>1, <2>2 DEF InvProcesos, EsperasEnBlocked
<1>6. CpuConElDeExec' /\ SinDesacuerdos'
  BY <1>1 DEF InvProcesos, CpuConElDeExec, SinDesacuerdos, Sigue, listas
<1> QED
  BY <1>2, <1>3, <1>4, <1>5, <1>6 DEF InvProcesos

-------------------------------------------------------------------------------
(* The invariant holds when the Kernel starts.                              *)
LEMMA InicioProcesos ==
  ASSUME Init
  PROVE  InvProcesos
<1>1. TypeOK
  <2>1. cpu \in [pid : Procesos \cup {NULL}, instr : Instrucciones,
                recibida : BOOLEAN, para : Procesos \cup {NULL}, motivo : Motivos,
                flag : BOOLEAN]
    BY DEF Init, CpuLibre, Instrucciones, Motivos
  <2>2. /\ estado \in [Procesos -> Estados]
        /\ finalizando \in [Comandos -> [pid : Procesos \cup {NULL}, fase : Fases]]
        /\ hilos_pcp \in [Hilos -> Nat] /\ hilos_despacho \in [Hilos -> Nat]
    BY DEF Init, Estados, Fases, Hilos
  <2>3. /\ lista_new \in Seq(Procesos) /\ lista_ready \in Seq(Procesos)
        /\ lista_execute \in Seq(Procesos)
    BY DEF Init
  <2>4. /\ grado \in Nat \ {0} /\ procesos_en_core \in Int /\ algoritmo \in Algoritmos
        /\ hilos_plp \in Nat /\ sem_interrupcion \in Nat
    BY ConstantesPlanificador DEF Init
  <2>5. /\ flag_proceso_desalojado \in BOOLEAN /\ flag_finalizar_proceso \in BOOLEAN
        /\ flag_exit \in BOOLEAN /\ temporizador \in BOOLEAN
    BY DEF Init
  <2>6. /\ lista_blocked \subseteq Procesos /\ lista_exit \subseteq Procesos
        /\ en_memoria \subseteq Procesos
        /\ durmiendo \subseteq Procesos /\ esperando \subseteq Procesos
        /\ fallos \subseteq Procesos /\ desbloqueos \subseteq Procesos
        /\ fallo_en_curso \in Procesos \cup {NULL} /\ interrumpido \in Procesos \cup {NULL}
        /\ desalojos \subseteq Procesos /\ limpiezas \subseteq Hilos \X Procesos
        /\ kernel \in {"ACTIVO", "SEGFAULT", "EXIT_FAILURE", "CPU_CAIDA", "MEMORIA_CAIDA"}
    BY DEF Init
  <2> QED
    BY <2>1, <2>2, <2>3, <2>4, <2>5, <2>6, Zenon DEF TypeOK
<1>2. ListasCoherentes
  BY DEF Init, ListasCoherentes, ToSet, IsInjective
<1>3. EnCore = {}
  BY DEF Init, EnCore
<1>4. CuentaDelCore
  BY <1>3, FS_EmptySet DEF Init, CuentaDelCore
<1>5. EsperasEnBlocked /\ CpuConElDeExec /\ SinDesacuerdos
  BY DEF Init, EsperasEnBlocked, CpuConElDeExec, SinDesacuerdos, CpuLibre
<1> QED
  BY <1>1, <1>2, <1>4, <1>5 DEF InvProcesos

(* Every step keeps the invariant.                                          *)
LEMMA PasoProcesos ==
  ASSUME InvProcesos, [NextProcesos]_vars
  PROVE  InvProcesos'
<1>1. ASSUME NEW p \in Procesos,
             \/ IniciarProceso(p) \/ Atendida(p) \/ Reubicar(p) \/ Despertar(p)
             \/ AtenderPageFault(p) \/ Desbloquear(p) \/ Conceder(p)
      PROVE  InvProcesos'
  BY <1>1, PasoIniciar, PasoBloqueantes, PasoAbandonar, PasoInmediata, PasoPlpExit, PasoLiberadora,
     PasoReubicar, PasoDespertar, PasoPageFault, PasoConceder, Zenon DEF Atendida
<1>2. ASSUME NEW g \in Grados, CambiarGrado(g) PROVE InvProcesos'
  BY <1>2, PasoCambiarGrado
<1>3. ASSUME NEW h \in Hilos,
             \/ PcpPlanificar(h) \/ AtenderRRFIFO(h) \/ AtenderPrioridades(h)
             \/ CompararSinElegida(h)
      PROVE  InvProcesos'
  BY <1>3, PasoPcpPlanificar, PasoRRFIFO, PasoPrioridades, PasoCaer, Zenon
  DEF CompararSinElegida
<1>4. ASSUME Recibir \/ (\E i \in Traps : Atrapar(i)) \/ Interrumpirse \/ PlpPlanifica
      PROVE  InvProcesos'
  BY <1>4, PasoRecibir, PasoAtrapar, PasoPlpPlanifica, Zenon
<1>5. ASSUME \/ FinDeQuantum \/ LeerEjecutando \/ InterruptSinProceso
             \/ EnviarInterrupcion \/ InterruptSinContexto
      PROVE  InvProcesos'
  BY <1>5, PasoInterrupciones, PasoEnviarInterrupcion, PasoCaer, Zenon
  DEF InterruptSinProceso, InterruptSinContexto
<1>6. ASSUME RespuestaPageFault \/ FetchSinProceso \/ PageFaultSinProceso
      PROVE  InvProcesos'
  BY <1>6, PasoPageFault, FetchConProceso, PageFaultConProceso, Zenon
<1>7. ASSUME UNCHANGED vars PROVE InvProcesos'
  <2>1. UNCHANGED <<listas, core, kernel, algoritmo, hilos_plp, pcp, hilos, consola,
                    banderas, interrup, cpu>>
    BY <1>7 DEF vars
  <2>2. TypeOK'
    BY <2>1 DEF InvProcesos, TypeOK, listas, core, pcp, hilos, consola, banderas, interrup
  <2>3. CpuConElDeExec' /\ SinDesacuerdos'
    BY <2>1 DEF InvProcesos, CpuConElDeExec, SinDesacuerdos, listas
  <2>4. UNCHANGED <<procesos_en_core, en_memoria>>
    BY <2>1 DEF core
  <2> QED
    BY <2>1, <2>2, <2>3, <2>4, SinMover
<1> QED
  BY <1>1, <1>2, <1>3, <1>4, <1>5, <1>6, <1>7, Zenon DEF NextProcesos

(* With no FINALIZAR_PROCESO, for any number of processes, the lists agree  *)
(* with estado, procesos_en_core and Memoria with both, whoever waits for   *)
(* an answer is in BLOCKED and the CPU has the process that is in EXEC.     *)
THEOREM InvariantesProcesos == SpecProcesos => []InvProcesos
BY InicioProcesos, PasoProcesos, PTL DEF SpecProcesos

(* TypeOK, for any number of processes and any bounds.                      *)
COROLLARY TiposCorrectos == SpecProcesos => []TypeOK
<1>1. InvProcesos => TypeOK
  BY DEF InvProcesos
<1> QED
  BY <1>1, InvariantesProcesos, PTL

(* A PCB is always in exactly the list its estado names, however the        *)
(* planners, the dispatch thread and the threads that wake PCBs interleave. *)
COROLLARY ListasSiempreCoherentes == SpecProcesos => []ListasCoherentes
<1>1. InvProcesos => ListasCoherentes
  BY DEF InvProcesos
<1> QED
  BY <1>1, InvariantesProcesos, PTL

(* procesos_en_core is the number of processes in READY, EXEC and BLOCKED,  *)
(* and Memoria has the structures of those.                                 *)
COROLLARY CuentaSiempreExacta == SpecProcesos => []CuentaDelCore
<1>1. InvProcesos => CuentaDelCore
  BY DEF InvProcesos
<1> QED
  BY <1>1, InvariantesProcesos, PTL

(* Neither the Kernel's exit(EXIT_FAILURE) for a PID that is not in EXEC    *)
(* nor Memoria's for a PID it does not have is ever reached.                *)
COROLLARY NuncaEnDesacuerdo == SpecProcesos => []SinDesacuerdos
<1>1. InvProcesos => SinDesacuerdos
  BY DEF InvProcesos
<1> QED
  BY <1>1, InvariantesProcesos, PTL

-------------------------------------------------------------------------------
(* No wake-up is lost: the threads that the handlers leave pending. Each     *)
(* property is inductive over InvProcesos.                                  *)

-------------------------------------------------------------------------------
(* What a step leaves pending.                                              *)

(* A call of the short term planner is a planner thread to come.            *)
LEMMA PcpLlega ==
  ASSUME TypeOK, NEW h \in Hilos, LlamarPcp(h)
  PROVE  PcpPendiente'
<1>1. hilos_pcp'[h] > 0
  BY DEF TypeOK, LlamarPcp
<1> QED
  BY <1>1 DEF PcpPendiente

(* So is the start of a long term planner.                                  *)
LEMMA PlpLlega ==
  ASSUME TypeOK, LanzarPlp
  PROVE  hilos_plp' > 0 /\ hilos_plp' = hilos_plp + 1
BY DEF TypeOK, LanzarPlp

(* The actions that call the short term planner.                            *)
LEMMA LlamanAlPcp ==
  ASSUME TypeOK, NEW p \in Procesos,
         \/ PlpPlanifica \/ AtenderSleep(p) \/ AtenderBloqueante(p)
         \/ (\E q \in Procesos : AtenderLiberadora(p, q))
         \/ Reubicar(p) \/ Despertar(p) \/ Desbloquear(p) \/ Conceder(p)
  PROVE  PcpPendiente'
<1>1. \E h \in Hilos : LlamarPcp(h)
  BY Zenon DEF PlpPlanifica, AtenderSleep, AtenderBloqueante, AtenderLiberadora, Reubicar,
     Despertar, Desbloquear, Conceder, DesbloquearPcb, Hilos
<1> QED
  BY <1>1, PcpLlega

(* The actions that start a long term planner.                              *)
LEMMA LlamanAlPlp ==
  ASSUME TypeOK,
         \/ \E p \in Procesos : IniciarProceso(p) \/ PlpExit(p)
         \/ \E g \in Grados : CambiarGrado(g)
  PROVE  hilos_plp' > 0
<1>1. ASSUME NEW p \in Procesos, IniciarProceso(p) \/ PlpExit(p) PROVE hilos_plp' > 0
  BY <1>1, PlpLlega DEF IniciarProceso, PlpExit
<1>2. ASSUME NEW g \in Grados, CambiarGrado(g) PROVE hilos_plp' > 0
  <2> DEFINE dif == IF g > grado THEN g - grado ELSE grado - g
  <2>1. hilos_plp' = hilos_plp + dif /\ dif > 0 /\ hilos_plp \in Nat
    BY <1>2 DEF CambiarGrado, TypeOK
  <2>2. dif \in Int
    BY ConstantesPlanificador DEF TypeOK
  <2> HIDE DEF dif
  <2> QED
    BY <2>1, <2>2
<1> QED
  BY <1>1, <1>2

(* EXEC holds one PCB, so it is empty once that PCB leaves it.              *)
LEMMA ExecQueda ==
  ASSUME InvProcesos, NEW p \in Procesos, cpu.recibida, cpu.pid = p, SalirDeExec(p)
  PROVE  lista_execute' = <<>>
<1>1. p \in ToSet(lista_execute)
  BY SaleDeExec
<1>2. lista_execute' \in Seq(Procesos) /\ ToSet(lista_execute') = {}
  BY <1>1, MoverSalirDeExec DEF InvProcesos
<1>3. Len(lista_execute') = 0
  <2>1. Len(lista_execute') \in Nat
    BY <1>2, LenProperties
  <2>2. ASSUME Len(lista_execute') > 0 PROVE FALSE
    <3>1. 1 \in DOMAIN lista_execute'
      BY <1>2, <2>1, <2>2, LenProperties
    <3>2. lista_execute'[1] \in ToSet(lista_execute')
      BY <3>1 DEF ToSet
    <3> QED
      BY <1>2, <3>2
  <2> QED
    BY <2>1, <2>2
<1> QED
  BY <1>2, <1>3, EmptySeq

(* The handlers that take the process out of EXEC.                          *)
LEMMA ExecSeVacia ==
  ASSUME InvProcesos, NEW p \in Procesos,
         \/ AtenderSleep(p) \/ AtenderBloqueante(p) \/ BloquearSinResponder(p)
         \/ AtenderTrapPageFault(p) \/ PlpExit(p) \/ Reubicar(p)
  PROVE  lista_execute' = <<>>
<1>1. cpu.recibida /\ cpu.pid = p /\ SalirDeExec(p)
  BY Zenon DEF AtenderSleep, AtenderBloqueante, BloquearSinResponder, AtenderTrapPageFault,
     PlpExit, Reubicar, AtenderTrap, Atender, Bloquear
<1> QED
  BY <1>1, ExecQueda

(* The steps that move no PCB and leave every planner thread as it was.     *)
LEMMA Quietos ==
  ASSUME \/ Recibir \/ (\E i \in Traps : Atrapar(i)) \/ Interrumpirse
         \/ FinDeQuantum \/ LeerEjecutando \/ EnviarInterrupcion
         \/ RespuestaPageFault
         \/ \E p \in Procesos :
              AtenderInmediata(p) \/ AbandonarEnExec(p) \/ AtenderPageFault(p)
  PROVE  \/ UNCHANGED <<listas, core, kernel, algoritmo, hilos_plp, pcp, consola>>
         \/ kernel' # "ACTIVO"
<1>1. ASSUME NEW p \in Procesos,
             AtenderInmediata(p) \/ AbandonarEnExec(p) \/ AtenderPageFault(p)
      PROVE  UNCHANGED <<listas, core, kernel, algoritmo, hilos_plp, pcp, consola>>
  BY <1>1 DEF AtenderInmediata, AbandonarEnExec, AtenderPageFault, AtenderTrap, Atender, Sigue
<1>2. CASE Recibir
  BY <1>2 DEF Recibir, Sigue, Caer
<1>3. CASE \/ FinDeQuantum \/ LeerEjecutando \/ EnviarInterrupcion \/ RespuestaPageFault
           \/ Interrumpirse
  BY <1>3 DEF Interrumpirse, FinDeQuantum, LeerEjecutando, EnviarInterrupcion,
     RespuestaPageFault, Sigue
<1>4. ASSUME NEW i \in Traps, Atrapar(i)
      PROVE  UNCHANGED <<listas, core, kernel, algoritmo, hilos_plp, pcp, consola>>
  BY <1>4 DEF Atrapar, Sigue
<1> QED
  BY <1>1, <1>2, <1>3, <1>4

(* Those steps bring no process to the CPU, and an F_OPEN without an answer *)
(* stays so.                                                                *)
LEMMA CpuQuieta ==
  ASSUME TypeOK,
         \/ Recibir \/ (\E i \in Traps : Atrapar(i)) \/ Interrumpirse
         \/ FinDeQuantum \/ LeerEjecutando \/ EnviarInterrupcion
         \/ RespuestaPageFault
         \/ \E p \in Procesos :
              AtenderInmediata(p) \/ AbandonarEnExec(p) \/ AtenderPageFault(p)
  PROVE  /\ cpu.pid = NULL => cpu'.pid = NULL
         /\ cpu.instr = "SIN_RESPUESTA" => cpu'.instr = "SIN_RESPUESTA" /\ cpu'.pid = cpu.pid
<1>1. CASE FinDeQuantum \/ LeerEjecutando \/ RespuestaPageFault
  BY <1>1 DEF FinDeQuantum, LeerEjecutando, RespuestaPageFault
<1>2. CASE EnviarInterrupcion
  BY <1>2 DEF EnviarInterrupcion, RecibirInterrupcion, TypeOK
<1>3. CASE Recibir
  BY <1>3 DEF Recibir, Traps, Caer, TypeOK
<1>4. CASE Interrumpirse \/ \E i \in Traps : Atrapar(i)
  BY <1>4 DEF Interrumpirse, Atrapar, TypeOK
<1>5. ASSUME NEW p \in Procesos,
             AtenderInmediata(p) \/ AbandonarEnExec(p) \/ AtenderPageFault(p)
      PROVE  /\ cpu.pid = NULL => cpu'.pid = NULL
             /\ cpu.instr = "SIN_RESPUESTA" => cpu'.instr = "SIN_RESPUESTA" /\ cpu'.pid = cpu.pid
  <2>1. CASE AtenderInmediata(p)
    <3>1. /\ cpu' = [cpu EXCEPT !.instr = "NINGUNA", !.recibida = FALSE]
          /\ cpu.instr \in {"SINCRONICA"}
      BY <2>1 DEF AtenderInmediata, AtenderTrap, Atender
    <3> QED
      BY <3>1 DEF TypeOK
  <2>2. CASE AbandonarEnExec(p)
    <3>1. cpu' = CpuLibre /\ cpu.instr \in {"F_OPERACION"}
      BY <2>2 DEF AbandonarEnExec, AtenderTrap, Atender
    <3> QED
      BY <3>1 DEF CpuLibre
  <2>3. CASE AtenderPageFault(p)
    BY <2>3 DEF AtenderPageFault
  <2> QED
    BY <1>5, <2>1, <2>2, <2>3
<1> QED
  BY <1>1, <1>2, <1>3, <1>4, <1>5

(* A process that dies with the Kernel waits for nobody.                    *)
LEMMA Caidas ==
  ASSUME \/ InterruptSinProceso \/ InterruptSinContexto \/ FetchSinProceso
         \/ PageFaultSinProceso \/ (\E h \in Hilos : CompararSinElegida(h))
  PROVE  kernel' # "ACTIVO"
BY DEF InterruptSinProceso, InterruptSinContexto, FetchSinProceso, PageFaultSinProceso,
   CompararSinElegida, Caer

-------------------------------------------------------------------------------
(* NingunReadyOlvidado.                                                     *)

(* A look at READY that finds it empty is the only one with no successor.   *)
LEMMA ReadyPcp ==
  ASSUME InvProcesos, NingunReadyOlvidado, NEW h \in Hilos, PcpPlanificar(h)
  PROVE  NingunReadyOlvidado'
<1>1. /\ hilos_pcp \in [Hilos -> Nat] /\ hilos_despacho \in [Hilos -> Nat]
      /\ UNCHANGED <<lista_ready, lista_execute>>
  BY DEF InvProcesos, TypeOK, PcpPlanificar, listas
<1>2. CASE lista_ready = <<>>
  BY <1>1, <1>2 DEF NingunReadyOlvidado
<1>3. CASE lista_ready # <<>>
  <2>1. hilos_despacho'[h] > 0
    BY <1>1, <1>3 DEF PcpPlanificar
  <2> QED
    BY <2>1 DEF NingunReadyOlvidado, PcpPendiente
<1> QED
  BY <1>2, <1>3

(* A dispatch leaves EXEC with a process, or found READY empty.             *)
LEMMA ReadyDespacho ==
  ASSUME InvProcesos, NEW h \in Hilos, AtenderRRFIFO(h) \/ AtenderPrioridades(h)
  PROVE  NingunReadyOlvidado'
<1>0. lista_execute \in Seq(Procesos) /\ lista_ready \in Seq(Procesos)
  BY DEF InvProcesos, TypeOK
<1>1. /\ \A p \in Procesos : Append(lista_execute, p) # <<>>
      /\ lista_ready # <<>> => Head(lista_ready) \in Procesos
  BY <1>0, AppendProperties, HeadTailProperties
<1>2. CASE AtenderRRFIFO(h)
  BY <1>1, <1>2 DEF AtenderRRFIFO, Ejecutar, NingunReadyOlvidado, listas
<1>3. CASE AtenderPrioridades(h)
  <2>1. \/ lista_execute' # <<>>
        \/ lista_ready' = <<>>
    BY <1>1, <1>3, Zenon DEF AtenderPrioridades, Ejecutar, listas
  <2> QED
    BY <2>1 DEF NingunReadyOlvidado
<1> QED
  BY <1>2, <1>3

(* A page fault passes from its thread to Memoria and back to another.      *)
LEMMA ReadyPageFault ==
  ASSUME InvProcesos, NEW p \in Procesos,
         AtenderTrapPageFault(p) \/ AtenderPageFault(p) \/ RespuestaPageFault
  PROVE  NingunReadyOlvidado'
<1>1. p # NULL
  BY ConstantesPlanificador
<1>2. fallos' # {} \/ fallo_en_curso' # NULL \/ desbloqueos' # {}
  BY <1>1 DEF AtenderTrapPageFault, AtenderPageFault, RespuestaPageFault
<1> QED
  BY <1>2 DEF NingunReadyOlvidado

LEMMA ReadyPaso ==
  ASSUME InvProcesos, NingunReadyOlvidado, [NextProcesos]_vars
  PROVE  NingunReadyOlvidado'
<1> USE DEF InvProcesos
<1>1. ASSUME PcpPendiente' \/ hilos_plp' > 0 \/ kernel' # "ACTIVO"
      PROVE  NingunReadyOlvidado'
  BY <1>1 DEF NingunReadyOlvidado
<1>2. ASSUME UNCHANGED <<listas, core, kernel, algoritmo, hilos_plp, pcp, consola>>,
             UNCHANGED hilos,
             cpu.instr = "SIN_RESPUESTA" => cpu'.instr = "SIN_RESPUESTA" /\ cpu'.pid = cpu.pid
      PROVE  NingunReadyOlvidado'
  BY <1>2 DEF NingunReadyOlvidado, AperturaSinResponder, PcpPendiente, listas, pcp, hilos
<1>3. ASSUME NEW p \in Procesos,
             \/ IniciarProceso(p) \/ Atendida(p) \/ Reubicar(p) \/ Despertar(p)
             \/ AtenderPageFault(p) \/ Desbloquear(p) \/ Conceder(p)
      PROVE  NingunReadyOlvidado'
  <2>1. CASE AtenderInmediata(p) \/ AbandonarEnExec(p)
    <3>1. UNCHANGED <<listas, core, kernel, algoritmo, hilos_plp, pcp, consola, hilos>>
      BY <2>1 DEF AtenderInmediata, AbandonarEnExec, AtenderTrap, Atender, Sigue
    <3> QED
      BY <2>1, <3>1, <1>2, CpuQuieta
  <2>2. CASE AtenderTrapPageFault(p) \/ AtenderPageFault(p)
    BY <2>2, ReadyPageFault
  <2>3. CASE \/ AtenderSleep(p) \/ AtenderBloqueante(p)
             \/ (\E q \in Procesos : AtenderLiberadora(p, q))
             \/ Reubicar(p) \/ Despertar(p) \/ Desbloquear(p) \/ Conceder(p)
    BY <2>3, <1>1, LlamanAlPcp
  <2>4. CASE IniciarProceso(p) \/ PlpExit(p)
    BY <2>4, <1>1, LlamanAlPlp
  <2>5. CASE BloquearSinResponder(p)
    <3>1. AperturaSinResponder'
      BY <2>5 DEF BloquearSinResponder, AtenderTrap, Atender, AperturaSinResponder
    <3> QED
      BY <3>1 DEF NingunReadyOlvidado
  <2> QED
    BY <1>3, <2>1, <2>2, <2>3, <2>4, <2>5, Zenon DEF Atendida
<1>4. ASSUME NEW g \in Grados, CambiarGrado(g) PROVE NingunReadyOlvidado'
  BY <1>4, <1>1, LlamanAlPlp
<1>5. ASSUME NEW h \in Hilos,
             \/ PcpPlanificar(h) \/ AtenderRRFIFO(h) \/ AtenderPrioridades(h)
             \/ CompararSinElegida(h)
      PROVE  NingunReadyOlvidado'
  BY <1>5, <1>1, ReadyPcp, ReadyDespacho, Caidas
<1>6. ASSUME PlpPlanifica PROVE NingunReadyOlvidado'
  <2>1. \E h \in Hilos : LlamarPcp(h)
    BY <1>6 DEF PlpPlanifica, Hilos
  <2> QED
    BY <1>1, <2>1, PcpLlega
<1>7. ASSUME \/ Recibir \/ (\E i \in Traps : Atrapar(i)) \/ Interrumpirse
             \/ FinDeQuantum \/ LeerEjecutando \/ EnviarInterrupcion
      PROVE  NingunReadyOlvidado'
  <2>1. UNCHANGED hilos \/ kernel' # "ACTIVO"
    BY <1>7 DEF Recibir, Atrapar, Interrumpirse, FinDeQuantum, LeerEjecutando,
       EnviarInterrupcion, Caer
  <2> QED
    BY <1>1, <1>2, <1>7, <2>1, Quietos, CpuQuieta
<1>8. ASSUME RespuestaPageFault PROVE NingunReadyOlvidado'
  <2>1. \E p \in Procesos : p = fallo_en_curso
    BY <1>8 DEF RespuestaPageFault, TypeOK
  <2> QED
    BY <1>8, <2>1, ReadyPageFault
<1>9. ASSUME \/ InterruptSinProceso \/ InterruptSinContexto \/ FetchSinProceso
             \/ PageFaultSinProceso
      PROVE  NingunReadyOlvidado'
  BY <1>9, <1>1, Caidas
<1>10. ASSUME UNCHANGED vars PROVE NingunReadyOlvidado'
  BY <1>10, <1>2 DEF vars
<1> QED
  BY <1>3, <1>4, <1>5, <1>6, <1>7, <1>8, <1>9, <1>10, Zenon DEF NextProcesos

-------------------------------------------------------------------------------
(* NewAdmitidos.                                                            *)

(* A new process brings a planner thread of its own.                        *)
LEMMA NewIniciar ==
  ASSUME InvProcesos, NewAdmitidos, NEW p \in Procesos, IniciarProceso(p)
  PROVE  NewAdmitidos'
<1>1. /\ hilos_plp \in Nat /\ hilos_plp' = hilos_plp + 1
      /\ grado' = grado /\ grado \in Nat /\ procesos_en_core \in Int
      /\ procesos_en_core' = procesos_en_core
      /\ kernel = "ACTIVO" /\ lista_new \in Seq(Procesos)
      /\ lista_new' = Append(lista_new, p)
  BY DEF InvProcesos, TypeOK, IniciarProceso, LanzarPlp, Sigue, core
<1>2. Len(lista_new') = Len(lista_new) + 1 /\ Len(lista_new) \in Nat
  BY <1>1, LenProperties, AppendProperties
<1>3. lista_new = <<>> => Len(lista_new) = 0
  BY <1>1, EmptySeq
<1> QED
  BY <1>1, <1>2, <1>3 DEF NewAdmitidos

(* So does each place that MULTIPROGRAMACION adds.                          *)
LEMMA NewGrado ==
  ASSUME InvProcesos, NewAdmitidos, NEW g \in Grados, CambiarGrado(g)
  PROVE  NewAdmitidos'
<1> DEFINE dif == IF g > grado THEN g - grado ELSE grado - g
<1>1. /\ hilos_plp \in Nat /\ hilos_plp' = hilos_plp + dif
      /\ grado' = g /\ grado \in Nat /\ g \in Nat /\ procesos_en_core \in Int
      /\ procesos_en_core' = procesos_en_core
      /\ kernel = "ACTIVO" /\ lista_new \in Seq(Procesos)
      /\ lista_new' = lista_new
  BY ConstantesPlanificador DEF InvProcesos, TypeOK, CambiarGrado, Sigue, listas
<1>2. Len(lista_new) \in Nat
  BY <1>1, LenProperties
<1>3. /\ dif \in Nat
      /\ g > grado => dif = g - grado
      /\ ~(g > grado) => dif = grado - g
  BY <1>1
<1> HIDE DEF dif
<1>4. CASE grado > procesos_en_core
  BY <1>1, <1>2, <1>3, <1>4 DEF NewAdmitidos
<1>5. CASE ~(grado > procesos_en_core)
  BY <1>1, <1>2, <1>3, <1>5 DEF NewAdmitidos
<1> QED
  BY <1>4, <1>5

(* The planner's thread is spent on the process it admits.                  *)
LEMMA NewPlanifica ==
  ASSUME InvProcesos, NewAdmitidos, PlpPlanifica
  PROVE  NewAdmitidos'
<1>1. /\ hilos_plp \in Nat /\ hilos_plp > 0 /\ hilos_plp' = hilos_plp - 1
      /\ grado \in Nat /\ procesos_en_core \in Int
      /\ kernel = "ACTIVO" /\ lista_new \in Seq(Procesos)
  BY DEF InvProcesos, TypeOK, PlpPlanifica, Sigue
<1>2. CASE Admitir
  <2>1. /\ grado' = grado /\ procesos_en_core' = procesos_en_core + 1
        /\ grado > procesos_en_core /\ lista_new # <<>>
        /\ lista_new' = Tail(lista_new)
    BY <1>2 DEF Admitir
  <2>2. Len(lista_new') = Len(lista_new) - 1 /\ Len(lista_new) \in Nat
    BY <1>1, <2>1, LenProperties, HeadTailProperties
  <2> QED
    BY <1>1, <2>1, <2>2 DEF NewAdmitidos
<1>3. CASE ~(grado > procesos_en_core /\ lista_new # <<>>) /\ UNCHANGED <<listas, core>>
  BY <1>3 DEF NewAdmitidos, listas, core
<1> QED
  BY <1>2, <1>3 DEF PlpPlanifica

(* A process that ends leaves its place to a planner thread.                *)
LEMMA NewExit ==
  ASSUME InvProcesos, NewAdmitidos, NEW p \in Procesos, PlpExit(p)
  PROVE  NewAdmitidos'
<1>1. /\ hilos_plp \in Nat /\ hilos_plp' = hilos_plp + 1
      /\ grado' = grado /\ grado \in Nat /\ procesos_en_core \in Int
      /\ procesos_en_core' = procesos_en_core - 1
      /\ kernel = "ACTIVO" /\ lista_new' = lista_new /\ lista_new \in Seq(Procesos)
  BY DEF InvProcesos, TypeOK, PlpExit, LanzarPlp, LiberarEnMemoria, AtenderTrap, Atender,
     Sigue
<1>2. Len(lista_new) \in Nat
  BY <1>1, LenProperties
<1> QED
  BY <1>1, <1>2 DEF NewAdmitidos

(* The other steps change neither NEW, the core nor those threads.          *)
LEMMA NewIgual ==
  ASSUME NewAdmitidos, UNCHANGED <<lista_new, core, hilos_plp, kernel>> \/ kernel' # "ACTIVO"
  PROVE  NewAdmitidos'
BY DEF NewAdmitidos, core

LEMMA NewPaso ==
  ASSUME InvProcesos, NewAdmitidos, [NextProcesos]_vars
  PROVE  NewAdmitidos'
<1>1. ASSUME NEW p \in Procesos,
             \/ IniciarProceso(p) \/ Atendida(p) \/ Reubicar(p) \/ Despertar(p)
             \/ AtenderPageFault(p) \/ Desbloquear(p) \/ Conceder(p)
      PROVE  NewAdmitidos'
  <2>1. CASE \/ AtenderSleep(p) \/ AtenderBloqueante(p) \/ BloquearSinResponder(p)
             \/ AtenderTrapPageFault(p)
    BY <2>1, NewIgual DEF AtenderSleep, AtenderBloqueante, BloquearSinResponder,
       AtenderTrapPageFault, AtenderTrap, Atender, Bloquear, Sigue
  <2>2. CASE AtenderInmediata(p) \/ AbandonarEnExec(p) \/ AtenderPageFault(p)
    BY <2>2, NewIgual DEF AtenderInmediata, AbandonarEnExec, AtenderPageFault, AtenderTrap,
       Atender, Sigue, listas
  <2>3. ASSUME NEW q \in Procesos, AtenderLiberadora(p, q) PROVE NewAdmitidos'
    BY <2>3, NewIgual DEF AtenderLiberadora, DesbloquearPcb, AtenderTrap, Atender, Sigue,
       listas
  <2>4. CASE Reubicar(p) \/ Despertar(p)
    BY <2>4, NewIgual DEF Reubicar, Despertar, Atender, Sigue
  <2>5. CASE Desbloquear(p) \/ Conceder(p)
    BY <2>5, NewIgual DEF Desbloquear, Conceder, DesbloquearPcb, Sigue, listas
  <2> QED
    BY <1>1, <2>1, <2>2, <2>3, <2>4, <2>5, NewIniciar, NewExit, Zenon DEF Atendida
<1>2. ASSUME NEW g \in Grados, CambiarGrado(g) PROVE NewAdmitidos'
  BY <1>2, NewGrado
<1>3. ASSUME NEW h \in Hilos,
             \/ PcpPlanificar(h) \/ AtenderRRFIFO(h) \/ AtenderPrioridades(h)
             \/ CompararSinElegida(h)
      PROVE  NewAdmitidos'
  <2>1. CASE PcpPlanificar(h)
    BY <2>1, NewIgual DEF PcpPlanificar, Sigue, listas
  <2>2. CASE AtenderRRFIFO(h)
    BY <2>2, NewIgual DEF AtenderRRFIFO, Ejecutar, Sigue, listas
  <2>3. CASE AtenderPrioridades(h)
    <3>1. UNCHANGED <<lista_new, core, hilos_plp, kernel>>
      BY <2>3, Zenon DEF AtenderPrioridades, Ejecutar, Sigue, listas
    <3> QED
      BY <3>1, NewIgual
  <2>4. CASE CompararSinElegida(h)
    BY <2>4, Caidas, NewIgual
  <2> QED
    BY <1>3, <2>1, <2>2, <2>3, <2>4
<1>4. ASSUME PlpPlanifica PROVE NewAdmitidos'
  BY <1>4, NewPlanifica
<1>5. ASSUME \/ Recibir \/ (\E i \in Traps : Atrapar(i)) \/ Interrumpirse
             \/ FinDeQuantum \/ LeerEjecutando \/ EnviarInterrupcion \/ RespuestaPageFault
      PROVE  NewAdmitidos'
  BY <1>5, Quietos, NewIgual DEF listas
<1>6. ASSUME \/ InterruptSinProceso \/ InterruptSinContexto \/ FetchSinProceso
             \/ PageFaultSinProceso
      PROVE  NewAdmitidos'
  BY <1>6, Caidas, NewIgual
<1>7. ASSUME UNCHANGED vars PROVE NewAdmitidos'
  BY <1>7, NewIgual DEF vars, listas
<1> QED
  BY <1>1, <1>2, <1>3, <1>4, <1>5, <1>6, <1>7, Zenon DEF NextProcesos

-------------------------------------------------------------------------------
(* PrioridadAtendida.                                                       *)

(* An interrupt goes from the semaphore to its thread, and from there to    *)
(* the CPU, which keeps a motivo for the rest of the visit to EXEC.         *)
LEMMA InterrupcionSigue ==
  ASSUME InvProcesos, InterrupcionEnCamino, algoritmo # "FIFO", algoritmo' = algoritmo,
         \/ LeerEjecutando \/ EnviarInterrupcion \/ FinDeQuantum \/ Recibir
         \/ Interrumpirse \/ (\E i \in Traps : Atrapar(i))
         \/ \E p \in Procesos : AtenderInmediata(p) \/ AtenderPageFault(p)
         \/ RespuestaPageFault
         \/ UNCHANGED <<interrup, cpu>>
         \/ \E p, q \in Procesos : AtenderLiberadora(p, q)
         \/ PostInterrupcion /\ UNCHANGED <<interrumpido, cpu>>
  PROVE  InterrupcionEnCamino'
<1> USE DEF InterrupcionEnCamino
<1>0. /\ sem_interrupcion \in Nat /\ interrumpido \in Procesos \cup {NULL}
      /\ cpu \in [pid : Procesos \cup {NULL}, instr : Instrucciones,
                  recibida : BOOLEAN, para : Procesos \cup {NULL}, motivo : Motivos,
                  flag : BOOLEAN]
  BY DEF InvProcesos, TypeOK
<1>1. CASE LeerEjecutando
  <2>1. interrumpido' \in Procesos
    BY <1>1, HeadTailProperties DEF LeerEjecutando, InvProcesos, TypeOK
  <2> QED
    BY <2>1, ConstantesPlanificador
<1>2. CASE EnviarInterrupcion
  <2>1. CASE interrumpido = NULL
    BY <1>2, <2>1 DEF EnviarInterrupcion
  <2>2. CASE interrumpido # NULL
    <3>1. MotivoAEnviar \in {"DESALOJO_POR_CONSOLA", "ALGORITMO"}
      BY DEF MotivoAEnviar, InvProcesos, TypeOK
    <3>2. cpu'.motivo = MotivoAEnviar
      BY <1>0, <1>2, <3>1 DEF EnviarInterrupcion, RecibirInterrupcion
    <3> QED
      BY <3>1, <3>2
  <2> QED
    BY <2>1, <2>2
<1>3. CASE FinDeQuantum
  BY <1>0, <1>3 DEF FinDeQuantum, PostInterrupcion
<1>4. CASE Recibir
  BY <1>0, <1>4 DEF Recibir, Caer, interrup
<1>5. CASE Interrumpirse
  BY <1>0, <1>5 DEF Interrumpirse, interrup
<1>6. ASSUME NEW i \in Traps, Atrapar(i) PROVE InterrupcionEnCamino'
  BY <1>0, <1>6 DEF Atrapar, interrup
<1>7. ASSUME NEW p \in Procesos, AtenderInmediata(p) \/ AtenderPageFault(p)
      PROVE  InterrupcionEnCamino'
  BY <1>0, <1>7 DEF AtenderInmediata, AtenderPageFault, AtenderTrap, Atender, interrup
<1>8. CASE RespuestaPageFault \/ UNCHANGED <<interrup, cpu>>
  BY <1>8 DEF RespuestaPageFault, interrup
<1>9. ASSUME NEW p \in Procesos, NEW q \in Procesos, AtenderLiberadora(p, q)
      PROVE  InterrupcionEnCamino'
  BY <1>0, <1>9 DEF AtenderLiberadora, AtenderTrap, Atender, interrup
<1>10. CASE PostInterrupcion /\ UNCHANGED <<interrumpido, cpu>>
  BY <1>0, <1>10 DEF PostInterrupcion
<1> QED
  BY <1>1, <1>2, <1>3, <1>4, <1>5, <1>6, <1>7, <1>8, <1>9, <1>10, Zenon

(* The algorithm never changes.                                             *)
LEMMA AlgoritmoIgual ==
  ASSUME [NextProcesos]_vars
  PROVE  algoritmo' = algoritmo
<1>1. ASSUME NEW p \in Procesos, Atendida(p) PROVE algoritmo' = algoritmo
  <2>1. \E s : AtenderTrap(p, s)
    BY <1>1, Zenon DEF Atendida, AtenderSleep, AtenderBloqueante, AtenderInmediata,
       BloquearSinResponder, AbandonarEnExec, AtenderTrapPageFault, PlpExit,
       AtenderLiberadora
  <2> QED
    BY <2>1 DEF AtenderTrap, Atender, Sigue
<1>2. ASSUME NEW p \in Procesos,
             \/ IniciarProceso(p) \/ Reubicar(p) \/ Despertar(p)
             \/ AtenderPageFault(p) \/ Desbloquear(p) \/ Conceder(p)
      PROVE  algoritmo' = algoritmo
  BY <1>2 DEF IniciarProceso, Reubicar, Atender, Despertar, AtenderPageFault, Desbloquear,
     Conceder, Sigue
<1>3. ASSUME NEW g \in Grados, CambiarGrado(g) PROVE algoritmo' = algoritmo
  BY <1>3 DEF CambiarGrado, Sigue
<1>4. ASSUME NEW h \in Hilos,
             \/ PcpPlanificar(h) \/ AtenderRRFIFO(h) \/ AtenderPrioridades(h)
             \/ CompararSinElegida(h)
      PROVE  algoritmo' = algoritmo
  BY <1>4, Zenon DEF PcpPlanificar, AtenderRRFIFO, AtenderPrioridades, CompararSinElegida,
     Caer, Sigue
<1>5. ASSUME Recibir \/ (\E i \in Traps : Atrapar(i)) \/ PlpPlanifica
      PROVE  algoritmo' = algoritmo
  BY <1>5, Zenon DEF Recibir, Atrapar, PlpPlanifica, Caer, Sigue
<1>6. ASSUME \/ FinDeQuantum \/ LeerEjecutando \/ EnviarInterrupcion
             \/ RespuestaPageFault \/ Interrumpirse
      PROVE  algoritmo' = algoritmo
  BY <1>6 DEF FinDeQuantum, LeerEjecutando, EnviarInterrupcion, RespuestaPageFault,
     Interrumpirse, Sigue
<1>7. ASSUME \/ InterruptSinProceso \/ InterruptSinContexto \/ FetchSinProceso
             \/ PageFaultSinProceso
      PROVE  algoritmo' = algoritmo
  BY <1>7 DEF InterruptSinProceso, InterruptSinContexto, FetchSinProceso,
     PageFaultSinProceso, Caer
<1>8. ASSUME UNCHANGED vars PROVE algoritmo' = algoritmo
  BY <1>8 DEF vars
<1> QED
  BY <1>1, <1>2, <1>3, <1>4, <1>5, <1>6, <1>7, <1>8, Zenon DEF NextProcesos

(* The process in EXEC is the head of EXEC.                                 *)
LEMMA ExecEsCabeza ==
  ASSUME InvProcesos, NEW e \in ToSet(lista_execute)
  PROVE  e = Head(lista_execute) /\ e \in Procesos
<1>1. lista_execute \in Seq(Procesos) /\ Len(lista_execute) <= 1
  BY DEF InvProcesos, TypeOK, ListasCoherentes
<1>2. PICK i \in DOMAIN lista_execute : lista_execute[i] = e
  BY DEF ToSet
<1>3. i = 1 /\ lista_execute # <<>> /\ e \in Procesos
  BY <1>1, <1>2, LenProperties, ElementOfSeq
<1> QED
  BY <1>1, <1>2, <1>3, HeadTailProperties

(* Nobody in READY goes before the one that PRIORIDADES chooses.            *)
LEMMA ElegidaPrimera ==
  ASSUME InvProcesos, NEW p \in Procesos, EsElegida(p), NEW r \in ToSet(lista_ready)
  PROVE  Prioridad[p] <= Prioridad[r] /\ r \in Procesos
<1>1. lista_ready \in Seq(Procesos)
  BY DEF InvProcesos, TypeOK
<1>2. PICK j \in 1..Len(lista_ready) : lista_ready[j] = r
  BY <1>1, LenProperties DEF ToSet
<1>3. r \in Procesos
  BY <1>1, <1>2, ElementOfSeq
<1>4. Prioridad[p] < Prioridad[r] \/ Prioridad[p] = Prioridad[r]
  BY <1>2 DEF EsElegida
<1> QED
  BY <1>3, <1>4, ConstantesPlanificador

(* A planner that holds READY and EXEC dispatches the first of READY, or    *)
(* has it compared with EXEC.                                               *)
LEMMA PrioridadDespacho ==
  ASSUME InvProcesos, NEW h \in Hilos, AtenderPrioridades(h)
  PROVE  PrioridadAtendida'
<1>1. CASE lista_ready' = <<>>
  BY <1>1 DEF PrioridadAtendida, ToSet
<1>2. ASSUME NEW p \in Procesos, EsElegida(p), lista_execute = <<>>, Ejecutar(p)
      PROVE  PrioridadAtendida'
  <2>1. /\ p \in ToSet(lista_ready) /\ lista_ready \in Seq(Procesos)
        /\ IsInjective(lista_ready)
    BY <1>2, ElegidaEnReady DEF InvProcesos, TypeOK, ListasCoherentes
  <2>2. ToSet(lista_ready') \subseteq ToSet(lista_ready)
    BY <1>2, <2>1, ListaSinElemento DEF Ejecutar
  <2>3. ToSet(lista_execute') = {p}
    BY <1>2 DEF Ejecutar, ToSet
  <2>4. ASSUME NEW r \in ToSet(lista_ready'), NEW e \in ToSet(lista_execute')
        PROVE  ~(Prioridad[r] < Prioridad[e])
    <3>1. e = p /\ r \in ToSet(lista_ready)
      BY <2>2, <2>3, <2>4
    <3>2. Prioridad[p] <= Prioridad[r] /\ r \in Procesos
      BY <1>2, <3>1, ElegidaPrimera
    <3> QED
      BY <3>1, <3>2, ConstantesPlanificador
  <2> QED
    BY <2>4 DEF PrioridadAtendida
<1>3. ASSUME NEW p \in Procesos, EsElegida(p), UNCHANGED listas,
             IF Prioridad[p] < Prioridad[Head(lista_execute)]
             THEN PostInterrupcion ELSE UNCHANGED sem_interrupcion
      PROVE  PrioridadAtendida'
  <2>1. ASSUME NEW r \in ToSet(lista_ready'), NEW e \in ToSet(lista_execute'),
               Prioridad[r] < Prioridad[e]
        PROVE  InterrupcionEnCamino'
    <3>1. r \in ToSet(lista_ready) /\ e \in ToSet(lista_execute)
      BY <1>3, <2>1 DEF listas
    <3>2. Prioridad[p] <= Prioridad[r] /\ r \in Procesos
      BY <1>3, <3>1, ElegidaPrimera
    <3>3. e = Head(lista_execute) /\ e \in Procesos
      BY <3>1, ExecEsCabeza
    <3>4. Prioridad[p] < Prioridad[e]
      BY <2>1, <3>2, <3>3, ConstantesPlanificador
    <3>5. PostInterrupcion /\ sem_interrupcion \in Nat
      BY <1>3, <3>3, <3>4 DEF InvProcesos, TypeOK
    <3> QED
      BY <3>5 DEF PostInterrupcion, InterrupcionEnCamino
  <2> QED
    BY <2>1 DEF PrioridadAtendida
<1>4. \/ lista_ready' = <<>>
      \/ \E p \in Procesos : EsElegida(p) /\ lista_execute = <<>> /\ Ejecutar(p)
      \/ \E p \in Procesos :
           /\ EsElegida(p) /\ UNCHANGED listas
           /\ IF Prioridad[p] < Prioridad[Head(lista_execute)]
              THEN PostInterrupcion ELSE UNCHANGED sem_interrupcion
  BY Zenon DEF AtenderPrioridades, listas
<1> QED
  BY <1>1, <1>2, <1>3, <1>4

(* PrioridadAtendida, through the steps that touch neither READY nor EXEC.  *)
LEMMA PrioridadIgual ==
  ASSUME InvProcesos, PrioridadAtendida, algoritmo' = algoritmo,
         cpu.pid = NULL => cpu'.pid = NULL,
         UNCHANGED <<lista_ready, lista_execute, kernel>>,
         PcpPendiente => PcpPendiente', hilos_plp' = hilos_plp,
         algoritmo = "PRIORIDADES" /\ InterrupcionEnCamino => InterrupcionEnCamino'
  PROVE  PrioridadAtendida'
BY DEF PrioridadAtendida, ExecAbandonada

(* The look at READY, which goes on to the dispatch unless READY is empty.  *)
LEMMA PrioridadPcp ==
  ASSUME InvProcesos, NEW h \in Hilos, PcpPlanificar(h)
  PROVE  PrioridadAtendida'
<1>1. CASE lista_ready = <<>>
  <2>1. lista_ready' = <<>>
    BY <1>1 DEF PcpPlanificar, listas
  <2> QED
    BY <2>1 DEF PrioridadAtendida, ToSet
<1>2. CASE lista_ready # <<>>
  <2>1. hilos_despacho'[h] > 0
    BY <1>2 DEF PcpPlanificar, InvProcesos, TypeOK
  <2> QED
    BY <2>1 DEF PrioridadAtendida, PcpPendiente
<1> QED
  BY <1>1, <1>2

LEMMA PrioridadPaso ==
  ASSUME InvProcesos, PrioridadAtendida, [NextProcesos]_vars
  PROVE  PrioridadAtendida'
<1>0. algoritmo' = algoritmo /\ (algoritmo = "PRIORIDADES" => algoritmo # "FIFO") /\ TypeOK
  BY AlgoritmoIgual DEF InvProcesos
<1>1. ASSUME PcpPendiente' \/ hilos_plp' > 0 \/ kernel' # "ACTIVO" \/ lista_execute' = <<>>
      PROVE  PrioridadAtendida'
  BY <1>1 DEF PrioridadAtendida, ToSet
<1>2. ASSUME UNCHANGED <<listas, core, kernel, algoritmo, hilos_plp, pcp, consola>>,
             cpu.pid = NULL => cpu'.pid = NULL,
             algoritmo = "PRIORIDADES" /\ InterrupcionEnCamino => InterrupcionEnCamino'
      PROVE  PrioridadAtendida'
  BY <1>2, PrioridadIgual DEF PcpPendiente, listas, pcp
<1>3. ASSUME NEW p \in Procesos,
             \/ IniciarProceso(p) \/ Atendida(p) \/ Reubicar(p) \/ Despertar(p)
             \/ AtenderPageFault(p) \/ Desbloquear(p) \/ Conceder(p)
      PROVE  PrioridadAtendida'
  <2>1. CASE AtenderInmediata(p) \/ AtenderPageFault(p)
    BY <2>1, <1>0, <1>1, <1>2, Quietos, CpuQuieta, InterrupcionSigue
  <2>2. CASE AtenderTrapPageFault(p) \/ BloquearSinResponder(p)
    BY <2>2, <1>1, ExecSeVacia
  <2>3. CASE \/ AtenderSleep(p) \/ AtenderBloqueante(p)
             \/ (\E q \in Procesos : AtenderLiberadora(p, q))
             \/ Reubicar(p) \/ Despertar(p) \/ Desbloquear(p) \/ Conceder(p)
    BY <2>3, <1>0, <1>1, LlamanAlPcp
  <2>4. CASE IniciarProceso(p) \/ PlpExit(p)
    BY <2>4, <1>0, <1>1, LlamanAlPlp
  <2>5. CASE AbandonarEnExec(p)
    <3>1. lista_execute' = <<>> \/ ExecAbandonada'
      BY <2>5 DEF AbandonarEnExec, CpuLibre, ExecAbandonada
    <3> QED
      BY <3>1, <1>1 DEF PrioridadAtendida
  <2> QED
    BY <1>3, <2>1, <2>2, <2>3, <2>4, <2>5, Zenon DEF Atendida
<1>4. ASSUME NEW g \in Grados, CambiarGrado(g) PROVE PrioridadAtendida'
  BY <1>4, <1>0, <1>1, LlamanAlPlp
<1>5. ASSUME NEW h \in Hilos, AtenderRRFIFO(h) PROVE PrioridadAtendida'
  BY <1>5, <1>0 DEF AtenderRRFIFO, PrioridadAtendida
<1>6. ASSUME NEW h \in Hilos,
             PcpPlanificar(h) \/ AtenderPrioridades(h) \/ CompararSinElegida(h)
      PROVE  PrioridadAtendida'
  BY <1>6, <1>1, PrioridadPcp, PrioridadDespacho, Caidas
<1>7. ASSUME PlpPlanifica PROVE PrioridadAtendida'
  <2>1. \E h \in Hilos : LlamarPcp(h)
    BY <1>7 DEF PlpPlanifica, Hilos
  <2> QED
    BY <1>0, <1>1, <2>1, PcpLlega
<1>8. ASSUME \/ Recibir \/ (\E i \in Traps : Atrapar(i)) \/ Interrumpirse
             \/ FinDeQuantum \/ LeerEjecutando \/ EnviarInterrupcion \/ RespuestaPageFault
      PROVE  PrioridadAtendida'
  BY <1>8, <1>0, <1>1, <1>2, Quietos, CpuQuieta, InterrupcionSigue
<1>9. ASSUME \/ InterruptSinProceso \/ InterruptSinContexto \/ FetchSinProceso
             \/ PageFaultSinProceso
      PROVE  PrioridadAtendida'
  BY <1>9, <1>1, Caidas
<1>10. ASSUME UNCHANGED vars PROVE PrioridadAtendida'
  <2>1. UNCHANGED <<interrup, cpu>>
    BY <1>10 DEF vars
  <2> QED
    BY <1>10, <1>0, <1>2, <2>1, InterrupcionSigue DEF vars
<1> QED
  BY <1>3, <1>4, <1>5, <1>6, <1>7, <1>8, <1>9, <1>10, Zenon DEF NextProcesos

-------------------------------------------------------------------------------
(* The theorems.                                                            *)

Planes == NingunReadyOlvidado /\ NewAdmitidos /\ PrioridadAtendida

(* Nothing is pending when the Kernel starts, and nobody waits.             *)
LEMMA InicioPlanes == Init => Planes
BY DEF Init, Planes, NingunReadyOlvidado, NewAdmitidos, PrioridadAtendida, ToSet

(* The three properties together, each of them inductive over InvProcesos.   *)
THEOREM PlanesSiempre == SpecProcesos => []Planes
<1>1. InvProcesos /\ Planes /\ [NextProcesos]_vars => Planes'
  BY ReadyPaso, NewPaso, PrioridadPaso DEF Planes
<1> QED
  BY <1>1, InicioPlanes, InvariantesProcesos, PTL DEF SpecProcesos

(* With EXEC empty and a process in READY there is always a thread on its   *)
(* way to the short term planner, a page fault whose end will call it, or   *)
(* an F_OPEN that the handler left without an answer and without a planner, *)
(* whose file is still to be granted.                                       *)
COROLLARY NuncaReadyOlvidado == SpecProcesos => []NingunReadyOlvidado
<1>1. Planes => NingunReadyOlvidado
  BY DEF Planes
<1> QED
  BY <1>1, PlanesSiempre, PTL

(* Whatever MULTIPROGRAMACION did to the degree while processes came and    *)
(* ended, each place that a process in NEW could take has its planner.      *)
COROLLARY NewSiempreAdmitidos == SpecProcesos => []NewAdmitidos
<1>1. Planes => NewAdmitidos
  BY DEF Planes
<1> QED
  BY <1>1, PlanesSiempre, PTL

(* Under PRIORIDADES nobody stays in READY behind a process of EXEC that    *)
(* goes after it, without a planner or an interrupt that is to compare them, *)
(* unless EXEC has a process that an F_TRUNCATE left there without the CPU.  *)
COROLLARY PrioridadSiempreAtendida == SpecProcesos => []PrioridadAtendida
<1>1. Planes => PrioridadAtendida
  BY DEF Planes
<1> QED
  BY <1>1, PlanesSiempre, PTL

(* Whoever sleeps, or waits for a resource, a file or a page, is in BLOCKED *)
(* and waits for one answer only: no answer finds it elsewhere.             *)
COROLLARY EsperasSiempreEnBlocked == SpecProcesos => []EsperasEnBlocked
<1>1. InvProcesos => EsperasEnBlocked
  BY DEF InvProcesos
<1> QED
  BY <1>1, InvariantesProcesos, PTL

-------------------------------------------------------------------------------
(* The Kernel's threads implement the five-state diagram of CicloDeVida.    *)
(* nuevos and listos are lista_new and lista_ready; estado, grado and       *)
(* algoritmo are themselves; every other variable is hidden.                *)

Visibles == <<estado, lista_new, lista_ready, grado, algoritmo>>
PasoCiclo == Ciclo!NextCiclo \/ UNCHANGED Visibles

(* What CicloDeVida does not show.                                          *)
LEMMA Invisible ==
  ASSUME UNCHANGED <<listas, core, algoritmo>>
  PROVE  PasoCiclo
BY DEF PasoCiclo, Visibles, listas, core

(* The operators of the standard and community modules are the same in both *)
(* modules.                                                                 *)
LEMMA MismaCardinalidad == Ciclo!Cardinality(Ciclo!EnElCore) = Cardinality(EnCore)
BY DEF Cardinality, Ciclo!Cardinality, EnCore, Ciclo!EnElCore

(* The same, of RemoveFirst.                                                *)
LEMMA MismaLista ==
  ASSUME NEW s, NEW p
  PROVE  Ciclo!RemoveFirst(s, p) = RemoveFirst(s, p)
BY Zenon DEF RemoveFirst, Ciclo!RemoveFirst, RemoveAt, Ciclo!RemoveAt, SelectInSeq,
   Ciclo!SelectInSeq, Min, Ciclo!Min

(* INICIAR_PROCESO is Crear.                                                *)
LEMMA CicloCrear ==
  ASSUME InvProcesos, NEW p \in Procesos, IniciarProceso(p)
  PROVE  PasoCiclo
<1>1. Ciclo!Crear(p)
  BY DEF IniciarProceso, PasarA, Sigue, core, Ciclo!Crear, Ciclo!Pasa
<1> QED
  BY <1>1 DEF PasoCiclo, Ciclo!NextCiclo

(* MULTIPROGRAMACION is NuevoGrado.                                         *)
LEMMA CicloGrado ==
  ASSUME NEW g \in Grados, CambiarGrado(g)
  PROVE  PasoCiclo
<1>1. Ciclo!NuevoGrado(g)
  BY DEF CambiarGrado, Sigue, listas, Ciclo!NuevoGrado
<1> QED
  BY <1>1 DEF PasoCiclo, Ciclo!NextCiclo

(* The degree is respected because procesos_en_core is exact.               *)
LEMMA CicloAdmitir ==
  ASSUME InvProcesos, PlpPlanifica
  PROVE  PasoCiclo
<1>1. CASE Admitir
  <2>1. estado[Head(lista_new)] = "NEW"
    BY <1>1, MoverAdmitir DEF InvProcesos
  <2>2. Ciclo!Cardinality(Ciclo!EnElCore) = procesos_en_core
    BY MismaCardinalidad DEF InvProcesos, CuentaDelCore
  <2>3. procesos_en_core < grado
    BY <1>1 DEF Admitir, InvProcesos, TypeOK
  <2>4. Ciclo!AdmitirSiguiente
    BY <1>1, <2>1, <2>2, <2>3
    DEF Admitir, PasarA, PlpPlanifica, Sigue, Ciclo!AdmitirSiguiente, Ciclo!Pasa
  <2> QED
    BY <2>4 DEF PasoCiclo, Ciclo!NextCiclo
<1>2. CASE UNCHANGED <<listas, core>>
  BY <1>2, Invisible DEF PlpPlanifica, Sigue
<1> QED
  BY <1>1, <1>2 DEF PlpPlanifica

(* A dispatch is Despachar, of a PCB the algorithm may choose.              *)
LEMMA CicloEjecutar ==
  ASSUME InvProcesos, NEW p \in ToSet(lista_ready), lista_execute = <<>>, Ejecutar(p),
         Ciclo!Elegible(p), UNCHANGED <<core, algoritmo>>
  PROVE  PasoCiclo
<1>1. p \in Procesos /\ estado[p] = "READY"
  BY MoverEjecutar DEF InvProcesos
<1>2. \A q \in Procesos : estado[q] # "EXEC"
  BY DEF InvProcesos, ListasCoherentes, ToSet
<1>3. lista_ready # <<>>
  BY DEF ToSet
<1>4. Ciclo!Despachar(p)
  BY <1>1, <1>2, <1>3, MismaLista DEF Ejecutar, PasarA, core, Ciclo!Despachar, Ciclo!Pasa
<1> QED
  BY <1>1, <1>4 DEF PasoCiclo, Ciclo!NextCiclo

(* FIFO and RR take the first of READY.                                     *)
LEMMA CicloRRFIFO ==
  ASSUME InvProcesos, NEW h \in Hilos, AtenderRRFIFO(h)
  PROVE  PasoCiclo
<1>1. CASE lista_execute = <<>> /\ lista_ready # <<>>
  <2>1. Head(lista_ready) \in ToSet(lista_ready)
    BY <1>1, ListaSinCabeza DEF InvProcesos, TypeOK, ListasCoherentes
  <2>2. Ciclo!Elegible(Head(lista_ready))
    BY DEF AtenderRRFIFO, Ciclo!Elegible
  <2>3. Ejecutar(Head(lista_ready)) /\ UNCHANGED <<core, algoritmo>>
    BY <1>1 DEF AtenderRRFIFO, Sigue
  <2> QED
    BY <1>1, <2>1, <2>2, <2>3, CicloEjecutar
<1>2. CASE ~(lista_execute = <<>> /\ lista_ready # <<>>)
  BY <1>2, Invisible DEF AtenderRRFIFO, Sigue
<1> QED
  BY <1>1, <1>2

(* PRIORIDADES takes one with the lowest number.                            *)
LEMMA CicloPrioridades ==
  ASSUME InvProcesos, NEW h \in Hilos, AtenderPrioridades(h)
  PROVE  PasoCiclo
<1>1. UNCHANGED <<core, algoritmo>>
  BY DEF AtenderPrioridades, Sigue
<1>2. ASSUME NEW p \in Procesos, EsElegida(p), lista_execute = <<>>, Ejecutar(p)
      PROVE  PasoCiclo
  <2>1. p \in ToSet(lista_ready)
    BY <1>2, ElegidaEnReady DEF InvProcesos
  <2>2. \A j \in 1..Len(lista_ready) : Prioridad[p] <= Prioridad[lista_ready[j]]
    <3>1. \A j \in 1..Len(lista_ready) :
            Prioridad[p] \in Int /\ Prioridad[lista_ready[j]] \in Int
      BY ElementOfSeq, ConstantesPlanificador DEF InvProcesos, TypeOK
    <3> QED
      BY <1>2, <3>1 DEF EsElegida
  <2>3. Ciclo!Elegible(p)
    BY <2>2 DEF AtenderPrioridades, Ciclo!Elegible
  <2> QED
    BY <1>1, <1>2, <2>1, <2>3, CicloEjecutar
<1>3. \/ \E p \in Procesos : EsElegida(p) /\ lista_execute = <<>> /\ Ejecutar(p)
      \/ UNCHANGED listas
  BY Zenon DEF AtenderPrioridades
<1> QED
  BY <1>1, <1>2, <1>3, Invisible

(* EXEC -> BLOCKED or EXIT is Dejar.                                        *)
LEMMA CicloDejar ==
  ASSUME InvProcesos, NEW p \in Procesos, cpu.recibida, cpu.pid = p,
         NEW e \in {"BLOCKED", "EXIT"}, PasarA(p, e),
         UNCHANGED <<lista_new, lista_ready, grado, algoritmo>>
  PROVE  PasoCiclo
<1>1. estado[p] = "EXEC"
  BY SaleDeExec
<1>2. Ciclo!Dejar(p)
  BY <1>1 DEF PasarA, Ciclo!Dejar, Ciclo!Pasa
<1> QED
  BY <1>2 DEF PasoCiclo, Ciclo!NextCiclo

(* EXEC or BLOCKED -> READY is Volver.                                      *)
LEMMA CicloVolver ==
  ASSUME NEW p \in Procesos, estado[p] \in {"EXEC", "BLOCKED"}, PasarA(p, "READY"),
         lista_ready' = Append(lista_ready, p),
         UNCHANGED <<lista_new, grado, algoritmo>>
  PROVE  PasoCiclo
<1>1. Ciclo!Volver(p)
  BY DEF PasarA, Ciclo!Volver, Ciclo!Pasa
<1> QED
  BY <1>1 DEF PasoCiclo, Ciclo!NextCiclo

(* The handlers of the traps.                                               *)
LEMMA CicloAtendida ==
  ASSUME InvProcesos, NEW p \in Procesos, Atendida(p)
  PROVE  PasoCiclo
<1>1. CASE \/ AtenderSleep(p) \/ AtenderBloqueante(p) \/ AtenderTrapPageFault(p)
           \/ BloquearSinResponder(p)
  <2>1. /\ cpu.recibida /\ cpu.pid = p /\ PasarA(p, "BLOCKED")
        /\ UNCHANGED <<lista_new, lista_ready, grado, algoritmo>>
    BY <1>1 DEF AtenderSleep, AtenderBloqueante, AtenderTrapPageFault, AtenderTrap,
       BloquearSinResponder, Atender, Bloquear, Sigue, core
  <2> QED
    BY <2>1, CicloDejar
<1>2. CASE PlpExit(p)
  <2>1. /\ cpu.recibida /\ cpu.pid = p /\ PasarA(p, "EXIT")
        /\ UNCHANGED <<lista_new, lista_ready, grado, algoritmo>>
    BY <1>2 DEF PlpExit, AtenderTrap, Atender, LiberarEnMemoria, Sigue
  <2> QED
    BY <2>1, CicloDejar
<1>3. CASE AtenderInmediata(p) \/ AbandonarEnExec(p)
  BY <1>3, Invisible DEF AtenderInmediata, AbandonarEnExec, AtenderTrap, Atender, Sigue
<1>4. ASSUME NEW q \in Procesos, AtenderLiberadora(p, q) PROVE PasoCiclo
  <2>1. q \in lista_blocked /\ estado[q] = "BLOCKED"
    BY <1>4 DEF InvProcesos, EsperasEnBlocked, ListasCoherentes, AtenderLiberadora
  <2>2. /\ PasarA(q, "READY") /\ lista_ready' = Append(lista_ready, q)
        /\ UNCHANGED <<lista_new, grado, algoritmo>>
    BY <1>4, <2>1 DEF AtenderLiberadora, AtenderTrap, Atender, DesbloquearPcb, Sigue, core
  <2> QED
    BY <2>1, <2>2, CicloVolver
<1> QED
  BY <1>1, <1>2, <1>3, <1>4 DEF Atendida

(* The preemption and the threads that wake PCBs.                           *)
LEMMA CicloVolverAReady ==
  ASSUME InvProcesos, NEW p \in Procesos,
         Reubicar(p) \/ Despertar(p) \/ Conceder(p) \/ Desbloquear(p)
  PROVE  PasoCiclo
<1>1. CASE Reubicar(p)
  <2>1. estado[p] = "EXEC"
    BY <1>1, SaleDeExec DEF Reubicar, Atender
  <2>2. /\ PasarA(p, "READY") /\ lista_ready' = Append(lista_ready, p)
        /\ UNCHANGED <<lista_new, grado, algoritmo>>
    BY <1>1 DEF Reubicar, Atender, Sigue, core
  <2> QED
    BY <2>1, <2>2, CicloVolver
<1>2. CASE Despertar(p) \/ Conceder(p) \/ Desbloquear(p)
  <2>1. p \in lista_blocked /\ estado[p] = "BLOCKED"
    BY <1>2 DEF InvProcesos, EsperasEnBlocked, ListasCoherentes, Despertar, Conceder,
       Desbloquear
  <2>2. /\ PasarA(p, "READY") /\ lista_ready' = Append(lista_ready, p)
        /\ UNCHANGED <<lista_new, grado, algoritmo>>
    BY <1>2, <2>1 DEF Despertar, Conceder, Desbloquear, DesbloquearPcb, Sigue, core
  <2> QED
    BY <2>1, <2>2, CicloVolver
<1> QED
  BY <1>1, <1>2

(* Every step is one of the diagram, or invisible in it.                    *)
LEMMA CicloPaso ==
  ASSUME InvProcesos, [NextProcesos]_vars
  PROVE  PasoCiclo
<1>1. ASSUME NEW p \in Procesos,
             \/ IniciarProceso(p) \/ Atendida(p) \/ Reubicar(p) \/ Despertar(p)
             \/ Desbloquear(p) \/ Conceder(p)
      PROVE  PasoCiclo
  BY <1>1, CicloCrear, CicloAtendida, CicloVolverAReady, Zenon
<1>2. ASSUME NEW g \in Grados, CambiarGrado(g) PROVE PasoCiclo
  BY <1>2, CicloGrado
<1>3. ASSUME NEW h \in Hilos, AtenderRRFIFO(h) \/ AtenderPrioridades(h)
      PROVE  PasoCiclo
  BY <1>3, CicloRRFIFO, CicloPrioridades
<1>4. CASE PlpPlanifica
  BY <1>4, CicloAdmitir
<1>5. ASSUME \/ \E p \in Procesos : AtenderPageFault(p)
             \/ \E h \in Hilos : PcpPlanificar(h)
             \/ \E i \in Traps : Atrapar(i)
             \/ FinDeQuantum \/ LeerEjecutando \/ EnviarInterrupcion \/ Interrumpirse
             \/ RespuestaPageFault
      PROVE  PasoCiclo
  BY <1>5, Invisible DEF AtenderPageFault, PcpPlanificar, Atrapar, FinDeQuantum,
     LeerEjecutando, EnviarInterrupcion, Interrumpirse, RespuestaPageFault, Sigue
<1>6. ASSUME \/ \E h \in Hilos : CompararSinElegida(h)
             \/ InterruptSinProceso \/ InterruptSinContexto
             \/ FetchSinProceso \/ PageFaultSinProceso
      PROVE  PasoCiclo
  BY <1>6, Invisible DEF CompararSinElegida, InterruptSinProceso, InterruptSinContexto,
     FetchSinProceso, PageFaultSinProceso, Caer
<1>7. CASE Recibir
  BY <1>7, Invisible DEF Recibir, Sigue, Caer
<1>8. CASE UNCHANGED vars
  BY <1>8, Invisible DEF vars
<1> QED
  BY <1>1, <1>2, <1>3, <1>4, <1>5, <1>6, <1>7, <1>8, Zenon DEF NextProcesos

(* Every step of the Kernel's threads is a step of the five-state diagram   *)
(* or is invisible in it: admission follows the order of arrival and the    *)
(* degree, a dispatch finds EXEC empty and takes the PCB the algorithm      *)
(* chooses, EXIT is final.                                                  *)
THEOREM KernelImplementaCiclo == SpecProcesos => ImplementaCiclo
<1>1. Init => Ciclo!InitCiclo
  BY DEF Init, Ciclo!InitCiclo
<1>2. InvProcesos /\ [NextProcesos]_vars => [Ciclo!NextCiclo]_(Ciclo!varsCiclo)
  BY CicloPaso DEF PasoCiclo, Visibles, Ciclo!varsCiclo
<1> QED
  BY <1>1, <1>2, InvariantesProcesos, PTL DEF SpecProcesos, ImplementaCiclo, Ciclo!SpecCiclo

-------------------------------------------------------------------------------
(* With FINALIZAR_PROCESO (Spec): what still holds when the console takes   *)
(* a PCB out of its list between the look of a planner and its move, while  *)
(* a page, a sleep or an answer is pending.                                 *)

(* Whoever waits for an answer, and for which one.                          *)
Esperan == durmiendo \cup esperando \cup fallos \cup desbloqueos \cup
           ({fallo_en_curso} \ {NULL})

(* Where a PCB can be for its estado. FINALIZAR_PROCESO leaves PCBs in no   *)
(* list, and makes EXIT of one that in the meantime came back to a list or  *)
(* went to EXEC.                                                            *)
Lugares ==
  /\ \A p \in ToSet(lista_new) : estado[p] = "NEW"
  /\ \A p \in ToSet(lista_ready) : estado[p] \in {"READY", "EXIT"}
  /\ \A p \in lista_blocked : estado[p] \in {"BLOCKED", "EXIT"} /\ p \notin ToSet(lista_ready)
  /\ \A p \in ToSet(lista_execute) :
       /\ estado[p] \in {"EXEC", "EXIT"}
       /\ p \notin ToSet(lista_ready) /\ p \notin lista_blocked

(* A PCB waits for one answer only, out of NEW, READY and EXEC.             *)
EsperasUnicas ==
  /\ \A p \in Esperan : /\ estado[p] \in {"BLOCKED", "EXIT"}
                        /\ p \notin ToSet(lista_ready) /\ p \notin ToSet(lista_execute)
  /\ durmiendo \cap (esperando \cup fallos \cup desbloqueos \cup {fallo_en_curso}) = {}
  /\ esperando \cap (fallos \cup desbloqueos \cup {fallo_en_curso}) = {}
  /\ fallos \cap (desbloqueos \cup {fallo_en_curso}) = {}
  /\ fallo_en_curso \notin desbloqueos

(* The CPU has the PCB of EXEC, unless a trap left it without an answer, and *)
(* the Kernel has received only what a trap sends.                          *)
CpuDeExec ==
  /\ cpu.pid = NULL => cpu.instr = "NINGUNA" /\ ~cpu.recibida
  /\ cpu.pid # NULL /\ cpu.instr # "SIN_RESPUESTA" => ToSet(lista_execute) = {cpu.pid}
  /\ cpu.recibida => cpu.instr \in Traps \cup {"DESALOJO"}

(* The threads that are to end a PCB are for the one in EXEC, which the CPU *)
(* then gave up.                                                            *)
Desalojados ==
  /\ desalojos \subseteq ToSet(lista_execute)
  /\ desalojos # {} => cpu.pid = NULL \/ cpu.instr = "SIN_RESPUESTA"

(* EXIT is written together with the list, and a thread of FINALIZAR_PROCESO *)
(* that has read EXIT finds the PCB there.                                  *)
Terminados ==
  /\ \A p \in Procesos : estado[p] = "EXIT" => p \in lista_exit
  /\ \A c \in Comandos :
       /\ finalizando[c].fase \notin {"SIN_DAR", "FIN"} => finalizando[c].pid \in Procesos
       /\ finalizando[c].fase = "EXIT" => finalizando[c].pid \in lista_exit

InvConsola ==
  /\ TypeOK /\ ExecUnico /\ Lugares /\ EsperasUnicas /\ CpuDeExec /\ Desalojados
  /\ Terminados /\ MemoriaDeVivos /\ kernel # "EXIT_FAILURE"

-------------------------------------------------------------------------------
(* Moves of one PCB, from what the lists and its estado were.               *)

(* The part of the invariant that is about lists and waits.                 *)
Orden == ExecUnico /\ Lugares /\ EsperasUnicas

(* What the moves use of the types.                                         *)
LEMMA Listas ==
  ASSUME TypeOK
  PROVE  /\ lista_new \in Seq(Procesos) /\ lista_ready \in Seq(Procesos)
         /\ lista_execute \in Seq(Procesos) /\ lista_blocked \subseteq Procesos
         /\ estado \in [Procesos -> Estados] /\ Esperan \subseteq Procesos
         /\ ToSet(lista_new) \subseteq Procesos /\ ToSet(lista_ready) \subseteq Procesos
         /\ ToSet(lista_execute) \subseteq Procesos
<1>1. \A s \in Seq(Procesos) : ToSet(s) \subseteq Procesos
  BY LenProperties, ElementOfSeq DEF ToSet
<1>2. /\ lista_new \in Seq(Procesos) /\ lista_ready \in Seq(Procesos)
      /\ lista_execute \in Seq(Procesos) /\ lista_blocked \subseteq Procesos
      /\ estado \in [Procesos -> Estados]
  BY DEF TypeOK
<1>3. Esperan \subseteq Procesos
  BY DEF TypeOK, Esperan
<1> QED
  BY <1>1, <1>2, <1>3

(* EXEC holds one PCB, which is nowhere else and waits for nothing.         *)
LEMMA UnoEnExec ==
  ASSUME TypeOK, Orden, NEW p \in ToSet(lista_execute)
  PROVE  /\ p \in Procesos /\ estado[p] \in {"EXEC", "EXIT"} /\ IsInjective(lista_execute)
         /\ ToSet(lista_execute) = {p} /\ lista_execute # <<>>
         /\ p \notin ToSet(lista_ready) /\ p \notin lista_blocked /\ p \notin Esperan
<1>1. lista_execute \in Seq(Procesos) /\ Len(lista_execute) \in Nat
      /\ Len(lista_execute) <= 1 /\ DOMAIN lista_execute = 1..Len(lista_execute)
      /\ p \in Procesos
  BY Listas, LenProperties DEF Orden, ExecUnico
<1>2. \A i \in DOMAIN lista_execute : i = 1
  BY <1>1
<1>3. lista_execute # <<>>
  BY DEF ToSet
<1>4. ToSet(lista_execute) = {p} /\ IsInjective(lista_execute)
  BY <1>1, <1>2 DEF ToSet, IsInjective
<1> QED
  BY <1>1, <1>3, <1>4 DEF Orden, Lugares, EsperasUnicas

(* EXEC is empty once it leaves.                                            *)
LEMMA ExecSinEl ==
  ASSUME TypeOK, Orden, NEW p \in ToSet(lista_execute), SalirDeExec(p)
  PROVE  lista_execute' \in Seq(Procesos) /\ ToSet(lista_execute') = {}
         /\ Len(lista_execute') <= 1
<1>1. lista_execute \in Seq(Procesos) /\ Len(lista_execute) \in Nat
      /\ Len(lista_execute) <= 1
  BY LenProperties DEF TypeOK, Orden, ExecUnico
<1>2. IsInjective(lista_execute) /\ ToSet(lista_execute) = {p}
  BY UnoEnExec
<1>3. /\ lista_execute' \in Seq(Procesos)
      /\ ToSet(lista_execute') = ToSet(lista_execute) \ {p}
      /\ Len(lista_execute') = Len(lista_execute) - 1
  BY <1>1, <1>2, ListaSinElemento DEF SalirDeExec
<1> QED
  BY <1>1, <1>2, <1>3

(* SIN_CREAR -> NEW.                                                        *)
LEMMA OrdenCrear ==
  ASSUME TypeOK, Orden, NEW p \in Procesos, IniciarProceso(p)
  PROVE  Orden' /\ lista_new' \in Seq(Procesos)
<1>1. /\ lista_new \in Seq(Procesos) /\ p \notin ToSet(lista_new)
      /\ p \notin ToSet(lista_ready) /\ p \notin lista_blocked /\ p \notin Esperan
      /\ p \notin ToSet(lista_execute) /\ estado[p] = "SIN_CREAR"
      /\ IsInjective(lista_new) /\ estado \in [Procesos -> Estados]
  BY Listas DEF Orden, ExecUnico, Lugares, EsperasUnicas, IniciarProceso
<1>2. /\ lista_new' \in Seq(Procesos) /\ IsInjective(lista_new')
      /\ ToSet(lista_new') = ToSet(lista_new) \cup {p}
  BY <1>1, ListaConAppend DEF IniciarProceso
<1>3. /\ estado' = [estado EXCEPT ![p] = "NEW"] /\ Esperan' = Esperan
      /\ UNCHANGED <<lista_ready, lista_execute, lista_blocked, hilos>>
  BY DEF IniciarProceso, PasarA, Esperan, hilos
<1>4. ExecUnico'
  BY <1>1, <1>2, <1>3 DEF Orden, ExecUnico
<1>5. Lugares'
  BY <1>1, <1>2, <1>3, Listas DEF Orden, Lugares
<1>6. EsperasUnicas'
  BY <1>1, <1>3, Listas DEF Orden, EsperasUnicas, hilos
<1> QED
  BY <1>2, <1>4, <1>5, <1>6 DEF Orden

(* NEW -> READY.                                                            *)
LEMMA OrdenAdmitir ==
  ASSUME TypeOK, Orden, Admitir, UNCHANGED hilos
  PROVE  /\ Orden' /\ lista_new' \in Seq(Procesos) /\ lista_ready' \in Seq(Procesos)
         /\ Head(lista_new) \in Procesos /\ estado[Head(lista_new)] = "NEW"
<1> DEFINE p == Head(lista_new)
<1>1. /\ lista_new \in Seq(Procesos) /\ lista_new # <<>> /\ IsInjective(lista_new)
      /\ lista_ready \in Seq(Procesos) /\ IsInjective(lista_ready)
      /\ estado \in [Procesos -> Estados]
  BY Listas DEF Orden, ExecUnico, Admitir
<1>2. /\ lista_new' \in Seq(Procesos) /\ p \in ToSet(lista_new)
      /\ ToSet(lista_new') = ToSet(lista_new) \ {p}
      /\ IsInjective(lista_new')
  BY <1>1, ListaSinCabeza DEF Admitir
<1>3. p \in Procesos
  BY <1>1, HeadTailProperties
<1>4. /\ estado[p] = "NEW" /\ p \notin ToSet(lista_ready) /\ p \notin Esperan
      /\ p \notin lista_blocked /\ p \notin ToSet(lista_execute)
  BY <1>2, <1>3 DEF Orden, ExecUnico, Lugares, EsperasUnicas
<1>5. /\ lista_ready' \in Seq(Procesos) /\ IsInjective(lista_ready')
      /\ ToSet(lista_ready') = ToSet(lista_ready) \cup {p}
  BY <1>1, <1>3, <1>4, ListaConAppend DEF Admitir
<1>6. /\ estado' = [estado EXCEPT ![p] = "READY"] /\ Esperan' = Esperan
      /\ UNCHANGED <<lista_execute, lista_blocked, hilos>>
  BY DEF Admitir, PasarA, Esperan, hilos
<1> HIDE DEF p
<1>7. ExecUnico'
  BY <1>1, <1>2, <1>3, <1>4, <1>5, <1>6 DEF Orden, ExecUnico
<1>8. Lugares'
  BY <1>1, <1>2, <1>3, <1>4, <1>5, <1>6, Listas DEF Orden, Lugares
<1>9. EsperasUnicas'
  BY <1>1, <1>3, <1>4, <1>5, <1>6, Listas DEF Orden, EsperasUnicas, hilos
<1> QED
  BY <1>2, <1>3, <1>4, <1>5, <1>7, <1>8, <1>9 DEF p, Orden

(* READY -> EXEC, when EXEC is empty.                                       *)
LEMMA OrdenEjecutar ==
  ASSUME TypeOK, Orden, NEW p \in ToSet(lista_ready), Ejecutar(p),
         lista_execute = <<>>, UNCHANGED hilos
  PROVE  /\ Orden' /\ p \in Procesos /\ lista_execute' = <<p>>
         /\ lista_execute' \in Seq(Procesos) /\ lista_ready' \in Seq(Procesos)
<1>1. /\ lista_ready \in Seq(Procesos) /\ IsInjective(lista_ready)
      /\ estado \in [Procesos -> Estados] /\ p \in Procesos
  BY Listas DEF Orden, ExecUnico
<1>2. /\ lista_ready' \in Seq(Procesos) /\ IsInjective(lista_ready')
      /\ ToSet(lista_ready') = ToSet(lista_ready) \ {p}
  BY <1>1, ListaSinElemento DEF Ejecutar
<1>3. /\ lista_execute' = <<p>> /\ lista_execute' \in Seq(Procesos)
      /\ ToSet(lista_execute') = {p} /\ Len(lista_execute') = 1
      /\ ToSet(lista_execute) = {}
  BY <1>1 DEF Ejecutar, ToSet
<1>4. /\ estado[p] \in {"READY", "EXIT"} /\ p \notin Esperan /\ p \notin lista_blocked
      /\ p \notin ToSet(lista_new)
  BY DEF Orden, Lugares, EsperasUnicas
<1>5. /\ estado' = [estado EXCEPT ![p] = "EXEC"] /\ Esperan' = Esperan
      /\ UNCHANGED <<lista_new, lista_blocked, hilos>>
  BY DEF Ejecutar, PasarA, Esperan, hilos
<1>6. ExecUnico'
  BY <1>1, <1>2, <1>3, <1>5 DEF Orden, ExecUnico
<1>7. Lugares'
  BY <1>1, <1>2, <1>3, <1>4, <1>5, Listas DEF Orden, Lugares
<1>8. EsperasUnicas'
  BY <1>1, <1>2, <1>3, <1>4, <1>5, Listas DEF Orden, EsperasUnicas, hilos
<1> QED
  BY <1>1, <1>2, <1>3, <1>6, <1>7, <1>8 DEF Orden

(* EXEC -> BLOCKED with one answer to wait for, -> READY or -> EXIT.        *)
LEMMA OrdenDesdeExec ==
  ASSUME TypeOK, Orden, NEW p \in ToSet(lista_execute), SalirDeExec(p),
         lista_new' = lista_new,
         \/ /\ PasarA(p, "BLOCKED") /\ lista_blocked' = lista_blocked \cup {p}
            /\ UNCHANGED <<lista_ready, fallo_en_curso, desbloqueos>>
            /\ \/ durmiendo' = durmiendo \cup {p} /\ UNCHANGED <<esperando, fallos>>
               \/ esperando' = esperando \cup {p} /\ UNCHANGED <<durmiendo, fallos>>
               \/ fallos' = fallos \cup {p} /\ UNCHANGED <<durmiendo, esperando>>
         \/ /\ PasarA(p, "READY") /\ lista_ready' = Append(lista_ready, p)
            /\ UNCHANGED <<lista_blocked, hilos>>
         \/ /\ PasarA(p, "EXIT") /\ UNCHANGED <<lista_ready, lista_blocked, hilos>>
  PROVE  Orden' /\ lista_ready' \in Seq(Procesos) /\ lista_execute' \in Seq(Procesos)
<1>1. /\ p \in Procesos /\ estado[p] \in {"EXEC", "EXIT"} /\ p # NULL
      /\ ToSet(lista_execute') = {} /\ Len(lista_execute') <= 1
      /\ ToSet(lista_execute) = {p} /\ lista_execute' \in Seq(Procesos)
  BY ExecSinEl, UnoEnExec, ConstantesPlanificador
<1>2. /\ lista_ready \in Seq(Procesos) /\ IsInjective(lista_ready)
      /\ estado \in [Procesos -> Estados]
      /\ p \notin ToSet(lista_ready) /\ p \notin Esperan /\ p \notin lista_blocked
      /\ p \notin ToSet(lista_new)
  BY <1>1, UnoEnExec, Listas DEF Orden, ExecUnico, Lugares
<1>3. /\ p \notin durmiendo /\ p \notin esperando /\ p \notin fallos
      /\ p \notin desbloqueos /\ p # fallo_en_curso
  BY <1>1, <1>2 DEF Esperan
<1>4. CASE /\ PasarA(p, "BLOCKED") /\ lista_blocked' = lista_blocked \cup {p}
           /\ UNCHANGED <<lista_ready, fallo_en_curso, desbloqueos>>
           /\ \/ durmiendo' = durmiendo \cup {p} /\ UNCHANGED <<esperando, fallos>>
              \/ esperando' = esperando \cup {p} /\ UNCHANGED <<durmiendo, fallos>>
              \/ fallos' = fallos \cup {p} /\ UNCHANGED <<durmiendo, esperando>>
  <2>1. ExecUnico'
    BY <1>1, <1>2, <1>4 DEF Orden, ExecUnico, PasarA
  <2>2. Lugares'
    BY <1>1, <1>2, <1>4, Listas DEF Orden, Lugares, PasarA
  <2>3. Esperan' = Esperan \cup {p}
    BY <1>4 DEF Esperan
  <2>4. EsperasUnicas'
    <3>1. \A q \in Esperan' :
            /\ estado'[q] \in {"BLOCKED", "EXIT"}
            /\ q \notin ToSet(lista_ready') /\ q \notin ToSet(lista_execute')
      BY <1>1, <1>2, <1>4, <2>3, Listas DEF Orden, EsperasUnicas, PasarA
    <3> QED
      BY <1>1, <1>3, <1>4, <3>1 DEF Orden, EsperasUnicas
  <2> QED
    BY <1>1, <1>2, <1>4, <2>1, <2>2, <2>4 DEF Orden
<1>5. CASE /\ PasarA(p, "READY") /\ lista_ready' = Append(lista_ready, p)
           /\ UNCHANGED <<lista_blocked, hilos>>
  <2>1. /\ lista_ready' \in Seq(Procesos) /\ IsInjective(lista_ready')
        /\ ToSet(lista_ready') = ToSet(lista_ready) \cup {p}
    BY <1>1, <1>2, <1>5, ListaConAppend
  <2>2. ExecUnico'
    BY <1>1, <1>2, <1>5, <2>1 DEF Orden, ExecUnico, PasarA
  <2>3. Lugares'
    BY <1>1, <1>2, <1>5, <2>1, Listas DEF Orden, Lugares, PasarA
  <2>4. EsperasUnicas'
    BY <1>1, <1>2, <1>5, <2>1, Listas DEF Orden, EsperasUnicas, Esperan, hilos, PasarA
  <2> QED
    BY <1>1, <2>1, <2>2, <2>3, <2>4 DEF Orden
<1>6. CASE PasarA(p, "EXIT") /\ UNCHANGED <<lista_ready, lista_blocked, hilos>>
  <2>1. ExecUnico'
    BY <1>1, <1>2, <1>6 DEF Orden, ExecUnico, PasarA
  <2>2. Lugares'
    BY <1>1, <1>2, <1>6, Listas DEF Orden, Lugares, PasarA
  <2>3. EsperasUnicas'
    BY <1>1, <1>2, <1>6, Listas DEF Orden, EsperasUnicas, Esperan, hilos, PasarA
  <2> QED
    BY <1>1, <1>2, <1>6, <2>1, <2>2, <2>3 DEF Orden
<1> QED
  BY <1>4, <1>5, <1>6

(* To READY, from BLOCKED or from nowhere, once the PCB waits no more.      *)
LEMMA OrdenVolver ==
  ASSUME TypeOK, Orden, NEW p \in Procesos, estado[p] \in {"BLOCKED", "EXIT"},
         p \notin ToSet(lista_ready), p \notin ToSet(lista_execute),
         lista_blocked' = lista_blocked \ {p},
         lista_ready' = Append(lista_ready, p), PasarA(p, "READY"),
         UNCHANGED <<lista_new, lista_execute>>,
         p \notin Esperan', Esperan' \subseteq Esperan,
         durmiendo' \subseteq durmiendo, esperando' \subseteq esperando,
         fallos' = fallos, desbloqueos' \subseteq desbloqueos,
         fallo_en_curso' = fallo_en_curso
  PROVE  Orden' /\ lista_ready' \in Seq(Procesos)
<1>1. /\ lista_ready \in Seq(Procesos) /\ IsInjective(lista_ready)
      /\ estado \in [Procesos -> Estados]
      /\ p \notin ToSet(lista_new)
  BY Listas DEF Orden, ExecUnico, Lugares
<1>2. /\ lista_ready' \in Seq(Procesos) /\ IsInjective(lista_ready')
      /\ ToSet(lista_ready') = ToSet(lista_ready) \cup {p}
  BY <1>1, ListaConAppend
<1>3. ExecUnico'
  BY <1>1, <1>2 DEF Orden, ExecUnico, PasarA
<1>4. Lugares'
  BY <1>1, <1>2, Listas DEF Orden, Lugares, PasarA
<1>5. EsperasUnicas'
  <2>1. \A q \in Esperan' :
          /\ estado'[q] \in {"BLOCKED", "EXIT"}
          /\ q \notin ToSet(lista_ready') /\ q \notin ToSet(lista_execute')
    BY <1>1, <1>2, Listas DEF Orden, EsperasUnicas, PasarA
  <2> QED
    BY <2>1 DEF Orden, EsperasUnicas
<1> QED
  BY <1>2, <1>3, <1>4, <1>5 DEF Orden

(* The steps that only remove PCBs from NEW, READY and BLOCKED, or waits.   *)
LEMMA OrdenQuitar ==
  ASSUME TypeOK, Orden, UNCHANGED <<estado, lista_execute>>,
         ToSet(lista_new') \subseteq ToSet(lista_new), IsInjective(lista_new'),
         ToSet(lista_ready') \subseteq ToSet(lista_ready), IsInjective(lista_ready'),
         lista_blocked' \subseteq lista_blocked,
         durmiendo' \subseteq durmiendo, esperando' \subseteq esperando,
         fallos' = fallos, desbloqueos' \subseteq desbloqueos,
         fallo_en_curso' = fallo_en_curso
  PROVE  Orden'
<1>1. Esperan' \subseteq Esperan
  BY DEF Esperan
<1>2. ExecUnico'
  BY DEF Orden, ExecUnico
<1>3. Lugares'
  BY DEF Orden, Lugares
<1>4. EsperasUnicas'
  <2>1. \A q \in Esperan' :
          /\ estado'[q] \in {"BLOCKED", "EXIT"}
          /\ q \notin ToSet(lista_ready') /\ q \notin ToSet(lista_execute')
    BY <1>1 DEF Orden, EsperasUnicas
  <2> QED
    BY <2>1 DEF Orden, EsperasUnicas
<1> QED
  BY <1>2, <1>3, <1>4 DEF Orden

(* FINALIZAR_PROCESO writes EXIT in a PCB that may be back in a list, or in *)
(* EXEC.                                                                    *)
LEMMA OrdenFinalizar ==
  ASSUME TypeOK, Orden, NEW p \in Procesos, estado[p] # "NEW",
         PasarA(p, "EXIT"), UNCHANGED <<lista_new, lista_ready, lista_execute,
                                        lista_blocked, hilos>>
  PROVE  Orden'
<1>1. estado' = [estado EXCEPT ![p] = "EXIT"] /\ Esperan' = Esperan
  BY DEF PasarA, Esperan, hilos
<1>2. ExecUnico'
  BY <1>1, Listas DEF Orden, ExecUnico
<1>3. Lugares'
  BY <1>1, Listas DEF Orden, Lugares
<1>4. EsperasUnicas'
  BY <1>1, Listas DEF Orden, EsperasUnicas, hilos
<1> QED
  BY <1>2, <1>3, <1>4 DEF Orden

(* A page fault passes to Memoria and from Memoria's answer to a thread.    *)
LEMMA OrdenPageFault ==
  ASSUME TypeOK, Orden, UNCHANGED <<listas, durmiendo, esperando>>,
         \/ \E p \in fallos : /\ fallo_en_curso = NULL /\ fallos' = fallos \ {p}
                              /\ fallo_en_curso' = p /\ desbloqueos' = desbloqueos
         \/ /\ fallo_en_curso # NULL /\ fallo_en_curso' = NULL /\ fallos' = fallos
            /\ desbloqueos' = desbloqueos \cup {fallo_en_curso}
  PROVE  Orden'
<1>1. NULL \notin durmiendo \cup esperando \cup fallos \cup desbloqueos
  BY ConstantesPlanificador DEF TypeOK
<1>2. Esperan' \subseteq Esperan
  BY <1>1 DEF Esperan
<1>3. UNCHANGED <<estado, lista_new, lista_ready, lista_execute, lista_blocked>>
  BY DEF listas
<1>4. ExecUnico' /\ Lugares'
  BY <1>3 DEF Orden, ExecUnico, Lugares
<1>5. EsperasUnicas'
  <2>1. \A q \in Esperan' :
          /\ estado'[q] \in {"BLOCKED", "EXIT"}
          /\ q \notin ToSet(lista_ready') /\ q \notin ToSet(lista_execute')
    BY <1>2, <1>3 DEF Orden, EsperasUnicas
  <2> QED
    BY <1>1, <2>1 DEF Orden, EsperasUnicas
<1> QED
  BY <1>4, <1>5 DEF Orden

-------------------------------------------------------------------------------
(* What the rest of the invariant needs of a step.                          *)

(* A step that leaves the CPU, EXEC and the kills as they were.             *)
LEMMA CpuIgual ==
  ASSUME CpuDeExec, Desalojados, UNCHANGED <<cpu, desalojos, lista_execute>>
  PROVE  CpuDeExec' /\ Desalojados'
BY DEF CpuDeExec, Desalojados

(* A step in which the PCB of EXEC leaves it, and the CPU.                  *)
LEMMA CpuSuelta ==
  ASSUME InvConsola, cpu.recibida, UNCHANGED desalojos, ~cpu'.recibida,
         \/ cpu'.pid = NULL /\ cpu'.instr = "NINGUNA"
         \/ cpu'.pid \in Procesos /\ cpu'.instr = "SIN_RESPUESTA"
  PROVE  CpuDeExec' /\ Desalojados'
<1>1. cpu.instr # "SIN_RESPUESTA" /\ cpu.pid # NULL
  BY DEF InvConsola, CpuDeExec, Traps
<1>2. desalojos = {}
  BY <1>1 DEF InvConsola, Desalojados
<1> QED
  BY <1>2, ConstantesPlanificador DEF CpuDeExec, Desalojados

(* What the CPU sent is of the PCB in EXEC.                                 *)
LEMMA RecibidoDeExec ==
  ASSUME InvConsola, cpu.instr \in Traps \cup {"DESALOJO"}
  PROVE  /\ cpu.pid \in ToSet(lista_execute) /\ cpu.pid \in Procesos /\ desalojos = {}
<1>1. cpu.instr # "SIN_RESPUESTA" /\ cpu.instr # "NINGUNA"
  BY DEF Traps
<1>2. cpu.pid # NULL
  BY <1>1 DEF InvConsola, CpuDeExec
<1>3. cpu.pid \in Procesos
  BY <1>2 DEF InvConsola, TypeOK
<1> QED
  BY <1>1, <1>2, <1>3 DEF InvConsola, CpuDeExec, Desalojados

LEMMA RecibidaDeExec ==
  ASSUME InvConsola, cpu.recibida
  PROVE  /\ cpu.pid \in ToSet(lista_execute) /\ cpu.pid \in Procesos /\ desalojos = {}
BY RecibidoDeExec DEF InvConsola, CpuDeExec

LEMMA MemoriaIgual ==
  ASSUME MemoriaDeVivos, en_memoria' \subseteq en_memoria,
         \A p \in en_memoria' : \/ estado'[p] = estado[p]
                                \/ estado'[p] \in {"READY", "EXEC", "BLOCKED"}
  PROVE  MemoriaDeVivos'
BY DEF MemoriaDeVivos

(* EXIT is written in the PCBs that go to the list EXIT, and the threads of *)
(* FINALIZAR_PROCESO do not move.                                           *)
LEMMA TerminadosIgual ==
  ASSUME Terminados, UNCHANGED finalizando, lista_exit \subseteq lista_exit',
         \A p \in Procesos : \/ estado'[p] = estado[p]
                             \/ estado'[p] # "EXIT" \/ p \in lista_exit'
  PROVE  Terminados'
BY DEF Terminados

(* The steps that move no PCB and complete no wait.                         *)
LEMMA ConsolaQuieta ==
  ASSUME InvConsola, TypeOK', CpuDeExec', Desalojados', kernel' # "EXIT_FAILURE",
         UNCHANGED <<listas, en_memoria, hilos>>, finalizando' = finalizando \/ Terminados'
  PROVE  InvConsola'
<1>1. UNCHANGED <<estado, lista_new, lista_ready, lista_execute, lista_blocked, lista_exit,
                  durmiendo, esperando, fallos, fallo_en_curso, desbloqueos>>
  BY DEF listas, hilos
<1>2. Esperan' = Esperan
  BY <1>1 DEF Esperan
<1>3. ExecUnico' /\ Lugares'
  BY <1>1 DEF InvConsola, ExecUnico, Lugares
<1>4. EsperasUnicas'
  BY <1>1, <1>2 DEF InvConsola, EsperasUnicas
<1>5. MemoriaDeVivos'
  BY <1>1, MemoriaIgual DEF InvConsola
<1>6. Terminados'
  BY <1>1, TerminadosIgual DEF InvConsola
<1> QED
  BY <1>3, <1>4, <1>5, <1>6 DEF InvConsola

(* The same, when they do not touch the CPU and the kills either.           *)
LEMMA ConsolaQuietaSinCpu ==
  ASSUME InvConsola, TypeOK', kernel' # "EXIT_FAILURE",
         UNCHANGED <<listas, en_memoria, hilos, cpu, desalojos, finalizando>>
  PROVE  InvConsola'
<1>1. lista_execute' = lista_execute
  BY DEF listas
<1>2. CpuDeExec' /\ Desalojados'
  BY <1>1, CpuIgual DEF InvConsola
<1> QED
  BY <1>2, ConsolaQuieta

-------------------------------------------------------------------------------
(* InvConsola is inductive: the actions that move no PCB.                   *)

LEMMA CPasoCaer ==
  ASSUME InvConsola, NEW como \in {"SEGFAULT", "CPU_CAIDA", "MEMORIA_CAIDA"}, Caer(como)
  PROVE  InvConsola'
<1>1. UNCHANGED <<listas, en_memoria, hilos, cpu, desalojos, finalizando>>
  BY DEF Caer, core, consola
<1>2. TypeOK'
  BY DEF InvConsola, TypeOK, Caer, listas, core, pcp, hilos, consola, banderas, interrup
<1> QED
  BY <1>1, <1>2, ConsolaQuietaSinCpu DEF Caer

LEMMA CPasoCambiarGrado ==
  ASSUME InvConsola, NEW g \in Grados, CambiarGrado(g)
  PROVE  InvConsola'
<1>1. UNCHANGED <<listas, en_memoria, hilos, cpu, desalojos, finalizando>>
  BY DEF CambiarGrado, consola
<1>2. TypeOK'
  BY ConstantesPlanificador DEF InvConsola, TypeOK, CambiarGrado, Sigue, listas,
         pcp, hilos, consola, banderas, interrup
<1> QED
  BY <1>1, <1>2, ConsolaQuietaSinCpu DEF CambiarGrado, Sigue

LEMMA CPasoPcpPlanificar ==
  ASSUME InvConsola, NEW h \in Hilos, PcpPlanificar(h)
  PROVE  InvConsola'
<1>1. UNCHANGED <<listas, en_memoria, hilos, cpu, desalojos, finalizando>>
  BY DEF PcpPlanificar, core, consola
<1>2. hilos_pcp' \in [Hilos -> Nat] /\ hilos_despacho' \in [Hilos -> Nat]
  BY DEF InvConsola, TypeOK, PcpPlanificar
<1>3. TypeOK'
  BY <1>2 DEF InvConsola, TypeOK, PcpPlanificar, Sigue, listas, core, hilos, consola,
         banderas, interrup
<1> QED
  BY <1>1, <1>3, ConsolaQuietaSinCpu DEF PcpPlanificar, Sigue

LEMMA CPasoInterrupciones ==
  ASSUME InvConsola, FinDeQuantum \/ LeerEjecutando
  PROVE  InvConsola'
<1>1. UNCHANGED <<listas, core, hilos, cpu, consola, banderas, hilos_plp, pcp>> /\ Sigue
  BY DEF FinDeQuantum, LeerEjecutando
<1>2. UNCHANGED <<listas, en_memoria, hilos, cpu, desalojos, finalizando>>
  BY <1>1 DEF core, consola
<1>3. lista_execute # <<>> => Head(lista_execute) \in Procesos
  BY HeadTailProperties DEF InvConsola, TypeOK
<1>4. /\ sem_interrupcion' \in Nat /\ temporizador' \in BOOLEAN
      /\ interrumpido' \in Procesos \cup {NULL}
  <2>1. CASE FinDeQuantum
    <3>1. sem_interrupcion' \in Nat
      BY <2>1 DEF InvConsola, TypeOK, FinDeQuantum, PostInterrupcion
    <3>2. temporizador' \in BOOLEAN
      BY <2>1 DEF FinDeQuantum
    <3>3. interrumpido' \in Procesos \cup {NULL}
      BY <2>1 DEF InvConsola, TypeOK, FinDeQuantum
    <3> QED
      BY <3>1, <3>2, <3>3
  <2>2. CASE LeerEjecutando
    BY <1>3, <2>2 DEF InvConsola, TypeOK, LeerEjecutando
  <2> QED
    BY <2>1, <2>2
<1>5. TypeOK'
  BY <1>1, <1>4 DEF InvConsola, TypeOK, Sigue, listas, core, pcp, hilos, consola, banderas
<1> QED
  BY <1>1, <1>2, <1>5, ConsolaQuietaSinCpu DEF Sigue

(* Steps that change only what the CPU is doing with the same process.      *)
LEMMA CPasoCpu ==
  ASSUME InvConsola, Sigue,
         cpu' \in [pid : Procesos \cup {NULL}, instr : Instrucciones,
                  recibida : BOOLEAN, para : Procesos \cup {NULL}, motivo : Motivos,
                  flag : BOOLEAN],
         cpu'.pid = cpu.pid,
         cpu.pid = NULL => cpu'.instr = "NINGUNA" /\ ~cpu'.recibida,
         cpu.instr = "SIN_RESPUESTA" => cpu'.instr = cpu.instr,
         cpu'.recibida => cpu'.instr \in Traps \cup {"DESALOJO"},
         flag_proceso_desalojado' \in BOOLEAN, flag_exit' \in BOOLEAN,
         interrumpido' \in Procesos \cup {NULL},
         UNCHANGED <<listas, core, hilos_plp, pcp, hilos, consola,
                     flag_finalizar_proceso, sem_interrupcion, temporizador>>
  PROVE  InvConsola'
<1>1. TypeOK'
  BY DEF InvConsola, TypeOK, Sigue, listas, core, pcp, hilos, consola
<1>2. UNCHANGED <<en_memoria, desalojos, finalizando, lista_execute>>
  BY DEF core, consola, listas
<1>3. CpuDeExec'
  BY <1>2 DEF InvConsola, CpuDeExec
<1>4. Desalojados'
  BY <1>2 DEF InvConsola, Desalojados
<1> QED
  BY <1>1, <1>2, <1>3, <1>4, ConsolaQuieta DEF Sigue

(* The interrupt that the CPU keeps, or is not sent.                        *)
LEMMA CPasoEnviarInterrupcion ==
  ASSUME InvConsola, EnviarInterrupcion
  PROVE  InvConsola'
<1> DEFINE guardado == IF cpu.para = NULL THEN interrumpido ELSE cpu.para
           f == cpu.flag \/ guardado = cpu.pid
<1>1. guardado \in Procesos \cup {NULL} /\ f \in BOOLEAN
  BY DEF InvConsola, TypeOK
<1>2. MotivoAEnviar \in Motivos
  BY DEF MotivoAEnviar, Motivos
<1>3. \/ cpu' = cpu
      \/ cpu' = [cpu EXCEPT !.para = guardado, !.motivo = MotivoAEnviar, !.flag = f]
  BY DEF EnviarInterrupcion, RecibirInterrupcion, InvConsola, TypeOK
<1> HIDE DEF guardado, f
<1>4. /\ cpu' \in [pid : Procesos \cup {NULL}, instr : Instrucciones,
                  recibida : BOOLEAN, para : Procesos \cup {NULL}, motivo : Motivos,
                  flag : BOOLEAN]
      /\ cpu'.pid = cpu.pid /\ cpu'.instr = cpu.instr /\ cpu'.recibida = cpu.recibida
  BY <1>1, <1>2, <1>3 DEF InvConsola, TypeOK
<1>5. /\ cpu.pid = NULL => cpu.instr = "NINGUNA" /\ ~cpu.recibida
      /\ cpu.recibida => cpu.instr \in Traps \cup {"DESALOJO"}
  BY DEF InvConsola, CpuDeExec
<1>6. /\ Sigue /\ interrumpido' \in Procesos \cup {NULL}
      /\ flag_proceso_desalojado' \in BOOLEAN /\ flag_exit' \in BOOLEAN
      /\ UNCHANGED <<listas, core, hilos_plp, pcp, hilos, consola,
                     flag_finalizar_proceso, sem_interrupcion, temporizador>>
  BY DEF EnviarInterrupcion, InvConsola, TypeOK, banderas
<1> QED
  BY <1>4, <1>5, <1>6, CPasoCpu

(* The CPU's own steps, the reception and the instructions answered at once. *)
LEMMA CPasoInstruccion ==
  ASSUME InvConsola, Sigue, NEW i \in Instrucciones, NEW r \in BOOLEAN,
         cpu' = [cpu EXCEPT !.instr = i, !.recibida = r], cpu.pid # NULL,
         cpu.instr # "SIN_RESPUESTA", r => i \in Traps \cup {"DESALOJO"},
         flag_proceso_desalojado' \in BOOLEAN, flag_exit' \in BOOLEAN,
         UNCHANGED <<listas, core, hilos_plp, pcp, hilos, consola,
                     flag_finalizar_proceso, interrup>>
  PROVE  InvConsola'
<1>1. /\ cpu' \in [pid : Procesos \cup {NULL}, instr : Instrucciones,
                  recibida : BOOLEAN, para : Procesos \cup {NULL}, motivo : Motivos,
                  flag : BOOLEAN]
      /\ cpu'.pid = cpu.pid /\ cpu'.instr = i /\ cpu'.recibida = r
  BY DEF InvConsola, TypeOK
<1>2. /\ interrumpido' \in Procesos \cup {NULL}
      /\ UNCHANGED <<sem_interrupcion, temporizador>>
  BY DEF InvConsola, TypeOK, interrup
<1> QED
  BY <1>1, <1>2, CPasoCpu

(* The CPU calls the Kernel, or leaves the process for an interrupt.        *)
LEMMA CPasoAtrapar ==
  ASSUME InvConsola, (\E i \in Traps : Atrapar(i)) \/ Interrumpirse
  PROVE  InvConsola'
<1>1. PICK i \in Instrucciones : cpu' = [cpu EXCEPT !.instr = i]
  BY DEF Atrapar, Interrumpirse, Instrucciones
<1>2. /\ Sigue /\ cpu.pid \in en_memoria /\ cpu.instr = "NINGUNA"
      /\ UNCHANGED <<listas, core, hilos_plp, pcp, hilos, consola, banderas, interrup>>
  BY DEF Atrapar, Interrumpirse
<1>3. cpu.pid # NULL /\ ~cpu.recibida
  BY <1>2, ConstantesPlanificador DEF InvConsola, TypeOK, CpuDeExec, Traps
<1>4. cpu' = [cpu EXCEPT !.instr = i, !.recibida = FALSE]
  BY <1>1, <1>3 DEF InvConsola, TypeOK
<1>5. flag_proceso_desalojado' \in BOOLEAN /\ flag_exit' \in BOOLEAN
      /\ UNCHANGED flag_finalizar_proceso
  BY <1>2 DEF InvConsola, TypeOK, banderas
<1> QED
  BY <1>2, <1>3, <1>4, <1>5, CPasoInstruccion

(* What the CPU sent is of the process in EXEC: the reception does not fail. *)
LEMMA CPasoRecibir ==
  ASSUME InvConsola, Recibir
  PROVE  InvConsola'
<1>1. cpu.instr \in Traps \cup {"DESALOJO"} /\ cpu.instr # "SIN_RESPUESTA"
  BY DEF Recibir, Traps
<1>2. cpu.pid \in ToSet(lista_execute) /\ cpu.pid \in Procesos /\ cpu.pid # NULL
  BY <1>1, RecibidoDeExec, ConstantesPlanificador
<1>3. /\ cpu' = [cpu EXCEPT !.instr = cpu.instr, !.recibida = TRUE]
      /\ cpu.instr \in Instrucciones
  BY <1>2 DEF Recibir, InvConsola, TypeOK
<1>4. /\ Sigue /\ flag_proceso_desalojado' \in BOOLEAN /\ flag_exit' \in BOOLEAN
      /\ UNCHANGED <<listas, core, hilos_plp, pcp, hilos, consola,
                     flag_finalizar_proceso, interrup>>
  BY <1>2 DEF Recibir, InvConsola, TypeOK
<1> QED
  BY <1>1, <1>2, <1>3, <1>4, CPasoInstruccion

(* An instruction that is answered at once.                                 *)
LEMMA CPasoInmediata ==
  ASSUME InvConsola, NEW p \in Procesos, AtenderInmediata(p)
  PROVE  InvConsola'
<1>1. /\ cpu' = [cpu EXCEPT !.instr = "NINGUNA", !.recibida = FALSE]
      /\ cpu.pid # NULL /\ "NINGUNA" \in Instrucciones /\ cpu.instr # "SIN_RESPUESTA"
  BY ConstantesPlanificador DEF AtenderInmediata, AtenderTrap, Atender, Instrucciones
<1>2. /\ Sigue
      /\ flag_proceso_desalojado' \in BOOLEAN /\ flag_exit' \in BOOLEAN
      /\ UNCHANGED <<listas, core, hilos_plp, pcp, hilos, consola,
                     flag_finalizar_proceso, interrup>>
  BY DEF AtenderInmediata, AtenderTrap, Atender, InvConsola, TypeOK
<1> QED
  BY <1>1, <1>2, CPasoInstruccion

(* An F_TRUNCATE that is not done: the PCB stays in EXEC, out of the CPU.   *)
LEMMA CPasoAbandonar ==
  ASSUME InvConsola, NEW p \in Procesos, AbandonarEnExec(p)
  PROVE  InvConsola'
<1>1. /\ Sigue /\ cpu' = CpuLibre /\ cpu.recibida
      /\ UNCHANGED <<listas, core, hilos_plp, pcp, hilos, consola, interrup,
                     flag_proceso_desalojado, flag_finalizar_proceso, flag_exit>>
  BY DEF AbandonarEnExec, AtenderTrap, Atender
<1>2. TypeOK'
  BY <1>1 DEF InvConsola, TypeOK, CpuLibre, Instrucciones, Motivos, Sigue, listas, core,
     pcp, hilos, consola, interrup
<1>3. UNCHANGED <<en_memoria, desalojos, finalizando>>
  BY <1>1 DEF core, consola
<1>4. cpu'.pid = NULL /\ cpu'.instr = "NINGUNA" /\ ~cpu'.recibida
  BY <1>1 DEF CpuLibre
<1>5. CpuDeExec' /\ Desalojados'
  BY <1>1, <1>3, <1>4, CpuSuelta
<1> QED
  BY <1>1, <1>2, <1>3, <1>5, ConsolaQuieta DEF Sigue

(* A trap that finds flag_finalizar_proceso set: a thread is left to end    *)
(* the process, and the CPU has nobody, or one that waits for ever.         *)
LEMMA CPasoConsolaPendiente ==
  ASSUME InvConsola, NEW p \in Procesos, AtenderConsolaPendiente(p)
  PROVE  InvConsola'
<1>1. /\ cpu.recibida /\ cpu.pid = p /\ desalojos' = desalojos \cup {p} /\ Sigue
      /\ UNCHANGED <<listas, core, hilos_plp, pcp, hilos, limpiezas, finalizando,
                 banderas, interrup>>
      /\ cpu' = IF cpu.instr = "SINCRONICA"
                THEN [cpu EXCEPT !.instr = "SIN_RESPUESTA", !.recibida = FALSE]
                ELSE CpuLibre
  BY DEF AtenderConsolaPendiente
<1>2. p \in ToSet(lista_execute) /\ desalojos = {} /\ p # NULL
  BY <1>1, RecibidaDeExec, ConstantesPlanificador
<1>3. /\ cpu' \in [pid : Procesos \cup {NULL}, instr : Instrucciones,
                   recibida : BOOLEAN, para : Procesos \cup {NULL}, motivo : Motivos,
                   flag : BOOLEAN]
      /\ ~cpu'.recibida
      /\ \/ cpu'.pid = NULL /\ cpu'.instr = "NINGUNA"
         \/ cpu'.pid = p /\ cpu'.instr = "SIN_RESPUESTA"
  <2>1. CASE cpu.instr = "SINCRONICA"
    BY <1>1, <2>1 DEF InvConsola, TypeOK, Instrucciones
  <2>2. CASE cpu.instr # "SINCRONICA"
    BY <1>1, <2>2 DEF CpuLibre, Instrucciones, Motivos
  <2> QED
    BY <2>1, <2>2
<1>4. TypeOK'
  BY <1>1, <1>3 DEF InvConsola, TypeOK, Sigue, listas, core, pcp, hilos, banderas, interrup
<1>5. CpuDeExec'
  BY <1>2, <1>3 DEF CpuDeExec, Traps
<1>6. Desalojados'
  BY <1>1, <1>2, <1>3 DEF Desalojados, listas
<1> QED
  BY <1>1, <1>4, <1>5, <1>6, ConsolaQuieta DEF Sigue, core

(* The dispatch, where it finds nothing to do or asks for an interrupt.     *)
LEMMA CPasoNoEjecutar ==
  ASSUME InvConsola, NEW h \in Hilos, SeguirDespacho(h), Sigue,
         sem_interrupcion' \in Nat,
         UNCHANGED <<listas, cpu, core, hilos_plp, hilos, consola, banderas,
                     interrumpido, temporizador>>
  PROVE  InvConsola'
<1>1. hilos_pcp' \in [Hilos -> Nat] /\ hilos_despacho' \in [Hilos -> Nat]
  BY DEF InvConsola, TypeOK, SeguirDespacho
<1>2. TypeOK'
  BY <1>1 DEF InvConsola, TypeOK, Sigue, listas, core, hilos, consola, banderas
<1> QED
  BY <1>2, ConsolaQuietaSinCpu DEF Sigue, core, consola

-------------------------------------------------------------------------------
(* InvConsola is inductive: NEW, READY and the dispatch.                    *)

LEMMA CPasoIniciar ==
  ASSUME InvConsola, NEW p \in Procesos, IniciarProceso(p)
  PROVE  InvConsola'
<1>1. Orden' /\ lista_new' \in Seq(Procesos)
  BY OrdenCrear DEF InvConsola, Orden
<1>2. TypeOK'
  BY <1>1 DEF InvConsola, TypeOK, IniciarProceso, Sigue, PasarA, LanzarPlp, Estados,
         core, pcp, hilos, consola, banderas, interrup
<1>3. /\ UNCHANGED <<lista_execute, lista_exit, core, consola, cpu>> /\ Sigue
      /\ estado' = [estado EXCEPT ![p] = "NEW"] /\ estado[p] = "SIN_CREAR"
  BY DEF IniciarProceso, PasarA
<1>4. MemoriaDeVivos'
  BY <1>3 DEF InvConsola, TypeOK, MemoriaDeVivos, core
<1>5. CpuDeExec' /\ Desalojados'
  BY <1>3, CpuIgual DEF InvConsola, core, consola
<1>6. Terminados'
  BY <1>3, TerminadosIgual DEF InvConsola, TypeOK, consola
<1> QED
  BY <1>1, <1>2, <1>3, <1>4, <1>5, <1>6 DEF InvConsola, Orden, Sigue

LEMMA CPasoPlpPlanifica ==
  ASSUME InvConsola, PlpPlanifica
  PROVE  InvConsola'
<1>1. /\ hilos_plp' \in Nat /\ hilos_pcp' \in [Hilos -> Nat]
      /\ hilos_despacho' \in [Hilos -> Nat]
  BY DEF InvConsola, TypeOK, PlpPlanifica, LlamarPcp, Hilos
<1>2. Sigue /\ UNCHANGED <<hilos, consola, banderas, interrup, cpu>>
  BY DEF PlpPlanifica
<1>3. CASE Admitir
  <2> DEFINE p == Head(lista_new)
  <2>1. /\ Orden' /\ p \in Procesos /\ estado[p] = "NEW"
        /\ lista_new' \in Seq(Procesos) /\ lista_ready' \in Seq(Procesos)
    BY <1>2, <1>3, OrdenAdmitir DEF InvConsola, Orden
  <2>2. /\ estado' = [estado EXCEPT ![p] = "READY"] /\ en_memoria' = en_memoria \cup {p}
        /\ procesos_en_core' = procesos_en_core + 1
        /\ UNCHANGED <<lista_execute, lista_blocked, lista_exit, grado>>
    BY <1>3 DEF Admitir, PasarA
  <2> HIDE DEF p
  <2>3. TypeOK'
    BY <1>1, <1>2, <2>1, <2>2 DEF InvConsola, TypeOK, Sigue, Estados,
           hilos, consola, banderas, interrup
  <2>4. MemoriaDeVivos'
    BY <2>1, <2>2 DEF InvConsola, TypeOK, MemoriaDeVivos
  <2>5. CpuDeExec' /\ Desalojados'
    BY <1>2, <2>2, CpuIgual DEF InvConsola, consola
  <2>6. Terminados'
    BY <1>2, <2>1, <2>2, TerminadosIgual DEF InvConsola, TypeOK, consola
  <2> QED
    BY <1>2, <2>1, <2>3, <2>4, <2>5, <2>6 DEF InvConsola, Orden, Sigue
<1>4. CASE UNCHANGED <<listas, core>>
  <2>1. TypeOK'
    BY <1>1, <1>2, <1>4 DEF InvConsola, TypeOK, Sigue, listas, core, hilos, consola,
           banderas, interrup
  <2> QED
    BY <1>2, <1>4, <2>1, ConsolaQuietaSinCpu DEF core, consola, Sigue
<1> QED
  BY <1>3, <1>4 DEF PlpPlanifica

(* The two places that dispatch, once they have chosen a PCB of READY.      *)
LEMMA CPasoEjecutar ==
  ASSUME InvConsola, NEW h \in Hilos, NEW p \in ToSet(lista_ready),
         lista_execute = <<>>, Ejecutar(p), SeguirDespacho(h), Sigue,
         flag_exit' \in BOOLEAN, temporizador' \in BOOLEAN,
         UNCHANGED <<core, hilos_plp, hilos, consola, flag_proceso_desalojado,
                     flag_finalizar_proceso, sem_interrupcion, interrumpido>>
  PROVE  InvConsola'
<1>1. /\ Orden' /\ p \in Procesos /\ lista_execute' = <<p>>
      /\ lista_execute' \in Seq(Procesos) /\ lista_ready' \in Seq(Procesos)
  BY OrdenEjecutar DEF InvConsola, Orden
<1>2. /\ estado' = [estado EXCEPT ![p] = "EXEC"]
      /\ cpu' = [cpu EXCEPT !.pid = p, !.instr = "NINGUNA"]
      /\ UNCHANGED <<lista_new, lista_blocked, lista_exit>>
  BY DEF Ejecutar, PasarA
<1>3. /\ cpu' \in [pid : Procesos \cup {NULL}, instr : Instrucciones,
                  recibida : BOOLEAN, para : Procesos \cup {NULL}, motivo : Motivos,
                  flag : BOOLEAN]
      /\ cpu'.pid = p /\ cpu'.instr = "NINGUNA" /\ ~cpu'.recibida
  <2>1. ~cpu.recibida
    BY RecibidaDeExec DEF ToSet
  <2> QED
    BY <1>1, <1>2, <2>1 DEF InvConsola, TypeOK, Instrucciones
<1>4. TypeOK'
  <2>1. hilos_pcp' \in [Hilos -> Nat] /\ hilos_despacho' \in [Hilos -> Nat]
    BY DEF InvConsola, TypeOK, SeguirDespacho
  <2>2. estado' \in [Procesos -> Estados]
    BY <1>2 DEF InvConsola, TypeOK, Estados
  <2> QED
    BY <1>1, <1>2, <1>3, <2>1, <2>2 DEF InvConsola, TypeOK, Sigue, core, hilos, consola
<1>5. ToSet(lista_execute') = {p} /\ ToSet(lista_execute) = {} /\ p # NULL
  BY <1>1, ConstantesPlanificador DEF ToSet
<1>6. CpuDeExec'
  BY <1>3, <1>5 DEF CpuDeExec, Traps
<1>7. Desalojados'
  BY <1>5 DEF InvConsola, Desalojados, consola
<1>8. MemoriaDeVivos'
  BY <1>1, <1>2 DEF InvConsola, TypeOK, MemoriaDeVivos, core
<1>9. Terminados'
  BY <1>1, <1>2, TerminadosIgual DEF InvConsola, TypeOK, consola
<1> QED
  BY <1>1, <1>4, <1>6, <1>7, <1>8, <1>9 DEF InvConsola, Orden, Sigue

LEMMA CPasoRRFIFO ==
  ASSUME InvConsola, NEW h \in Hilos, AtenderRRFIFO(h)
  PROVE  InvConsola'
<1>1. CASE lista_execute = <<>> /\ lista_ready # <<>>
  <2>1. Head(lista_ready) \in ToSet(lista_ready)
    BY <1>1, ListaSinCabeza DEF InvConsola, TypeOK, ExecUnico
  <2>2. Ejecutar(Head(lista_ready)) /\ ArmarQuantum
    BY <1>1 DEF AtenderRRFIFO
  <2>3. flag_exit' \in BOOLEAN /\ temporizador' \in BOOLEAN
    BY <2>2 DEF InvConsola, TypeOK, ArmarQuantum
  <2>4. SeguirDespacho(h) /\ Sigue
        /\ UNCHANGED <<core, hilos_plp, hilos, consola, flag_proceso_desalojado,
                       flag_finalizar_proceso, sem_interrupcion, interrumpido>>
    BY DEF AtenderRRFIFO
  <2> QED
    BY <1>1, <2>1, <2>2, <2>3, <2>4, CPasoEjecutar
<1>2. CASE ~(lista_execute = <<>> /\ lista_ready # <<>>)
  <2>1. /\ SeguirDespacho(h) /\ Sigue /\ sem_interrupcion' \in Nat
        /\ UNCHANGED <<listas, cpu, core, hilos_plp, hilos, consola, banderas,
                     interrumpido, temporizador>>
    BY <1>2 DEF AtenderRRFIFO, InvConsola, TypeOK, banderas
  <2> QED
    BY <2>1, CPasoNoEjecutar
<1> QED
  BY <1>1, <1>2

LEMMA CPasoPrioridades ==
  ASSUME InvConsola, NEW h \in Hilos, AtenderPrioridades(h)
  PROVE  InvConsola'
<1>1. SeguirDespacho(h) /\ Sigue
      /\ UNCHANGED <<core, hilos_plp, hilos, consola, banderas, interrumpido,
                     temporizador>>
  BY DEF AtenderPrioridades
<1>2. CASE UNCHANGED <<listas, cpu>> /\ sem_interrupcion' \in Nat
  BY <1>1, <1>2, CPasoNoEjecutar
<1>3. ASSUME NEW p \in Procesos, EsElegida(p), lista_execute = <<>>, Ejecutar(p),
             UNCHANGED sem_interrupcion
      PROVE  InvConsola'
  <2>1. p \in ToSet(lista_ready)
    BY <1>3, ElegidaEnReady DEF InvConsola
  <2>2. /\ flag_exit' \in BOOLEAN /\ temporizador' \in BOOLEAN
        /\ UNCHANGED <<core, hilos_plp, hilos, consola, flag_proceso_desalojado,
                     flag_finalizar_proceso, sem_interrupcion, interrumpido>>
    BY <1>1, <1>3 DEF InvConsola, TypeOK, banderas
  <2> QED
    BY <1>1, <1>3, <2>1, <2>2, CPasoEjecutar
<1>4. ASSUME PostInterrupcion \/ UNCHANGED sem_interrupcion
      PROVE  sem_interrupcion' \in Nat
  BY <1>4 DEF InvConsola, TypeOK, PostInterrupcion
<1>5. \/ \E p \in Procesos : /\ EsElegida(p) /\ lista_execute = <<>>
                             /\ Ejecutar(p) /\ UNCHANGED sem_interrupcion
      \/ /\ UNCHANGED <<listas, cpu>>
         /\ PostInterrupcion \/ UNCHANGED sem_interrupcion
  BY Zenon DEF AtenderPrioridades
<1> QED
  BY <1>2, <1>3, <1>4, <1>5

-------------------------------------------------------------------------------
(* InvConsola is inductive: out of EXEC.                                    *)

(* What the CPU is left with: nobody, or the process without an answer.     *)
DejaLaCpu(p) ==
  /\ cpu' \in [pid : Procesos \cup {NULL}, instr : Instrucciones,
               recibida : BOOLEAN, para : Procesos \cup {NULL}, motivo : Motivos,
               flag : BOOLEAN]
  /\ ~cpu'.recibida
  /\ \/ cpu'.pid = NULL /\ cpu'.instr = "NINGUNA"
     \/ cpu'.pid = p /\ cpu'.instr = "SIN_RESPUESTA"

LEMMA LibreDeja ==
  ASSUME NEW p \in Procesos, cpu' = CpuLibre
  PROVE  DejaLaCpu(p)
BY DEF DejaLaCpu, CpuLibre, Instrucciones, Motivos

(* The handlers that take the PCB out of EXEC, whatever list it goes to.    *)
LEMMA CPasoSalir ==
  ASSUME InvConsola, NEW p \in Procesos, Sigue, cpu.recibida, cpu.pid = p,
         SalirDeExec(p), lista_new' = lista_new,
         DejaLaCpu(p), hilos_plp' \in Nat, hilos_pcp' \in [Hilos -> Nat],
         hilos_despacho' \in [Hilos -> Nat], flag_proceso_desalojado' \in BOOLEAN,
         limpiezas' \subseteq Hilos \X Procesos,
         UNCHANGED <<desalojos, finalizando, flag_finalizar_proceso, flag_exit, interrup>>,
         \/ /\ PasarA(p, "BLOCKED") /\ lista_blocked' = lista_blocked \cup {p}
            /\ UNCHANGED <<lista_ready, lista_exit, core, fallo_en_curso, desbloqueos>>
            /\ \/ durmiendo' = durmiendo \cup {p} /\ UNCHANGED <<esperando, fallos>>
               \/ esperando' = esperando \cup {p} /\ UNCHANGED <<durmiendo, fallos>>
               \/ fallos' = fallos \cup {p} /\ UNCHANGED <<durmiendo, esperando>>
         \/ /\ PasarA(p, "READY") /\ lista_ready' = Append(lista_ready, p)
            /\ UNCHANGED <<lista_blocked, lista_exit, core, hilos>>
         \/ /\ PasarA(p, "EXIT") /\ lista_exit' = lista_exit \cup {p}
            /\ LiberarEnMemoria(p) /\ UNCHANGED <<lista_ready, lista_blocked, hilos>>
  PROVE  InvConsola'
<1> DEFINE ABlocked ==
             /\ PasarA(p, "BLOCKED") /\ lista_blocked' = lista_blocked \cup {p}
             /\ UNCHANGED <<lista_ready, lista_exit, core, fallo_en_curso, desbloqueos>>
             /\ \/ durmiendo' = durmiendo \cup {p} /\ UNCHANGED <<esperando, fallos>>
                \/ esperando' = esperando \cup {p} /\ UNCHANGED <<durmiendo, fallos>>
                \/ fallos' = fallos \cup {p} /\ UNCHANGED <<durmiendo, esperando>>
           AReady ==
             /\ PasarA(p, "READY") /\ lista_ready' = Append(lista_ready, p)
             /\ UNCHANGED <<lista_blocked, lista_exit, core, hilos>>
           AExit ==
             /\ PasarA(p, "EXIT") /\ lista_exit' = lista_exit \cup {p}
             /\ LiberarEnMemoria(p) /\ UNCHANGED <<lista_ready, lista_blocked, hilos>>
<1>0. ABlocked \/ AReady \/ AExit
  OBVIOUS
<1>1. p \in ToSet(lista_execute) /\ TypeOK /\ Orden
  BY RecibidaDeExec DEF InvConsola, Orden
<1>2. Orden' /\ lista_ready' \in Seq(Procesos) /\ lista_execute' \in Seq(Procesos)
  <2>1. CASE ABlocked
    BY <1>1, <2>1, OrdenDesdeExec
  <2>2. CASE AReady
    BY <1>1, <2>2, OrdenDesdeExec
  <2>3. CASE AExit
    BY <1>1, <2>3, OrdenDesdeExec
  <2> HIDE DEF ABlocked, AReady, AExit
  <2> QED
    BY <1>0, <2>1, <2>2, <2>3
<1>3. /\ lista_blocked' \subseteq Procesos /\ lista_exit' \subseteq Procesos
      /\ procesos_en_core' \in Int /\ grado' = grado /\ en_memoria' \subseteq en_memoria
      /\ durmiendo' \subseteq Procesos /\ esperando' \subseteq Procesos
      /\ fallos' \subseteq Procesos /\ UNCHANGED <<fallo_en_curso, desbloqueos>>
  <2>1. CASE ABlocked
    BY <2>1 DEF InvConsola, TypeOK, core
  <2>2. CASE AReady
    BY <2>2 DEF InvConsola, TypeOK, core, hilos
  <2>3. CASE AExit
    BY <2>3 DEF InvConsola, TypeOK, hilos, LiberarEnMemoria
  <2> HIDE DEF ABlocked, AReady, AExit
  <2> QED
    BY <1>0, <2>1, <2>2, <2>3
<1>4. /\ estado' \in [Procesos -> Estados]
      /\ \A q \in en_memoria' : \/ estado'[q] = estado[q]
                                \/ estado'[q] \in {"READY", "EXEC", "BLOCKED"}
  <2>1. en_memoria \subseteq Procesos /\ estado \in [Procesos -> Estados]
    BY DEF InvConsola, TypeOK
  <2>2. CASE ABlocked
    BY <1>3, <2>1, <2>2 DEF PasarA, Estados
  <2>3. CASE AReady
    BY <1>3, <2>1, <2>3 DEF PasarA, Estados
  <2>4. CASE AExit
    BY <1>3, <2>1, <2>4 DEF PasarA, Estados, LiberarEnMemoria
  <2> HIDE DEF ABlocked, AReady, AExit
  <2> QED
    BY <1>0, <2>2, <2>3, <2>4
<1>10. /\ lista_exit \subseteq lista_exit'
      /\ \A q \in Procesos : \/ estado'[q] = estado[q]
                              \/ estado'[q] # "EXIT" \/ q \in lista_exit'
  <2>1. estado \in [Procesos -> Estados]
    BY DEF InvConsola, TypeOK
  <2>2. CASE ABlocked
    BY <2>1, <2>2 DEF PasarA
  <2>3. CASE AReady
    BY <2>1, <2>3 DEF PasarA
  <2>4. CASE AExit
    BY <2>1, <2>4 DEF PasarA
  <2> HIDE DEF ABlocked, AReady, AExit
  <2> QED
    BY <1>0, <2>2, <2>3, <2>4
<1> HIDE DEF ABlocked, AReady, AExit
<1>5. TypeOK'
  BY <1>2, <1>3, <1>4 DEF InvConsola, TypeOK, Sigue, interrup, DejaLaCpu
<1>6. CpuDeExec' /\ Desalojados'
  BY CpuSuelta DEF DejaLaCpu
<1>7. MemoriaDeVivos'
  BY <1>3, <1>4, MemoriaIgual DEF InvConsola
<1>8. Terminados'
  BY <1>10, TerminadosIgual DEF InvConsola
<1> QED
  BY <1>2, <1>5, <1>6, <1>7, <1>8 DEF InvConsola, Orden, Sigue

LEMMA CPasoBloqueantes ==
  ASSUME InvConsola, NEW p \in Procesos,
         \/ AtenderSleep(p) \/ AtenderBloqueante(p) \/ BloquearSinResponder(p)
         \/ AtenderTrapPageFault(p)
  PROVE  InvConsola'
<1>1. /\ Sigue /\ cpu.recibida /\ cpu.pid = p /\ SalirDeExec(p) /\ PasarA(p, "BLOCKED")
      /\ lista_blocked' = lista_blocked \cup {p}
      /\ UNCHANGED <<lista_new, lista_ready, lista_exit>>
      /\ UNCHANGED <<flag_finalizar_proceso, flag_exit, interrup, flag_proceso_desalojado,
                     core, hilos_plp, fallo_en_curso, desbloqueos, consola>>
      /\ \/ durmiendo' = durmiendo \cup {p} /\ UNCHANGED <<esperando, fallos>>
         \/ esperando' = esperando \cup {p} /\ UNCHANGED <<durmiendo, fallos>>
         \/ fallos' = fallos \cup {p} /\ UNCHANGED <<durmiendo, esperando>>
      /\ \/ cpu' = CpuLibre
         \/ cpu' = [cpu EXCEPT !.instr = "SIN_RESPUESTA", !.recibida = FALSE]
  <2>1. CASE AtenderSleep(p)
    BY <2>1 DEF AtenderSleep, AtenderTrap, Atender, Bloquear
  <2>2. CASE AtenderBloqueante(p)
    BY <2>2 DEF AtenderBloqueante, AtenderTrap, Atender, Bloquear
  <2>3. CASE AtenderTrapPageFault(p)
    BY <2>3 DEF AtenderTrapPageFault, AtenderTrap, Atender, Bloquear
  <2>4. CASE BloquearSinResponder(p)
    BY <2>4 DEF BloquearSinResponder, AtenderTrap, Atender
  <2> QED
    BY <2>1, <2>2, <2>3, <2>4
<1>2. hilos_pcp' \in [Hilos -> Nat] /\ hilos_despacho' \in [Hilos -> Nat]
  <2>1. CASE AtenderSleep(p)
    BY <2>1, PcpLlamado DEF AtenderSleep, InvConsola, Hilos
  <2>2. CASE AtenderBloqueante(p)
    BY <2>2, PcpLlamado DEF AtenderBloqueante, InvConsola, Hilos
  <2>3. CASE AtenderTrapPageFault(p)
    BY <2>3 DEF AtenderTrapPageFault, InvConsola, TypeOK, pcp
  <2>4. CASE BloquearSinResponder(p)
    BY <2>4 DEF BloquearSinResponder, InvConsola, TypeOK, pcp
  <2> QED
    BY <2>1, <2>2, <2>3, <2>4
<1>3. DejaLaCpu(p)
  <2>1. CASE cpu' = CpuLibre
    BY <2>1, LibreDeja
  <2>2. CASE cpu' = [cpu EXCEPT !.instr = "SIN_RESPUESTA", !.recibida = FALSE]
    BY <1>1, <2>2 DEF InvConsola, TypeOK, Instrucciones, DejaLaCpu
  <2> QED
    BY <1>1, <2>1, <2>2
<1>4. /\ hilos_plp' \in Nat /\ flag_proceso_desalojado' \in BOOLEAN
      /\ limpiezas' \subseteq Hilos \X Procesos
      /\ UNCHANGED <<desalojos, finalizando>>
  BY <1>1 DEF InvConsola, TypeOK, consola
<1> QED
  BY <1>1, <1>2, <1>3, <1>4, CPasoSalir

LEMMA CPasoPlpExit ==
  ASSUME InvConsola, NEW p \in Procesos, PlpExit(p)
  PROVE  InvConsola'
<1>1. /\ Sigue /\ cpu.recibida /\ cpu.pid = p
      /\ UNCHANGED <<flag_finalizar_proceso, flag_exit, interrup, flag_proceso_desalojado,
                     pcp, hilos, consola>>
      /\ SalirDeExec(p) /\ cpu' = CpuLibre /\ lista_new' = lista_new
      /\ PasarA(p, "EXIT") /\ lista_exit' = lista_exit \cup {p}
      /\ LiberarEnMemoria(p) /\ UNCHANGED <<lista_ready, lista_blocked>> /\ LanzarPlp
  BY DEF PlpExit, AtenderTrap, Atender
<1>2. /\ hilos_plp' \in Nat /\ flag_proceso_desalojado' \in BOOLEAN
      /\ hilos_pcp' \in [Hilos -> Nat] /\ hilos_despacho' \in [Hilos -> Nat]
      /\ limpiezas' \subseteq Hilos \X Procesos
      /\ UNCHANGED <<desalojos, finalizando>>
  BY <1>1 DEF InvConsola, TypeOK, consola, pcp, LanzarPlp
<1> QED
  BY <1>1, <1>2, LibreDeja, CPasoSalir

LEMMA CPasoReubicar ==
  ASSUME InvConsola, NEW p \in Procesos, Reubicar(p)
  PROVE  InvConsola'
<1>1. /\ Sigue /\ cpu.recibida /\ cpu.pid = p
      /\ UNCHANGED <<flag_finalizar_proceso, flag_exit, interrup, core, hilos_plp, hilos,
                     consola>>
      /\ SalirDeExec(p) /\ cpu' = CpuLibre /\ lista_new' = lista_new
      /\ PasarA(p, "READY") /\ lista_ready' = Append(lista_ready, p)
      /\ UNCHANGED <<lista_blocked, lista_exit>>
      /\ flag_proceso_desalojado' = FALSE /\ LlamarPcp("DISPATCH")
  BY DEF Reubicar, Atender
<1>2. hilos_pcp' \in [Hilos -> Nat] /\ hilos_despacho' \in [Hilos -> Nat]
  BY <1>1, PcpLlamado DEF InvConsola, Hilos
<1>3. /\ hilos_plp' \in Nat /\ flag_proceso_desalojado' \in BOOLEAN
      /\ limpiezas' \subseteq Hilos \X Procesos
      /\ UNCHANGED <<desalojos, finalizando>>
  BY <1>1 DEF InvConsola, TypeOK, consola
<1> QED
  BY <1>1, <1>2, <1>3, LibreDeja, CPasoSalir

(* The end of a console kill, by the dispatch thread or by a thread left    *)
(* for it: the reset of the flag is still to come.                          *)
LEMMA CPasoDesalojarPorConsola ==
  ASSUME InvConsola, NEW p \in Procesos, DesalojarPorConsola(p)
  PROVE  InvConsola'
<1>1. /\ Sigue /\ cpu.recibida /\ cpu.pid = p
      /\ UNCHANGED <<desalojos, banderas, interrup, hilos_plp, pcp, hilos, finalizando>>
      /\ SalirDeExec(p) /\ cpu' = CpuLibre /\ lista_new' = lista_new
      /\ PasarA(p, "EXIT") /\ lista_exit' = lista_exit \cup {p}
      /\ LiberarEnMemoria(p) /\ UNCHANGED <<lista_ready, lista_blocked>>
      /\ limpiezas' = limpiezas \cup {<<"DISPATCH", p>>}
  BY DEF DesalojarPorConsola, QuitarDeExec
<1>2. /\ hilos_plp' \in Nat /\ flag_proceso_desalojado' \in BOOLEAN
      /\ hilos_pcp' \in [Hilos -> Nat] /\ hilos_despacho' \in [Hilos -> Nat]
      /\ UNCHANGED <<flag_finalizar_proceso, flag_exit>>
  BY <1>1 DEF InvConsola, TypeOK, pcp, banderas
<1>3. limpiezas' \subseteq Hilos \X Procesos
  <2>1. limpiezas \subseteq Hilos \X Procesos /\ <<"DISPATCH", p>> \in Hilos \X Procesos
    BY DEF InvConsola, TypeOK, Hilos
  <2> QED
    BY <1>1, <2>1
<1> QED
  BY <1>1, <1>2, <1>3, LibreDeja, CPasoSalir

LEMMA CPasoDesalojar ==
  ASSUME InvConsola, NEW p \in Procesos, Desalojar(p)
  PROVE  InvConsola'
<1>1. /\ p \in ToSet(lista_execute)
      /\ cpu.pid = NULL \/ cpu.instr = "SIN_RESPUESTA"
  BY DEF InvConsola, Desalojados, Desalojar
<1>2. /\ Sigue /\ desalojos' = desalojos \ {p}
      /\ UNCHANGED <<banderas, interrup, cpu, lista_new, lista_ready, lista_blocked,
                     hilos_plp, pcp, hilos, finalizando>>
      /\ SalirDeExec(p) /\ PasarA(p, "EXIT") /\ lista_exit' = lista_exit \cup {p}
      /\ LiberarEnMemoria(p) /\ limpiezas' = limpiezas \cup {<<"HILO", p>>}
  BY <1>1 DEF Desalojar, QuitarDeExec
<1>3. Orden' /\ lista_ready' \in Seq(Procesos) /\ lista_execute' \in Seq(Procesos)
  BY <1>1, <1>2, OrdenDesdeExec DEF InvConsola, Orden
<1>4. /\ estado' = [estado EXCEPT ![p] = "EXIT"] /\ estado \in [Procesos -> Estados]
      /\ en_memoria \subseteq Procesos /\ en_memoria' = en_memoria \ {p}
      /\ procesos_en_core' \in Int /\ grado' = grado
  BY <1>2 DEF InvConsola, TypeOK, PasarA, LiberarEnMemoria
<1>5. TypeOK'
  <2>1. /\ estado' \in [Procesos -> Estados] /\ limpiezas' \subseteq Hilos \X Procesos
        /\ lista_exit' \subseteq Procesos /\ desalojos' \subseteq Procesos
    BY <1>2, <1>4 DEF InvConsola, TypeOK, Estados, Hilos
  <2> QED
    BY <1>2, <1>3, <1>4, <2>1 DEF InvConsola, TypeOK, Sigue, pcp, hilos, banderas, interrup
<1>6. CpuDeExec'
  BY <1>1, <1>2 DEF InvConsola, CpuDeExec, Traps
<1>7. Desalojados'
  <2>1. ToSet(lista_execute) = {p}
    BY <1>1, UnoEnExec DEF InvConsola, Orden
  <2>2. desalojos' = {}
    BY <1>2, <2>1 DEF InvConsola, Desalojados
  <2> QED
    BY <2>2 DEF Desalojados
<1>8. MemoriaDeVivos'
  BY <1>4, MemoriaIgual DEF InvConsola
<1>9. Terminados'
  BY <1>2, <1>4, TerminadosIgual DEF InvConsola
<1> QED
  BY <1>2, <1>3, <1>5, <1>6, <1>7, <1>8, <1>9 DEF InvConsola, Orden, Sigue

-------------------------------------------------------------------------------
(* InvConsola is inductive: back to READY.                                  *)

(* The steps that end a wait, whether the PCB was still in BLOCKED or not.  *)
LEMMA CPasoVolver ==
  ASSUME InvConsola, NEW p \in Procesos, Sigue, NEW h \in Hilos, LlamarPcp(h),
         \/ /\ estado[p] \in {"BLOCKED", "EXIT"} /\ p \notin ToSet(lista_ready)
            /\ p \notin ToSet(lista_execute) /\ p \notin Esperan'
            /\ lista_blocked' = lista_blocked \ {p}
            /\ lista_ready' = Append(lista_ready, p) /\ PasarA(p, "READY")
            /\ UNCHANGED <<lista_new, lista_execute, lista_exit>>
         \/ UNCHANGED listas,
         durmiendo' \subseteq durmiendo, esperando' \subseteq esperando,
         fallos' = fallos, desbloqueos' \subseteq desbloqueos,
         fallo_en_curso' = fallo_en_curso,
         cpu' \in [pid : Procesos \cup {NULL}, instr : Instrucciones,
                   recibida : BOOLEAN, para : Procesos \cup {NULL}, motivo : Motivos,
                   flag : BOOLEAN],
         CpuDeExec', Desalojados',
         UNCHANGED <<core, hilos_plp, consola, banderas, interrup>>
  PROVE  InvConsola'
<1>1. hilos_pcp' \in [Hilos -> Nat] /\ hilos_despacho' \in [Hilos -> Nat]
  BY PcpLlamado DEF InvConsola
<1>2. Esperan' \subseteq Esperan /\ TypeOK /\ Orden
  BY DEF Esperan, InvConsola, Orden
<1>3. CASE /\ estado[p] \in {"BLOCKED", "EXIT"} /\ p \notin ToSet(lista_ready)
           /\ p \notin ToSet(lista_execute) /\ p \notin Esperan'
           /\ lista_blocked' = lista_blocked \ {p}
           /\ lista_ready' = Append(lista_ready, p) /\ PasarA(p, "READY")
           /\ UNCHANGED <<lista_new, lista_execute, lista_exit>>
  <2>1. Orden' /\ lista_ready' \in Seq(Procesos)
    BY <1>2, <1>3, OrdenVolver
  <2>2. estado' = [estado EXCEPT ![p] = "READY"] /\ estado' \in [Procesos -> Estados]
    BY <1>3 DEF InvConsola, TypeOK, PasarA, Estados
  <2>3. TypeOK'
    BY <1>1, <1>3, <2>1, <2>2 DEF InvConsola, TypeOK, Sigue, core, consola, banderas,
       interrup
  <2>4. MemoriaDeVivos'
    BY <2>2 DEF InvConsola, TypeOK, MemoriaDeVivos, core
  <2>5. Terminados'
    BY <1>3, <2>2, TerminadosIgual DEF InvConsola, TypeOK, consola
  <2> QED
    BY <2>1, <2>3, <2>4, <2>5 DEF InvConsola, Orden, Sigue
<1>4. CASE UNCHANGED listas
  <2>1. UNCHANGED <<estado, lista_new, lista_ready, lista_execute, lista_blocked, lista_exit>>
    BY <1>4 DEF listas
  <2>2. Orden'
    BY <1>2, <2>1, OrdenQuitar DEF Orden, ExecUnico
  <2>3. TypeOK'
    BY <1>1, <2>1 DEF InvConsola, TypeOK, Sigue, core, consola, banderas, interrup
  <2>4. MemoriaDeVivos'
    BY <2>1 DEF InvConsola, MemoriaDeVivos, core
  <2>5. Terminados'
    BY <2>1, TerminadosIgual DEF InvConsola, consola
  <2> QED
    BY <2>2, <2>3, <2>4, <2>5 DEF InvConsola, Orden, Sigue
<1> QED
  BY <1>3, <1>4

LEMMA CPasoDespertar ==
  ASSUME InvConsola, NEW p \in Procesos, Despertar(p)
  PROVE  InvConsola'
<1>1. /\ p \in durmiendo /\ p \in Esperan /\ p # NULL
  BY ConstantesPlanificador DEF Despertar, Esperan
<1>2. /\ Sigue /\ durmiendo' = durmiendo \ {p} /\ lista_blocked' = lista_blocked \ {p}
      /\ lista_ready' = Append(lista_ready, p) /\ PasarA(p, "READY")
      /\ LlamarPcp("HILO") /\ "HILO" \in Hilos
      /\ UNCHANGED <<lista_new, lista_execute, lista_exit, core, hilos_plp,
                 esperando, fallos, fallo_en_curso, desbloqueos, consola, banderas,
                 interrup, cpu>>
  BY DEF Despertar, Hilos
<1>3. /\ estado[p] \in {"BLOCKED", "EXIT"} /\ p \notin ToSet(lista_ready)
      /\ p \notin ToSet(lista_execute)
      /\ p \notin esperando \cup fallos \cup desbloqueos \cup {fallo_en_curso}
  BY <1>1 DEF InvConsola, EsperasUnicas
<1>4. p \notin Esperan'
  BY <1>2, <1>3 DEF Esperan
<1>5. CpuDeExec' /\ Desalojados'
  BY <1>2, CpuIgual DEF InvConsola, core, consola
<1>6. cpu' \in [pid : Procesos \cup {NULL}, instr : Instrucciones,
                recibida : BOOLEAN, para : Procesos \cup {NULL}, motivo : Motivos,
                flag : BOOLEAN]
  BY <1>2 DEF InvConsola, TypeOK
<1>7. durmiendo' \subseteq durmiendo /\ UNCHANGED <<core, hilos_plp, consola, banderas, interrup>>
  BY <1>2
<1> QED
  BY <1>2, <1>3, <1>4, <1>5, <1>6, <1>7, CPasoVolver

LEMMA CPasoConceder ==
  ASSUME InvConsola, NEW p \in Procesos, Conceder(p) \/ Desbloquear(p)
  PROVE  InvConsola'
<1>1. /\ Sigue /\ DesbloquearPcb(p, "HILO") /\ "HILO" \in Hilos /\ LlamarPcp("HILO")
      /\ UNCHANGED <<core, hilos_plp, durmiendo, fallos, fallo_en_curso,
                     consola, banderas, interrup, cpu>>
      /\ \/ esperando' = esperando \ {p} /\ p \in esperando
            /\ desbloqueos' = desbloqueos
         \/ desbloqueos' = desbloqueos \ {p} /\ p \in desbloqueos
            /\ esperando' = esperando
  BY DEF Conceder, Desbloquear, DesbloquearPcb, Hilos
<1>2. p \in Esperan /\ p # NULL
  BY <1>1, ConstantesPlanificador DEF Esperan
<1>3. /\ estado[p] \in {"BLOCKED", "EXIT"} /\ p \notin ToSet(lista_ready)
      /\ p \notin ToSet(lista_execute)
      /\ p \in esperando => p \notin durmiendo \cup fallos \cup desbloqueos \cup {fallo_en_curso}
      /\ p \in desbloqueos => p \notin durmiendo \cup fallos \cup esperando \cup {fallo_en_curso}
  BY <1>2 DEF InvConsola, EsperasUnicas
<1>4. p \notin Esperan'
  BY <1>1, <1>3 DEF Esperan
<1>5. lista_execute' = lista_execute
  BY <1>1 DEF DesbloquearPcb, listas
<1>6. CpuDeExec' /\ Desalojados'
  BY <1>1, <1>5, CpuIgual DEF InvConsola, core, consola
<1>7. cpu' \in [pid : Procesos \cup {NULL}, instr : Instrucciones,
                recibida : BOOLEAN, para : Procesos \cup {NULL}, motivo : Motivos,
                flag : BOOLEAN]
  BY <1>1 DEF InvConsola, TypeOK
<1>8. \/ /\ lista_blocked' = lista_blocked \ {p}
         /\ lista_ready' = Append(lista_ready, p) /\ PasarA(p, "READY")
         /\ UNCHANGED <<lista_new, lista_execute, lista_exit>>
      \/ UNCHANGED listas
  BY <1>1 DEF DesbloquearPcb
<1>9. /\ durmiendo' \subseteq durmiendo /\ esperando' \subseteq esperando
      /\ fallos' = fallos /\ desbloqueos' \subseteq desbloqueos
      /\ fallo_en_curso' = fallo_en_curso
      /\ UNCHANGED <<core, hilos_plp, consola, banderas, interrup>>
  BY <1>1
<1> QED
  BY <1>1, <1>3, <1>4, <1>6, <1>7, <1>8, <1>9, CPasoVolver

LEMMA CPasoLiberadora ==
  ASSUME InvConsola, NEW p \in Procesos, NEW q \in Procesos, AtenderLiberadora(p, q)
  PROVE  InvConsola'
<1>1. /\ Sigue /\ DesbloquearPcb(q, "DISPATCH") /\ "DISPATCH" \in Hilos
      /\ LlamarPcp("DISPATCH") /\ cpu.recibida /\ cpu.pid = p
      /\ UNCHANGED <<core, hilos_plp, durmiendo, fallos, fallo_en_curso, desbloqueos,
                     consola, banderas, interrup>>
      /\ esperando' = esperando \ {q} /\ q \in esperando
      /\ cpu' = [cpu EXCEPT !.instr = "NINGUNA", !.recibida = FALSE]
  BY DEF AtenderLiberadora, AtenderTrap, Atender, DesbloquearPcb, Hilos, banderas
<1>2. q \in Esperan /\ q # NULL
  BY <1>1, ConstantesPlanificador DEF Esperan
<1>3. /\ estado[q] \in {"BLOCKED", "EXIT"} /\ q \notin ToSet(lista_ready)
      /\ q \notin ToSet(lista_execute)
      /\ q \notin durmiendo \cup fallos \cup desbloqueos \cup {fallo_en_curso}
  BY <1>1, <1>2 DEF InvConsola, EsperasUnicas
<1>4. q \notin Esperan'
  BY <1>1, <1>3 DEF Esperan
<1>5. /\ lista_execute' = lista_execute /\ ToSet(lista_execute) = {p}
      /\ desalojos = {} /\ desalojos' = {}
  BY <1>1, RecibidaDeExec, UnoEnExec DEF InvConsola, Orden, DesbloquearPcb, listas, consola
<1>6. /\ cpu' \in [pid : Procesos \cup {NULL}, instr : Instrucciones,
                   recibida : BOOLEAN, para : Procesos \cup {NULL}, motivo : Motivos,
                   flag : BOOLEAN]
      /\ cpu'.pid = p /\ cpu'.instr = "NINGUNA" /\ ~cpu'.recibida /\ p # NULL
  BY <1>1, ConstantesPlanificador DEF InvConsola, TypeOK, Instrucciones
<1>7. CpuDeExec' /\ Desalojados'
  BY <1>5, <1>6 DEF CpuDeExec, Desalojados, Traps
<1>8. \/ /\ lista_blocked' = lista_blocked \ {q}
         /\ lista_ready' = Append(lista_ready, q) /\ PasarA(q, "READY")
         /\ UNCHANGED <<lista_new, lista_execute, lista_exit>>
      \/ UNCHANGED listas
  BY <1>1 DEF DesbloquearPcb
<1>9. /\ durmiendo' \subseteq durmiendo /\ esperando' \subseteq esperando
      /\ fallos' = fallos /\ desbloqueos' \subseteq desbloqueos
      /\ fallo_en_curso' = fallo_en_curso
      /\ UNCHANGED <<core, hilos_plp, consola, banderas, interrup>>
  BY <1>1
<1> QED
  BY <1>1, <1>3, <1>4, <1>6, <1>7, <1>8, <1>9, CPasoVolver

LEMMA CPasoPageFault ==
  ASSUME InvConsola, (\E p \in Procesos : AtenderPageFault(p)) \/ RespuestaPageFault
  PROVE  InvConsola'
<1>1. /\ Sigue /\ UNCHANGED <<listas, core, hilos_plp, pcp, durmiendo, esperando,
                              consola, banderas, interrup, cpu>>
      /\ \/ \E p \in fallos : /\ fallo_en_curso = NULL /\ fallos' = fallos \ {p}
                              /\ fallo_en_curso' = p /\ desbloqueos' = desbloqueos
         \/ /\ fallo_en_curso # NULL /\ fallo_en_curso' = NULL /\ fallos' = fallos
            /\ desbloqueos' = desbloqueos \cup {fallo_en_curso}
  BY DEF AtenderPageFault, RespuestaPageFault
<1>2. Orden'
  BY <1>1, OrdenPageFault DEF InvConsola, Orden
<1>3. TypeOK'
  <2>1. /\ fallos' \subseteq Procesos /\ desbloqueos' \subseteq Procesos
        /\ fallo_en_curso' \in Procesos \cup {NULL}
    BY <1>1 DEF InvConsola, TypeOK
  <2> QED
    BY <1>1, <2>1 DEF InvConsola, TypeOK, Sigue, listas, core, pcp, consola, banderas,
       interrup
<1>4. UNCHANGED <<estado, lista_execute, lista_exit, en_memoria, cpu, desalojos, finalizando>>
  BY <1>1 DEF listas, core, consola
<1>5. CpuDeExec' /\ Desalojados'
  BY <1>4, CpuIgual DEF InvConsola
<1>6. MemoriaDeVivos' /\ Terminados'
  BY <1>4, MemoriaIgual, TerminadosIgual DEF InvConsola
<1> QED
  BY <1>1, <1>2, <1>3, <1>5, <1>6 DEF InvConsola, Orden, Sigue

-------------------------------------------------------------------------------
(* InvConsola is inductive: the phases of FINALIZAR_PROCESO.                *)

(* Taking a PCB out of its list leaves the list without repetitions.        *)
LEMMA SinElla ==
  ASSUME NEW s \in Seq(Procesos), IsInjective(s), NEW p \in ToSet(s)
  PROVE  /\ RemoveFirst(s, p) \in Seq(Procesos) /\ IsInjective(RemoveFirst(s, p))
         /\ ToSet(RemoveFirst(s, p)) \subseteq ToSet(s)
BY ListaSinElemento

(* The step of the thread of one command.                                   *)
Anota(c, p, f) == finalizando' = [finalizando EXCEPT ![c] = [pid |-> p, fase |-> f]]

LEMMA TerminadosAnota ==
  ASSUME TypeOK, Terminados, NEW c \in Comandos, NEW p \in Procesos \cup {NULL},
         NEW f \in Fases, Anota(c, p, f),
         f \notin {"SIN_DAR", "FIN"} => p \in Procesos,
         f = "EXIT" => p \in lista_exit', lista_exit \subseteq lista_exit',
         \A q \in Procesos : \/ estado'[q] = estado[q]
                             \/ estado'[q] # "EXIT" \/ q \in lista_exit'
  PROVE  /\ finalizando' \in [Comandos -> [pid : Procesos \cup {NULL}, fase : Fases]]
         /\ Terminados'
<1>1. /\ finalizando \in [Comandos -> [pid : Procesos \cup {NULL}, fase : Fases]]
      /\ [pid |-> p, fase |-> f] \in [pid : Procesos \cup {NULL}, fase : Fases]
  BY DEF TypeOK
<1>2. finalizando' \in [Comandos -> [pid : Procesos \cup {NULL}, fase : Fases]]
  BY <1>1 DEF Anota
<1>3. /\ finalizando'[c].pid = p /\ finalizando'[c].fase = f
      /\ \A d \in Comandos : d # c => finalizando'[d] = finalizando[d]
  BY <1>1 DEF Anota
<1>4. \A q \in Procesos : estado'[q] = "EXIT" => q \in lista_exit'
  BY DEF Terminados
<1>5. \A d \in Comandos :
        /\ finalizando'[d].fase \notin {"SIN_DAR", "FIN"} => finalizando'[d].pid \in Procesos
        /\ finalizando'[d].fase = "EXIT" => finalizando'[d].pid \in lista_exit'
  BY <1>3 DEF Terminados
<1> QED
  BY <1>2, <1>4, <1>5 DEF Terminados

(* A thread goes on to its next phase, the PID being the same.              *)
LEMMA AnotaFase ==
  ASSUME TypeOK, NEW c \in Comandos, NEW f \in Fases, IrA(c, f)
  PROVE  Anota(c, finalizando[c].pid, f)
<1>1. finalizando[c] = [pid |-> finalizando[c].pid, fase |-> finalizando[c].fase]
  BY DEF TypeOK
<1>2. [finalizando[c] EXCEPT !.fase = f] = [pid |-> finalizando[c].pid, fase |-> f]
  BY <1>1
<1>3. finalizando' = [finalizando EXCEPT ![c] = [finalizando[c] EXCEPT !.fase = f]]
  BY Zenon DEF IrA
<1> QED
  BY <1>2, <1>3 DEF Anota

(* A thread that has begun knows which PCB it is to end.                    *)
LEMMA PidDelComando ==
  ASSUME Terminados, NEW c \in Comandos, NEW f \in Estados \cup {"HALLADO", "MARCADO"}, En(c, f)
  PROVE  finalizando[c].pid \in Procesos
BY DEF Terminados, En, Estados

(* The phases that move no PCB.                                             *)
LEMMA CPasoComando ==
  ASSUME InvConsola, Sigue, NEW c \in Comandos, NEW p \in Procesos \cup {NULL},
         NEW f \in Fases, Anota(c, p, f),
         f \notin {"SIN_DAR", "FIN"} => p \in Procesos,
         f = "EXIT" => p \in lista_exit,
         flag_finalizar_proceso' \in BOOLEAN, sem_interrupcion' \in Nat,
         UNCHANGED <<listas, core, hilos_plp, pcp, hilos, desalojos, limpiezas,
                     flag_proceso_desalojado, flag_exit, interrumpido, temporizador, cpu>>
  PROVE  InvConsola'
<1>1. UNCHANGED <<estado, lista_execute, lista_exit>>
  BY DEF listas
<1>2. /\ finalizando' \in [Comandos -> [pid : Procesos \cup {NULL}, fase : Fases]]
      /\ Terminados'
  BY <1>1, TerminadosAnota DEF InvConsola
<1>3. TypeOK'
  BY <1>2 DEF InvConsola, TypeOK, Sigue, listas, core, pcp, hilos
<1>4. CpuDeExec' /\ Desalojados'
  BY <1>1, CpuIgual DEF InvConsola
<1> QED
  BY <1>2, <1>3, <1>4, ConsolaQuieta DEF core, Sigue

LEMMA CPasoBuscar ==
  ASSUME InvConsola, NEW c \in Comandos, NEW p \in Procesos, FinalizarBuscar(c, p)
  PROVE  InvConsola'
<1>1. /\ Sigue /\ BuscarYRemover(p)
      /\ Anota(c, p, "HALLADO")
      /\ UNCHANGED <<core, hilos_plp, pcp, hilos, desalojos, limpiezas, banderas,
                     interrup, cpu, estado, lista_execute, lista_exit>>
  BY DEF FinalizarBuscar, BuscarYRemover, Anota
<1>2. /\ lista_new \in Seq(Procesos) /\ lista_ready \in Seq(Procesos)
      /\ IsInjective(lista_new) /\ IsInjective(lista_ready)
  BY DEF InvConsola, TypeOK, ExecUnico
<1>3. /\ lista_new' \in Seq(Procesos) /\ lista_ready' \in Seq(Procesos)
      /\ IsInjective(lista_new') /\ IsInjective(lista_ready')
      /\ ToSet(lista_new') \subseteq ToSet(lista_new)
      /\ ToSet(lista_ready') \subseteq ToSet(lista_ready)
      /\ lista_blocked' \subseteq lista_blocked
  <2>1. CASE p \in ToSet(lista_new) /\ lista_new' = RemoveFirst(lista_new, p)
             /\ UNCHANGED <<lista_ready, lista_blocked>>
    BY <1>2, <2>1, SinElla
  <2>2. CASE p \in ToSet(lista_ready) /\ lista_ready' = RemoveFirst(lista_ready, p)
             /\ UNCHANGED <<lista_new, lista_blocked>>
    BY <1>2, <2>2, SinElla
  <2>3. CASE lista_blocked' \subseteq lista_blocked /\ UNCHANGED <<lista_new, lista_ready>>
    BY <1>2, <2>3
  <2>4. \/ p \in ToSet(lista_new) /\ lista_new' = RemoveFirst(lista_new, p)
           /\ UNCHANGED <<lista_ready, lista_blocked>>
        \/ p \in ToSet(lista_ready) /\ lista_ready' = RemoveFirst(lista_ready, p)
           /\ UNCHANGED <<lista_new, lista_blocked>>
        \/ lista_blocked' \subseteq lista_blocked /\ UNCHANGED <<lista_new, lista_ready>>
    BY <1>1 DEF BuscarYRemover
  <2> QED
    BY <2>1, <2>2, <2>3, <2>4
<1>4. Orden'
  BY <1>1, <1>3, OrdenQuitar DEF InvConsola, Orden, hilos
<1>6. /\ finalizando' \in [Comandos -> [pid : Procesos \cup {NULL}, fase : Fases]]
      /\ Terminados'
  BY <1>1, TerminadosAnota DEF InvConsola, Fases
<1>5. TypeOK'
  <2>1. /\ finalizando' \in [Comandos -> [pid : Procesos \cup {NULL}, fase : Fases]]
        /\ lista_blocked' \subseteq Procesos
    BY <1>1, <1>3, <1>6 DEF InvConsola, TypeOK
  <2> QED
    BY <1>1, <1>3, <2>1 DEF InvConsola, TypeOK, Sigue, core, pcp, hilos, banderas, interrup
<1>7. CpuDeExec' /\ Desalojados' /\ MemoriaDeVivos'
  BY <1>1, CpuIgual, MemoriaIgual DEF InvConsola, core
<1> QED
  BY <1>1, <1>4, <1>5, <1>6, <1>7 DEF InvConsola, Orden, Sigue

LEMMA CPasoMarcar ==
  ASSUME InvConsola, NEW c \in Comandos, FinalizarMarcar(c)
  PROVE  InvConsola'
<1>1. /\ Sigue /\ IrA(c, "MARCADO") /\ En(c, "HALLADO")
      /\ UNCHANGED <<listas, core, hilos_plp, pcp, hilos, desalojos, limpiezas,
                     flag_proceso_desalojado, flag_exit, interrup, cpu>>
      /\ flag_finalizar_proceso' =
           (\/ flag_finalizar_proceso
            \/ estado[finalizando[c].pid] = "EXEC" /\ flag_proceso_desalojado)
  BY DEF FinalizarMarcar
<1>2. finalizando[c].pid \in Procesos
  BY <1>1, PidDelComando DEF InvConsola
<1>3. "MARCADO" \in Fases /\ Anota(c, finalizando[c].pid, "MARCADO")
  BY <1>1, AnotaFase DEF InvConsola, Fases
<1>4. flag_finalizar_proceso' \in BOOLEAN
  BY <1>1 DEF InvConsola, TypeOK
<1>5. sem_interrupcion' \in Nat /\ UNCHANGED <<interrumpido, temporizador>>
  BY <1>1 DEF InvConsola, TypeOK, interrup
<1> QED
  BY <1>1, <1>2, <1>3, <1>4, <1>5, CPasoComando

(* estado is read with no mutex: EXIT, only of a PCB of that list.          *)
LEMMA CPasoLeer ==
  ASSUME InvConsola, NEW c \in Comandos, FinalizarLeer(c)
  PROVE  InvConsola'
<1> DEFINE p == finalizando[c].pid
<1>1. /\ Sigue /\ IrA(c, estado[p]) /\ En(c, "MARCADO")
      /\ UNCHANGED <<listas, core, hilos_plp, pcp, hilos, desalojos, limpiezas,
                     banderas, interrup, cpu>>
  BY DEF FinalizarLeer
<1>2. p \in Procesos
  BY <1>1, PidDelComando DEF InvConsola
<1>3. estado[p] \in Fases
  BY <1>2 DEF InvConsola, TypeOK, Fases
<1>4. Anota(c, p, estado[p])
  BY <1>1, <1>3, AnotaFase DEF InvConsola
<1>5. estado[p] = "EXIT" => p \in lista_exit
  BY <1>2 DEF InvConsola, Terminados
<1>6. /\ flag_finalizar_proceso' \in BOOLEAN /\ sem_interrupcion' \in Nat
      /\ UNCHANGED <<flag_proceso_desalojado, flag_exit, interrumpido, temporizador>>
  BY <1>1 DEF InvConsola, TypeOK, banderas, interrup
<1> HIDE DEF p
<1> QED
  BY <1>1, <1>2, <1>3, <1>4, <1>5, <1>6, CPasoComando

LEMMA CPasoFinalizarExec ==
  ASSUME InvConsola, NEW c \in Comandos, FinalizarExec(c)
  PROVE  InvConsola'
<1>1. /\ Sigue /\ Anota(c, NULL, "FIN")
      /\ UNCHANGED <<listas, core, hilos_plp, pcp, hilos, desalojos, limpiezas,
                 flag_proceso_desalojado, flag_exit, interrumpido, temporizador, cpu>>
      /\ \/ flag_finalizar_proceso' = TRUE /\ PostInterrupcion
         \/ UNCHANGED <<flag_finalizar_proceso, sem_interrupcion>>
  BY DEF FinalizarExec, TerminarComando, Anota
<1>2. flag_finalizar_proceso' \in BOOLEAN
  BY <1>1 DEF InvConsola, TypeOK
<1>3. sem_interrupcion' \in Nat
  BY <1>1 DEF InvConsola, TypeOK, PostInterrupcion
<1>4. "FIN" \in Fases /\ "FIN" # "EXIT"
  BY DEF Fases
<1> QED
  BY <1>1, <1>2, <1>3, <1>4, CPasoComando

(* EXIT was read of a PCB that is in the list EXIT: it does not fail.       *)
LEMMA CPasoFinalizarExit ==
  ASSUME InvConsola, NEW c \in Comandos, FinalizarExit(c)
  PROVE  InvConsola'
<1>1. finalizando[c].pid \in lista_exit
  BY DEF InvConsola, Terminados, FinalizarExit, En
<1>2. /\ Sigue /\ Anota(c, NULL, "FIN")
      /\ UNCHANGED <<listas, core, hilos_plp, pcp, hilos, desalojos, limpiezas,
                 flag_proceso_desalojado, flag_exit, interrumpido, temporizador, cpu,
                 flag_finalizar_proceso, sem_interrupcion>>
  BY <1>1 DEF FinalizarExit, TerminarComando, Anota
<1>3. flag_finalizar_proceso' \in BOOLEAN /\ sem_interrupcion' \in Nat
  BY <1>2 DEF InvConsola, TypeOK
<1>4. "FIN" \in Fases /\ "FIN" # "EXIT"
  BY DEF Fases
<1> QED
  BY <1>2, <1>3, <1>4, CPasoComando

(* READY or BLOCKED, when it was read -> EXIT, wherever the PCB is by then. *)
LEMMA CPasoFinalizarListo ==
  ASSUME InvConsola, NEW c \in Comandos, FinalizarListo(c)
  PROVE  InvConsola'
<1> DEFINE p == finalizando[c].pid
<1>1. /\ Sigue /\ PasarA(p, "EXIT") /\ Anota(c, NULL, "FIN")
      /\ UNCHANGED <<pcp, hilos, desalojos, limpiezas, flag_proceso_desalojado,
                     flag_exit, interrumpido, temporizador, cpu,
                     lista_new, lista_ready, lista_execute, lista_blocked,
                     flag_finalizar_proceso, sem_interrupcion>>
      /\ lista_exit' = lista_exit \cup {p} /\ LiberarEnMemoria(p) /\ LanzarPlp
  BY DEF FinalizarListo, TerminarComando, Anota
<1>2. p \in Procesos /\ estado[p] # "NEW"
  BY <1>1 DEF LiberarEnMemoria, InvConsola, TypeOK, MemoriaDeVivos
<1> HIDE DEF p
<1>3. Orden'
  BY <1>1, <1>2, OrdenFinalizar DEF InvConsola, Orden
<1>4. /\ estado' = [estado EXCEPT ![p] = "EXIT"] /\ estado' \in [Procesos -> Estados]
      /\ en_memoria' = en_memoria \ {p} /\ procesos_en_core' \in Int /\ grado' = grado
  BY <1>1 DEF InvConsola, TypeOK, PasarA, LiberarEnMemoria, Estados
<1>5. \A q \in Procesos : estado'[q] = estado[q] \/ q \in lista_exit'
  BY <1>1, <1>4 DEF InvConsola, TypeOK
<1>6. /\ finalizando' \in [Comandos -> [pid : Procesos \cup {NULL}, fase : Fases]]
      /\ Terminados'
  <2>1. "FIN" \in Fases /\ "FIN" # "EXIT" /\ lista_exit \subseteq lista_exit'
    BY <1>1 DEF Fases
  <2> QED
    BY <1>1, <1>5, <2>1, TerminadosAnota DEF InvConsola
<1>7. TypeOK'
  <2>1. lista_exit' \subseteq Procesos /\ hilos_plp' \in Nat
    BY <1>1, <1>2 DEF InvConsola, TypeOK, LanzarPlp
  <2> QED
    BY <1>1, <1>4, <1>6, <2>1 DEF InvConsola, TypeOK, Sigue, pcp, hilos
<1>8. CpuDeExec' /\ Desalojados'
  BY <1>1, CpuIgual DEF InvConsola
<1>9. MemoriaDeVivos'
  BY <1>4, MemoriaIgual DEF InvConsola, TypeOK
<1> QED
  BY <1>1, <1>3, <1>6, <1>7, <1>8, <1>9 DEF InvConsola, Orden, Sigue

(* The reset of the flag.                                                   *)
LEMMA CPasoLimpiar ==
  ASSUME InvConsola, NEW p \in Procesos, NEW h \in Hilos, Limpiar(p, h)
  PROVE  InvConsola'
<1>1. /\ Sigue /\ limpiezas' = limpiezas \ {<<h, p>>}
      /\ flag_proceso_desalojado' = FALSE /\ flag_finalizar_proceso' = FALSE /\ LanzarPlp
      /\ UNCHANGED <<listas, core, pcp, hilos, desalojos, finalizando, flag_exit,
                     interrup, cpu>>
  BY DEF Limpiar
<1>2. TypeOK'
  <2>1. hilos_plp' \in Nat /\ limpiezas' \subseteq Hilos \X Procesos
    BY <1>1 DEF InvConsola, TypeOK, LanzarPlp
  <2> QED
    BY <1>1, <2>1 DEF InvConsola, TypeOK, Sigue, listas, core, pcp, hilos, interrup
<1> QED
  BY <1>1, <1>2, ConsolaQuietaSinCpu DEF core, Sigue

-------------------------------------------------------------------------------
(* The theorems.                                                            *)

LEMMA InicioConsola ==
  ASSUME Init
  PROVE  InvConsola
<1>1. TypeOK
  BY InicioProcesos DEF InvProcesos
<1>2. /\ ExecUnico /\ Lugares /\ MemoriaDeVivos /\ Terminados /\ kernel # "EXIT_FAILURE"
  BY DEF Init, ExecUnico, Lugares, MemoriaDeVivos, Terminados, ToSet, IsInjective
<1>3. EsperasUnicas
  BY DEF Init, EsperasUnicas, Esperan
<1>4. CpuDeExec /\ Desalojados
  BY DEF Init, CpuDeExec, Desalojados, CpuLibre, Traps
<1> QED
  BY <1>1, <1>2, <1>3, <1>4 DEF InvConsola

LEMMA PasoNextProcesos ==
  ASSUME InvConsola, NextProcesos
  PROVE  InvConsola'
<1>1. ASSUME NEW p \in Procesos,
             \/ IniciarProceso(p) \/ Atendida(p) \/ Reubicar(p) \/ Despertar(p)
             \/ AtenderPageFault(p) \/ Desbloquear(p) \/ Conceder(p)
      PROVE  InvConsola'
  BY <1>1, CPasoIniciar, CPasoBloqueantes, CPasoInmediata, CPasoAbandonar, CPasoPlpExit, CPasoLiberadora,
     CPasoReubicar, CPasoDespertar, CPasoPageFault, CPasoConceder, Zenon DEF Atendida
<1>2. ASSUME NEW g \in Grados, CambiarGrado(g) PROVE InvConsola'
  BY <1>2, CPasoCambiarGrado
<1>3. ASSUME NEW h \in Hilos,
             \/ PcpPlanificar(h) \/ AtenderRRFIFO(h) \/ AtenderPrioridades(h)
             \/ CompararSinElegida(h)
      PROVE  InvConsola'
  BY <1>3, CPasoPcpPlanificar, CPasoRRFIFO, CPasoPrioridades, CPasoCaer, Zenon
  DEF CompararSinElegida
<1>4. ASSUME Recibir \/ (\E i \in Traps : Atrapar(i)) \/ Interrumpirse \/ PlpPlanifica
      PROVE  InvConsola'
  BY <1>4, CPasoRecibir, CPasoAtrapar, CPasoPlpPlanifica, Zenon
<1>5. ASSUME \/ FinDeQuantum \/ LeerEjecutando \/ InterruptSinProceso
             \/ EnviarInterrupcion \/ InterruptSinContexto
      PROVE  InvConsola'
  BY <1>5, CPasoInterrupciones, CPasoEnviarInterrupcion, CPasoCaer, Zenon
  DEF InterruptSinProceso, InterruptSinContexto
<1>6. ASSUME RespuestaPageFault \/ FetchSinProceso \/ PageFaultSinProceso
      PROVE  InvConsola'
  BY <1>6, CPasoPageFault, CPasoCaer, Zenon DEF FetchSinProceso, PageFaultSinProceso
<1> QED
  BY <1>1, <1>2, <1>3, <1>4, <1>5, <1>6, Zenon DEF NextProcesos

LEMMA PasoNextFinalizar ==
  ASSUME InvConsola, NextFinalizar
  PROVE  InvConsola'
<1>1. ASSUME NEW c \in Comandos,
             \/ \E p \in Procesos : FinalizarBuscar(c, p)
             \/ FinalizarMarcar(c) \/ FinalizarLeer(c)
             \/ FinalizarListo(c) \/ FinalizarExec(c) \/ FinalizarExit(c)
      PROVE  InvConsola'
  BY <1>1, CPasoBuscar, CPasoMarcar, CPasoLeer, CPasoFinalizarListo, CPasoFinalizarExec,
     CPasoFinalizarExit, Zenon
<1>2. ASSUME NEW p \in Procesos, FinalizarDesconocido(p) \/ LiberarSinEstructuras(p)
      PROVE  InvConsola'
  BY <1>2, CPasoCaer, Zenon DEF FinalizarDesconocido, LiberarSinEstructuras
<1>3. ASSUME NEW p \in Procesos,
             \/ AtenderConsolaPendiente(p) \/ DesalojarPorConsola(p) \/ Desalojar(p)
             \/ \E h \in Hilos : Limpiar(p, h)
      PROVE  InvConsola'
  BY <1>3, CPasoConsolaPendiente, CPasoDesalojarPorConsola, CPasoDesalojar, CPasoLimpiar, Zenon
<1> QED
  BY <1>1, <1>2, <1>3, Zenon DEF NextFinalizar

LEMMA PasoConsola ==
  ASSUME InvConsola, [NextProcesos \/ NextFinalizar]_vars
  PROVE  InvConsola'
<1>1. CASE UNCHANGED vars
  <2>1. UNCHANGED <<listas, core, kernel, algoritmo, hilos_plp, pcp, hilos, consola,
                    banderas, interrup, cpu>>
    BY <1>1 DEF vars
  <2>2. TypeOK'
    BY <2>1 DEF InvConsola, TypeOK, listas, core, pcp, hilos, consola, banderas, interrup
  <2> QED
    BY <2>1, <2>2, ConsolaQuietaSinCpu DEF InvConsola, core, consola
<1> QED
  BY <1>1, PasoNextProcesos, PasoNextFinalizar

(* With FINALIZAR_PROCESO, for any number of processes and any algorithm:   *)
(* the parts of InvConsola, which make one another inductive.               *)
THEOREM InvariantesConsola == Spec => []InvConsola
BY InicioConsola, PasoConsola, PTL DEF Spec

(* EXEC holds one PCB at most, whoever has estado EXEC is in it, and neither *)
(* NEW nor READY holds a PCB twice, though the commands act on an estado     *)
(* they read before they waited for the mutexes, and may end in EXEC a PCB  *)
(* that they read as READY.                                                 *)
COROLLARY ExecSiempreUnico == Spec => []ExecUnico
<1>1. InvConsola => ExecUnico
  BY DEF InvConsola
<1> QED
  BY <1>1, InvariantesConsola, PTL

(* What the dispatch thread and the _desalojar_proceso threads act on is    *)
(* still in EXEC when they do, and a PCB read as EXIT is in that list, so   *)
(* that no exit(EXIT_FAILURE) of the Kernel is reached.                     *)
COROLLARY LoAtendidoSiempreExiste == Spec => []LoAtendidoExiste
<1>1. InvConsola => LoAtendidoExiste
  <2> SUFFICES ASSUME InvConsola PROVE LoAtendidoExiste
    OBVIOUS
  <2>1. cpu.recibida => {cpu.pid} = ToSet(lista_execute)
    BY RecibidaDeExec, UnoEnExec DEF InvConsola, Orden
  <2> QED
    BY <2>1 DEF InvConsola, LoAtendidoExiste, Desalojados
<1> QED
  BY <1>1, InvariantesConsola, PTL

(* Memoria keeps structures only of processes admitted and not ended,       *)
(* however a kill, a page fault and a wake-up of one process interleave.    *)
COROLLARY MemoriaSiempreDeVivos == Spec => []MemoriaDeVivos
<1>1. InvConsola => MemoriaDeVivos
  BY DEF InvConsola
<1> QED
  BY <1>1, InvariantesConsola, PTL

===============================================================================
