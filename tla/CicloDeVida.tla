----------------------------- MODULE CicloDeVida -----------------------------
(***************************************************************************)
(* What the Kernel promises of a process, with no threads, flags or        *)
(* messages: the five-state diagram, a degree of multiprogramming that     *)
(* bounds the processes in READY, EXEC and BLOCKED together, admission in  *)
(* order of arrival, one process in EXEC and the planning algorithm's      *)
(* choice of which. Planificador is shown to implement it.                 *)
(***************************************************************************)
EXTENDS Integers, Sequences, FiniteSets, SequencesExt

CONSTANTS Procesos, Prioridad, Grados, GradoInicial, Algoritmos

VARIABLES
  estado,     (* state of each process                                     *)
  nuevos,     (* processes in NEW, in order of arrival                     *)
  listos,     (* processes in READY, in order of arrival                   *)
  grado,      (* degree of multiprogramming                                *)
  algoritmo

varsCiclo == <<estado, nuevos, listos, grado, algoritmo>>

EnElCore == {p \in Procesos : estado[p] \in {"READY", "EXEC", "BLOCKED"}}
Pasa(p, desde, hasta) == estado[p] = desde /\ estado' = [estado EXCEPT ![p] = hasta]

InitCiclo ==
  /\ estado = [p \in Procesos |-> "SIN_CREAR"]
  /\ nuevos = <<>> /\ listos = <<>>
  /\ grado = GradoInicial /\ algoritmo \in Algoritmos

Crear(p) ==
  /\ Pasa(p, "SIN_CREAR", "NEW")
  /\ nuevos' = Append(nuevos, p)
  /\ UNCHANGED <<listos, grado, algoritmo>>

AdmitirSiguiente ==
  /\ nuevos # <<>>
  /\ Cardinality(EnElCore) < grado
  /\ Pasa(Head(nuevos), "NEW", "READY")
  /\ listos' = Append(listos, Head(nuevos))
  /\ nuevos' = Tail(nuevos)
  /\ UNCHANGED <<grado, algoritmo>>

Elegible(p) ==
  IF algoritmo = "PRIORIDADES"
  THEN \A i \in 1..Len(listos) : Prioridad[p] <= Prioridad[listos[i]]
  ELSE p = Head(listos)

Despachar(p) ==
  /\ \A q \in Procesos : estado[q] # "EXEC"
  /\ listos # <<>>
  /\ Elegible(p)
  /\ Pasa(p, "READY", "EXEC")
  /\ listos' = RemoveFirst(listos, p)
  /\ UNCHANGED <<nuevos, grado, algoritmo>>

(* From EXEC by preemption, from BLOCKED when what it waited for arrived.   *)
Volver(p) ==
  /\ \E e \in {"EXEC", "BLOCKED"} : Pasa(p, e, "READY")
  /\ listos' = Append(listos, p)
  /\ UNCHANGED <<nuevos, grado, algoritmo>>

Dejar(p) ==
  /\ \E e \in {"BLOCKED", "EXIT"} : Pasa(p, "EXEC", e)
  /\ UNCHANGED <<nuevos, listos, grado, algoritmo>>

NuevoGrado(g) ==
  /\ grado' = g
  /\ UNCHANGED <<estado, nuevos, listos, algoritmo>>

NextCiclo ==
  \/ \E p \in Procesos : Crear(p) \/ Despachar(p) \/ Volver(p) \/ Dejar(p)
  \/ AdmitirSiguiente
  \/ \E g \in Grados : NuevoGrado(g)

SpecCiclo == InitCiclo /\ [][NextCiclo]_varsCiclo

==============================================================================
