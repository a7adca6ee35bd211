---------------------------- MODULE Listas_proofs -----------------------------
(***************************************************************************)
(* Lemmas about the operations of the commons library on lists, that the   *)
(* proofs of the components share: list_add (Append), list_remove of the   *)
(* head (Tail) and of any place (RemoveAt), list_remove_element            *)
(* (RemoveFirst), and the first place where something holds.               *)
(***************************************************************************)
EXTENDS Integers, Sequences, SequencesExt, SequenceTheorems,
        WellFoundedInduction, TLAPS

-------------------------------------------------------------------------------
(* A set of naturals that has an element has a least one.                   *)
LEMMA HayMinimo ==
  ASSUME NEW N, N \subseteq Nat, N # {}
  PROVE  \E n \in N : \A m \in N : n <= m
<1>1. PICK n \in N : \A m \in N : ~(<<m, n>> \in OpToRel(<, Nat))
  BY NatLessThanWellFounded, WFMin
<1>2. \A i \in Nat, j \in Nat : i < j => <<i, j>> \in OpToRel(<, Nat)
  BY Zenon DEF OpToRel
<1>3. ASSUME NEW m \in N PROVE n <= m
  <2>1. ~(m < n)
    BY <1>1, <1>2, Zenon
  <2> QED
    BY <2>1
<1> QED
  BY <1>3

(* A list with an element x has a first place where it is.                  *)
LEMMA HayPrimera ==
  ASSUME NEW n \in Nat, NEW N \in SUBSET (1..n), N # {}
  PROVE  \E k \in N : \A j \in 1..(k - 1) : j \notin N
<1>1. PICK k \in N : \A m \in N : k <= m
  <2>1. N \subseteq Nat
    OBVIOUS
  <2> QED
    BY <2>1, HayMinimo
<1> QED
  BY <1>1

(* Appending a PCB that is not in the list.                                 *)
LEMMA ListaConAppend ==
  ASSUME NEW S, NEW s \in Seq(S), NEW x \in S
  PROVE  /\ Append(s, x) \in Seq(S)
         /\ ToSet(Append(s, x)) = ToSet(s) \cup {x}
         /\ IsInjective(s) /\ x \notin ToSet(s) => IsInjective(Append(s, x))
<1> DEFINE t == Append(s, x)
<1>1. /\ t \in Seq(S) /\ Len(t) = Len(s) + 1 /\ Len(s) \in Nat
      /\ DOMAIN t = 1..Len(t) /\ DOMAIN s = 1..Len(s)
  BY AppendProperties, LenProperties
<1>2. (\A i \in 1..Len(s) : t[i] = s[i]) /\ t[Len(s) + 1] = x
  BY AppendProperties
<1>3. ToSet(t) = ToSet(s) \cup {x}
  BY <1>1, <1>2 DEF ToSet
<1>4. ASSUME IsInjective(s), x \notin ToSet(s) PROVE IsInjective(t)
  BY <1>1, <1>2, <1>4 DEF ToSet, IsInjective
<1> QED
  BY <1>1, <1>3, <1>4

(* Taking the head, as list_remove(lista, 0) does.                          *)
LEMMA ListaSinCabeza ==
  ASSUME NEW S, NEW s \in Seq(S), s # <<>>, IsInjective(s)
  PROVE  /\ Tail(s) \in Seq(S) /\ Head(s) \in ToSet(s)
         /\ ToSet(Tail(s)) = ToSet(s) \ {Head(s)}
         /\ IsInjective(Tail(s))
<1> DEFINE t == Tail(s)
<1>1. /\ t \in Seq(S) /\ Len(t) = Len(s) - 1 /\ Len(s) \in Nat /\ Len(s) # 0
      /\ DOMAIN t = 1..Len(t) /\ DOMAIN s = 1..Len(s)
      /\ \A i \in 1..Len(t) : t[i] = s[i + 1]
  BY HeadTailProperties, LenProperties, EmptySeq
<1>2. Head(s) = s[1]
  BY <1>1
<1>3. IsInjective(t)
  BY <1>1 DEF IsInjective
<1>4. ToSet(t) \subseteq ToSet(s) \ {Head(s)}
  BY <1>1, <1>2 DEF ToSet, IsInjective
<1>5. ASSUME NEW e \in ToSet(s) \ {Head(s)} PROVE e \in ToSet(t)
  <2>1. PICK i \in 1..Len(s) : s[i] = e
    BY <1>1 DEF ToSet
  <2>2. i # 1 /\ i - 1 \in 1..Len(t) /\ t[i - 1] = s[i]
    BY <1>1, <1>2, <2>1
  <2> QED
    BY <1>1, <2>1, <2>2 DEF ToSet
<1>6. Head(s) \in ToSet(s)
  BY <1>1, <1>2 DEF ToSet
<1> QED
  BY <1>1, <1>3, <1>4, <1>5, <1>6

(* Taking the element of one place out.                                     *)
LEMMA ListaSinLugar ==
  ASSUME NEW S, NEW s \in Seq(S), NEW k \in 1..Len(s)
  PROVE  /\ RemoveAt(s, k) \in Seq(S)
         /\ Len(RemoveAt(s, k)) = Len(s) - 1
         /\ DOMAIN RemoveAt(s, k) = 1..(Len(s) - 1)
         /\ \A i \in 1..(Len(s) - 1) :
              RemoveAt(s, k)[i] = IF i < k THEN s[i] ELSE s[i + 1]
<1>1. /\ Len(s) \in Nat /\ DOMAIN s = 1..Len(s)
      /\ \A i \in 1..Len(s) : s[i] \in S
  BY LenProperties, ElementOfSeq
<1> DEFINE u == SubSeq(s, 1, k - 1)
           w == SubSeq(s, k + 1, Len(s))
           r == RemoveAt(s, k)
<1>2. r = u \o w
  BY DEF RemoveAt
<1>3. /\ u \in Seq(S) /\ Len(u) = k - 1
      /\ \A i \in 1..(k - 1) : u[i] = s[i]
  BY <1>1, SubSeqProperties
<1>4. /\ w \in Seq(S) /\ Len(w) = Len(s) - k
      /\ \A i \in 1..(Len(s) - k) : w[i] = s[i + k]
  <2>1. \A i \in (k + 1)..Len(s) : s[i] \in S
    BY <1>1
  <2>2. /\ w \in Seq(S)
        /\ Len(w) = IF k + 1 <= Len(s) THEN Len(s) - (k + 1) + 1 ELSE 0
        /\ \A i \in 1..(Len(s) - (k + 1) + 1) : w[i] = s[k + 1 + i - 1]
    BY <1>1, <2>1, SubSeqProperties
  <2> HIDE DEF w
  <2>3. Len(s) - (k + 1) + 1 = Len(s) - k
    BY <1>1
  <2>4. ASSUME NEW i \in 1..(Len(s) - k) PROVE w[i] = s[i + k]
    <3>1. k + 1 + i - 1 = i + k
      BY <1>1
    <3> QED
      BY <2>2, <2>3, <3>1
  <2>5. Len(w) = Len(s) - k
    <3>1. k \in Int /\ Len(s) \in Int /\ k <= Len(s)
      BY <1>1
    <3>2. CASE k + 1 <= Len(s)
      BY <2>2, <2>3, <3>1, <3>2
    <3>3. CASE ~(k + 1 <= Len(s))
      BY <2>2, <3>1, <3>3
    <3> QED
      BY <3>2, <3>3
  <2> QED
    BY <2>2, <2>4, <2>5
<1>5. /\ r \in Seq(S) /\ Len(r) = Len(s) - 1 /\ DOMAIN r = 1..(Len(s) - 1)
      /\ \A i \in 1..(Len(s) - 1) : r[i] = IF i < k THEN s[i] ELSE s[i + 1]
  <2> HIDE DEF u, w, r
  <2>1. r \in Seq(S) /\ Len(r) = Len(s) - 1
    <3>1. u \o w \in Seq(S) /\ Len(u \o w) = Len(u) + Len(w)
      BY <1>3, <1>4, ConcatProperties
    <3>2. k - 1 + (Len(s) - k) = Len(s) - 1
      BY <1>1
    <3> QED
      BY <1>2, <1>3, <1>4, <3>1, <3>2
  <2>2. DOMAIN r = 1..(Len(s) - 1)
    BY <2>1, LenProperties
  <2>3. ASSUME NEW i \in 1..(Len(s) - 1)
        PROVE  r[i] = IF i < k THEN s[i] ELSE s[i + 1]
    <3>1. r[i] = IF i <= Len(u) THEN u[i] ELSE w[i - Len(u)]
      BY <1>1, <1>2, <1>3, <1>4, ConcatProperties
    <3>2. CASE i < k
      BY <1>1, <1>3, <3>1, <3>2
    <3>3. CASE ~(i < k)
      <4>1. i - (k - 1) \in 1..(Len(s) - k) /\ i - (k - 1) + k = i + 1
        BY <1>1, <3>3
      <4>2. r[i] = w[i - (k - 1)]
        BY <1>1, <1>3, <3>1, <3>3
      <4> QED
        BY <1>4, <3>3, <4>1, <4>2
    <3> QED
      BY <3>2, <3>3
  <2> QED
    BY <2>1, <2>2, <2>3
<1> QED
  BY <1>5

(* The head of a list is the element at place 1.                            *)
LEMMA ListaSinCabezaEnLugar ==
  ASSUME NEW S, NEW s \in Seq(S), s # <<>>
  PROVE  /\ 1 \in 1..Len(s) /\ RemoveAt(s, 1) = Tail(s)
<1>1. Len(s) \in Nat /\ 1 \in 1..Len(s)
  BY LenProperties, EmptySeq
<1>2. /\ RemoveAt(s, 1) \in Seq(S) /\ Len(RemoveAt(s, 1)) = Len(s) - 1
      /\ \A i \in 1..(Len(s) - 1) : RemoveAt(s, 1)[i] = s[i + 1]
  BY <1>1, ListaSinLugar
<1>3. /\ Tail(s) \in Seq(S) /\ Len(Tail(s)) = Len(s) - 1
      /\ \A i \in 1..(Len(s) - 1) : Tail(s)[i] = s[i + 1]
  BY HeadTailProperties
<1> QED
  BY <1>1, <1>2, <1>3, SeqEqual

(* list_remove_element takes out the first place where the PCB is, and      *)
(* leaves the list as it is where the PCB is not in it.                     *)
LEMMA QuitarPrimero ==
  ASSUME NEW S, NEW s \in Seq(S), NEW p
  PROVE  /\ p \notin ToSet(s) => RemoveFirst(s, p) = s
         /\ p \in ToSet(s) =>
              \E k \in 1..Len(s) : /\ s[k] = p
                                   /\ \A j \in 1..(k - 1) : s[j] # p
                                   /\ RemoveFirst(s, p) = RemoveAt(s, k)
<1>1. Len(s) \in Nat /\ DOMAIN s = 1..Len(s)
  BY LenProperties
<1>2. ASSUME p \notin ToSet(s) PROVE RemoveFirst(s, p) = s
  <2>1. ~ \E i \in 1..Len(s) : s[i] = p
    BY <1>1, <1>2 DEF ToSet
  <2> QED
    BY <2>1, Zenon DEF RemoveFirst
<1>3. ASSUME p \in ToSet(s)
      PROVE  \E k \in 1..Len(s) : /\ s[k] = p
                                  /\ \A j \in 1..(k - 1) : s[j] # p
                                  /\ RemoveFirst(s, p) = RemoveAt(s, k)
  <2> DEFINE N == {i \in 1..Len(s) : s[i] = p}
  <2>1. N # {} /\ N \in SUBSET (1..Len(s)) /\ N \subseteq Nat
    BY <1>1, <1>3 DEF ToSet
  <2>2. PICK k \in N : \A m \in N : k <= m
    <3> HIDE DEF N
    <3> QED
      BY <2>1, HayMinimo
  <2>3. Min(N) = k
    <3>1. \A m \in N : (\A i \in N : m <= i) => m = k
      BY <2>1, <2>2
    <3> HIDE DEF N
    <3> QED
      BY <2>2, <3>1 DEF Min
  <2>4. RemoveFirst(s, p) = RemoveAt(s, k)
    <3>1. \E i \in 1..Len(s) : s[i] = p
      BY <2>1
    <3>2. RemoveFirst(s, p) = RemoveAt(s, IF N # {} THEN Min(N) ELSE 0)
      BY <3>1, Zenon DEF RemoveFirst, SelectInSeq
    <3> HIDE DEF N
    <3> QED
      BY <2>1, <2>3, <3>2, Zenon
  <2>5. k \in 1..Len(s) /\ s[k] = p
    BY <2>2
  <2>6. \A j \in 1..(k - 1) : s[j] # p
    BY <1>1, <2>2, <2>5
  <2> QED
    BY <2>4, <2>5, <2>6
<1> QED
  BY <1>2, <1>3

(* list_remove_element takes the PCB out, and only it, wherever it is.      *)
LEMMA ListaSinElemento ==
  ASSUME NEW S, NEW s \in Seq(S), NEW p \in ToSet(s), IsInjective(s)
  PROVE  /\ RemoveFirst(s, p) \in Seq(S)
         /\ ToSet(RemoveFirst(s, p)) = ToSet(s) \ {p}
         /\ IsInjective(RemoveFirst(s, p))
         /\ Len(RemoveFirst(s, p)) = Len(s) - 1
<1>1. /\ Len(s) \in Nat /\ DOMAIN s = 1..Len(s)
      /\ \A i \in 1..Len(s) : s[i] \in S
  BY LenProperties, ElementOfSeq
<1>2. PICK k \in 1..Len(s) : s[k] = p /\ RemoveFirst(s, p) = RemoveAt(s, k)
  BY QuitarPrimero
<1>3. \A i \in 1..Len(s) : s[i] = p <=> i = k
  BY <1>1, <1>2 DEF IsInjective
<1> DEFINE r == RemoveFirst(s, p)
<1>4. /\ r \in Seq(S) /\ Len(r) = Len(s) - 1 /\ DOMAIN r = 1..(Len(s) - 1)
      /\ \A i \in 1..(Len(s) - 1) : r[i] = IF i < k THEN s[i] ELSE s[i + 1]
  <2> DEFINE t == RemoveAt(s, k)
  <2>1. /\ t \in Seq(S) /\ Len(t) = Len(s) - 1 /\ DOMAIN t = 1..(Len(s) - 1)
        /\ \A i \in 1..(Len(s) - 1) : t[i] = IF i < k THEN s[i] ELSE s[i + 1]
    BY ListaSinLugar
  <2>2. r = t
    BY <1>2
  <2> HIDE DEF r, t
  <2> QED
    BY <2>1, <2>2
<1> HIDE DEF r
<1>5. IsInjective(r)
  BY <1>1, <1>4 DEF IsInjective
<1>6. ToSet(r) \subseteq ToSet(s) \ {p}
  BY <1>1, <1>3, <1>4 DEF ToSet
<1>7. ASSUME NEW e \in ToSet(s) \ {p} PROVE e \in ToSet(r)
  <2>1. PICK i \in 1..Len(s) : s[i] = e /\ i # k
    BY <1>1, <1>3 DEF ToSet
  <2>2. CASE i < k
    BY <1>1, <1>4, <2>1, <2>2 DEF ToSet
  <2>3. CASE i > k
    <3>1. i - 1 \in 1..(Len(s) - 1) /\ r[i - 1] = s[i]
      BY <1>1, <1>4, <2>3
    <3> QED
      BY <1>4, <2>1, <3>1 DEF ToSet
  <2> QED
    BY <2>1, <2>2, <2>3
<1> QED
  BY <1>4, <1>5, <1>6, <1>7 DEF r
===============================================================================
