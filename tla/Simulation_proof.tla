--------------------------- MODULE Simulation_proof ---------------------------
(***************************************************************************)
(* Both simulation checks, for any two automata with finitely many states. *)
(*                                                                         *)
(* A yes: each edge of each pair of the relation is matched within the     *)
(* relation, or left for an activation that works for the pair; when the   *)
(* last one returns, nothing is left, and the relation is a simulation.    *)
(*                                                                         *)
(* A no: suppose some simulation G relates the initial states, and labels  *)
(* have one answer each.  Then quiet steps of the simulator lead from any  *)
(* pair of the relation to a pair of G, so each label asked for has an     *)
(* answer, and the code never says no.  That needs the search for          *)
(* indirect successors to be right: it finds what quiet steps lead to, it  *)
(* finds something if there is anything, and it goes on for ever only on a *)
(* cycle of quiet steps.                                                   *)
(***************************************************************************)
EXTENDS Simulation, FiniteSetTheorems, WellFoundedInduction, TLAPS

-----------------------------------------------------------------------------
(***************************************************************************)
(* Induction over numbers, and what a repeated step comes to.              *)
(***************************************************************************)
\* A set of numbers that has 0 and the successor of each of its members has them all.
LEMMA SetInduction ==
  ASSUME NEW S, 0 \in S, \A n \in Nat : n \in S => n + 1 \in S
  PROVE  \A n \in Nat : n \in S
<1> SUFFICES ASSUME NEW k \in Nat, k \notin S PROVE FALSE
  OBVIOUS
<1> DEFINE T == {n \in Nat : n \notin S}
           R == OpToRel(<, Nat)
<1>1. T \subseteq Nat /\ T # {}
  OBVIOUS
<1>2. \A x, y \in Nat : x < y => <<x, y>> \in R
  BY DEF OpToRel
<1>3. IsWellFoundedOn(R, Nat)
  BY NatLessThanWellFounded
<1> HIDE DEF R
<1>4. PICK x \in T : \A y \in T : ~ (<<y, x>> \in R)
  <2> HIDE DEF T
  <2> QED
    BY <1>1, <1>3, WFMin
<1>5. x # 0 /\ x \in Nat
  OBVIOUS
<1>6. x - 1 \in Nat /\ x - 1 < x /\ (x - 1) + 1 = x
  BY <1>5
<1>7. x - 1 \notin T
  BY <1>2, <1>4, <1>5, <1>6
<1> QED
  BY <1>4, <1>6, <1>7

\* A step can be repeated any number of times.
IsOrbit(f, X, c, step, N) ==
  /\ f \in [0 .. N -> X]
  /\ f = [n \in 0 .. N |-> IF n = 0 THEN c ELSE step[f[n - 1]]]

LEMMA OrbitExists ==
  ASSUME NEW X, NEW c \in X, NEW step \in [X -> X], NEW N \in Nat
  PROVE  \E f : IsOrbit(f, X, c, step, N)
<1> DEFINE T == {k \in Nat : \E f : IsOrbit(f, X, c, step, k)}
<1>1. 0 \in T
  <2> DEFINE f == [n \in 0 .. 0 |-> c]
  <2>1. IsOrbit(f, X, c, step, 0)
    BY DEF IsOrbit
  <2> QED
    BY <2>1
<1>2. \A k \in Nat : k \in T => k + 1 \in T
  <2> SUFFICES ASSUME NEW k \in Nat, k \in T PROVE k + 1 \in T
    OBVIOUS
  <2>1. PICK f : IsOrbit(f, X, c, step, k)
    OBVIOUS
  <2> DEFINE g == [n \in 0 .. (k + 1) |-> IF n \in 0 .. k THEN f[n] ELSE step[f[k]]]
  <2>2. g \in [0 .. (k + 1) -> X]
    BY <2>1 DEF IsOrbit
  <2>3. \A n \in 0 .. (k + 1) : g[n] = IF n = 0 THEN c ELSE step[g[n - 1]]
    <3> SUFFICES ASSUME NEW n \in 0 .. (k + 1) PROVE g[n] = IF n = 0 THEN c ELSE step[g[n - 1]]
      OBVIOUS
    <3>1. CASE n \in 0 .. k
      BY <2>1, <3>1 DEF IsOrbit
    <3>2. CASE n = k + 1
      BY <3>2
    <3> QED
      BY <3>1, <3>2
  <2>4. IsOrbit(g, X, c, step, k + 1)
    BY <2>2, <2>3 DEF IsOrbit
  <2>5. \E h : IsOrbit(h, X, c, step, k + 1)
    <3> HIDE DEF g
    <3> QED
      BY <2>4
  <2> QED
    BY <2>5
<1> HIDE DEF T
<1>3. N \in T
  BY <1>1, <1>2, SetInduction
<1> QED
  BY <1>3 DEF T

(***************************************************************************)
(* A set of members of a finite set that grows with each step until it is  *)
(* closed is closed after as many steps as the finite set has members.     *)
(***************************************************************************)
LEMMA GrowthEnds ==
  ASSUME NEW U, IsFiniteSet(U), NEW f, NEW Closed, U \in Closed,
         \A k \in 0 .. Cardinality(U) : f[k] \in SUBSET U,
         \A k \in 1 .. Cardinality(U) : /\ f[k - 1] \subseteq f[k]
                                        /\ f[k - 1] \in Closed <=> f[k] = f[k - 1]
  PROVE  f[Cardinality(U)] \in Closed
<1> DEFINE N == Cardinality(U)
           T == {k \in Nat : k <= N => f[k] \in Closed \/ Cardinality(f[k]) >= k}
<1>1. N \in Nat
  BY FS_CardinalityType
<1>2. \A k \in 0 .. N : IsFiniteSet(f[k]) /\ Cardinality(f[k]) \in Nat
  BY FS_Subset, FS_CardinalityType
<1> HIDE DEF N
<1>3. 0 \in T
  BY <1>1, <1>2
<1>4. \A k \in Nat : k \in T => k + 1 \in T
  <2> SUFFICES ASSUME NEW k \in Nat, k \in T, k + 1 <= N
               PROVE  f[k + 1] \in Closed \/ Cardinality(f[k + 1]) >= k + 1
    OBVIOUS
  <2>1. k \in 0 .. N /\ k + 1 \in 0 .. N /\ k + 1 \in 1 .. N /\ (k + 1) - 1 = k
    BY <1>1
  <2>2. f[k] \subseteq f[k + 1] /\ (f[k] \in Closed <=> f[k + 1] = f[k])
    BY <2>1 DEF N
  <2>3. CASE f[k] \in Closed
    BY <2>2, <2>3
  <2>4. CASE f[k] \notin Closed
    <3>1. Cardinality(f[k]) >= k
      BY <2>1, <2>4
    <3>2. f[k] \in SUBSET f[k + 1] /\ f[k] # f[k + 1]
      BY <2>2, <2>4
    <3>3. Cardinality(f[k]) <= Cardinality(f[k + 1]) /\ Cardinality(f[k]) # Cardinality(f[k + 1])
      BY <3>2, <2>1, <1>2, FS_Subset
    <3> QED
      BY <3>1, <3>3, <2>1, <1>2
  <2> QED
    BY <2>3, <2>4
<1> HIDE DEF T
<1>5. N \in T
  BY <1>1, <1>3, <1>4, SetInduction
<1>6. CASE f[N] \in Closed
  BY <1>6 DEF N
<1>7. CASE Cardinality(f[N]) >= N
  <2>1. f[N] \in SUBSET U /\ Cardinality(f[N]) <= N
    BY <1>1, FS_Subset DEF N
  <2>2. Cardinality(f[N]) = N
    BY <1>1, <1>2, <1>7, <2>1
  <2>3. f[N] = U
    BY <2>1, <2>2, FS_Subset DEF N
  <2> QED
    BY <2>3 DEF N
<1> QED
  BY <1>1, <1>5, <1>6, <1>7 DEF T

-----------------------------------------------------------------------------
(***************************************************************************)
(* Quiet steps.  Quietly(a, S) is the least set that has S and is closed   *)
(* under unobservable edges.                                               *)
(***************************************************************************)
IsQuietSets(f, a, S) ==
  f = [n \in 0 .. Cardinality(a.states) |->
         IF n = 0 THEN S
         ELSE LET P == f[n - 1] IN P \cup UNION {UnobservableSuccessors(a, s) : s \in P}]

QuietSets(a, S) == CHOOSE f : IsQuietSets(f, a, S)

\* Edges lead from states to states.
LEMMA SuccessorsType ==
  ASSUME NEW a, IsAutomaton(a), NEW s, NEW label
  PROVE  /\ DirectSuccessors(a, s, label) \subseteq a.states
         /\ UnobservableSuccessors(a, s) \subseteq a.states
         /\ \A e \in Out(a, s) : e.source = s /\ e \in a.edges /\ e.target \in a.states
BY DEF IsAutomaton, DirectSuccessors, UnobservableSuccessors, Out

\* The sets begin with S, grow by a step each, and the last of them is Quietly.
LEMMA QuietSetsOf ==
  ASSUME NEW a, IsAutomaton(a), NEW S \in SUBSET a.states
  PROVE  LET N == Cardinality(a.states)
             f == QuietSets(a, S)
         IN  /\ N \in Nat
             /\ f[0] = S /\ f[N] = Quietly(a, S)
             /\ \A n \in 0 .. N : f[n] \in SUBSET a.states
             /\ \A n \in 1 .. N : f[n] = f[n - 1] \cup UNION {UnobservableSuccessors(a, s) : s \in f[n - 1]}
<1> DEFINE N == Cardinality(a.states)
           X == SUBSET a.states
           step == [P \in X |-> P \cup UNION {UnobservableSuccessors(a, s) : s \in P}]
<1>1. N \in Nat
  BY FS_CardinalityType DEF IsAutomaton
<1>2. step \in [X -> X]
  BY SuccessorsType
<1>3. PICK f : IsOrbit(f, X, S, step, N)
  <2>1. S \in X
    OBVIOUS
  <2> HIDE DEF N, step, X
  <2> QED
    BY <1>1, <1>2, <2>1, OrbitExists
<1>4. f \in [0 .. N -> X] /\ f = [n \in 0 .. N |-> IF n = 0 THEN S ELSE step[f[n - 1]]]
  BY <1>3 DEF IsOrbit
<1>5. f = [n \in 0 .. N |-> IF n = 0 THEN S
             ELSE LET P == f[n - 1] IN P \cup UNION {UnobservableSuccessors(a, s) : s \in P}]
  <2>1. \A n \in 0 .. N : n # 0 => f[n - 1] \in X
    <3>1. f \in [0 .. N -> X]
      BY <1>4
    <3> HIDE DEF X, N, step
    <3>2. \A n \in 0 .. N : n # 0 => n - 1 \in 0 .. N
      BY <1>1
    <3> QED
      BY <3>1, <3>2
  <2>2. \A n \in 0 .. N : n # 0 => step[f[n - 1]] = f[n - 1] \cup UNION {UnobservableSuccessors(a, s) : s \in f[n - 1]}
    <3> HIDE DEF X, N
    <3> QED
      BY <2>1
  <2> HIDE DEF step, X, N
  <2> QED
    BY <1>4, <2>2
<1>6. IsQuietSets(f, a, S)
  BY <1>5 DEF IsQuietSets
<1>7. IsQuietSets(QuietSets(a, S), a, S)
  BY <1>6 DEF QuietSets
<1>8. Quietly(a, S) = QuietSets(a, S)[N]
  BY DEF Quietly, QuietSets, IsQuietSets
<1> DEFINE q == QuietSets(a, S)
<1>9. q[0] = S
  BY <1>1, <1>7 DEF IsQuietSets
<1>10. \A n \in 1 .. N : q[n] = q[n - 1] \cup UNION {UnobservableSuccessors(a, s) : s \in q[n - 1]}
  <2> HIDE DEF N
  <2>1. q = [n \in 0 .. N |-> IF n = 0 THEN S
               ELSE LET P == q[n - 1] IN P \cup UNION {UnobservableSuccessors(a, s) : s \in P}]
    BY <1>7 DEF IsQuietSets, N
  <2> HIDE DEF q
  <2>2. \A n \in 1 .. N : n \in 0 .. N /\ n # 0
    BY <1>1
  <2> QED
    BY <2>1, <2>2
<1>11. \A n \in 0 .. N : q[n] \in SUBSET a.states
  <2> HIDE DEF q, N
  <2> DEFINE T == {n \in Nat : n <= N => q[n] \in SUBSET a.states}
  <2>1. 0 \in T
    BY <1>9
  <2>2. \A n \in Nat : n \in T => n + 1 \in T
    <3> SUFFICES ASSUME NEW n \in Nat, n \in T, n + 1 <= N PROVE q[n + 1] \in SUBSET a.states
      OBVIOUS
    <3>1. n + 1 \in 1 .. N /\ (n + 1) - 1 = n /\ q[n] \in SUBSET a.states
      BY <1>1
    <3> QED
      <4>1. q[n + 1] = q[n] \cup UNION {UnobservableSuccessors(a, s) : s \in q[n]}
        BY <1>10, <3>1
      <4>2. \A s \in q[n] : UnobservableSuccessors(a, s) \subseteq a.states
        BY SuccessorsType
      <4> QED
        BY <3>1, <4>1, <4>2
  <2> HIDE DEF T
  <2>3. \A n \in Nat : n \in T
    BY <2>1, <2>2, SetInduction
  <2> QED
    BY <1>1, <2>3 DEF T
<1> QED
  BY <1>1, <1>8, <1>9, <1>10, <1>11

LEMMA QuietlyIsLeast ==
  ASSUME NEW a, IsAutomaton(a), NEW S \in SUBSET a.states
  PROVE  /\ Quietly(a, S) \in SUBSET a.states
         /\ S \subseteq Quietly(a, S)
         /\ \A s \in Quietly(a, S) : UnobservableSuccessors(a, s) \subseteq Quietly(a, S)
         /\ \A P : S \subseteq P /\ (\A s \in P : UnobservableSuccessors(a, s) \subseteq P)
                     => Quietly(a, S) \subseteq P
<1> DEFINE N == Cardinality(a.states)
           f == QuietSets(a, S)
           Closed == {P \in SUBSET a.states : \A s \in P : UnobservableSuccessors(a, s) \subseteq P}
<1>1. /\ N \in Nat
      /\ f[0] = S /\ f[N] = Quietly(a, S)
      /\ \A n \in 0 .. N : f[n] \in SUBSET a.states
      /\ \A n \in 1 .. N : f[n] = f[n - 1] \cup UNION {UnobservableSuccessors(a, s) : s \in f[n - 1]}
  BY QuietSetsOf
<1> HIDE DEF f
<1>2. f[N] \in Closed
  <2>1. a.states \in Closed /\ IsFiniteSet(a.states)
    BY SuccessorsType DEF IsAutomaton
  <2>2. \A k \in 1 .. N : /\ f[k - 1] \subseteq f[k]
                          /\ f[k - 1] \in Closed <=> f[k] = f[k - 1]
    <3> SUFFICES ASSUME NEW k \in 1 .. N
                 PROVE  /\ f[k - 1] \subseteq f[k]
                        /\ f[k - 1] \in Closed <=> f[k] = f[k - 1]
      OBVIOUS
    <3>1. k - 1 \in 0 .. N
      BY <1>1
    <3>2. f[k] = f[k - 1] \cup UNION {UnobservableSuccessors(a, s) : s \in f[k - 1]}
      BY <1>1
    <3>3. f[k - 1] \in SUBSET a.states
      BY <1>1, <3>1
    <3> QED
      BY <3>2, <3>3
  <2> HIDE DEF Closed
  <2> QED
    BY <1>1, <2>1, <2>2, GrowthEnds
<1>3. S \subseteq f[N]
  <2> DEFINE T == {n \in Nat : n <= N => S \subseteq f[n]}
  <2> HIDE DEF N
  <2>1. 0 \in T
    BY <1>1
  <2>2. \A n \in Nat : n \in T => n + 1 \in T
    <3> SUFFICES ASSUME NEW n \in Nat, n \in T, n + 1 <= N PROVE S \subseteq f[n + 1]
      OBVIOUS
    <3>1. n + 1 \in 1 .. N /\ (n + 1) - 1 = n /\ S \subseteq f[n]
      BY <1>1
    <3> QED
      BY <1>1, <3>1
  <2> HIDE DEF T
  <2>3. \A n \in Nat : n \in T
    BY <2>1, <2>2, SetInduction
  <2> QED
    BY <1>1, <2>3 DEF T
<1>4. ASSUME NEW P, S \subseteq P, \A s \in P : UnobservableSuccessors(a, s) \subseteq P
      PROVE  f[N] \subseteq P
  <2> DEFINE T == {n \in Nat : n <= N => f[n] \subseteq P}
  <2> HIDE DEF N
  <2>1. 0 \in T
    BY <1>1, <1>4
  <2>2. \A n \in Nat : n \in T => n + 1 \in T
    <3> SUFFICES ASSUME NEW n \in Nat, n \in T, n + 1 <= N PROVE f[n + 1] \subseteq P
      OBVIOUS
    <3>1. n + 1 \in 1 .. N /\ (n + 1) - 1 = n /\ f[n] \subseteq P
      BY <1>1
    <3> QED
      BY <1>1, <1>4, <3>1
  <2> HIDE DEF T
  <2>3. \A n \in Nat : n \in T
    BY <2>1, <2>2, SetInduction
  <2> QED
    BY <1>1, <2>3 DEF T
<1> QED
  BY <1>1, <1>2, <1>3, <1>4

\* What is reached quietly from states reached quietly is reached quietly.
LEMMA QuietlyIsTransitive ==
  ASSUME NEW a, IsAutomaton(a), NEW S \in SUBSET a.states, NEW P \in SUBSET a.states,
         P \subseteq Quietly(a, S)
  PROVE  Quietly(a, P) \subseteq Quietly(a, S)
<1>1. \A s \in Quietly(a, S) : UnobservableSuccessors(a, s) \subseteq Quietly(a, S)
  BY QuietlyIsLeast
<1> QED
  BY <1>1, QuietlyIsLeast

\* A quiet path stays where it is or goes on from a successor.
LEMMA QuietlyUnfolds ==
  ASSUME NEW a, IsAutomaton(a), NEW r \in a.states
  PROVE  /\ {r} \in SUBSET a.states /\ r \in Quietly(a, {r})
         /\ \A q \in UnobservableSuccessors(a, r) :
              q \in a.states /\ {q} \in SUBSET a.states /\ Quietly(a, {q}) \subseteq Quietly(a, {r})
         /\ Quietly(a, {r}) \subseteq
              {r} \cup UNION {Quietly(a, {q}) : q \in UnobservableSuccessors(a, r)}
<1>1. {r} \in SUBSET a.states /\ UnobservableSuccessors(a, r) \subseteq a.states
  BY SuccessorsType
<1>2. r \in Quietly(a, {r}) /\ UnobservableSuccessors(a, r) \subseteq Quietly(a, {r})
  BY <1>1, QuietlyIsLeast
<1>3. ASSUME NEW q \in UnobservableSuccessors(a, r)
      PROVE  q \in a.states /\ {q} \in SUBSET a.states /\ Quietly(a, {q}) \subseteq Quietly(a, {r})
  <2>1. q \in a.states /\ {q} \in SUBSET a.states /\ {q} \subseteq Quietly(a, {r})
    BY <1>1, <1>2
  <2> QED
    BY <1>1, <2>1, QuietlyIsTransitive
<1> DEFINE P == {r} \cup UNION {Quietly(a, {q}) : q \in UnobservableSuccessors(a, r)}
<1>4. ASSUME NEW s \in P PROVE UnobservableSuccessors(a, s) \subseteq P
  <2>1. CASE s = r
    <3>1. \A q \in UnobservableSuccessors(a, r) : q \in Quietly(a, {q})
      BY <1>3, QuietlyIsLeast
    <3> QED
      BY <2>1, <3>1
  <2>2. CASE s # r
    <3>1. PICK q \in UnobservableSuccessors(a, r) : s \in Quietly(a, {q})
      BY <2>2
    <3>2. UnobservableSuccessors(a, s) \subseteq Quietly(a, {q})
      BY <1>3, <3>1, QuietlyIsLeast
    <3> QED
      BY <3>2
  <2> QED
    BY <2>1, <2>2
<1>5. Quietly(a, {r}) \subseteq P
  <2>1. {r} \subseteq P
    OBVIOUS
  <2> HIDE DEF P
  <2> QED
    BY <1>1, <1>4, <2>1, QuietlyIsLeast
<1> QED
  BY <1>1, <1>2, <1>3, <1>5

-----------------------------------------------------------------------------
(***************************************************************************)
(* The search for an indirect successor, as a sequence of functions and,   *)
(* for what it never returns from, a sequence of sets.                     *)
(***************************************************************************)
IsFound(f, a, label) ==
  f = [n \in 0 .. Cardinality(a.states) |->
         [r \in a.states |->
            IF n = 0 \/ DirectSuccessors(a, r, label) # {} THEN DirectSuccessors(a, r, label)
            ELSE UNION {f[n - 1][q] : q \in UnobservableSuccessors(a, r)}]]

Found(a, label) == CHOOSE f : IsFound(f, a, label)

IsLost(f, a, label) ==
  f = [n \in 0 .. Cardinality(a.states) |->
         {r \in a.states :
            /\ DirectSuccessors(a, r, label) = {}
            /\ n > 0 => UnobservableSuccessors(a, r) \cap f[n - 1] # {}}]

Lost(a, label) == CHOOSE f : IsLost(f, a, label)

\* What the search has found in n steps.
LEMMA FoundOf ==
  ASSUME NEW a, IsAutomaton(a), NEW label
  PROVE  LET N == Cardinality(a.states)
             f == Found(a, label)
         IN  /\ N \in Nat
             /\ \A s : f[N][s] = IndirectSuccessors(a, s, label)
             /\ \A n \in 0 .. N : \A r \in a.states :
                  f[n][r] = IF n = 0 \/ DirectSuccessors(a, r, label) # {}
                            THEN DirectSuccessors(a, r, label)
                            ELSE UNION {f[n - 1][q] : q \in UnobservableSuccessors(a, r)}
<1> DEFINE N == Cardinality(a.states)
           X == [a.states -> SUBSET a.states]
           c == [r \in a.states |-> DirectSuccessors(a, r, label)]
           step == [g \in X |->
                      [r \in a.states |->
                         IF DirectSuccessors(a, r, label) # {} THEN DirectSuccessors(a, r, label)
                         ELSE UNION {g[q] : q \in UnobservableSuccessors(a, r)}]]
<1>1. N \in Nat
  BY FS_CardinalityType DEF IsAutomaton
<1>2. c \in X
  BY SuccessorsType
<1>3. step \in [X -> X]
  <2> SUFFICES ASSUME NEW g \in X, NEW r \in a.states
               PROVE  UNION {g[q] : q \in UnobservableSuccessors(a, r)} \in SUBSET a.states
    BY SuccessorsType
  <2>1. \A q \in UnobservableSuccessors(a, r) : g[q] \in SUBSET a.states
    BY SuccessorsType
  <2> QED
    BY <2>1
<1>4. PICK f : IsOrbit(f, X, c, step, N)
  <2> HIDE DEF N, step, X, c
  <2> QED
    BY <1>1, <1>2, <1>3, OrbitExists, SMTT(40)
<1>5. f \in [0 .. N -> X] /\ f = [n \in 0 .. N |-> IF n = 0 THEN c ELSE step[f[n - 1]]]
  BY <1>4 DEF IsOrbit
<1>6. ASSUME NEW n \in 0 .. N
      PROVE  f[n] = [r \in a.states |->
                       IF n = 0 \/ DirectSuccessors(a, r, label) # {} THEN DirectSuccessors(a, r, label)
                       ELSE UNION {f[n - 1][q] : q \in UnobservableSuccessors(a, r)}]
  <2>1. CASE n = 0
    <3>1. f[n] = c
      BY <1>5, <2>1
    <3> QED
      BY <2>1, <3>1
  <2>2. CASE n # 0
    <3>1. f \in [0 .. N -> X] /\ f[n] = step[f[n - 1]]
      BY <1>5, <2>2
    <3>2. f[n - 1] \in X
      <4> HIDE DEF X, N, step
      <4>1. n - 1 \in 0 .. N
        BY <1>1, <2>2
      <4> QED
        BY <3>1, <4>1
    <3>3. f[n] = [r \in a.states |->
                    IF DirectSuccessors(a, r, label) # {} THEN DirectSuccessors(a, r, label)
                    ELSE UNION {f[n - 1][q] : q \in UnobservableSuccessors(a, r)}]
      <4> HIDE DEF X
      <4> QED
        BY <3>1, <3>2
    <3> QED
      BY <2>2, <3>3, SMTT(40)
  <2> QED
    BY <2>1, <2>2
<1>7. IsFound(f, a, label)
  <2>1. f = [n \in 0 .. N |-> f[n]]
    BY <1>5
  <2> QED
    BY <1>6, <2>1 DEF IsFound
<1> DEFINE g == Found(a, label)
<1>8. IsFound(g, a, label)
  BY <1>7 DEF Found
<1>9. \A s : IndirectSuccessors(a, s, label) = g[N][s]
  BY DEF IndirectSuccessors, Found, IsFound
<1> DEFINE Finds(k, t) == IF k = 0 \/ DirectSuccessors(a, t, label) # {}
                          THEN DirectSuccessors(a, t, label)
                          ELSE UNION {g[k - 1][q] : q \in UnobservableSuccessors(a, t)}
<1>10. \A n \in 0 .. N : \A r \in a.states : g[n][r] = Finds(n, r)
  <2>1. g = [k \in 0 .. N |-> [t \in a.states |-> Finds(k, t)]]
    BY <1>8 DEF IsFound
  <2> HIDE DEF g, N, Finds
  <2> QED
    BY <2>1
<1> QED
  BY <1>1, <1>9, <1>10

\* Where the search is still under way after n steps.
LEMMA LostOf ==
  ASSUME NEW a, IsAutomaton(a), NEW label
  PROVE  LET N == Cardinality(a.states)
             f == Lost(a, label)
         IN  /\ N \in Nat
             /\ \A s : s \in f[N] <=> SearchIsEndless(a, s, label)
             /\ \A n \in 0 .. N : \A r :
                  r \in f[n] <=>
                    /\ r \in a.states /\ DirectSuccessors(a, r, label) = {}
                    /\ n > 0 => UnobservableSuccessors(a, r) \cap f[n - 1] # {}
<1> DEFINE N == Cardinality(a.states)
           X == SUBSET a.states
           c == {r \in a.states : DirectSuccessors(a, r, label) = {}}
           step == [P \in X |-> {r \in c : UnobservableSuccessors(a, r) \cap P # {}}]
<1>1. N \in Nat
  BY FS_CardinalityType DEF IsAutomaton
<1>2. c \in X /\ step \in [X -> X]
  OBVIOUS
<1>3. PICK f : IsOrbit(f, X, c, step, N)
  <2> HIDE DEF N, step, X, c
  <2> QED
    BY <1>1, <1>2, OrbitExists
<1>4. f \in [0 .. N -> X] /\ f = [n \in 0 .. N |-> IF n = 0 THEN c ELSE step[f[n - 1]]]
  BY <1>3 DEF IsOrbit
<1>5. ASSUME NEW n \in 0 .. N
      PROVE  f[n] = {r \in a.states :
                       /\ DirectSuccessors(a, r, label) = {}
                       /\ n > 0 => UnobservableSuccessors(a, r) \cap f[n - 1] # {}}
  <2>1. CASE n = 0
    <3>1. f[n] = c /\ ~ (n > 0)
      BY <1>4, <2>1
    <3> QED
      BY <3>1
  <2>2. CASE n # 0
    <3>1. f \in [0 .. N -> X] /\ f[n] = step[f[n - 1]]
      BY <1>4, <2>2
    <3>2. f[n - 1] \in X /\ n > 0
      <4> HIDE DEF X, N, step
      <4>1. n - 1 \in 0 .. N /\ n > 0
        BY <1>1, <2>2
      <4> QED
        BY <3>1, <4>1
    <3>3. f[n] = {r \in c : UnobservableSuccessors(a, r) \cap f[n - 1] # {}}
      <4> HIDE DEF X, c
      <4> QED
        BY <3>1, <3>2
    <3> QED
      BY <3>2, <3>3
  <2> QED
    BY <2>1, <2>2
<1>6. IsLost(f, a, label)
  <2>1. f = [n \in 0 .. N |-> f[n]]
    BY <1>4
  <2> QED
    BY <1>5, <2>1 DEF IsLost
<1> DEFINE g == Lost(a, label)
<1>7. IsLost(g, a, label)
  BY <1>6 DEF Lost
<1>8. \A s : SearchIsEndless(a, s, label) <=> s \in g[N]
  BY DEF SearchIsEndless, Lost, IsLost
<1>9. ASSUME NEW n \in 0 .. N
      PROVE  g[n] = {r \in a.states :
                       /\ DirectSuccessors(a, r, label) = {}
                       /\ n > 0 => UnobservableSuccessors(a, r) \cap g[n - 1] # {}}
  <2>1. g = [k \in 0 .. N |->
               {r \in a.states :
                  /\ DirectSuccessors(a, r, label) = {}
                  /\ k > 0 => UnobservableSuccessors(a, r) \cap g[k - 1] # {}}]
    BY <1>7 DEF IsLost
  <2> HIDE DEF g
  <2> QED
    BY <2>1
<1> QED
  BY <1>1, <1>8, <1>9

\* What can be done for a label after quiet steps.
QuietAnswers(a, r, label) == UNION {DirectSuccessors(a, q, label) : q \in Quietly(a, {r})}

\* It is what can be done at once, or after a step to a successor.
LEMMA QuietAnswersUnfold ==
  ASSUME NEW a, IsAutomaton(a), NEW r \in a.states, NEW label
  PROVE  /\ QuietAnswers(a, r, label) \subseteq a.states
         /\ DirectSuccessors(a, r, label) \subseteq QuietAnswers(a, r, label)
         /\ \A q \in UnobservableSuccessors(a, r) :
              q \in a.states /\ QuietAnswers(a, q, label) \subseteq QuietAnswers(a, r, label)
         /\ QuietAnswers(a, r, label) \subseteq
              DirectSuccessors(a, r, label)
                \cup UNION {QuietAnswers(a, q, label) : q \in UnobservableSuccessors(a, r)}
<1>1. QuietAnswers(a, r, label) \subseteq a.states
  BY SuccessorsType DEF QuietAnswers
<1>2. /\ r \in Quietly(a, {r})
      /\ \A q \in UnobservableSuccessors(a, r) :
           q \in a.states /\ Quietly(a, {q}) \subseteq Quietly(a, {r})
      /\ Quietly(a, {r}) \subseteq
           {r} \cup UNION {Quietly(a, {q}) : q \in UnobservableSuccessors(a, r)}
  BY QuietlyUnfolds
<1>3. ASSUME NEW x \in QuietAnswers(a, r, label), x \notin DirectSuccessors(a, r, label)
      PROVE  \E q \in UnobservableSuccessors(a, r) : x \in QuietAnswers(a, q, label)
  <2>1. PICK s \in Quietly(a, {r}) : x \in DirectSuccessors(a, s, label)
    BY DEF QuietAnswers
  <2>2. s # r
    BY <1>3, <2>1
  <2>3. PICK q \in UnobservableSuccessors(a, r) : s \in Quietly(a, {q})
    BY <1>2, <2>2
  <2> QED
    BY <2>1, <2>3 DEF QuietAnswers
<1>4. DirectSuccessors(a, r, label) \subseteq QuietAnswers(a, r, label)
  BY <1>2 DEF QuietAnswers
<1>5. \A q \in UnobservableSuccessors(a, r) :
        q \in a.states /\ QuietAnswers(a, q, label) \subseteq QuietAnswers(a, r, label)
  BY <1>2 DEF QuietAnswers
<1> QED
  BY <1>1, <1>3, <1>4, <1>5

(***************************************************************************)
(* The search finds only what can be done after quiet steps; and if it     *)
(* ends without finding anything, there is nothing.                        *)
(***************************************************************************)
LEMMA SearchIsRight ==
  ASSUME NEW a, IsAutomaton(a), NEW s \in a.states, NEW label
  PROVE  /\ IndirectSuccessors(a, s, label) \subseteq QuietAnswers(a, s, label)
         /\ IndirectSuccessors(a, s, label) = {} /\ ~ SearchIsEndless(a, s, label)
              => QuietAnswers(a, s, label) = {}
<1> DEFINE N == Cardinality(a.states)
           f == Found(a, label)
           g == Lost(a, label)
           D(r) == DirectSuccessors(a, r, label)
           U(r) == UnobservableSuccessors(a, r)
           Q(r) == QuietAnswers(a, r, label)
           Behind(h, r) == UNION {h[q] : q \in U(r)}
<1>1. /\ N \in Nat
      /\ IndirectSuccessors(a, s, label) = f[N][s]
      /\ SearchIsEndless(a, s, label) <=> s \in g[N]
  BY FoundOf, LostOf
<1>2. \A n \in 0 .. N : \A r \in a.states :
        f[n][r] = IF n = 0 \/ D(r) # {} THEN D(r) ELSE Behind(f[n - 1], r)
  BY FoundOf
<1>3. \A n \in 0 .. N : \A r :
        r \in g[n] <=> r \in a.states /\ D(r) = {} /\ (n > 0 => U(r) \cap g[n - 1] # {})
  BY LostOf
<1>4. \A r \in a.states : /\ D(r) \subseteq Q(r)
                          /\ \A q \in U(r) : q \in a.states /\ Q(q) \subseteq Q(r)
                          /\ Q(r) \subseteq D(r) \cup UNION {Q(q) : q \in U(r)}
  BY QuietAnswersUnfold
<1> HIDE DEF N, f, g, D, U, Q, Behind
<1> DEFINE T == {n \in Nat : n <= N => \A r \in a.states :
                               /\ f[n][r] \subseteq Q(r)
                               /\ f[n][r] = {} /\ r \notin g[n] => Q(r) = {}}
<1>5. 0 \in T
  <2>1. 0 \in 0 .. N
    BY <1>1
  <2>2. ASSUME NEW r \in a.states PROVE f[0][r] = D(r) /\ (r \notin g[0] => D(r) # {})
    <3>1. f[0][r] = D(r)
      BY <2>1, <1>2
    <3>2. r \in g[0] <=> D(r) = {}
      <4>1. ~ (0 > 0)
        OBVIOUS
      <4> QED
        BY <2>1, <1>3, <4>1
    <3> QED
      BY <3>1, <3>2
  <2> QED
    BY <1>4, <2>2
<1>6. \A n \in Nat : n \in T => n + 1 \in T
  <2> SUFFICES ASSUME NEW n \in Nat, n \in T, n + 1 <= N, NEW r \in a.states
               PROVE  /\ f[n + 1][r] \subseteq Q(r)
                      /\ f[n + 1][r] = {} /\ r \notin g[n + 1] => Q(r) = {}
    OBVIOUS
  <2>1. n + 1 \in 0 .. N /\ n + 1 # 0 /\ n + 1 > 0 /\ (n + 1) - 1 = n /\ n <= N
    BY <1>1
  <2>2. f[n + 1][r] = IF D(r) # {} THEN D(r) ELSE Behind(f[n], r)
    BY <1>2, <2>1
  <2>3. \A t : t \in g[n + 1] <=> t \in a.states /\ D(t) = {} /\ U(t) \cap g[n] # {}
    BY <1>3, <2>1
  <2>4. \A q \in U(r) : /\ f[n][q] \subseteq Q(q) /\ Q(q) \subseteq Q(r)
                        /\ f[n][q] = {} /\ q \notin g[n] => Q(q) = {}
    BY <1>4, <2>1
  <2>5. f[n + 1][r] \subseteq Q(r)
    BY <1>4, <2>2, <2>4 DEF Behind
  <2>6. ASSUME f[n + 1][r] = {}, r \notin g[n + 1] PROVE Q(r) = {}
    <3>1. D(r) = {} /\ \A q \in U(r) : f[n][q] = {}
      BY <2>2, <2>6 DEF Behind
    <3>2. \A q \in U(r) : q \notin g[n]
      BY <2>3, <2>6, <3>1
    <3> QED
      BY <1>4, <2>4, <3>1, <3>2
  <2> QED
    BY <2>5, <2>6
<1> HIDE DEF T
<1>7. N \in T
  BY <1>1, <1>5, <1>6, SetInduction
<1> QED
  BY <1>1, <1>7 DEF T, Q

\* A search that does not end has run into a cycle of quiet steps.
LEMMA EndlessMeansCycle ==
  ASSUME NEW a, IsAutomaton(a), NEW s \in a.states, NEW label, SearchIsEndless(a, s, label)
  PROVE  \E r \in a.states : r \in Quietly(a, UnobservableSuccessors(a, r))
<1> SUFFICES ASSUME \A r \in a.states : r \notin Quietly(a, UnobservableSuccessors(a, r))
             PROVE  FALSE
  OBVIOUS
<1> DEFINE N == Cardinality(a.states)
           g == Lost(a, label)
           U(r) == UnobservableSuccessors(a, r)
           Q(r) == Quietly(a, U(r))
<1>1. N \in Nat /\ s \in g[N]
  BY LostOf
<1>2. \A n \in 0 .. N : \A r \in g[n] : r \in a.states /\ (n > 0 => U(r) \cap g[n - 1] # {})
  BY LostOf
<1>3. \A r \in a.states : U(r) \in SUBSET a.states
  BY SuccessorsType
<1>4. \A r \in a.states : /\ Q(r) \in SUBSET a.states /\ r \notin Q(r)
                          /\ IsFiniteSet(Q(r)) /\ Cardinality(Q(r)) \in Nat
                          /\ Cardinality(Q(r)) <= N
                          /\ Cardinality(Q(r)) = N => Q(r) = a.states
  <2> SUFFICES ASSUME NEW r \in a.states
               PROVE  /\ Q(r) \in SUBSET a.states /\ r \notin Q(r)
                      /\ IsFiniteSet(Q(r)) /\ Cardinality(Q(r)) \in Nat
                      /\ Cardinality(Q(r)) <= N
                      /\ Cardinality(Q(r)) = N => Q(r) = a.states
    OBVIOUS
  <2>1. Q(r) \in SUBSET a.states
    BY <1>3, QuietlyIsLeast
  <2>2. IsFiniteSet(a.states)
    BY DEF IsAutomaton
  <2>3. r \notin Q(r)
    OBVIOUS
  <2> HIDE DEF Q
  <2>4. /\ IsFiniteSet(Q(r))
        /\ Cardinality(Q(r)) <= N
        /\ Cardinality(Q(r)) = N => Q(r) = a.states
    BY <2>1, <2>2, FS_Subset
  <2> QED
    BY <2>1, <2>3, <2>4, FS_CardinalityType
<1>5. ASSUME NEW r \in a.states, NEW q \in U(r)
      PROVE  q \in a.states /\ Q(q) \subseteq Q(r) /\ q \in Q(r)
  <2>1. q \in a.states /\ U(r) \in SUBSET a.states /\ U(q) \in SUBSET a.states
    BY <1>3
  <2>2. q \in Q(r) /\ U(q) \subseteq Q(r)
    BY <2>1, QuietlyIsLeast
  <2> QED
    BY <2>1, <2>2, QuietlyIsTransitive
<1> HIDE DEF N, g, U, Q
<1> DEFINE T == {n \in Nat : n <= N => \A r \in g[n] : Cardinality(Q(r)) >= n}
<1>6. 0 \in T
  BY <1>1, <1>2, <1>4
<1>7. \A n \in Nat : n \in T => n + 1 \in T
  <2> SUFFICES ASSUME NEW n \in Nat, n \in T, n + 1 <= N, NEW r \in g[n + 1]
               PROVE  Cardinality(Q(r)) >= n + 1
    OBVIOUS
  <2>1. n + 1 \in 0 .. N /\ n + 1 > 0 /\ (n + 1) - 1 = n /\ n <= N
    BY <1>1
  <2>2. r \in a.states /\ U(r) \cap g[n] # {}
    BY <1>2, <2>1
  <2>3. PICK q \in U(r) : q \in g[n]
    BY <2>2
  <2>4. q \in a.states /\ Q(q) \in SUBSET Q(r) /\ Q(q) # Q(r)
    BY <1>4, <1>5, <2>2
  <2>5. Cardinality(Q(q)) >= n
    BY <2>1, <2>3
  <2>6. Cardinality(Q(q)) <= Cardinality(Q(r)) /\ Cardinality(Q(q)) # Cardinality(Q(r))
    BY <1>4, <2>2, <2>4, FS_Subset
  <2> QED
    BY <1>4, <2>2, <2>4, <2>5, <2>6
<1> HIDE DEF T
<1>8. N \in T
  BY <1>1, <1>6, <1>7, SetInduction
<1>9. Cardinality(Q(s)) >= N
  BY <1>1, <1>8 DEF T
<1> QED
  BY <1>1, <1>4, <1>9

-----------------------------------------------------------------------------
(***************************************************************************)
(* Simulation, with the automata and the kind of check as parameters.      *)
(***************************************************************************)
AnswersOf(a, w, m, label) == IF w THEN QuietAnswers(a, m, label) ELSE DirectSuccessors(a, m, label)

\* Where the simulator may stand when the simulatee has followed the edge e.
Meets(a, w, m, e) ==
  IF ~ w THEN AnswersOf(a, w, m, e.label)
  ELSE IF e.label = Unobservable THEN Quietly(a, {m})
  ELSE Quietly(a, AnswersOf(a, w, m, e.label))

IsSimulation(R, a, b, w) ==
  \A mo \in R : \A e \in Out(b, mo[2]) : \E n \in Meets(a, w, mo[1], e) : <<n, e.target>> \in R

\* An answer for every label, where one is asked for.
OneAnswer(a, b, w) ==
  \A m \in a.states, e \in b.edges :
     (~ w \/ e.label # Unobservable) =>
        \A x, y \in AnswersOf(a, w, m, e.label) : x = y

LEMMA AnswersAre ==
  ASSUME weak \in BOOLEAN, NEW m, NEW label
  PROVE  Answers(m, label) = AnswersOf(mine, weak, m, label)
<1>1. CASE weak
  BY <1>1 DEF Answers, AnswersOf, QuietAnswers
<1>2. CASE ~ weak
  <2>1. UNION {DirectSuccessors(mine, q, label) : q \in {m}} = DirectSuccessors(mine, m, label)
    OBVIOUS
  <2>2. Answers(m, label) = UNION {DirectSuccessors(mine, q, label) : q \in {m}}
    BY <1>2 DEF Answers
  <2> QED
    BY <1>2, <2>1, <2>2 DEF AnswersOf
<1> QED
  BY <1>1, <1>2

LEMMA HoldsIs ==
  ASSUME weak \in BOOLEAN, NEW R, NEW m, NEW o
  PROVE  Holds(R, m, o) <=>
           \A e \in Out(other, o) : \E n \in Meets(mine, weak, m, e) : <<n, e.target>> \in R
<1>1. \A label : Answers(m, label) = AnswersOf(mine, weak, m, label)
  BY AnswersAre
<1> QED
  BY <1>1 DEF Holds, Meets

(***************************************************************************)
(* The greatest simulation, as a sequence of ever smaller sets of pairs.   *)
(***************************************************************************)
IsShrinking(f) ==
  f = [n \in 0 .. Cardinality(mine.states \X other.states) |->
         IF n = 0 THEN mine.states \X other.states
         ELSE LET R == f[n - 1] IN {mo \in R : Holds(R, mo[1], mo[2])}]

Shrinking == CHOOSE f : IsShrinking(f)

\* The sets of pairs begin with all of them, and the last is GreatestSimulation.
LEMMA ShrinkingOf ==
  ASSUME IsAutomaton(mine), IsFiniteSet(other.states)
  PROVE  LET All == mine.states \X other.states
             N == Cardinality(All)
         IN  /\ IsFiniteSet(All) /\ N \in Nat
             /\ GreatestSimulation = Shrinking[N] /\ Shrinking[0] = All
             /\ \A n \in 0 .. N : Shrinking[n] \in SUBSET All
             /\ \A n \in 1 .. N : Shrinking[n] = {mo \in Shrinking[n - 1] :
                                                   Holds(Shrinking[n - 1], mo[1], mo[2])}
<1> DEFINE All == mine.states \X other.states
           N == Cardinality(All)
           X == SUBSET All
           Left(R) == {mo \in R : Holds(R, mo[1], mo[2])}
           step == [R \in X |-> Left(R)]
           g == Shrinking
<1>1. IsFiniteSet(All) /\ N \in Nat
  BY FS_Product, FS_CardinalityType DEF IsAutomaton
<1>2. All \in X /\ step \in [X -> X]
  OBVIOUS
<1>3. PICK f : IsOrbit(f, X, All, step, N)
  <2> HIDE DEF N, step, X, All
  <2> QED
    BY <1>1, <1>2, OrbitExists
<1>4. f \in [0 .. N -> X] /\ f = [n \in 0 .. N |-> IF n = 0 THEN All ELSE step[f[n - 1]]]
  BY <1>3 DEF IsOrbit
<1>5. f = [n \in 0 .. N |-> IF n = 0 THEN All ELSE Left(f[n - 1])]
  <2>1. f \in [0 .. N -> X]
    BY <1>4
  <2>2. \A n \in 0 .. N : n # 0 => f[n - 1] \in X
    <3> HIDE DEF X, N, step, All
    <3>1. \A n \in 0 .. N : n # 0 => n - 1 \in 0 .. N
      BY <1>1
    <3> QED
      BY <2>1, <3>1
  <2>3. \A n \in 0 .. N : n # 0 => step[f[n - 1]] = Left(f[n - 1])
    <3> HIDE DEF X, N, All, Left
    <3> QED
      BY <2>2
  <2> HIDE DEF X, N, step, All, Left
  <2> QED
    BY <1>4, <2>3
<1>6. IsShrinking(f)
  BY <1>5 DEF IsShrinking
<1>7. IsShrinking(g)
  BY <1>6 DEF Shrinking
<1>8. GreatestSimulation = g[N]
  BY DEF GreatestSimulation, Shrinking, IsShrinking
<1>9. g[0] = All /\ \A n \in 1 .. N : g[n] = Left(g[n - 1])
  <2>1. g = [n \in 0 .. N |-> IF n = 0 THEN All ELSE Left(g[n - 1])]
    BY <1>7 DEF IsShrinking
  <2> HIDE DEF g, N, All, Left
  <2>2. 0 \in 0 .. N /\ \A n \in 1 .. N : n \in 0 .. N /\ n # 0
    BY <1>1
  <2> QED
    BY <2>1, <2>2
<1>10. \A n \in 0 .. N : g[n] \in X
  <2> DEFINE T == {n \in Nat : n <= N => g[n] \in X}
  <2>1. 0 \in T
    BY <1>9
  <2> HIDE DEF g, N
  <2>2. \A n \in Nat : n \in T => n + 1 \in T
    <3> SUFFICES ASSUME NEW n \in Nat, n \in T, n + 1 <= N PROVE g[n + 1] \in X
      OBVIOUS
    <3>1. n + 1 \in 1 .. N /\ (n + 1) - 1 = n /\ g[n] \in X
      BY <1>1
    <3>2. g[n + 1] = Left(g[n])
      <4> HIDE DEF Left
      <4> QED
        BY <1>9, <3>1
    <3> QED
      BY <3>1, <3>2
  <2> HIDE DEF T
  <2>3. \A n \in Nat : n \in T
    BY <2>1, <2>2, SetInduction
  <2> QED
    BY <1>1, <2>3 DEF T
<1> QED
  BY <1>1, <1>8, <1>9, <1>10

(***************************************************************************)
(* The greatest simulation is one, and it has every other.                 *)
(***************************************************************************)
LEMMA GreatestIsSimulation ==
  ASSUME IsAutomaton(mine), IsFiniteSet(other.states)
  PROVE  /\ GreatestSimulation \subseteq mine.states \X other.states
         /\ \A mo \in GreatestSimulation : Holds(GreatestSimulation, mo[1], mo[2])
<1> DEFINE All == mine.states \X other.states
           N == Cardinality(All)
           X == SUBSET All
           Left(R) == {mo \in R : Holds(R, mo[1], mo[2])}
           g == Shrinking
<1>1. /\ IsFiniteSet(All) /\ N \in Nat
      /\ GreatestSimulation = g[N]
  BY ShrinkingOf
<1>2. \A n \in 1 .. N : g[n] = Left(g[n - 1])
  BY ShrinkingOf
<1>3. \A n \in 0 .. N : g[n] \in X
  BY ShrinkingOf
<1> HIDE DEF g
<1>4. \A mo \in g[N] : Holds(g[N], mo[1], mo[2])
  <2> DEFINE f2 == [k \in 0 .. N |-> All \ g[k]]
             Closed == {C \in X : \A mo \in All \ C : Holds(All \ C, mo[1], mo[2])}
  <2>1. All \in Closed
    <3>1. All \ All = {} /\ All \in X
      OBVIOUS
    <3> QED
      BY <3>1
  <2>2. \A k \in 0 .. N : f2[k] \in SUBSET All /\ f2[k] = All \ g[k]
    OBVIOUS
  <2>3. ASSUME NEW k \in 1 .. N
        PROVE  /\ f2[k - 1] \subseteq f2[k]
               /\ f2[k - 1] \in Closed <=> f2[k] = f2[k - 1]
    <3>1. k \in 0 .. N /\ k - 1 \in 0 .. N
      BY <1>1
    <3>2. g[k] = Left(g[k - 1]) /\ g[k - 1] \in X
      BY <1>2, <1>3, <3>1
    <3>3. f2[k] = All \ g[k] /\ f2[k - 1] = All \ g[k - 1]
      BY <2>2, <3>1
    <3>4. All \ f2[k - 1] = g[k - 1]
      BY <3>2, <3>3
    <3>5. f2[k - 1] \in Closed <=> \A mo \in g[k - 1] : Holds(g[k - 1], mo[1], mo[2])
      BY <3>3, <3>4, ZenonT(60)
    <3>6. g[k] \subseteq g[k - 1]
      BY <3>2
    <3>7. (\A mo \in g[k - 1] : Holds(g[k - 1], mo[1], mo[2])) <=> g[k] = g[k - 1]
      BY <3>2
    <3>8. f2[k] = f2[k - 1] <=> g[k] = g[k - 1]
      <4>1. g[k - 1] \subseteq All
        BY <3>2
      <4> HIDE DEF All, f2
      <4> QED
        BY <3>3, <3>6, <4>1
    <3> QED
      BY <3>3, <3>5, <3>6, <3>7, <3>8
  <2>4. f2[N] \in Closed
    <3> HIDE DEF f2, Closed, X, All
    <3> QED
      BY <1>1, <2>1, <2>2, <2>3, GrowthEnds DEF N
  <2>5. N \in 0 .. N
    BY <1>1
  <2>6. All \ f2[N] = g[N]
    BY <1>3, <2>2, <2>5
  <2> QED
    BY <2>4, <2>6
<1> QED
  BY <1>1, <1>3, <1>4

LEMMA GreatestHasAll ==
  ASSUME IsAutomaton(mine), IsFiniteSet(other.states),
         NEW R \in SUBSET (mine.states \X other.states), \A mo \in R : Holds(R, mo[1], mo[2])
  PROVE  R \subseteq GreatestSimulation
<1> DEFINE All == mine.states \X other.states
           N == Cardinality(All)
           Left(S) == {mo \in S : Holds(S, mo[1], mo[2])}
           g == Shrinking
           T == {n \in Nat : n <= N => R \subseteq g[n]}
<1>1. /\ N \in Nat
      /\ GreatestSimulation = g[N] /\ g[0] = All
  BY ShrinkingOf
<1>2. \A n \in 1 .. N : g[n] = Left(g[n - 1])
  BY ShrinkingOf
<1>3. ASSUME NEW S, R \subseteq S PROVE R \subseteq Left(S)
  BY <1>3 DEF Holds
<1> HIDE DEF g, N, Left
<1>4. 0 \in T
  BY <1>1
<1>5. \A n \in Nat : n \in T => n + 1 \in T
  <2> SUFFICES ASSUME NEW n \in Nat, n \in T, n + 1 <= N PROVE R \subseteq g[n + 1]
    OBVIOUS
  <2>1. n + 1 \in 1 .. N /\ (n + 1) - 1 = n /\ R \subseteq g[n]
    BY <1>1
  <2> QED
    BY <1>2, <1>3, <2>1
<1> HIDE DEF T
<1>6. N \in T
  BY <1>1, <1>4, <1>5, SetInduction
<1> QED
  BY <1>1, <1>6 DEF T

-----------------------------------------------------------------------------
(***************************************************************************)
(* What the code goes on with is a place where the simulator may stand.    *)
(***************************************************************************)
MatchesOf(a, w, m, label) == IF w THEN IndirectSuccessors(a, m, label)
                             ELSE DirectSuccessors(a, m, label)

LEMMA MatchesFit ==
  ASSUME NEW a, IsAutomaton(a), NEW w \in BOOLEAN, NEW m \in a.states, NEW e
  PROVE  /\ MatchesOf(a, w, m, e.label) \subseteq AnswersOf(a, w, m, e.label)
         /\ AnswersOf(a, w, m, e.label) \subseteq a.states
         /\ w /\ e.label = Unobservable => m \in Meets(a, w, m, e)
         /\ ~ (w /\ e.label = Unobservable) => AnswersOf(a, w, m, e.label) \subseteq Meets(a, w, m, e)
<1>1. CASE w
  <2>1. /\ IndirectSuccessors(a, m, e.label) \subseteq QuietAnswers(a, m, e.label)
        /\ QuietAnswers(a, m, e.label) \in SUBSET a.states
        /\ m \in Quietly(a, {m})
    BY SearchIsRight, QuietAnswersUnfold, QuietlyUnfolds
  <2>2. QuietAnswers(a, m, e.label) \subseteq Quietly(a, QuietAnswers(a, m, e.label))
    BY <2>1, QuietlyIsLeast
  <2> QED
    BY <1>1, <2>1, <2>2 DEF MatchesOf, AnswersOf, Meets
<1>2. CASE ~ w
  BY <1>2, SuccessorsType DEF MatchesOf, AnswersOf, Meets
<1> QED
  BY <1>1, <1>2

(***************************************************************************)
(* The pairs from which quiet steps of the simulator lead to a simulation. *)
(* When there is one answer only, the code never leaves them.              *)
(***************************************************************************)
Around(G, a, b, w) ==
  {mo \in a.states \X b.states :
     IF w THEN \E n \in Quietly(a, {mo[1]}) : <<n, mo[2]>> \in G ELSE mo \in G}

LEMMA AnswersStayAround ==
  ASSUME NEW a, IsAutomaton(a), NEW b, IsAutomaton(b), NEW w \in BOOLEAN,
         NEW G \in SUBSET (a.states \X b.states), IsSimulation(G, a, b, w), OneAnswer(a, b, w),
         NEW m \in a.states, NEW o \in b.states, <<m, o>> \in Around(G, a, b, w), NEW e \in Out(b, o)
  PROVE  /\ w /\ e.label = Unobservable => <<m, e.target>> \in Around(G, a, b, w)
         /\ ~ (w /\ e.label = Unobservable) =>
              /\ AnswersOf(a, w, m, e.label) # {}
              /\ \A x \in AnswersOf(a, w, m, e.label) : <<x, e.target>> \in Around(G, a, b, w)
<1>1. e \in b.edges /\ e.target \in b.states
  BY SuccessorsType
<1>2. AnswersOf(a, w, m, e.label) \subseteq a.states
  BY MatchesFit
<1>3. CASE ~ w
  <2>1. <<m, o>> \in G
    BY <1>3 DEF Around
  <2>2. \E n \in Meets(a, w, m, e) : <<n, e.target>> \in G
    BY <2>1 DEF IsSimulation
  <2>3. PICK n \in AnswersOf(a, w, m, e.label) : <<n, e.target>> \in G
    BY <1>3, <2>2 DEF Meets
  <2>4. \A x \in AnswersOf(a, w, m, e.label) : x = n
    BY <1>1, <1>3 DEF OneAnswer
  <2> QED
    BY <1>1, <1>2, <1>3, <2>3, <2>4 DEF Around
<1>4. CASE w
  <2>1. PICK n \in Quietly(a, {m}) : <<n, o>> \in G
    BY <1>4 DEF Around
  <2>2. n \in a.states /\ {m} \in SUBSET a.states /\ {n} \in SUBSET a.states
    BY <2>1
  <2>3. Quietly(a, {n}) \subseteq Quietly(a, {m})
    BY <2>1, <2>2, QuietlyIsTransitive
  <2>4. PICK x \in Meets(a, w, n, e) : <<x, e.target>> \in G
    BY <2>1 DEF IsSimulation
  <2>5. ASSUME e.label = Unobservable PROVE <<m, e.target>> \in Around(G, a, b, w)
    <3>1. x \in Quietly(a, {m})
      BY <1>4, <2>3, <2>4, <2>5 DEF Meets
    <3> QED
      BY <1>1, <1>4, <2>4, <3>1 DEF Around
  <2>6. ASSUME e.label # Unobservable
        PROVE  /\ AnswersOf(a, w, m, e.label) # {}
               /\ \A y \in AnswersOf(a, w, m, e.label) : <<y, e.target>> \in Around(G, a, b, w)
    <3>1. AnswersOf(a, w, n, e.label) \subseteq AnswersOf(a, w, m, e.label)
      BY <1>4, <2>3 DEF AnswersOf, QuietAnswers
    <3>2. x \in Quietly(a, AnswersOf(a, w, n, e.label))
      BY <1>4, <2>4, <2>6 DEF Meets
    <3>3. AnswersOf(a, w, n, e.label) # {}
      <4>1. Quietly(a, {}) \subseteq {}
        BY QuietlyIsLeast, SMTT(40)
      <4> QED
        BY <3>2, <4>1
    <3>4. ASSUME NEW y \in AnswersOf(a, w, m, e.label)
          PROVE  <<y, e.target>> \in Around(G, a, b, w)
      <4>1. \A z \in AnswersOf(a, w, m, e.label) : z = y
        BY <1>1, <2>6 DEF OneAnswer
      <4>2. AnswersOf(a, w, n, e.label) = {y}
        BY <3>1, <3>3, <4>1
      <4>3. x \in Quietly(a, {y}) /\ y \in a.states
        BY <1>2, <3>2, <4>2
      <4> QED
        BY <1>1, <1>4, <2>4, <4>3 DEF Around
    <3> QED
      BY <3>1, <3>3, <3>4
  <2> QED
    BY <1>4, <2>5, <2>6
<1> QED
  BY <1>3, <1>4

-----------------------------------------------------------------------------
(***************************************************************************)
(* The inductive invariant.                                                *)
(***************************************************************************)
ActivationsOf(a, b) == [mine : a.states, other : b.states, todo : SUBSET b.edges]

TypeOK ==
  /\ IsAutomaton(mine) /\ IsAutomaton(other) /\ weak \in BOOLEAN
  /\ phase \in {"start", "run", "yes", "no", "overflow"}
  /\ relation \in SUBSET (mine.states \X other.states)
  /\ calls \in Seq(ActivationsOf(mine, other))

\* Each activation works for a pair of the relation, on edges of its simulatee.
IsAtWork(c, R, b) ==
  \A i \in DOMAIN c : <<c[i].mine, c[i].other>> \in R /\ c[i].todo \subseteq Out(b, c[i].other)

CallsAreAtWork ==
  /\ calls # <<>> <=> phase = "run"
  /\ phase = "start" => relation = {}
  /\ IsAtWork(calls, relation, other)

InitialMet == phase \in {"run", "yes"} => mine.initial \X other.initial \subseteq relation

\* The edge e of the pair mo is left for an activation.
IsLeft(c, mo, e) == \E i \in DOMAIN c : c[i].mine = mo[1] /\ c[i].other = mo[2] /\ e \in c[i].todo

IsMet(R, a, w, mo, e) == \E n \in Meets(a, w, mo[1], e) : <<n, e.target>> \in R

\* Each edge of each pair is matched within the relation, or left.
IsWorked(R, c, a, b, w) ==
  \A mo \in R : \A e \in Out(b, mo[2]) : IsMet(R, a, w, mo, e) \/ IsLeft(c, mo, e)

RelationIsWorked == phase \in {"run", "yes"} => IsWorked(relation, calls, mine, other, weak)

\* G relates the initial states, and the code can only find answers that agree with it.
IsGuide(G, a, b, w) ==
  /\ IsSimulation(G, a, b, w) /\ OneAnswer(a, b, w)
  /\ a.initial # {} /\ b.initial # {} /\ a.initial \X b.initial \subseteq G

GuidesAreFollowed ==
  \A G \in SUBSET (mine.states \X other.states) :
    IsGuide(G, mine, other, weak) => phase # "no" /\ relation \subseteq Around(G, mine, other, weak)

HasCycle(a) == \E s \in a.states : s \in Quietly(a, UnobservableSuccessors(a, s))

OverflowMeansCycle == phase = "overflow" => weak /\ HasCycle(mine)

IInv == /\ TypeOK /\ CallsAreAtWork /\ InitialMet /\ RelationIsWorked
        /\ GuidesAreFollowed /\ OverflowMeansCycle

-----------------------------------------------------------------------------
(***************************************************************************)
(* Activations come and go.                                                *)
(***************************************************************************)
LEMMA PushedCall ==
  ASSUME NEW A, NEW c \in Seq(A), NEW x \in A
  PROVE  /\ <<x>> \o c \in Seq(A) /\ <<x>> \o c # <<>>
         /\ \A R, b : IsAtWork(<<x>> \o c, R, b) <=>
                        /\ <<x.mine, x.other>> \in R /\ x.todo \subseteq Out(b, x.other)
                        /\ IsAtWork(c, R, b)
         /\ \A mo, e : IsLeft(<<x>> \o c, mo, e) <=>
                         \/ x.mine = mo[1] /\ x.other = mo[2] /\ e \in x.todo
                         \/ IsLeft(c, mo, e)
<1> DEFINE d == <<x>> \o c
<1>1. d \in Seq(A) /\ d # <<>> /\ Len(d) = Len(c) + 1 /\ Len(c) \in Nat
  OBVIOUS
<1>2. d[1] = x /\ \A i \in 1 .. Len(c) : d[i + 1] = c[i]
  OBVIOUS
<1>3. DOMAIN d = 1 .. (Len(c) + 1) /\ DOMAIN c = 1 .. Len(c)
  BY <1>1
<1> HIDE DEF d
<1>4. /\ \A i \in DOMAIN d : i = 1 \/ (i - 1 \in DOMAIN c /\ d[i] = c[i - 1])
      /\ \A i \in DOMAIN c : i + 1 \in DOMAIN d /\ d[i + 1] = c[i]
      /\ 1 \in DOMAIN d
  <2>1. ASSUME NEW i \in DOMAIN d, i # 1 PROVE i - 1 \in DOMAIN c /\ d[i] = c[i - 1]
    <3>1. i - 1 \in 1 .. Len(c) /\ (i - 1) + 1 = i
      BY <1>1, <1>3, <2>1
    <3> QED
      BY <1>2, <1>3, <3>1
  <2> QED
    BY <1>1, <1>2, <1>3, <2>1
<1>5. ASSUME NEW R, NEW b
      PROVE  IsAtWork(d, R, b) <=> /\ <<x.mine, x.other>> \in R /\ x.todo \subseteq Out(b, x.other)
                                   /\ IsAtWork(c, R, b)
  BY <1>2, <1>4 DEF IsAtWork
<1>6. ASSUME NEW mo, NEW e
      PROVE  IsLeft(d, mo, e) <=> \/ x.mine = mo[1] /\ x.other = mo[2] /\ e \in x.todo
                                  \/ IsLeft(c, mo, e)
  BY <1>2, <1>4 DEF IsLeft
<1> QED
  BY <1>1, <1>5, <1>6 DEF d

LEMMA PoppedCall ==
  ASSUME NEW A, NEW c \in Seq(A), c # <<>>
  PROVE  /\ Head(c) \in A /\ Tail(c) \in Seq(A) /\ c = <<Head(c)>> \o Tail(c)
         /\ 1 \in DOMAIN c /\ c[1] = Head(c)
<1>1. Head(c) \in A /\ Tail(c) \in Seq(A) /\ 1 \in DOMAIN c /\ c[1] = Head(c)
  OBVIOUS
<1>2. c = <<Head(c)>> \o Tail(c)
  OBVIOUS
<1> QED
  BY <1>1, <1>2

\* The outermost loop goes on to its next edge.
LEMMA AfterEdge ==
  ASSUME TypeOK, calls # <<>>, IsAtWork(calls, relation, other), NEW e \in Top.todo
  PROVE  /\ After(e) \in Seq(ActivationsOf(mine, other)) /\ After(e) # <<>>
         /\ Top \in ActivationsOf(mine, other)
         /\ <<Top.mine, Top.other>> \in relation /\ e \in Out(other, Top.other)
         /\ IsAtWork(After(e), relation, other)
         /\ \A mo, f : IsLeft(calls, mo, f) => \/ IsLeft(After(e), mo, f)
                                               \/ mo[1] = Top.mine /\ mo[2] = Top.other /\ f = e
<1> DEFINE A == ActivationsOf(mine, other)
           x == Head(calls)
           t == Tail(calls)
           y == [x EXCEPT !.todo = @ \ {e}]
<1>1. calls \in Seq(A) /\ x \in A /\ t \in Seq(A) /\ calls = <<x>> \o t
  BY PoppedCall DEF TypeOK
<1>2. y \in A /\ y.mine = x.mine /\ y.other = x.other /\ y.todo = x.todo \ {e}
  BY <1>1 DEF ActivationsOf
<1>3. After(e) = <<y>> \o t /\ Top = x
  BY DEF After, Top
<1> HIDE DEF A, x, t, y
<1>4. /\ <<x.mine, x.other>> \in relation /\ x.todo \subseteq Out(other, x.other)
      /\ IsAtWork(t, relation, other)
  BY <1>1, PushedCall
<1>5. /\ <<y>> \o t \in Seq(A) /\ <<y>> \o t # <<>>
      /\ IsAtWork(<<y>> \o t, relation, other)
  BY <1>1, <1>2, <1>4, PushedCall
<1>6. ASSUME NEW mo, NEW f, IsLeft(calls, mo, f)
      PROVE  IsLeft(<<y>> \o t, mo, f) \/ (mo[1] = x.mine /\ mo[2] = x.other /\ f = e)
  <2>1. \/ x.mine = mo[1] /\ x.other = mo[2] /\ f \in x.todo
        \/ IsLeft(t, mo, f)
    BY <1>1, <1>6, PushedCall
  <2>2. IsLeft(<<y>> \o t, mo, f) <=> \/ y.mine = mo[1] /\ y.other = mo[2] /\ f \in y.todo
                                      \/ IsLeft(t, mo, f)
    BY <1>1, <1>2, PushedCall
  <2> QED
    BY <1>2, <2>1, <2>2
<1> QED
  BY <1>1, <1>3, <1>4, <1>5, <1>6 DEF A

\* One call: the pair is in the relation, and if it is new all its edges are left.
LEMMA EnterFits ==
  ASSUME TypeOK, NEW c \in Seq(ActivationsOf(mine, other)), IsAtWork(c, relation, other),
         NEW m \in mine.states, NEW o \in other.states, Enter(m, o, c)
  PROVE  /\ relation' = relation \cup {<<m, o>>}
         /\ relation' \in SUBSET (mine.states \X other.states)
         /\ calls' \in Seq(ActivationsOf(mine, other))
         /\ IsAtWork(calls', relation', other)
         /\ \A mo, f : IsLeft(c, mo, f) => IsLeft(calls', mo, f)
         /\ <<m, o>> \notin relation => \A f \in Out(other, o) : IsLeft(calls', <<m, o>>, f)
         /\ <<m, o>> \notin relation \/ c # <<>> => calls' # <<>>
<1> DEFINE x == [mine |-> m, other |-> o, todo |-> Out(other, o)]
           A == ActivationsOf(mine, other)
<1>1. /\ relation' = relation \cup {<<m, o>>}
      /\ calls' = IF <<m, o>> \in relation THEN c ELSE <<x>> \o c
  BY DEF Enter
<1>2. relation' \in SUBSET (mine.states \X other.states)
  BY <1>1 DEF TypeOK
<1>3. IsAtWork(c, relation', other)
  BY <1>1 DEF IsAtWork
<1>4. CASE <<m, o>> \in relation
  BY <1>1, <1>2, <1>3, <1>4
<1>5. CASE <<m, o>> \notin relation
  <2>1. x \in A /\ x.mine = m /\ x.other = o /\ x.todo = Out(other, o)
    BY DEF ActivationsOf, Out
  <2>2. calls' = <<x>> \o c /\ <<m, o>> \in relation'
    BY <1>1, <1>5
  <2> HIDE DEF x
  <2>3. calls' \in Seq(A) /\ calls' # <<>>
    <3> HIDE DEF A
    <3>1. c \in Seq(A)
      BY DEF A
    <3> QED
      BY <2>1, <2>2, <3>1, PushedCall
  <2>4. IsAtWork(calls', relation', other)
    BY <1>3, <2>1, <2>2, PushedCall
  <2>5. \A mo, f : IsLeft(calls', mo, f) <=>
                     \/ m = mo[1] /\ o = mo[2] /\ f \in Out(other, o)
                     \/ IsLeft(c, mo, f)
    BY <2>1, <2>2, PushedCall
  <2>6. \A f \in Out(other, o) : IsLeft(calls', <<m, o>>, f)
    BY <2>5
  <2> QED
    BY <1>1, <1>2, <2>3, <2>4, <2>5, <2>6
<1> QED
  BY <1>4, <1>5

\* Going on with a pair that matches the edge in hand keeps the invariant.
LEMMA FollowKeeps ==
  ASSUME IInv, phase = "run", calls # <<>>, NEW e \in Top.todo,
         NEW m \in mine.states, m \in Meets(mine, weak, Top.mine, e),
         Enter(m, e.target, After(e)), UNCHANGED <<mine, other, weak, phase>>,
         \A G \in SUBSET (mine.states \X other.states) :
           IsGuide(G, mine, other, weak) => <<m, e.target>> \in Around(G, mine, other, weak)
  PROVE  IInv'
<1> DEFINE c == After(e)
<1> USE DEF IInv
<1>1. /\ c \in Seq(ActivationsOf(mine, other)) /\ c # <<>>
      /\ e \in Out(other, Top.other)
      /\ IsAtWork(c, relation, other)
      /\ \A mo, f : IsLeft(calls, mo, f) => \/ IsLeft(c, mo, f)
                                            \/ mo[1] = Top.mine /\ mo[2] = Top.other /\ f = e
  BY AfterEdge DEF CallsAreAtWork
<1>2. e.target \in other.states
  BY <1>1, SuccessorsType DEF TypeOK
<1>3. /\ relation' = relation \cup {<<m, e.target>>}
      /\ relation' \in SUBSET (mine.states \X other.states)
      /\ calls' \in Seq(ActivationsOf(mine, other)) /\ calls' # <<>>
      /\ IsAtWork(calls', relation', other)
      /\ \A mo, f : IsLeft(c, mo, f) => IsLeft(calls', mo, f)
      /\ <<m, e.target>> \notin relation =>
           \A f \in Out(other, e.target) : IsLeft(calls', <<m, e.target>>, f)
  <2> HIDE DEF c
  <2>1. Enter(m, e.target, c)
    BY DEF c
  <2> QED
    BY <1>1, <1>2, <2>1, EnterFits
<1> HIDE DEF c
<1>4. TypeOK'
  BY <1>3 DEF TypeOK
<1>5. CallsAreAtWork'
  BY <1>3 DEF CallsAreAtWork
<1>6. InitialMet'
  BY <1>3 DEF InitialMet
<1>7. RelationIsWorked'
  <2>1. IsWorked(relation', calls', mine, other, weak)
    <3> SUFFICES ASSUME NEW mo \in relation', NEW f \in Out(other, mo[2])
                 PROVE  IsMet(relation', mine, weak, mo, f) \/ IsLeft(calls', mo, f)
      BY DEF IsWorked
    <3>1. CASE mo = <<m, e.target>> /\ mo \notin relation
      BY <1>3, <3>1
    <3>2. CASE mo \in relation
      <4>1. IsMet(relation, mine, weak, mo, f) \/ IsLeft(calls, mo, f)
        BY <3>2 DEF RelationIsWorked, IsWorked
      <4>2. CASE IsMet(relation, mine, weak, mo, f)
        BY <1>3, <4>2 DEF IsMet
      <4>3. CASE IsLeft(c, mo, f)
        BY <1>3, <4>3
      <4>4. CASE mo[1] = Top.mine /\ mo[2] = Top.other /\ f = e
        BY <1>3, <4>4 DEF IsMet
      <4> QED
        BY <1>1, <4>1, <4>2, <4>3, <4>4
    <3> QED
      BY <1>3, <3>1, <3>2
  <2> QED
    BY <2>1 DEF RelationIsWorked
<1>8. GuidesAreFollowed'
  <2>1. ASSUME NEW G \in SUBSET (mine.states \X other.states), IsGuide(G, mine, other, weak)
        PROVE  phase # "no" /\ relation' \subseteq Around(G, mine, other, weak)
    BY <1>3, <2>1 DEF GuidesAreFollowed
  <2> QED
    BY <2>1 DEF GuidesAreFollowed
<1>9. OverflowMeansCycle'
  BY DEF OverflowMeansCycle
<1> QED
  BY <1>4, <1>5, <1>6, <1>7, <1>8, <1>9

-----------------------------------------------------------------------------
(***************************************************************************)
(* The steps.                                                              *)
(***************************************************************************)
LEMMA InitKeeps == Init => IInv
<1> SUFFICES ASSUME Init PROVE IInv
  OBVIOUS
<1>1. IsAutomaton(mine) /\ IsAutomaton(other) /\ weak \in BOOLEAN
  BY PairsAssumption DEF Init
<1>2. phase = "start" /\ relation = {} /\ calls = <<>>
  BY DEF Init
<1>3. TypeOK
  BY <1>1, <1>2 DEF TypeOK
<1>4. CallsAreAtWork
  BY <1>2 DEF CallsAreAtWork, IsAtWork
<1>5. InitialMet /\ RelationIsWorked /\ GuidesAreFollowed /\ OverflowMeansCycle
  BY <1>2 DEF InitialMet, RelationIsWorked, GuidesAreFollowed, OverflowMeansCycle
<1> QED
  BY <1>3, <1>4, <1>5 DEF IInv

LEMMA StartKeeps == IInv /\ Start => IInv'
<1> SUFFICES ASSUME IInv, Start PROVE IInv'
  OBVIOUS
<1> USE DEF IInv
<1>1. /\ phase = "start" /\ relation = {} /\ calls = <<>>
      /\ mine' = mine /\ other' = other /\ weak' = weak
  BY DEF Start, CallsAreAtWork
<1>2. CASE mine.initial = {} \/ other.initial = {}
  <2>1. phase' = "no" /\ relation' = relation /\ calls' = calls
    BY <1>2 DEF Start
  <2>2. TypeOK' /\ CallsAreAtWork'
    BY <1>1, <2>1 DEF TypeOK, CallsAreAtWork
  <2>3. InitialMet' /\ RelationIsWorked' /\ OverflowMeansCycle'
    BY <2>1 DEF InitialMet, RelationIsWorked, OverflowMeansCycle
  <2>4. GuidesAreFollowed'
    <3>1. \A G : ~ IsGuide(G, mine, other, weak)
      BY <1>2 DEF IsGuide
    <3> QED
      BY <1>1, <3>1 DEF GuidesAreFollowed
  <2> QED
    BY <2>2, <2>3, <2>4
<1>3. CASE ~ (mine.initial = {} \/ other.initial = {})
  <2>1. PICK m \in mine.initial, o \in other.initial : Enter(m, o, <<>>)
    BY <1>3 DEF Start
  <2>2. phase' = "run"
    BY <1>3 DEF Start
  <2>3. m \in mine.states /\ o \in other.states /\ mine.initial \X other.initial = {<<m, o>>}
    <3>1. /\ m \in mine.states /\ o \in other.states
          /\ \A x \in mine.initial : x = m
          /\ \A y \in other.initial : y = o
      BY DEF TypeOK, IsAutomaton
    <3> QED
      BY <3>1
  <2>4. /\ relation' = {<<m, o>>}
        /\ relation' \in SUBSET (mine.states \X other.states)
        /\ calls' \in Seq(ActivationsOf(mine, other)) /\ calls' # <<>>
        /\ IsAtWork(calls', relation', other)
        /\ \A f \in Out(other, o) : IsLeft(calls', <<m, o>>, f)
    <3>1. <<>> \in Seq(ActivationsOf(mine, other)) /\ IsAtWork(<<>>, relation, other)
      BY DEF IsAtWork
    <3>2. <<m, o>> \notin relation /\ relation \cup {<<m, o>>} = {<<m, o>>}
      BY <1>1
    <3> QED
      BY <2>1, <2>3, <3>1, <3>2, EnterFits
  <2>5. TypeOK'
    BY <1>1, <2>2, <2>4 DEF TypeOK
  <2>6. CallsAreAtWork' /\ InitialMet' /\ OverflowMeansCycle'
    BY <1>1, <2>2, <2>3, <2>4 DEF CallsAreAtWork, InitialMet, OverflowMeansCycle
  <2>7. RelationIsWorked'
    <3>1. IsWorked(relation', calls', mine, other, weak)
      BY <2>4, SMTT(40) DEF IsWorked
    <3> QED
      BY <1>1, <3>1 DEF RelationIsWorked
  <2>8. GuidesAreFollowed'
    <3>1. ASSUME NEW G \in SUBSET (mine.states \X other.states), IsGuide(G, mine, other, weak)
          PROVE  relation' \subseteq Around(G, mine, other, weak)
      <4>1. <<m, o>> \in G /\ <<m, o>> \in mine.states \X other.states
        BY <2>3, <3>1 DEF IsGuide
      <4>2. m \in Quietly(mine, {m})
        BY <2>3, QuietlyUnfolds DEF TypeOK
      <4>3. <<m, o>> \in Around(G, mine, other, weak)
        BY <4>1, <4>2 DEF Around
      <4> QED
        BY <2>4, <4>3
    <3> QED
      BY <1>1, <2>2, <3>1 DEF GuidesAreFollowed
  <2> QED
    BY <2>5, <2>6, <2>7, <2>8
<1> QED
  BY <1>2, <1>3

LEMMA VisitEdgeKeeps == IInv /\ VisitEdge => IInv'
<1> SUFFICES ASSUME IInv, VisitEdge PROVE IInv'
  OBVIOUS
<1>1. /\ phase = "run" /\ calls # <<>> /\ mine' = mine /\ other' = other /\ weak' = weak
      /\ TypeOK /\ IsAtWork(calls, relation, other)
  BY DEF VisitEdge, Running, IInv, CallsAreAtWork
<1>2. PICK e \in Top.todo : FollowAlone(e) \/ FollowTogether(e) \/ Fail(e) \/ Overflow(e)
  BY DEF VisitEdge
<1> DEFINE m == Top.mine
           o == Top.other
<1>3. <<m, o>> \in relation /\ m \in mine.states /\ o \in other.states /\ e \in Out(other, o)
  <2>1. <<m, o>> \in relation /\ e \in Out(other, o)
    BY <1>1, AfterEdge
  <2> QED
    BY <1>1, <2>1 DEF TypeOK
<1>4. /\ MatchesOf(mine, weak, m, e.label) \subseteq AnswersOf(mine, weak, m, e.label)
      /\ AnswersOf(mine, weak, m, e.label) \subseteq mine.states
      /\ weak /\ e.label = Unobservable => m \in Meets(mine, weak, m, e)
      /\ ~ (weak /\ e.label = Unobservable) =>
           AnswersOf(mine, weak, m, e.label) \subseteq Meets(mine, weak, m, e)
  BY <1>1, <1>3, MatchesFit DEF TypeOK
<1>5. Matches(e) = MatchesOf(mine, weak, m, e.label)
  BY DEF Matches, MatchesOf
<1>6. ASSUME NEW G \in SUBSET (mine.states \X other.states), IsGuide(G, mine, other, weak)
      PROVE  /\ weak /\ e.label = Unobservable => <<m, e.target>> \in Around(G, mine, other, weak)
             /\ ~ (weak /\ e.label = Unobservable) =>
                  /\ AnswersOf(mine, weak, m, e.label) # {}
                  /\ \A x \in AnswersOf(mine, weak, m, e.label) :
                       <<x, e.target>> \in Around(G, mine, other, weak)
  <2>1. <<m, o>> \in Around(G, mine, other, weak)
    BY <1>3, <1>6 DEF IInv, GuidesAreFollowed
  <2>2. IsSimulation(G, mine, other, weak) /\ OneAnswer(mine, other, weak)
    BY <1>6 DEF IsGuide
  <2> HIDE DEF m, o
  <2> QED
    BY <1>1, <1>3, <2>1, <2>2, AnswersStayAround DEF TypeOK
<1>7. StaysPut(e) <=> weak /\ e.label = Unobservable
  BY DEF StaysPut
<1>8. CASE FollowAlone(e)
  <2>1. Enter(m, e.target, After(e)) /\ phase' = phase /\ weak /\ e.label = Unobservable
    BY <1>8, <1>7 DEF FollowAlone
  <2>2. m \in Meets(mine, weak, m, e)
    BY <1>4, <2>1
  <2>3. \A G \in SUBSET (mine.states \X other.states) :
          IsGuide(G, mine, other, weak) => <<m, e.target>> \in Around(G, mine, other, weak)
    BY <1>6, <2>1
  <2> QED
    BY <1>1, <1>3, <2>1, <2>2, <2>3, FollowKeeps
<1>9. CASE FollowTogether(e)
  <2>1. PICK x \in Matches(e) : Enter(x, e.target, After(e))
    BY <1>9 DEF FollowTogether
  <2>2. phase' = phase /\ ~ (weak /\ e.label = Unobservable)
    BY <1>7, <1>9 DEF FollowTogether
  <2>3. x \in AnswersOf(mine, weak, m, e.label)
    BY <1>4, <1>5, <2>1
  <2>4. x \in mine.states /\ x \in Meets(mine, weak, m, e)
    BY <1>4, <2>2, <2>3
  <2>5. \A G \in SUBSET (mine.states \X other.states) :
          IsGuide(G, mine, other, weak) => <<x, e.target>> \in Around(G, mine, other, weak)
    BY <1>6, <2>2, <2>3
  <2> QED
    BY <1>1, <2>1, <2>2, <2>4, <2>5, FollowKeeps
<1>10. ASSUME phase' \in {"no", "overflow"}, calls' = <<>>, relation' = relation,
              phase' = "no" => \A G \in SUBSET (mine.states \X other.states) :
                                 ~ IsGuide(G, mine, other, weak),
              phase' = "overflow" => weak /\ HasCycle(mine)
       PROVE  IInv'
  <2>1. TypeOK'
    BY <1>1, <1>10 DEF TypeOK
  <2>2. CallsAreAtWork'
    BY <1>10 DEF CallsAreAtWork, IsAtWork
  <2>3. InitialMet' /\ RelationIsWorked' /\ OverflowMeansCycle'
    BY <1>1, <1>10 DEF InitialMet, RelationIsWorked, OverflowMeansCycle
  <2>4. GuidesAreFollowed'
    <3>1. ASSUME NEW G \in SUBSET (mine.states \X other.states), IsGuide(G, mine, other, weak)
          PROVE  phase' # "no" /\ relation' \subseteq Around(G, mine, other, weak)
      BY <1>10, <3>1 DEF IInv, GuidesAreFollowed
    <3> QED
      BY <1>1, <3>1 DEF GuidesAreFollowed
  <2> QED
    BY <2>1, <2>2, <2>3, <2>4 DEF IInv
<1>11. CASE Fail(e)
  <2>1. /\ phase' = "no" /\ calls' = <<>> /\ relation' = relation
        /\ ~ (weak /\ e.label = Unobservable) /\ Matches(e) = {}
        /\ ~ (weak /\ SearchIsEndless(mine, m, e.label))
    BY <1>7, <1>11 DEF Fail
  <2>2. AnswersOf(mine, weak, m, e.label) = {}
    <3>1. CASE weak
      <4>1. IndirectSuccessors(mine, m, e.label) = {} /\ ~ SearchIsEndless(mine, m, e.label)
        BY <1>5, <2>1, <3>1 DEF MatchesOf
      <4> HIDE DEF m
      <4>2. QuietAnswers(mine, m, e.label) = {}
        BY <1>1, <1>3, <4>1, SearchIsRight DEF TypeOK
      <4> QED
        BY <3>1, <4>2 DEF AnswersOf
    <3>2. CASE ~ weak
      BY <1>5, <2>1, <3>2 DEF MatchesOf, AnswersOf
    <3> QED
      BY <3>1, <3>2
  <2>3. \A G \in SUBSET (mine.states \X other.states) : ~ IsGuide(G, mine, other, weak)
    BY <1>6, <2>1, <2>2
  <2> QED
    BY <1>10, <2>1, <2>3
<1>12. CASE Overflow(e)
  <2>1. /\ phase' = "overflow" /\ calls' = <<>> /\ relation' = relation
        /\ weak /\ SearchIsEndless(mine, m, e.label)
    BY <1>12 DEF Overflow
  <2>2. HasCycle(mine)
    <3> HIDE DEF m
    <3> QED
      BY <1>1, <1>3, <2>1, EndlessMeansCycle DEF HasCycle, TypeOK
  <2> QED
    BY <1>10, <2>1, <2>2
<1> QED
  BY <1>2, <1>8, <1>9, <1>11, <1>12

LEMMA ReturnKeeps == IInv /\ Return => IInv'
<1> SUFFICES ASSUME IInv, Return PROVE IInv'
  OBVIOUS
<1> USE DEF IInv
<1>1. /\ phase = "run" /\ calls # <<>> /\ Top.todo = {} /\ calls' = Tail(calls)
      /\ phase' = IF Tail(calls) = <<>> THEN "yes" ELSE "run"
      /\ mine' = mine /\ other' = other /\ weak' = weak /\ relation' = relation
  BY DEF Return, Running
<1> DEFINE A == ActivationsOf(mine, other)
           x == Head(calls)
           t == Tail(calls)
<1>2. calls \in Seq(A) /\ x \in A /\ t \in Seq(A) /\ calls = <<x>> \o t
  BY <1>1, PoppedCall DEF TypeOK
<1>3. x.todo = {}
  BY <1>1 DEF Top
<1> HIDE DEF A, x, t
<1>4. IsAtWork(t, relation, other)
  BY <1>2, PushedCall DEF CallsAreAtWork
<1>5. \A mo, f : IsLeft(calls, mo, f) => IsLeft(t, mo, f)
  BY <1>2, <1>3, PushedCall
<1>6. calls' = t /\ phase' = IF t = <<>> THEN "yes" ELSE "run"
  BY <1>1 DEF t
<1>7. TypeOK'
  BY <1>1, <1>2, <1>6 DEF TypeOK, A
<1>8. CallsAreAtWork' /\ InitialMet' /\ OverflowMeansCycle'
  BY <1>1, <1>4, <1>6 DEF CallsAreAtWork, InitialMet, OverflowMeansCycle
<1>9. RelationIsWorked'
  <2>1. IsWorked(relation, t, mine, other, weak)
    BY <1>1, <1>5 DEF RelationIsWorked, IsWorked
  <2> QED
    BY <1>1, <1>6, <2>1 DEF RelationIsWorked
<1>10. GuidesAreFollowed'
  BY <1>1, <1>6 DEF GuidesAreFollowed
<1> QED
  BY <1>7, <1>8, <1>9, <1>10

\* The inductive invariant holds.
THEOREM IInvHolds == Spec => []IInv
<1>1. IInv /\ [Next]_vars => IInv'
  <2> SUFFICES ASSUME IInv, [Next]_vars PROVE IInv'
    OBVIOUS
  <2>1. CASE Start
    BY <2>1, StartKeeps
  <2>2. CASE VisitEdge
    BY <2>2, VisitEdgeKeeps
  <2>3. CASE Return
    BY <2>3, ReturnKeeps
  <2>4. CASE UNCHANGED vars
    BY <2>4 DEF vars, IInv, TypeOK, CallsAreAtWork, InitialMet, RelationIsWorked,
                GuidesAreFollowed, OverflowMeansCycle
  <2> QED
    BY <2>1, <2>2, <2>3, <2>4 DEF Next
<1> QED
  BY <1>1, InitKeeps, PTL DEF Spec

(***************************************************************************)
(* A yes is always right: the pairs taken for granted are a simulation.    *)
(***************************************************************************)
THEOREM YesIsRight == Spec => []AcceptedIsSimulation
<1>1. IInv => AcceptedIsSimulation
  <2> SUFFICES ASSUME IInv, phase = "yes"
               PROVE  /\ mine.initial \X other.initial \subseteq relation
                      /\ \A mo \in relation : Holds(relation, mo[1], mo[2])
    BY DEF AcceptedIsSimulation
  <2>1. calls = <<>> /\ \A mo, e : ~ IsLeft(calls, mo, e)
    BY DEF IInv, CallsAreAtWork, IsLeft
  <2>2. \A mo \in relation : \A e \in Out(other, mo[2]) : IsMet(relation, mine, weak, mo, e)
    BY <2>1 DEF IInv, RelationIsWorked, IsWorked
  <2>3. weak \in BOOLEAN
    BY DEF IInv, TypeOK
  <2>4. \A mo \in relation : Holds(relation, mo[1], mo[2])
    BY <2>2, <2>3, HoldsIs DEF IsMet
  <2> QED
    BY <2>4 DEF IInv, InitialMet
<1> QED
  BY <1>1, IInvHolds, PTL

\* The comparison can be made: after a yes, the greatest simulation relates the initial states.
THEOREM YesMeansGreatest ==
  Spec => [](phase = "yes" => mine.initial \X other.initial \subseteq GreatestSimulation)
<1>1. IInv /\ AcceptedIsSimulation =>
        (phase = "yes" => mine.initial \X other.initial \subseteq GreatestSimulation)
  BY GreatestHasAll DEF IInv, TypeOK, AcceptedIsSimulation, IsAutomaton
<1> QED
  BY <1>1, IInvHolds, YesIsRight, PTL

(***************************************************************************)
(* A no is right when there is one answer to each label, and a recursion   *)
(* without end takes a weak check and a cycle of unobservable edges.       *)
(***************************************************************************)
THEOREM NoIsRight == Spec => []RejectedIsJust
<1>1. IInv => RejectedIsJust
  <2> SUFFICES ASSUME IInv PROVE RejectedIsJust
    OBVIOUS
  <2>1. IsAutomaton(mine) /\ IsAutomaton(other) /\ weak \in BOOLEAN
    BY DEF IInv, TypeOK
  <2>2. phase = "overflow" => weak /\ HasQuietCycle
    BY DEF IInv, OverflowMeansCycle, HasCycle, HasQuietCycle
  <2>3. ASSUME phase = "no", Deterministic, mine.initial # {}, other.initial # {},
               NEW m \in mine.initial, NEW o \in other.initial, <<m, o>> \in GreatestSimulation
        PROVE  FALSE
    <3>1. /\ GreatestSimulation \in SUBSET (mine.states \X other.states)
          /\ \A mo \in GreatestSimulation : Holds(GreatestSimulation, mo[1], mo[2])
      BY <2>1, GreatestIsSimulation DEF IsAutomaton
    <3>2. IsSimulation(GreatestSimulation, mine, other, weak)
      BY <2>1, <3>1, HoldsIs DEF IsSimulation
    <3>3. OneAnswer(mine, other, weak)
      <4> SUFFICES ASSUME NEW s \in mine.states, NEW e \in other.edges,
                          ~ weak \/ e.label # Unobservable,
                          NEW x \in AnswersOf(mine, weak, s, e.label),
                          NEW y \in AnswersOf(mine, weak, s, e.label)
                   PROVE  x = y
        BY DEF OneAnswer
      <4>1. AnswersOf(mine, weak, s, e.label) \in SUBSET mine.states
        BY <2>1, MatchesFit
      <4>2. Answers(s, e.label) = AnswersOf(mine, weak, s, e.label)
        BY <2>1, AnswersAre
      <4>3. Cardinality(AnswersOf(mine, weak, s, e.label)) <= 1
        BY <2>3, <4>2 DEF Deterministic
      <4>4. {x, y} \in SUBSET AnswersOf(mine, weak, s, e.label)
        OBVIOUS
      <4>5. IsFiniteSet(AnswersOf(mine, weak, s, e.label))
        BY <2>1, <4>1, FS_Subset DEF IsAutomaton
      <4>6. /\ IsFiniteSet({x, y}) /\ Cardinality({x, y}) \in Nat
            /\ Cardinality({x, y}) <= Cardinality(AnswersOf(mine, weak, s, e.label))
            /\ Cardinality(AnswersOf(mine, weak, s, e.label)) \in Nat
        BY <4>4, <4>5, FS_Subset, FS_CardinalityType
      <4>7. Cardinality({x, y}) = 0 \/ Cardinality({x, y}) = 1
        BY <4>3, <4>6
      <4>8. \E z : {x, y} = {z}
        BY <4>6, <4>7, FS_EmptySet, FS_Singleton
      <4> QED
        BY <4>8
    <3>4. mine.initial \X other.initial \subseteq GreatestSimulation
      <4>1. \A s \in mine.initial : s = m
        BY <2>1 DEF IsAutomaton
      <4>2. \A s \in other.initial : s = o
        BY <2>1 DEF IsAutomaton
      <4> QED
        BY <2>3, <4>1, <4>2
    <3>5. IsGuide(GreatestSimulation, mine, other, weak)
      BY <2>3, <3>2, <3>3, <3>4 DEF IsGuide
    <3> QED
      BY <2>3, <3>1, <3>5 DEF IInv, GuidesAreFollowed
  <2> QED
    BY <2>2, <2>3 DEF RejectedIsJust
<1> QED
  BY <1>1, IInvHolds, PTL
=============================================================================
