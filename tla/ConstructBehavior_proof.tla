------------------------ MODULE ConstructBehavior_proof -------------------------
(***************************************************************************)
(* ConstructBehavior ends with the exact state graph of the net, for every *)
(* net: whatever the places, intervals and labels, no step is forgotten,   *)
(* none is invented, and each edge has the label of the step it stands     *)
(* for.  The argument is about the call stack: a net state of the behavior *)
(* has the edges of all its steps, but for those that its activation has   *)
(* still to do; and it is at most as many steps away from the initial net  *)
(* state as there are states, which is how far the reference definition    *)
(* looks.                                                                  *)
(***************************************************************************)
EXTENDS ConstructBehavior, FiniteSetTheorems, WellFoundedInduction, TLAPS

-----------------------------------------------------------------------------
(***************************************************************************)
(* Induction over numbers.                                                 *)
(***************************************************************************)
\* Of any numbers one is the least.
LEMMA LeastNumber ==
  ASSUME NEW S \in SUBSET Nat, S # {}
  PROVE  \E i \in S : \A k \in S : i <= k
<1> DEFINE R == OpToRel(<, Nat)
<1>1. \A x, y \in Nat : x < y => <<x, y>> \in R
  BY DEF OpToRel
<1>2. IsWellFoundedOn(R, Nat)
  BY NatLessThanWellFounded
<1> HIDE DEF R
<1>3. PICK i \in S : \A k \in S : ~ (<<k, i>> \in R)
  BY <1>2, WFMin
<1>4. \A k \in S : ~ (k < i)
  BY <1>1, <1>3
<1> QED
  BY <1>4

\* A set of numbers that has 0 and the successor of each of its members has them all.
LEMMA SetInduction ==
  ASSUME NEW S, 0 \in S, \A n \in Nat : n \in S => n + 1 \in S
  PROVE  \A n \in Nat : n \in S
<1> SUFFICES ASSUME NEW k \in Nat, k \notin S PROVE FALSE
  OBVIOUS
<1> DEFINE T == {n \in Nat : n \notin S}
<1>1. PICK x \in T : \A y \in T : x <= y
  <2>1. T \in SUBSET Nat /\ T # {}
    OBVIOUS
  <2> HIDE DEF T
  <2> QED
    BY <2>1, LeastNumber
<1>2. x # 0 /\ x - 1 \in Nat /\ (x - 1) + 1 = x
  OBVIOUS
<1>3. x - 1 \notin T
  BY <1>1, <1>2
<1> QED
  BY <1>2, <1>3

-----------------------------------------------------------------------------
(***************************************************************************)
(* The net.  Steps lead from net states to net states.                     *)
(***************************************************************************)
LEMMA SizeArithmetic ==
  ASSUME NEW a \in Size, NEW b \in Size
  PROVE  Plus(a, b) \in Size /\ Minus(a, b) \in Size
BY SizeAssumption DEF Plus, Minus, Size

LEMMA InitialStateType == InitialState \in NetStates
BY SizeAssumption, MarkingAssumption DEF InitialState, NetStates, Size, DisabledTransition

\* Firing a transition.
LEMMA FireType ==
  ASSUME NEW s \in NetStates, NEW t \in Transitions
  PROVE  FireTransition(t, s) \in NetStates
<1>1. s.place \in Markings /\ s.time \in [Transitions -> Size]
  BY DEF NetStates
<1>2. UpdateTokens(t, s.place) \in Markings
  <2> SUFFICES ASSUME NEW p \in Places
               PROVE  Plus(Minus(s.place[p], Incoming[t][p]), Outgoing[t][p]) \in Size
    BY DEF UpdateTokens, Markings
  <2>1. s.place[p] \in Size /\ Incoming[t][p] \in Size /\ Outgoing[t][p] \in Size
    BY <1>1, ArcAssumption DEF Markings
  <2> QED
    BY <2>1, SizeArithmetic
<1>3. 0 \in Size /\ DisabledTransition \in Size
  BY SizeAssumption DEF Size, DisabledTransition
<1>4. ASSUME NEW m, NEW time \in [Transitions -> Size]
      PROVE  /\ UpdateSiblings(t, m, time) \in [Transitions -> Size]
             /\ UpdateSuccessors(t, m, time) \in [Transitions -> Size]
  BY <1>3 DEF UpdateSiblings, UpdateSuccessors, EnablePostset
<1> QED
  BY <1>1, <1>2, <1>4 DEF FireTransition, NetStates

\* Letting time pass.
LEMMA TimeStepType ==
  ASSUME NEW s \in NetStates
  PROVE  MakeTimeStep(s) \in NetStates
<1>1. s.time \in [Transitions -> Size]
  BY DEF NetStates
<1>2. ASSUME NEW t \in Transitions PROVE StepClock(t, s) \in Size
  <2>1. DisabledTransition \in Size /\ MinTime[t] \in Size /\ 1 \in Size /\ s.time[t] \in Size
    BY <1>1, SizeAssumption, IntervalAssumption DEF Size, DisabledTransition
  <2> QED
    BY <2>1, SizeArithmetic DEF StepClock, Min2
<1> QED
  BY <1>2 DEF MakeTimeStep, NetStates

\* So a successor is a net state, and jobs are numbers.
LEMMA SuccessorType ==
  ASSUME NEW s \in NetStates
  PROVE  Jobs(s) \subseteq Nat /\ \A j \in Jobs(s) : Successor(j, s) \in NetStates
<1>1. Len(TransitionList) \in Nat /\ DOMAIN TransitionList = 1 .. Len(TransitionList)
      /\ \A i \in DOMAIN TransitionList : TransitionList[i] \in Transitions
  BY ListAssumption
<1>2. Jobs(s) \subseteq 1 .. TimeJob /\ \A j \in Jobs(s) : j # TimeJob => j \in DOMAIN TransitionList
  BY <1>1 DEF Jobs, TimeJob
<1> QED
  BY <1>1, <1>2, FireType, TimeStepType DEF Successor, TimeJob

\* The job in hand is one of those left.
LEMMA JobIsLeft ==
  ASSUME NEW call, call.left \subseteq Nat, call.left # {}
  PROVE  Job(call) \in call.left
BY LeastNumber DEF Job

-----------------------------------------------------------------------------
(***************************************************************************)
(* The reference definition Reachable, which goes on for as many rounds as *)
(* the behavior has states.                                                *)
(***************************************************************************)
IsRounds(f, n) == f = [k \in 0 .. n |-> IF k = 0 THEN {InitialState}
                                        ELSE f[k - 1] \cup Onward(f[k - 1])]

\* At most n steps away from the initial net state, however many rounds there are.
Within(s, n) == \A f : \A m \in Nat : n <= m /\ IsRounds(f, m) => s \in f[n]

\* The rounds exist, whatever their number.
LEMMA RoundsExist == \A n \in Nat : \E f : IsRounds(f, n)
<1> DEFINE T == {n \in Nat : \E f : IsRounds(f, n)}
           After(P) == P \cup Onward(P)
<1>1. 0 \in T
  <2>1. IsRounds([k \in 0 .. 0 |-> {InitialState}], 0)
    BY DEF IsRounds
  <2> QED
    BY <2>1
<1>2. \A n \in Nat : n \in T => n + 1 \in T
  <2> SUFFICES ASSUME NEW n \in Nat, NEW f, IsRounds(f, n)
               PROVE  \E g : IsRounds(g, n + 1)
    OBVIOUS
  <2> DEFINE g == [k \in 0 .. (n + 1) |-> IF k = n + 1 THEN After(f[n]) ELSE f[k]]
  <2>1. \A k \in 0 .. n : g[k] = f[k] /\ k \in 0 .. (n + 1)
    OBVIOUS
  <2>2. \A k \in 0 .. n : f[k] = IF k = 0 THEN {InitialState} ELSE After(f[k - 1])
    BY DEF IsRounds
  <2> HIDE DEF After
  <2>3. ASSUME NEW k \in 0 .. (n + 1)
        PROVE  g[k] = IF k = 0 THEN {InitialState} ELSE After(g[k - 1])
    <3>1. CASE k = n + 1
      BY <2>1, <3>1
    <3>2. CASE k \in 0 .. n
      <4>1. k = 0 \/ k - 1 \in 0 .. n
        BY <3>2
      <4> QED
        BY <2>1, <2>2, <3>2, <4>1
    <3> QED
      BY <3>1, <3>2
  <2>4. IsRounds(g, n + 1)
    BY <2>3 DEF IsRounds, After
  <2> QED
    BY <2>4
<1> HIDE DEF T
<1>3. \A n \in Nat : n \in T
  BY <1>1, <1>2, SetInduction
<1> QED
  BY <1>3 DEF T

\* Round by round, from the first to the last.
LEMMA RoundByRound ==
  ASSUME NEW f, NEW n \in Nat, IsRounds(f, n)
  PROVE  /\ f[0] = {InitialState}
         /\ \A k \in Nat : k + 1 <= n => f[k + 1] = f[k] \cup Onward(f[k])
<1>1. \A k \in 0 .. n :
        f[k] = IF k = 0 THEN {InitialState} ELSE f[k - 1] \cup Onward(f[k - 1])
  BY DEF IsRounds
<1>2. ASSUME NEW k \in Nat, k + 1 <= n PROVE f[k + 1] = f[k] \cup Onward(f[k])
  <2>1. k + 1 \in 0 .. n /\ k + 1 # 0 /\ (k + 1) - 1 = k
    BY <1>2
  <2> QED
    BY <1>1, <2>1
<1>3. 0 \in 0 .. n
  OBVIOUS
<1> QED
  BY <1>1, <1>2, <1>3

\* A successor of a state in a set is among those the set leads on to.
LEMMA OnwardHas ==
  ASSUME NEW P, NEW s \in P, NEW j \in Jobs(s), IsBounded(Successor(j, s))
  PROVE  Successor(j, s) \in Onward(P)
BY DEF Onward

\* And nothing else is.
LEMMA OnwardIs ==
  ASSUME NEW P, NEW r \in Onward(P)
  PROVE  IsBounded(r) /\ \E s \in P : \E j \in Jobs(s) : r = Successor(j, s)
BY DEF Onward

\* How the distance grows along a step.
LEMMA WithinGrows ==
  ASSUME NEW n \in Nat, NEW s, Within(s, n)
  PROVE  /\ Within(s, n + 1)
         /\ \A j \in Jobs(s) : IsBounded(Successor(j, s)) => Within(Successor(j, s), n + 1)
<1> SUFFICES ASSUME NEW f, NEW m \in Nat, n + 1 <= m, IsRounds(f, m)
             PROVE  /\ s \in f[n + 1]
                    /\ \A j \in Jobs(s) : IsBounded(Successor(j, s))
                                            => Successor(j, s) \in f[n + 1]
  BY DEF Within
<1>1. s \in f[n]
  BY DEF Within
<1>2. f[n + 1] = f[n] \cup Onward(f[n])
  BY RoundByRound
<1> QED
  BY <1>1, <1>2, OnwardHas

\* The initial net state is no step away from itself.
LEMMA InitialWithin == \A n \in Nat : Within(InitialState, n)
<1> DEFINE T == {n \in Nat : Within(InitialState, n)}
<1>1. 0 \in T
  BY RoundByRound DEF Within
<1>2. \A n \in Nat : n \in T => n + 1 \in T
  BY WithinGrows
<1> HIDE DEF T
<1>3. \A n \in Nat : n \in T
  BY <1>1, <1>2, SetInduction
<1> QED
  BY <1>3 DEF T

\* Reachable is the last round.
LEMMA ReachableRounds ==
  ASSUME IsFiniteSet(states)
  PROVE  \E f : IsRounds(f, Cardinality(states)) /\ Reachable = f[Cardinality(states)]
<1> DEFINE n == Cardinality(states)
           g == CHOOSE h : IsRounds(h, n)
<1>1. n \in Nat
  BY FS_CardinalityType
<1>2. Reachable = g[n]
  BY DEF Reachable, IsRounds
<1> HIDE DEF n
<1>3. IsRounds(g, n)
  BY <1>1, RoundsExist
<1> QED
  BY <1>2, <1>3 DEF n

\* A set with the initial net state that no step leads out of holds all of Reachable.
LEMMA ReachableIsLeast ==
  ASSUME IsFiniteSet(states), NEW S, InitialState \in S,
         \A s \in S : \A j \in Jobs(s) : IsBounded(Successor(j, s)) => Successor(j, s) \in S
  PROVE  Reachable \subseteq S
<1> DEFINE n == Cardinality(states)
<1>1. n \in Nat
  BY FS_CardinalityType
<1>2. PICK f : IsRounds(f, n) /\ Reachable = f[n]
  BY ReachableRounds
<1> HIDE DEF n
<1>3. /\ f[0] = {InitialState}
      /\ \A k \in Nat : k + 1 <= n => f[k + 1] = f[k] \cup Onward(f[k])
  BY <1>1, <1>2, RoundByRound
<1> DEFINE T == {k \in Nat : k <= n => f[k] \subseteq S}
<1>4. 0 \in T
  BY <1>3
<1>5. \A P : P \subseteq S => Onward(P) \subseteq S
  BY OnwardIs
<1>6. \A k \in Nat : k \in T => k + 1 \in T
  BY <1>1, <1>3, <1>5
<1> HIDE DEF T
<1>7. n \in T
  BY <1>1, <1>4, <1>6, SetInduction
<1> QED
  BY <1>1, <1>2, <1>7 DEF T

-----------------------------------------------------------------------------
(***************************************************************************)
(* The inductive invariant, of parts that are stated for any states, edges *)
(* and stack, so that one step can be compared with the next.              *)
(***************************************************************************)
\* Deserved, with the choice whether bound violations get a state as a parameter.
DeservedBy(cv, s, j) ==
  LET r == Successor(j, s)
  IN  IF IsBounded(r) THEN {EdgeTo(s, j, r)} ELSE IF cv THEN {EdgeTo(s, j, Violation)} ELSE {}

Calls == [state : NetStates, left : SUBSET Nat]

\* A call has connected its state for all jobs but those left.
CallFits(cv, ss, es, call) ==
  /\ call.state \in ss
  /\ call.left \subseteq Jobs(call.state)
  /\ \A j \in Jobs(call.state) \ call.left : DeservedBy(cv, call.state, j) \subseteq es

\* A caller waits for the state its job leads to.
Waits(call, inner) ==
  /\ call.left # {}
  /\ inner.state = Successor(Job(call), call.state) /\ IsBounded(inner.state)

StackFits(cv, ss, es, st) ==
  /\ st \in Seq(Calls)
  /\ \A i \in 1 .. Len(st) : CallFits(cv, ss, es, st[i])
  /\ \A i \in 1 .. Len(st) - 1 : Waits(st[i + 1], st[i])
  /\ \A i, k \in 1 .. Len(st) : st[i].state = st[k].state => i = k

\* A net state is in the hands of a call, or has all of its edges.
StatesFit(cv, ss, es, st) ==
  \A s \in NetStatesOf(ss) :
    \/ \E i \in 1 .. Len(st) : st[i].state = s
    \/ \A j \in Jobs(s) : DeservedBy(cv, s, j) \subseteq es

EdgesFit(cv, ss, es) ==
  \A e \in es : /\ e.target \in ss
                /\ \E s \in NetStatesOf(ss) : \E j \in Jobs(s) : e \in DeservedBy(cv, s, j)

StatesReachable ==
  /\ IsFiniteSet(states) /\ NetStatesOf(states) \subseteq NetStates
  /\ \A s \in NetStatesOf(states) : Within(s, Cardinality(states))
  /\ phase # "start" => InitialState \in states

FinalFits == final = {s \in NetStatesOf(states) \ {InitialState} : IsFinalMarking(s.place)}

PhaseFits ==
  /\ createViolation \in BOOLEAN /\ phase \in {"start", "build", "done"}
  /\ phase = "build" <=> stack # <<>>
  /\ phase = "start" => states = {} /\ edges = {}

IInv == /\ PhaseFits /\ StatesReachable /\ FinalFits
        /\ StackFits(createViolation, states, edges, stack)
        /\ StatesFit(createViolation, states, edges, stack)
        /\ EdgesFit(createViolation, states, edges)

-----------------------------------------------------------------------------
(***************************************************************************)
(* What a step does to the stack.                                          *)
(***************************************************************************)
\* The stack once the innermost call has crossed off its job.
Advanced(st) == <<JobDone(st[1])>> \o Tail(st)

SameStates(st, new) == Len(new) = Len(st) /\ \A i \in 1 .. Len(st) : new[i].state = st[i].state

\* Once the edge of a job is there, the job may be crossed off.
LEMMA JobDoneFits ==
  ASSUME NEW cv, NEW ss, NEW S, NEW es, NEW E, NEW st, StackFits(cv, ss, es, st), st # <<>>,
         ss \subseteq S, es \subseteq E,
         DeservedBy(cv, st[1].state, Job(st[1])) \subseteq E
  PROVE  StackFits(cv, S, E, Advanced(st)) /\ SameStates(st, Advanced(st))
<1> DEFINE c == st[1]
           d == JobDone(c)
           new == <<d>> \o Tail(st)
<1>1. st \in Seq(Calls) /\ 1 \in 1 .. Len(st) /\ c \in Calls
  BY DEF StackFits
<1>2. d \in Calls /\ d.state = c.state /\ d.left = c.left \ {Job(c)}
  BY <1>1 DEF JobDone, Calls
<1>3. CallFits(cv, ss, es, c)
  BY <1>1 DEF StackFits
<1>4. CallFits(cv, S, E, d)
  BY <1>2, <1>3 DEF CallFits
<1> HIDE DEF c, d
<1>5. /\ new \in Seq(Calls) /\ Len(new) = Len(st) /\ new[1] = d
      /\ \A i \in 2 .. Len(st) : new[i] = st[i]
  BY <1>1, <1>2
<1> HIDE DEF new
<1>6. \A i \in 1 .. Len(st) : new[i].state = st[i].state
  BY <1>1, <1>2, <1>5 DEF c
<1>7. ASSUME NEW i \in 1 .. Len(new) PROVE CallFits(cv, S, E, new[i])
  <2>1. CASE i = 1
    BY <2>1, <1>4, <1>5
  <2>2. CASE i # 1
    <3>1. i \in 2 .. Len(st) /\ i \in 1 .. Len(st)
      BY <2>2, <1>1, <1>5
    <3>2. CallFits(cv, ss, es, st[i]) /\ new[i] = st[i]
      BY <3>1, <1>5 DEF StackFits
    <3> QED
      BY <3>2 DEF CallFits
  <2> QED
    BY <2>1, <2>2
<1>8. ASSUME NEW i \in 1 .. Len(new) - 1 PROVE Waits(new[i + 1], new[i])
  <2>1. i \in 1 .. Len(st) - 1 /\ i + 1 \in 2 .. Len(st) /\ i \in 1 .. Len(st)
    BY <1>1, <1>5
  <2>2. Waits(st[i + 1], st[i])
    BY <2>1 DEF StackFits
  <2>3. new[i + 1] = st[i + 1] /\ new[i].state = st[i].state
    BY <2>1, <1>5, <1>6
  <2> QED
    BY <2>2, <2>3 DEF Waits
<1>9. \A i, k \in 1 .. Len(new) : new[i].state = new[k].state => i = k
  BY <1>5, <1>6 DEF StackFits
<1> QED
  BY <1>5, <1>6, <1>7, <1>8, <1>9 DEF StackFits, SameStates, Advanced, new, d, c

\* Without the innermost call the others still fit.
LEMMA TailFits ==
  ASSUME NEW cv, NEW ss, NEW es, NEW st, StackFits(cv, ss, es, st), st # <<>>
  PROVE  /\ StackFits(cv, ss, es, Tail(st)) /\ Len(Tail(st)) = Len(st) - 1
         /\ \A i \in 1 .. Len(st) - 1 : Tail(st)[i] = st[i + 1]
<1> DEFINE new == Tail(st)
<1>1. /\ new \in Seq(Calls) /\ Len(new) = Len(st) - 1 /\ Len(st) \in Nat /\ Len(st) >= 1
      /\ \A i \in 1 .. Len(st) - 1 : new[i] = st[i + 1]
  BY DEF StackFits
<1> HIDE DEF new
<1>2. ASSUME NEW i \in 1 .. Len(new)
      PROVE  i + 1 \in 1 .. Len(st) /\ i \in 1 .. Len(st) - 1 /\ new[i] = st[i + 1]
  BY <1>1
<1>3. \A i \in 1 .. Len(new) : CallFits(cv, ss, es, new[i])
  BY <1>2 DEF StackFits
<1>4. ASSUME NEW i \in 1 .. Len(new) - 1 PROVE Waits(new[i + 1], new[i])
  <2>1. i + 1 \in 1 .. Len(new) /\ i \in 1 .. Len(new) /\ i + 1 \in 1 .. Len(st) - 1
    BY <1>1
  <2>2. Waits(st[(i + 1) + 1], st[i + 1])
    BY <2>1 DEF StackFits
  <2> QED
    BY <2>1, <2>2, <1>2
<1>5. ASSUME NEW i \in 1 .. Len(new), NEW k \in 1 .. Len(new), new[i].state = new[k].state
      PROVE  i = k
  <2>1. i + 1 = k + 1
    BY <1>2, <1>5 DEF StackFits
  <2> QED
    BY <2>1
<1> QED
  BY <1>1, <1>3, <1>4, <1>5 DEF StackFits, new

\* The job of the innermost call, if there is one, leads to a state.
LeadsTo(st, s) ==
  st # <<>> => /\ st[1].left # {} /\ IsBounded(s)
               /\ s = Successor(Job(st[1]), st[1].state)

\* A call for a state nobody has in hand, to which the job of the innermost call leads.
LEMMA PushFits ==
  ASSUME NEW cv, NEW ss, NEW es, NEW st, StackFits(cv, ss, es, st),
         NEW s \in NetStates, s \notin ss,
         LeadsTo(st, s)
  PROVE  LET new == <<Activation(s)>> \o st
         IN  /\ StackFits(cv, ss \cup {s}, es, new) /\ Len(new) = Len(st) + 1
             /\ new[1].state = s
             /\ \A i \in 1 .. Len(st) : new[i + 1] = st[i]
<1> DEFINE a == Activation(s)
           new == <<a>> \o st
           S == ss \cup {s}
<1>1. a \in Calls /\ a.state = s /\ a.left = Jobs(s)
  BY SuccessorType DEF Activation, Calls
<1>2. st \in Seq(Calls) /\ Len(st) \in Nat
  BY DEF StackFits
<1> HIDE DEF a
<1>3. /\ new \in Seq(Calls) /\ Len(new) = Len(st) + 1 /\ new[1] = a
      /\ \A i \in 1 .. Len(st) : new[i + 1] = st[i]
  BY <1>1, <1>2
<1> HIDE DEF new
<1>4. ASSUME NEW i \in 1 .. Len(new), i # 1
      PROVE  i - 1 \in 1 .. Len(st) /\ new[i] = st[i - 1] /\ st[i - 1].state \in ss
  <2>1. i - 1 \in 1 .. Len(st) /\ (i - 1) + 1 = i
    BY <1>2, <1>3, <1>4
  <2>2. CallFits(cv, ss, es, st[i - 1])
    BY <2>1 DEF StackFits
  <2> QED
    BY <2>1, <2>2, <1>3 DEF CallFits
<1>5. ASSUME NEW i \in 1 .. Len(new) PROVE CallFits(cv, S, es, new[i])
  <2>1. CASE i = 1
    BY <2>1, <1>1, <1>3 DEF CallFits
  <2>2. CASE i # 1
    BY <2>2, <1>4 DEF StackFits, CallFits
  <2> QED
    BY <2>1, <2>2
<1>6. ASSUME NEW i \in 1 .. Len(new) - 1 PROVE Waits(new[i + 1], new[i])
  <2>1. i \in 1 .. Len(st) /\ new[i + 1] = st[i]
    BY <1>2, <1>3
  <2>2. CASE i = 1
    <3>1. st # <<>>
      BY <2>1, <1>2
    <3> QED
      BY <2>1, <2>2, <3>1, <1>1, <1>3 DEF Waits, LeadsTo
  <2>3. CASE i # 1
    <3>1. i - 1 \in 1 .. Len(st) - 1 /\ (i - 1) + 1 = i /\ i \in 1 .. Len(new)
      BY <2>1, <2>3, <1>2, <1>3
    <3>2. Waits(st[i], st[i - 1])
      BY <3>1 DEF StackFits
    <3> QED
      BY <2>1, <2>3, <3>1, <3>2, <1>4
  <2> QED
    BY <2>2, <2>3
<1>7. ASSUME NEW i \in 1 .. Len(new), NEW k \in 1 .. Len(new), new[i].state = new[k].state
      PROVE  i = k
  <2>1. CASE i = 1 /\ k = 1
    BY <2>1
  <2>2. CASE (i = 1 /\ k # 1) \/ (i # 1 /\ k = 1)
    BY <2>2, <1>1, <1>3, <1>4, <1>7
  <2>3. CASE i # 1 /\ k # 1
    <3>1. /\ i - 1 \in 1 .. Len(st) /\ k - 1 \in 1 .. Len(st)
          /\ st[i - 1].state = st[k - 1].state
      BY <2>3, <1>4, <1>7
    <3>2. i - 1 = k - 1
      BY <3>1 DEF StackFits
    <3> QED
      BY <3>2
  <2> QED
    BY <2>1, <2>2, <2>3
<1> QED
  BY <1>1, <1>3, <1>5, <1>6, <1>7 DEF StackFits, new, a

\* Edges are only added; states keep their edges or the call that will add them.
LEMMA StatesKeepFitting ==
  ASSUME NEW cv, NEW ss, NEW S, NEW es, NEW E, NEW st, NEW new,
         StatesFit(cv, ss, es, st), NetStatesOf(S) = NetStatesOf(ss), es \subseteq E,
         SameStates(st, new)
  PROVE  StatesFit(cv, S, E, new)
BY DEF StatesFit, SameStates

\* A deserved edge may be added.
LEMMA EdgesKeepFitting ==
  ASSUME NEW cv, NEW ss, NEW S, NEW es, NEW E, NEW s \in NetStatesOf(ss), NEW j \in Jobs(s),
         EdgesFit(cv, ss, es), ss \subseteq S, E \subseteq es \cup DeservedBy(cv, s, j),
         \A e \in DeservedBy(cv, s, j) : e.target \in S
  PROVE  EdgesFit(cv, S, E)
BY DEF EdgesFit, NetStatesOf

-----------------------------------------------------------------------------
(***************************************************************************)
(* The steps.                                                              *)
(***************************************************************************)
LEMMA InitIInv == Init => IInv
<1> SUFFICES ASSUME Init PROVE IInv
  OBVIOUS
<1>1. /\ createViolation \in BOOLEAN /\ phase = "start"
      /\ states = {} /\ final = {} /\ edges = {} /\ stack = <<>>
  BY DEF Init
<1>2. IsFiniteSet(states)
  BY <1>1, FS_EmptySet
<1> QED
  BY <1>1, <1>2 DEF IInv, PhaseFits, StatesReachable, FinalFits, StackFits, StatesFit, EdgesFit,
                    NetStatesOf

LEMMA StartIInv ==
  ASSUME IInv, Start
  PROVE  IInv'
<1> DEFINE a == <<Activation(InitialState)>>
<1>1. /\ phase = "start" /\ phase' = "build" /\ states' = {InitialState} /\ stack' = a
      /\ UNCHANGED <<createViolation, final, edges>>
  BY DEF Start
<1>2. states = {} /\ edges = {} /\ stack = <<>> /\ final = {} /\ createViolation \in BOOLEAN
  BY <1>1 DEF IInv, PhaseFits, FinalFits, NetStatesOf
<1>3. InitialState \in NetStates /\ InitialState # Violation
  BY InitialStateType, ViolationAssumption
<1> DEFINE b == <<Activation(InitialState)>> \o stack
<1>4. /\ StackFits(createViolation, states \cup {InitialState}, edges, b)
      /\ Len(b) = Len(stack) + 1 /\ b[1].state = InitialState
  <2>1. StackFits(createViolation, states, edges, stack) /\ InitialState \notin states
        /\ LeadsTo(stack, InitialState)
    BY <1>2 DEF IInv, LeadsTo
  <2> QED
    BY <2>1, <1>3, PushFits
<1>5. a = b /\ Len(a) = 1 /\ a # <<>>
  BY <1>2
<1> HIDE DEF a, b
<1>6. StackFits(createViolation, {InitialState}, {}, a) /\ a[1].state = InitialState
  <2>1. states \cup {InitialState} = {InitialState}
    BY <1>2
  <2> QED
    BY <2>1, <1>2, <1>4, <1>5
<1>7. StatesFit(createViolation, {InitialState}, {}, a)
  BY <1>5, <1>6 DEF StatesFit, NetStatesOf
<1>8. EdgesFit(createViolation, {InitialState}, {})
  BY DEF EdgesFit
<1>9. StatesReachable'
  <2>1. IsFiniteSet({InitialState}) /\ Cardinality({InitialState}) = 1
    BY FS_Singleton
  <2> QED
    BY <2>1, <1>1, <1>3, InitialWithin DEF StatesReachable, NetStatesOf
<1>10. FinalFits' /\ PhaseFits'
  BY <1>1, <1>2, <1>5 DEF FinalFits, PhaseFits, NetStatesOf
<1> QED
  BY <1>1, <1>2, <1>6, <1>7, <1>8, <1>9, <1>10 DEF IInv

\* What the invariant says of the innermost call.
LEMMA TopFacts ==
  ASSUME IInv, phase = "build"
  PROVE  /\ stack # <<>> /\ Top = stack[1] /\ Below = Tail(stack) /\ 1 \in 1 .. Len(stack)
         /\ Len(stack) \in Nat
         /\ stack[1].state \in NetStates /\ stack[1].state \in NetStatesOf(states)
         /\ stack[1].left \subseteq Jobs(stack[1].state)
         /\ stack[1].left # {} =>
              /\ Job(stack[1]) \in stack[1].left
              /\ Job(stack[1]) \in Jobs(stack[1].state)
              /\ Successor(Job(stack[1]), stack[1].state) \in NetStates
<1>1. stack # <<>> /\ stack \in Seq(Calls)
  BY DEF IInv, PhaseFits, StackFits
<1>2. 1 \in 1 .. Len(stack) /\ stack[1] \in Calls /\ Top = stack[1] /\ Below = Tail(stack)
      /\ Len(stack) \in Nat
  BY <1>1 DEF Top, Below
<1>3. stack[1].state \in NetStates /\ stack[1].left \subseteq Nat
  BY <1>2 DEF Calls
<1>4. CallFits(createViolation, states, edges, stack[1])
  BY <1>2 DEF IInv, StackFits
<1>5. stack[1].state \in NetStatesOf(states)
  BY <1>3, <1>4, ViolationAssumption DEF CallFits, NetStatesOf
<1>6. stack[1].left # {} => Job(stack[1]) \in stack[1].left
  BY <1>3, JobIsLeft
<1> QED
  BY <1>1, <1>2, <1>3, <1>4, <1>5, <1>6, SuccessorType DEF CallFits

\* The job in hand leads beyond a bound.
LEMMA BeyondBoundIInv ==
  ASSUME IInv, phase = "build", Top.left # {}, BeyondBound(Successor(Job(Top), Top.state)),
         UNCHANGED <<createViolation, phase>>
  PROVE  IInv'
<1> DEFINE c == stack[1]
           owed == DeservedBy(createViolation, c.state, Job(c))
           new == Advanced(stack)
<1>1. /\ stack # <<>> /\ Top = c /\ Below = Tail(stack) /\ c.left # {}
      /\ c.state \in NetStatesOf(states) /\ Job(c) \in Jobs(c.state)
  BY TopFacts
<1>2. /\ ~ IsBounded(Successor(Job(c), c.state)) /\ stack' = new /\ final' = final
      /\ IF createViolation
         THEN /\ states' = states \cup {Violation}
              /\ edges' = edges \cup {EdgeTo(c.state, Job(c), Violation)}
         ELSE UNCHANGED <<states, edges>>
  BY <1>1 DEF BeyondBound, Advanced
<1>3. owed = IF createViolation THEN {EdgeTo(c.state, Job(c), Violation)} ELSE {}
  BY <1>2 DEF DeservedBy
<1> HIDE DEF c
<1>4. edges' = edges \cup owed
  BY <1>2, <1>3
<1>5. \A e \in owed : e.target \in states'
  BY <1>2, <1>3 DEF EdgeTo
<1> HIDE DEF owed
<1>6. states \subseteq states' /\ NetStatesOf(states') = NetStatesOf(states)
  BY <1>2 DEF NetStatesOf
<1>7. StackFits(createViolation, states', edges', new) /\ SameStates(stack, new)
  BY <1>1, <1>4, <1>6, JobDoneFits, SMTT(40) DEF IInv, c, owed
<1> HIDE DEF new
<1>8. StatesFit(createViolation, states', edges', new)
  BY <1>4, <1>6, <1>7, StatesKeepFitting DEF IInv
<1>9. EdgesFit(createViolation, states', edges')
  BY <1>1, <1>4, <1>5, <1>6, EdgesKeepFitting DEF IInv, owed
<1>10. StatesReachable'
  <2>1. CASE states' = states
    BY <2>1 DEF IInv, StatesReachable
  <2>2. CASE states' = states \cup {Violation} /\ Violation \notin states
    <3>1. IsFiniteSet(states') /\ Cardinality(states') = Cardinality(states) + 1
          /\ Cardinality(states) \in Nat
      BY <2>2, FS_AddElement, FS_CardinalityType DEF IInv, StatesReachable
    <3> QED
      BY <2>2, <3>1, <1>6, WithinGrows DEF IInv, StatesReachable
  <2> QED
    BY <1>2, <2>1, <2>2
<1>11. FinalFits'
  BY <1>2, <1>6 DEF IInv, FinalFits
<1>12. PhaseFits'
  BY <1>1, <1>2, <1>7 DEF IInv, PhaseFits, SameStates, StackFits
<1> QED
  BY <1>2, <1>7, <1>8, <1>9, <1>10, <1>11, <1>12 DEF IInv

\* The job in hand leads to a net state that the behavior has.
LEMMA KnownStateIInv ==
  ASSUME IInv, phase = "build", Top.left # {}, KnownState(Successor(Job(Top), Top.state)),
         UNCHANGED <<createViolation, phase>>
  PROVE  IInv'
<1> DEFINE c == stack[1]
           r == Successor(Job(c), c.state)
           owed == DeservedBy(createViolation, c.state, Job(c))
           new == Advanced(stack)
<1>1. /\ stack # <<>> /\ Top = c /\ Below = Tail(stack) /\ c.left # {}
      /\ c.state \in NetStatesOf(states) /\ Job(c) \in Jobs(c.state)
  BY TopFacts
<1>2. /\ IsBounded(r) /\ r \in states /\ stack' = new /\ UNCHANGED <<states, final>>
      /\ edges' = edges \cup {EdgeTo(c.state, Job(c), r)}
  BY <1>1 DEF KnownState, Advanced
<1>3. owed = {EdgeTo(c.state, Job(c), r)}
  BY <1>2 DEF DeservedBy
<1>4. \A e \in owed : e.target \in states
  BY <1>2, <1>3 DEF EdgeTo
<1>5. edges' = edges \cup owed
  BY <1>2, <1>3
<1> HIDE DEF c, owed
<1>6. StackFits(createViolation, states, edges', new) /\ SameStates(stack, new)
  <2>1. /\ StackFits(createViolation, states, edges, stack)
        /\ edges \subseteq edges' /\ owed \subseteq edges'
    BY <1>5 DEF IInv
  <2> QED
    BY <2>1, <1>1, JobDoneFits DEF c, owed
<1> HIDE DEF new
<1>7. StatesFit(createViolation, states, edges', new)
  BY <1>5, <1>6, StatesKeepFitting DEF IInv
<1>8. EdgesFit(createViolation, states, edges')
  BY <1>1, <1>4, <1>5, EdgesKeepFitting DEF IInv, owed
<1>9. StatesReachable' /\ FinalFits'
  BY <1>2 DEF IInv, StatesReachable, FinalFits
<1>10. PhaseFits'
  BY <1>1, <1>2, <1>6 DEF IInv, PhaseFits, SameStates, StackFits
<1> QED
  BY <1>2, <1>6, <1>7, <1>8, <1>9, <1>10 DEF IInv

\* The job in hand leads to a new net state, which is handled at once.
LEMMA NewStateIInv ==
  ASSUME IInv, phase = "build", Top.left # {}, NewState(Successor(Job(Top), Top.state)),
         UNCHANGED <<createViolation, phase>>
  PROVE  IInv'
<1> DEFINE c == stack[1]
           r == Successor(Job(c), c.state)
           new == <<Activation(r)>> \o stack
<1>1. /\ stack # <<>> /\ Top = c /\ c.left # {} /\ r \in NetStates /\ Len(stack) \in Nat
      /\ c.state \in NetStatesOf(states) /\ Job(c) \in Jobs(c.state)
  BY TopFacts
<1>2. /\ IsBounded(r) /\ r \notin states /\ states' = states \cup {r}
      /\ final' = IF IsFinalMarking(r.place) THEN final \cup {r} ELSE final
      /\ stack' = new /\ edges' = edges
  BY <1>1 DEF NewState
<1>3. r # Violation /\ NetStatesOf(states') = NetStatesOf(states) \cup {r}
  BY <1>1, <1>2, ViolationAssumption DEF NetStatesOf
<1>4. /\ StackFits(createViolation, states', edges, new) /\ Len(new) = Len(stack) + 1
      /\ new[1].state = r /\ \A i \in 1 .. Len(stack) : new[i + 1] = stack[i]
  BY <1>1, <1>2, PushFits, SMTT(40) DEF IInv, LeadsTo
<1>5. Within(r, Cardinality(states) + 1)
  <2>1. Within(c.state, Cardinality(states)) /\ Cardinality(states) \in Nat
    BY <1>1, FS_CardinalityType DEF IInv, StatesReachable
  <2> QED
    BY <2>1, <1>1, <1>2, WithinGrows
<1> HIDE DEF c, r, new
<1>6. StatesFit(createViolation, states', edges, new)
  <2> SUFFICES ASSUME NEW s \in NetStatesOf(states')
               PROVE  \/ \E i \in 1 .. Len(new) : new[i].state = s
                      \/ \A j \in Jobs(s) : DeservedBy(createViolation, s, j) \subseteq edges
    BY DEF StatesFit
  <2>1. CASE s = r
    <3>1. 1 \in 1 .. Len(new)
      BY <1>1, <1>4
    <3> QED
      BY <2>1, <3>1, <1>4
  <2>2. ASSUME NEW i \in 1 .. Len(stack), stack[i].state = s
        PROVE  \E k \in 1 .. Len(new) : new[k].state = s
    <3>1. i + 1 \in 1 .. Len(new)
      BY <1>1, <1>4
    <3> QED
      BY <2>2, <3>1, <1>4
  <2> QED
    BY <2>1, <2>2, <1>3 DEF IInv, StatesFit
<1>7. EdgesFit(createViolation, states', edges)
  BY <1>2, <1>3 DEF IInv, EdgesFit
<1>8. StatesReachable'
  <2>1. IsFiniteSet(states') /\ Cardinality(states') = Cardinality(states) + 1
        /\ Cardinality(states) \in Nat
    BY <1>2, FS_AddElement, FS_CardinalityType DEF IInv, StatesReachable
  <2> QED
    BY <2>1, <1>1, <1>2, <1>3, <1>5, WithinGrows DEF IInv, StatesReachable
<1>9. FinalFits'
  <2>1. InitialState \in states
    BY DEF IInv, StatesReachable
  <2>2. r # InitialState
    BY <2>1, <1>2
  <2> QED
    BY <2>2, <1>2, <1>3 DEF IInv, FinalFits
<1>10. PhaseFits'
  BY <1>1, <1>2, <1>4 DEF IInv, PhaseFits
<1> QED
  BY <1>2, <1>4, <1>6, <1>7, <1>8, <1>9, <1>10 DEF IInv

\* The innermost call comes back.
LEMMA ReturnIInv ==
  ASSUME IInv, Return
  PROVE  IInv'
<1> DEFINE c == stack[1]
<1>1. /\ phase = "build" /\ c.left = {} /\ stack # <<>> /\ Top = c /\ Below = Tail(stack)
      /\ Len(stack) \in Nat /\ 1 \in 1 .. Len(stack)
      /\ c.state \in NetStatesOf(states)
      /\ UNCHANGED <<createViolation, states, final>>
  BY TopFacts DEF Return
<1>2. CallFits(createViolation, states, edges, c)
  BY <1>1 DEF IInv, StackFits
<1>3. \A j \in Jobs(c.state) : DeservedBy(createViolation, c.state, j) \subseteq edges
  BY <1>1, <1>2 DEF CallFits
<1>4. CASE Len(stack) = 1
  <2>1. phase' = "done" /\ stack' = <<>> /\ edges' = edges
    BY <1>4 DEF Return
  <2>2. StatesFit(createViolation, states, edges, <<>>)
    BY <1>3, <1>4 DEF IInv, StatesFit
  <2>3. StackFits(createViolation, states, edges, <<>>)
    BY DEF StackFits
  <2>4. StatesReachable' /\ FinalFits' /\ PhaseFits'
    BY <1>1, <2>1 DEF IInv, StatesReachable, FinalFits, PhaseFits
  <2> QED
    BY <1>1, <2>1, <2>2, <2>3, <2>4 DEF IInv
<1>5. CASE Len(stack) # 1
  <2> DEFINE b == Tail(stack)
             d == stack[2]
             owed == DeservedBy(createViolation, d.state, Job(d))
             new == Advanced(b)
  <2>1. /\ stack' = new /\ phase' = phase
        /\ edges' = edges \cup {EdgeTo(d.state, Job(d), c.state)}
    <3>1. Tail(stack)[1] = d
      <4>1. stack \in Seq(Calls)
        BY DEF IInv, StackFits
      <4>2. \A n \in Nat : 1 \in 1 .. n /\ n # 1 => n >= 2
        OBVIOUS
      <4>3. Len(stack) >= 2
        BY <1>1, <1>5, <4>2
      <4> QED
        BY <4>1, <4>3
    <3> QED
      BY <3>1, <1>1, <1>5 DEF Return, Advanced
  <2>2. /\ StackFits(createViolation, states, edges, b) /\ Len(b) = Len(stack) - 1
        /\ \A i \in 1 .. Len(stack) - 1 : b[i] = stack[i + 1]
    BY <1>1, TailFits DEF IInv
  <2> HIDE DEF b
  <2>3. 1 \in 1 .. Len(stack) - 1 /\ 2 \in 1 .. Len(stack) /\ 1 \in 1 .. Len(b)
    BY <1>1, <1>5, <2>2
  <2>4. b[1] = d /\ b # <<>>
    BY <2>2, <2>3
  <2>5. Waits(d, c) /\ CallFits(createViolation, states, edges, d)
    BY <2>3 DEF IInv, StackFits
  <2>6. d \in Calls
    BY <2>3 DEF IInv, StackFits
  <2>7. /\ d.left # {} /\ Job(d) \in d.left /\ Job(d) \in Jobs(d.state)
        /\ d.state \in NetStatesOf(states)
    BY <2>5, <2>6, JobIsLeft, ViolationAssumption DEF Waits, CallFits, Calls, NetStatesOf
  <2>8. owed = {EdgeTo(d.state, Job(d), c.state)}
    BY <2>5 DEF Waits, DeservedBy
  <2>9. edges' = edges \cup owed /\ \A e \in owed : e.target \in states
    BY <1>2, <2>1, <2>8 DEF EdgeTo, CallFits
  <2> HIDE DEF owed, c, d
  <2>10. StackFits(createViolation, states, edges', new) /\ SameStates(b, new)
    <3>1. /\ StackFits(createViolation, states, edges, b) /\ b # <<>>
          /\ edges \subseteq edges'
      BY <2>2, <2>4, <2>9
    <3>2. DeservedBy(createViolation, b[1].state, Job(b[1])) \subseteq edges'
      BY <2>4, <2>7, <2>9 DEF owed
    <3> QED
      BY <3>1, <3>2, JobDoneFits
  <2> HIDE DEF new
  <2>11. StatesFit(createViolation, states, edges', new)
    <3> SUFFICES ASSUME NEW s \in NetStatesOf(states)
                 PROVE  \/ \E i \in 1 .. Len(new) : new[i].state = s
                        \/ \A j \in Jobs(s) : DeservedBy(createViolation, s, j) \subseteq edges'
      BY DEF StatesFit
    <3>1. CASE s = c.state
      BY <3>1, <1>3, <2>9 DEF c
    <3>2. ASSUME NEW i \in 1 .. Len(stack), stack[i].state = s, i # 1
          PROVE  \E k \in 1 .. Len(new) : new[k].state = s
      <4>1. i - 1 \in 1 .. Len(stack) - 1 /\ (i - 1) + 1 = i /\ i - 1 \in 1 .. Len(b)
        BY <1>1, <2>2, <3>2
      <4>2. b[i - 1] = stack[i]
        BY <2>2, <4>1
      <4> QED
        BY <2>10, <3>2, <4>1, <4>2 DEF SameStates
    <3> QED
      BY <3>1, <3>2, <2>9 DEF IInv, StatesFit, c
  <2>12. EdgesFit(createViolation, states, edges')
    BY <2>7, <2>9, EdgesKeepFitting DEF IInv, owed
  <2>13. StatesReachable' /\ FinalFits'
    BY <1>1, <2>1 DEF IInv, StatesReachable, FinalFits
  <2>14. new # <<>>
    BY <2>3, <2>10 DEF SameStates
  <2>15. PhaseFits'
    BY <1>1, <2>1, <2>14 DEF IInv, PhaseFits
  <2> QED
    BY <1>1, <2>1, <2>10, <2>11, <2>12, <2>13, <2>15 DEF IInv
<1> QED
  BY <1>4, <1>5

\* Every step of the construction keeps the invariant.
LEMMA NextIInv ==
  ASSUME IInv, [Next]_vars
  PROVE  IInv'
<1>1. CASE HandleNetState
  <2>1. /\ phase = "build" /\ Top.left # {} /\ UNCHANGED <<createViolation, phase>>
        /\ \/ BeyondBound(Successor(Job(Top), Top.state))
           \/ KnownState(Successor(Job(Top), Top.state))
           \/ NewState(Successor(Job(Top), Top.state))
    BY <1>1 DEF HandleNetState
  <2> QED
    BY <2>1, BeyondBoundIInv, KnownStateIInv, NewStateIInv
<1>2. CASE UNCHANGED vars
  BY <1>2 DEF vars, IInv, PhaseFits, StatesReachable, FinalFits
<1> QED
  BY <1>1, <1>2, StartIInv, ReturnIInv DEF Next

\* The invariant holds in every run of the construction.
THEOREM IInvHolds == Spec => []IInv
<1>1. Init => IInv
  BY InitIInv
<1>2. IInv /\ [Next]_vars => IInv'
  BY NextIInv
<1> QED
  BY <1>1, <1>2, PTL DEF Spec

\* Each caller stands at the job that led to the call in front of it, whatever the net.
THEOREM CallersAlwaysWait == Spec => []CallersWait
<1>1. IInv => CallersWait
  <2> SUFFICES ASSUME IInv PROVE CallersWait
    OBVIOUS
  <2>1. DOMAIN stack = 1 .. Len(stack)
    BY DEF IInv, StackFits
  <2> QED
    BY <2>1 DEF IInv, StackFits, Waits, CallersWait
<1> QED
  BY <1>1, IInvHolds, PTL

\* The behavior is the state graph of the net within the bounds, whatever the net.
THEOREM BehaviorsAreExact == Spec => []BehaviorIsExact
<1>1. IInv => BehaviorIsExact
  <2> SUFFICES ASSUME IInv, phase = "done"
               PROVE  /\ NetStatesOf(states) = Reachable
                      /\ edges = UNION {UNION {Deserved(s, j) : j \in Jobs(s)} : s \in Reachable}
                      /\ final = {s \in Reachable \ {InitialState} : IsFinalMarking(s.place)}
    BY DEF BehaviorIsExact
  <2>1. stack = <<>>
    BY DEF IInv, PhaseFits
  <2>2. \A s \in NetStatesOf(states) : \A j \in Jobs(s) :
          DeservedBy(createViolation, s, j) \subseteq edges
    BY <2>1 DEF IInv, StatesFit
  <2>3. InitialState \in NetStatesOf(states)
    BY InitialStateType, ViolationAssumption DEF IInv, StatesReachable, NetStatesOf
  <2>4. ASSUME NEW s \in NetStatesOf(states), NEW j \in Jobs(s), IsBounded(Successor(j, s))
        PROVE  Successor(j, s) \in NetStatesOf(states)
    <3>1. EdgeTo(s, j, Successor(j, s)) \in edges
      BY <2>2, <2>4 DEF DeservedBy
    <3>2. Successor(j, s) \in states
      BY <3>1 DEF IInv, EdgesFit, EdgeTo
    <3>3. Successor(j, s) \in NetStates
      BY SuccessorType DEF IInv, StatesReachable
    <3> QED
      BY <3>2, <3>3, ViolationAssumption DEF NetStatesOf
  <2>5. Reachable \subseteq NetStatesOf(states)
    BY <2>3, <2>4, ReachableIsLeast DEF IInv, StatesReachable
  <2>6. NetStatesOf(states) \subseteq Reachable
    <3>1. IsFiniteSet(states) /\ Cardinality(states) \in Nat
      BY FS_CardinalityType DEF IInv, StatesReachable
    <3>2. PICK f : IsRounds(f, Cardinality(states)) /\ Reachable = f[Cardinality(states)]
      BY <3>1, ReachableRounds
    <3> QED
      BY <3>1, <3>2 DEF IInv, StatesReachable, Within
  <2>7. NetStatesOf(states) = Reachable
    BY <2>5, <2>6
  <2>8. \A s, j : Deserved(s, j) = DeservedBy(createViolation, s, j)
    BY DEF Deserved, DeservedBy
  <2>9. edges = UNION {UNION {Deserved(s, j) : j \in Jobs(s)} : s \in NetStatesOf(states)}
    BY <2>2, <2>8 DEF IInv, EdgesFit
  <2>10. final = {s \in NetStatesOf(states) \ {InitialState} : IsFinalMarking(s.place)}
    BY DEF IInv, FinalFits
  <2> QED
    BY <2>7, <2>9, <2>10
<1> QED
  BY <1>1, IInvHolds, PTL
=============================================================================
