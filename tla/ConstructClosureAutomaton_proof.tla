-------------------- MODULE ConstructClosureAutomaton_proof --------------------
(***************************************************************************)
(* The closure automaton is sound and complete for every net whose silent  *)
(* firings end.                                                            *)
(*                                                                         *)
(* What one closure holds is proved in BuildClosure_proof.  This is about  *)
(* the construction: each state of the automaton is such a closure, or the *)
(* one bound violation state; each edge is a job done for its source; and  *)
(* each job of each state has its edge, or an activation that has the      *)
(* state in hand and the job left.  When the last activation returns, no   *)
(* job is left.  Replacing the bound violation state disturbs none of      *)
(* this, because no activation has it in hand and no edge leaves it.       *)
(***************************************************************************)
EXTENDS ConstructClosureAutomaton, BuildClosure_proof

-----------------------------------------------------------------------------
(***************************************************************************)
(* The net and the final markings.                                         *)
(***************************************************************************)
LEMMA InitialStateType == InitialState \in NetStates
BY SizeAssumption, MarkingAssumption DEF InitialState, NetStates, Size, DisabledTransition

\* Letting time pass.
LEMMA TimeStepType ==
  ASSUME NEW s \in NetStates
  PROVE  MakeTimeStep(s) \in NetStates
<1>1. s.time \in [Transitions -> Size]
  BY DEF NetStates
<1>2. ASSUME NEW t \in Transitions PROVE StepClock(t, s) \in Size
  <2>1. DisabledTransition \in Size /\ MinTime[t] \in Size /\ 1 \in Size /\ s.time[t] \in Size
    BY <1>1, SizeAssumption, IntervalAssumption DEF Size, DisabledTransition
  <2> QED
    BY <2>1, SizeArithmetic DEF StepClock, Min2
<1> QED
  BY <1>2 DEF MakeTimeStep, NetStates

\* Markings compare the same way.
LEMMA MarkingOrder ==
  ASSUME NEW f \in Markings, NEW g \in Markings, NEW h \in Markings
  PROVE  /\ ~ MarkingLess(f, f)
         /\ MarkingLess(f, g) /\ MarkingLess(g, h) => MarkingLess(f, h)
         /\ f = g \/ MarkingLess(f, g) \/ MarkingLess(g, f)
<1>1. PlaceList \in Seq(Places) /\ Places = {PlaceList[i] : i \in DOMAIN PlaceList}
  BY ListAssumption
<1>2. f \in [Places -> Size] /\ g \in [Places -> Size] /\ h \in [Places -> Size]
  BY DEF Markings
<1> QED
  BY <1>1, <1>2, BeforeIsOrder DEF MarkingLess

MarkingsBefore == {x \in Markings \X Markings : MarkingLess(x[1], x[2])}

LEMMA MarkingsAreSorted ==
  IsSorted(InOrder(FinalMarkings, MarkingLess), MarkingsBefore, FinalMarkings)
<1> DEFINE f == InOrder(FinalMarkings, MarkingLess)
           S == FinalMarkings
<1>0. S \subseteq Markings /\ IsFiniteSet(S)
  BY MarkingAssumption, FinalAssumption
<1>1. \A s, r \in S : <<s, r>> \in MarkingsBefore <=> MarkingLess(s, r)
  BY <1>0 DEF MarkingsBefore
<1>2. Orders(MarkingsBefore, S)
  BY <1>0, <1>1, MarkingOrder DEF Orders
<1>3. \A s \in S : Earlier(MarkingsBefore, S, s) = {r \in S : MarkingLess(r, s)}
  BY <1>1 DEF Earlier
<1>4. DOMAIN f = 1 .. Cardinality(S)
      /\ \A i \in 1 .. Cardinality(S) :
           f[i] = CHOOSE s \in S : Cardinality({r \in S : MarkingLess(r, s)}) = i - 1
  BY DEF InOrder
<1>5. ASSUME NEW i \in 1 .. Cardinality(S),
             \E s \in S : Cardinality(Earlier(MarkingsBefore, S, s)) = i - 1
      PROVE  f[i] \in S /\ Cardinality(Earlier(MarkingsBefore, S, f[i])) = i - 1
  <2>1. \E s \in S : Cardinality({r \in S : MarkingLess(r, s)}) = i - 1
    BY <1>3, <1>5
  <2>2. f[i] \in S /\ Cardinality({r \in S : MarkingLess(r, f[i])}) = i - 1
    BY <1>4, <2>1
  <2> QED
    BY <1>3, <2>2
<1> HIDE DEF f, S
<1>6. IsSorted(f, MarkingsBefore, S)
  BY <1>0, <1>2, <1>4, <1>5, SortingWorks
<1> QED
  BY <1>6 DEF f, S

-----------------------------------------------------------------------------
(***************************************************************************)
(* The inductive invariant, a part at a time.  Of the stack only matters   *)
(* which activations are on it.                                            *)
(***************************************************************************)
Calls == [state : SUBSET NetStates, left : SUBSET Jobs]

Held(st) == {st[i] : i \in DOMAIN st}

IsEdge(e) == DOMAIN e = {"source", "label", "type", "target"}

TypeOK ==
  /\ stack \in Seq(Calls)
  /\ \A key \in Keys : key \in SUBSET NetStates /\ IsFiniteSet(key)
  /\ \A e \in edges : IsEdge(e)
  /\ phase = "types" => /\ Keys = {} /\ stack = <<>> /\ edges = {}
                        /\ initial = {} /\ violating = {} /\ final = {}
  /\ phase = "done" => stack = <<>>

\* There is one bound violation state at most, and nothing has to do with it but edges into it.
ViolationIsApart ==
  /\ \A k, l \in violating : k = l
  /\ (initial \cup final) \cap violating = {}
  /\ \A call \in Held(stack) : call.state \notin violating
  /\ \A e \in edges : e.source \notin violating /\ (e.target \in violating => e.source # {})

\* The states are closures, and the flag of a state is that of its closure.
IsClosureOf(key, S, violation) ==
  /\ S \in SUBSET NetStates /\ IsFiniteSet(S)
  /\ key = CloseOver(S).states /\ violation = CloseOver(S).violation

KeysAreClosures ==
  /\ \A key \in initial : IsClosureOf(key, {InitialState}, states[key].violation)
  /\ \A key \in Keys \ (initial \cup violating) : \E S : IsClosureOf(key, S, FALSE)
  /\ \A key \in Keys \ (initial \cup violating) : states[key].violation = FALSE
  /\ \A key \in violating : states[key].violation = TRUE /\ \E s \in key : ~ IsBounded(s)

\* An edge is a job done for its source.
IsStep(e, j, V) ==
  LET c == CloseOver(SuccessorsFor(j, e.source))
  IN  /\ e.label = JobLabel(j) /\ e.type = JobType(j)
      /\ e.target \notin V => e.target = c.states /\ ~ c.violation

EdgesAreSteps == \A e \in edges : \E j \in Jobs : IsStep(e, j, violating)

\* A job is done, or an activation that has the state in hand has still to do it.
IsFiled(key, j, E, V) ==
  \E e \in E : /\ e.source = key /\ e.label = JobLabel(j)
               /\ e.target \in V \/ SuccessorsFor(j, key) \subseteq e.target

JobsAreFiled ==
  \A key \in Keys \ violating, j \in Jobs :
    \/ \E call \in Held(stack) : call.state = key /\ j \in call.left
    \/ IsFiled(key, j, edges, violating)

FinalsAreMarked == final = {key \in Keys \ (initial \cup violating) : IsFinalClosure(key)}

IInv == /\ TypeOK /\ NothingDangles /\ ViolationIsApart /\ KeysAreClosures
        /\ EdgesAreSteps /\ JobsAreFiled /\ Keys \subseteq Entered /\ FinalsAreMarked

-----------------------------------------------------------------------------
(***************************************************************************)
(* What a turn starts from.                                                *)
(***************************************************************************)
LEMMA HeldOf ==
  ASSUME NEW X, NEW st \in Seq(X)
  PROVE  /\ st # <<>> => /\ Head(st) \in X /\ Tail(st) \in Seq(X)
                         /\ Held(st) = {Head(st)} \cup Held(Tail(st))
         /\ \A a \in X : /\ <<a>> \o st \in Seq(X) /\ <<a>> \o st # <<>>
                         /\ Held(<<a>> \o st) = {a} \cup Held(st)
<1>1. DOMAIN st = 1 .. Len(st) /\ Len(st) \in Nat
  OBVIOUS
<1>2. ASSUME st # <<>>
      PROVE  Head(st) \in X /\ Tail(st) \in Seq(X) /\ Held(st) = {Head(st)} \cup Held(Tail(st))
  <2>1. /\ Head(st) = st[1] /\ 1 \in DOMAIN st /\ Head(st) \in X /\ Tail(st) \in Seq(X)
        /\ Len(Tail(st)) = Len(st) - 1 /\ \A i \in 1 .. Len(Tail(st)) : Tail(st)[i] = st[i + 1]
    BY <1>2
  <2>2. \A i \in DOMAIN st : i # 1 => i - 1 \in DOMAIN Tail(st) /\ Tail(st)[i - 1] = st[i]
    BY <1>1, <2>1
  <2>3. \A i \in DOMAIN Tail(st) : i + 1 \in DOMAIN st /\ Tail(st)[i] = st[i + 1]
    BY <1>1, <2>1
  <2>4. ASSUME NEW h \in Held(st) PROVE h = Head(st) \/ h \in Held(Tail(st))
    <3>1. PICK i \in DOMAIN st : h = st[i]
      BY DEF Held
    <3> QED
      BY <2>1, <2>2, <3>1 DEF Held
  <2>5. ASSUME NEW h \in Held(Tail(st)) PROVE h \in Held(st)
    BY <2>3 DEF Held
  <2>6. Head(st) \in Held(st)
    BY <2>1 DEF Held
  <2> QED
    BY <2>1, <2>4, <2>5, <2>6
<1>3. ASSUME NEW a \in X
      PROVE  /\ <<a>> \o st \in Seq(X) /\ <<a>> \o st # <<>>
             /\ Held(<<a>> \o st) = {a} \cup Held(st)
  <2> DEFINE u == <<a>> \o st
  <2>1. u \in Seq(X) /\ Len(u) = Len(st) + 1 /\ u[1] = a
        /\ DOMAIN u = 1 .. Len(u) /\ \A i \in 1 .. Len(st) : u[i + 1] = st[i]
    BY <1>1
  <2> HIDE DEF u
  <2>2. \A i \in DOMAIN u : i = 1 \/ (i - 1 \in DOMAIN st /\ u[i] = st[i - 1])
    BY <1>1, <2>1
  <2>3. \A i \in DOMAIN st : i + 1 \in DOMAIN u /\ u[i + 1] = st[i]
    BY <1>1, <2>1
  <2>4. 1 \in DOMAIN u /\ u # <<>>
    BY <1>1, <2>1
  <2>5. Held(u) = {a} \cup Held(st)
    <3>1. ASSUME NEW h \in Held(u) PROVE h = a \/ h \in Held(st)
      <4>1. PICK i \in DOMAIN u : h = u[i]
        BY DEF Held
      <4> QED
        BY <2>1, <2>2, <4>1 DEF Held
    <3>2. ASSUME NEW h \in Held(st) PROVE h \in Held(u)
      BY <2>3 DEF Held
    <3>3. a \in Held(u)
      BY <2>1, <2>4 DEF Held
    <3> QED
      BY <3>1, <3>2, <3>3
  <2> QED
    BY <2>1, <2>4, <2>5 DEF u
<1> QED
  BY <1>2, <1>3

LEMMA HeldNone == Held(<<>>) = {}
BY DEF Held

LEMMA JobsAreNumbers ==
  /\ Jobs \subseteq Nat /\ TimeJob \in Jobs
  /\ \A j \in Jobs \ {TimeJob} : j \in DOMAIN TransitionList /\ TransitionList[j] \in Observable
  /\ \A t \in Observable : \E j \in Jobs \ {TimeJob} : TransitionList[j] = t
<1>1. Len(TransitionList) \in Nat /\ DOMAIN TransitionList = 1 .. Len(TransitionList)
  BY ListAssumption
<1>2. TimeJob \in Nat /\ TimeJob \notin DOMAIN TransitionList
  BY <1>1 DEF TimeJob
<1>3. \A t \in Observable : \E i \in DOMAIN TransitionList : TransitionList[i] = t
  BY ListAssumption DEF Observable
<1> QED
  BY <1>1, <1>2, <1>3 DEF Jobs

\* The image of a finite set of net states.
LEMMA FiniteImage ==
  ASSUME NEW S, IsFiniteSet(S), NEW f, DOMAIN f = S
  PROVE  IsFiniteSet({f[s] : s \in S})
<1> DEFINE g == [s \in S |-> f[s]]
<1>2. g \in Surjection(S, {f[s] : s \in S})
  BY DEF Surjection
<1> HIDE DEF g
<1> QED
  BY <1>2, FS_Surjection

LEMMA SuccessorsAreFinite ==
  ASSUME NEW S \in SUBSET NetStates, IsFiniteSet(S), NEW j \in Jobs
  PROVE  SuccessorsFor(j, S) \in SUBSET NetStates /\ IsFiniteSet(SuccessorsFor(j, S))
<1>1. CASE j = TimeJob
  <2> DEFINE R == {r \in S : CanMakeTimeStep(r)}
             f == [s \in R |-> MakeTimeStep(s)]
  <2>1. IsFiniteSet(R)
    BY FS_Subset
  <2>2. SuccessorsFor(j, S) = {f[s] : s \in R}
    BY <1>1 DEF SuccessorsFor
  <2>3. \A s \in R : f[s] \in NetStates
    BY TimeStepType
  <2>4. DOMAIN f = R
    OBVIOUS
  <2> HIDE DEF R, f
  <2> QED
    BY <2>1, <2>2, <2>3, <2>4, FiniteImage
<1>2. CASE j # TimeJob
  <2> DEFINE t == TransitionList[j]
             R == {r \in S : IsFireable(t, r)}
             f == [s \in R |-> FireTransition(t, s)]
  <2>1. IsFiniteSet(R)
    BY FS_Subset
  <2>2. SuccessorsFor(j, S) = {f[s] : s \in R}
    BY <1>2 DEF SuccessorsFor, Fired
  <2>3. t \in Transitions
    BY <1>2, JobsAreNumbers DEF Observable
  <2>4. \A s \in R : f[s] \in NetStates
    BY <2>3, FireType
  <2>5. DOMAIN f = R
    OBVIOUS
  <2> HIDE DEF R, f
  <2> QED
    BY <2>1, <2>2, <2>4, <2>5, FiniteImage
<1> QED
  BY <1>1, <1>2

LEMMA EmptyStaysEmpty ==
  ASSUME NEW j \in Jobs
  PROVE  CloseOver(SuccessorsFor(j, {})).states = {} /\ ~ CloseOver(SuccessorsFor(j, {})).violation
<1>1. SuccessorsFor(j, {}) = {}
  BY DEF SuccessorsFor, Fired
<1>2. {} \in SUBSET NetStates /\ IsFiniteSet({})
  BY FS_EmptySet
<1>3. CloseOver({}).states = {} /\ IsClosure(CloseOver({}))
  BY <1>2, ClosureHasSeeds
<1> QED
  BY <1>1, <1>3 DEF IsClosure

\* The closure that a turn files.
Found == CloseOver(SuccessorsFor(Job, Top.state))
TopDone == [Top EXCEPT !.left = @ \ {Job}]

LEMMA TurnFacts ==
  ASSUME IInv, Working
  PROVE  /\ Top \in Calls /\ Job \in Top.left /\ Job \in Jobs
         /\ Top.state \in Keys \ violating /\ Top.state \in SUBSET NetStates
         /\ IsFiniteSet(Top.state)
         /\ SuccessorsFor(Job, Top.state) \in SUBSET NetStates
         /\ IsFiniteSet(SuccessorsFor(Job, Top.state))
         /\ IsClosure(Found)
         /\ ~ Found.violation => SuccessorsFor(Job, Top.state) \subseteq Found.states
         /\ Found.violation => Top.state # {}
         /\ Top.state = {} => Found.states = {}
         /\ TopDone \in Calls /\ TopDone.state = Top.state /\ TopDone.left = Top.left \ {Job}
         /\ Below \in Seq(Calls) /\ Held(stack) = {Top} \cup Held(Below)
         /\ JobDone \in Seq(Calls) /\ JobDone # <<>> /\ Held(JobDone) = {TopDone} \cup Held(Below)
<1>1. stack \in Seq(Calls) /\ stack # <<>> /\ Top.left # {}
  BY DEF IInv, TypeOK, Working
<1>2. Top \in Calls /\ Below \in Seq(Calls) /\ Held(stack) = {Top} \cup Held(Below)
  BY <1>1, HeldOf DEF Top, Below
<1>3. Top.left \in SUBSET Nat /\ Top.left \subseteq Jobs
  BY <1>2, JobsAreNumbers DEF Calls
<1>4. Job \in Top.left
  BY <1>1, <1>3, LeastNumber DEF Job
<1>5. Top \in Held(stack)
  BY <1>2
<1>6. Top.state \in Keys \ violating
  BY <1>5 DEF IInv, NothingDangles, ViolationIsApart, Held
<1>7. Top.state \in SUBSET NetStates /\ IsFiniteSet(Top.state)
  BY <1>6 DEF IInv, TypeOK
<1>8. Job \in Jobs
  BY <1>3, <1>4
<1>9. SuccessorsFor(Job, Top.state) \in SUBSET NetStates
      /\ IsFiniteSet(SuccessorsFor(Job, Top.state))
  BY <1>7, <1>8, SuccessorsAreFinite
<1>10. /\ IsClosure(Found)
       /\ ~ Found.violation => SuccessorsFor(Job, Top.state) \subseteq Found.states
  BY <1>9, ClosureHasSeeds DEF Found
<1>11. Top.state = {} => Found.states = {} /\ ~ Found.violation
  BY <1>8, EmptyStaysEmpty DEF Found
<1>12. TopDone \in Calls /\ TopDone.state = Top.state /\ TopDone.left = Top.left \ {Job}
  BY <1>2 DEF TopDone, Calls
<1>13. JobDone \in Seq(Calls) /\ JobDone # <<>> /\ Held(JobDone) = {TopDone} \cup Held(Below)
  <2>1. JobDone = <<TopDone>> \o Below
    BY DEF JobDone, TopDone
  <2> QED
    BY <1>2, <1>12, <2>1, HeldOf
<1> QED
  BY <1>2, <1>4, <1>6, <1>7, <1>8, <1>9, <1>10, <1>11, <1>12, <1>13

-----------------------------------------------------------------------------
(***************************************************************************)
(* What a turn does to edges, states and activations.                      *)
(***************************************************************************)
NewEdge(target) ==
  [source |-> Top.state, label |-> JobLabel(Job), type |-> JobType(Job), target |-> target]

LEMMA ConnectAdds ==
  ASSUME NEW E, NEW target
  PROVE  LET F == Connect(E, Top.state, JobLabel(Job), JobType(Job), target)
         IN  /\ E \subseteq F
             /\ \A e \in F : e \in E \/ e = NewEdge(target)
             /\ \E e \in F : /\ e.source = Top.state /\ e.label = JobLabel(Job)
                             /\ e.target = target
<1> DEFINE F == Connect(E, Top.state, JobLabel(Job), JobType(Job), target)
<1>1. CASE \E e \in E : /\ e.source = Top.state /\ e.target = target /\ e.label = JobLabel(Job)
  <2>1. F = E
    BY <1>1 DEF Connect
  <2> QED
    BY <1>1, <2>1
<1>2. CASE ~ \E e \in E : /\ e.source = Top.state /\ e.target = target /\ e.label = JobLabel(Job)
  <2>1. F = E \cup {NewEdge(target)}
    BY <1>2 DEF Connect, NewEdge
  <2>2. NewEdge(target).source = Top.state /\ NewEdge(target).label = JobLabel(Job)
        /\ NewEdge(target).target = target
    BY DEF NewEdge
  <2> QED
    BY <2>1, <2>2
<1> QED
  BY <1>1, <1>2

LEMMA NewEdgeFits ==
  ASSUME NEW target
  PROVE  /\ IsEdge(NewEdge(target))
         /\ NewEdge(target).source = Top.state /\ NewEdge(target).label = JobLabel(Job)
         /\ NewEdge(target).type = JobType(Job) /\ NewEdge(target).target = target
BY DEF IsEdge, NewEdge

\* The activations point to states if those on the stack do.
LEMMA HeldAlive ==
  ASSUME NEW st, NEW K
  PROVE  (\A i \in DOMAIN st : st[i].state \in K) <=> (\A call \in Held(st) : call.state \in K)
BY DEF Held

\* Each job is filed after a turn, if the one in hand is and nothing filed is lost.
LEMMA JobsStayFiled ==
  ASSUME IInv, Working,
         Held(JobDone) \subseteq Held(stack'),
         \A key \in Keys \ violating, j \in Jobs :
           IsFiled(key, j, edges, violating) => IsFiled(key, j, edges', violating'),
         IsFiled(Top.state, Job, edges', violating'),
         NEW key \in Keys \ violating, NEW j \in Jobs
  PROVE  \/ \E call \in Held(stack') : call.state = key /\ j \in call.left
         \/ IsFiled(key, j, edges', violating')
<1>1. CASE IsFiled(key, j, edges, violating)
  BY <1>1
<1>2. ASSUME NEW call \in Held(stack), call.state = key, j \in call.left
      PROVE  \/ \E k \in Held(stack') : k.state = key /\ j \in k.left
             \/ IsFiled(key, j, edges', violating')
  <2>1. /\ Held(stack) = {Top} \cup Held(Below)
        /\ Held(JobDone) = {TopDone} \cup Held(Below)
        /\ TopDone.state = Top.state /\ TopDone.left = Top.left \ {Job}
    BY TurnFacts
  <2>2. CASE call \in Held(Below)
    BY <1>2, <2>1, <2>2
  <2>3. CASE call = Top /\ j # Job
    BY <1>2, <2>1, <2>3
  <2>4. CASE call = Top /\ j = Job
    BY <1>2, <2>4
  <2> QED
    BY <2>1, <2>2, <2>3, <2>4
<1> QED
  BY <1>1, <1>2 DEF IInv, JobsAreFiled

\* A closure without a broken bound is not the bound violation state.
LEMMA FoundIsApart ==
  ASSUME IInv, Working, ~ Found.violation
  PROVE  Found.states \notin violating
BY TurnFacts DEF IInv, KeysAreClosures, IsClosure

-----------------------------------------------------------------------------
(***************************************************************************)
(* The steps.                                                              *)
(***************************************************************************)
LEMMA InitIInv == Init => IInv
<1> SUFFICES ASSUME Init PROVE IInv
  OBVIOUS
<1>1. Keys = {} /\ Held(stack) = {} /\ DOMAIN stack = {}
  BY HeldNone DEF Init, Keys
<1>2. stack \in Seq(Calls)
  BY DEF Init
<1>3. FinalsAreMarked
  BY <1>1 DEF Init, FinalsAreMarked
<1>4. TypeOK
  BY <1>1, <1>2 DEF Init, TypeOK
<1> QED
  BY <1>1, <1>3, <1>4
     DEF Init, IInv, NothingDangles, ViolationIsApart, KeysAreClosures,
         EdgesAreSteps, JobsAreFiled

LEMMA KnownSuccessorIInv == IInv /\ Working /\ KnownSuccessor(Found) => IInv'
<1> SUFFICES ASSUME IInv, Working, KnownSuccessor(Found) PROVE IInv'
  OBVIOUS
<1>1. /\ ~ Found.violation /\ Found.states \in Keys
      /\ edges' = Connect(edges, Top.state, JobLabel(Job), JobType(Job), Found.states)
      /\ stack' = JobDone /\ Keys' = Keys
      /\ phase' = phase /\ states' = states /\ final' = final
      /\ initial' = initial /\ violating' = violating
  BY DEF KnownSuccessor, Keys
<1>2. /\ edges \subseteq edges'
      /\ \A e \in edges' : e \in edges \/ e = NewEdge(Found.states)
      /\ \E e \in edges' : /\ e.source = Top.state /\ e.label = JobLabel(Job)
                           /\ e.target = Found.states
  BY <1>1, ConnectAdds
<1>3. \A call \in Held(stack') : call.state \in Keys \ violating
  <2>1. \A call \in Held(stack) : call.state \in Keys \ violating
    BY DEF IInv, NothingDangles, ViolationIsApart, Held
  <2> QED
    BY <1>1, <2>1, TurnFacts
<1>4. Found.states \notin violating
  BY <1>1, FoundIsApart
<1>5. TypeOK'
  BY <1>1, <1>2, NewEdgeFits, TurnFacts DEF IInv, TypeOK, Working
<1>6. NothingDangles'
  <2>1. \A i \in DOMAIN stack' : stack'[i].state \in Keys
    BY <1>3, HeldAlive
  <2> QED
    BY <1>1, <1>2, <2>1, NewEdgeFits, TurnFacts DEF IInv, NothingDangles
<1>7. ViolationIsApart'
  BY <1>1, <1>2, <1>3, <1>4, NewEdgeFits, TurnFacts DEF IInv, ViolationIsApart
<1>8. KeysAreClosures'
  BY <1>1 DEF IInv, KeysAreClosures
<1>9. EdgesAreSteps'
  <2>1. IsStep(NewEdge(Found.states), Job, violating')
    BY <1>1, NewEdgeFits DEF IsStep, Found
  <2>2. \A e \in edges : \E j \in Jobs : IsStep(e, j, violating')
    BY <1>1 DEF IInv, EdgesAreSteps, IsStep
  <2> QED
    BY <1>2, <2>1, <2>2, TurnFacts DEF EdgesAreSteps
<1>10. JobsAreFiled'
  <2>1. IsFiled(Top.state, Job, edges', violating')
    BY <1>1, <1>2, TurnFacts DEF IsFiled
  <2>2. \A key \in Keys \ violating, j \in Jobs :
          IsFiled(key, j, edges, violating) => IsFiled(key, j, edges', violating')
    BY <1>1, <1>2 DEF IsFiled
  <2> QED
    BY <1>1, <2>1, <2>2, JobsStayFiled DEF JobsAreFiled
<1>11. (Keys \subseteq Entered)'
  BY <1>1, <1>2 DEF IInv, Entered
<1>12. FinalsAreMarked'
  BY <1>1 DEF IInv, FinalsAreMarked
<1> QED
  BY <1>5, <1>6, <1>7, <1>8, <1>9, <1>10, <1>11, <1>12 DEF IInv

LEMMA NewSuccessorIInv == IInv /\ Working /\ NewSuccessor(Found) => IInv'
<1> SUFFICES ASSUME IInv, Working, NewSuccessor(Found) PROVE IInv'
  OBVIOUS
<1> DEFINE k == Found.states
<1>1. /\ ~ Found.violation /\ k \notin Keys
      /\ edges' = Connect(edges, Top.state, JobLabel(Job), JobType(Job), k)
      /\ states' = AddState(states, k, Found.loop, FALSE)
      /\ stack' = <<Activation(k)>> \o JobDone
      /\ final' = IF IsFinalClosure(k) THEN final \cup {k} ELSE final
      /\ phase' = phase /\ initial' = initial /\ violating' = violating
  BY DEF NewSuccessor, Keys
<1>2. /\ edges \subseteq edges'
      /\ \A e \in edges' : e \in edges \/ e = NewEdge(k)
      /\ \E e \in edges' : /\ e.source = Top.state /\ e.label = JobLabel(Job)
                           /\ e.target = k
  BY <1>1, ConnectAdds
<1>3. /\ Keys' = Keys \cup {k} /\ states'[k].violation = FALSE
      /\ \A key \in Keys : states'[key] = states[key]
  <2>1. DOMAIN states' = DOMAIN states \cup {k} /\ states'[k].violation = FALSE
        /\ \A key \in DOMAIN states \ {k} : states'[key] = states[key]
    <3> DEFINE g == AddState(states, k, Found.loop, FALSE)
    <3>1. DOMAIN g = DOMAIN states \cup {k} /\ g[k].violation = FALSE
          /\ \A key \in DOMAIN states \ {k} : g[key] = states[key]
      BY DEF AddState
    <3>2. states' = g
      BY <1>1
    <3> HIDE DEF g, k
    <3> QED
      BY <3>1, <3>2
  <2> HIDE DEF k
  <2> QED
    BY <1>1, <2>1 DEF Keys
<1>4. IsClosure(Found) /\ k \in SUBSET NetStates /\ IsFiniteSet(k)
  BY TurnFacts DEF IsClosure
<1>5. Activation(k) \in Calls /\ Activation(k).state = k /\ Activation(k).left = Jobs
  BY <1>4 DEF Activation, Calls
<1>6. stack' \in Seq(Calls) /\ Held(stack') = {Activation(k)} \cup Held(JobDone)
  <2>1. JobDone \in Seq(Calls)
    BY TurnFacts
  <2> QED
    BY <1>1, <1>5, <2>1, HeldOf
<1> HIDE DEF k
<1>7. k \notin violating /\ k \notin initial
  BY <1>1 DEF IInv, NothingDangles
<1>8. \A call \in Held(stack') : call.state \in Keys' \ violating
  <2>1. \A call \in Held(stack) : call.state \in Keys \ violating
    BY DEF IInv, NothingDangles, ViolationIsApart, Held
  <2>2. \A call \in Held(JobDone) : call.state \in Keys \ violating
    BY <2>1, TurnFacts
  <2> QED
    BY <1>3, <1>5, <1>6, <1>7, <2>2
<1>9. TypeOK'
  BY <1>1, <1>2, <1>3, <1>4, <1>6, NewEdgeFits DEF IInv, TypeOK, Working
<1>10. NothingDangles'
  <2>1. \A i \in DOMAIN stack' : stack'[i].state \in Keys'
    BY <1>8, HeldAlive
  <2>2. final' \subseteq Keys'
    BY <1>1, <1>3 DEF IInv, NothingDangles
  <2> QED
    BY <1>1, <1>2, <1>3, <2>1, <2>2, NewEdgeFits, TurnFacts DEF IInv, NothingDangles
<1>11. ViolationIsApart'
  <2>1. (initial' \cup final') \cap violating' = {}
    BY <1>1, <1>7 DEF IInv, ViolationIsApart
  <2> QED
    BY <1>1, <1>2, <1>7, <1>8, <2>1, NewEdgeFits, TurnFacts DEF IInv, ViolationIsApart
<1>12. KeysAreClosures'
  <2>1. IsClosureOf(k, SuccessorsFor(Job, Top.state), FALSE)
    BY <1>1, <1>4, TurnFacts DEF IsClosureOf, Found, IsClosure, k
  <2>2. initial \subseteq Keys /\ violating \subseteq Keys
    BY DEF IInv, NothingDangles
  <2>3. initial' = initial /\ violating' = violating /\ Keys' = Keys \cup {k}
        /\ states'[k].violation = FALSE /\ \A key \in Keys : states'[key] = states[key]
    BY <1>1, <1>3
  <2>4. KeysAreClosures
    BY DEF IInv
  <2>5. \A key \in initial' : IsClosureOf(key, {InitialState}, states'[key].violation)
    BY <2>2, <2>3, <2>4 DEF KeysAreClosures
  <2>6. \A key \in Keys' \ (initial' \cup violating') : \E S : IsClosureOf(key, S, FALSE)
    BY <2>1, <2>3, <2>4 DEF KeysAreClosures
  <2>7. \A key \in Keys' \ (initial' \cup violating') : states'[key].violation = FALSE
    BY <2>3, <2>4 DEF KeysAreClosures
  <2>8. \A key \in violating' : states'[key].violation = TRUE /\ \E s \in key : ~ IsBounded(s)
    BY <2>2, <2>3, <2>4 DEF KeysAreClosures
  <2> QED
    BY <2>5, <2>6, <2>7, <2>8 DEF KeysAreClosures
<1>13. EdgesAreSteps'
  <2>1. IsStep(NewEdge(k), Job, violating')
    BY <1>1, NewEdgeFits DEF IsStep, Found, k
  <2>2. \A e \in edges : \E j \in Jobs : IsStep(e, j, violating')
    BY <1>1 DEF IInv, EdgesAreSteps, IsStep
  <2> QED
    BY <1>2, <2>1, <2>2, TurnFacts DEF EdgesAreSteps
<1>14. JobsAreFiled'
  <2>1. IsFiled(Top.state, Job, edges', violating')
    BY <1>1, <1>2, TurnFacts DEF IsFiled, k
  <2>2. \A key \in Keys \ violating, j \in Jobs :
          IsFiled(key, j, edges, violating) => IsFiled(key, j, edges', violating')
    BY <1>1, <1>2 DEF IsFiled
  <2>3. \A key \in Keys \ violating, j \in Jobs :
          \/ \E call \in Held(stack') : call.state = key /\ j \in call.left
          \/ IsFiled(key, j, edges', violating')
    BY <1>6, <2>1, <2>2, JobsStayFiled
  <2>4. \A j \in Jobs : \E call \in Held(stack') : call.state = k /\ j \in call.left
    BY <1>5, <1>6
  <2> QED
    BY <1>1, <1>3, <2>3, <2>4 DEF JobsAreFiled
<1>15. (Keys \subseteq Entered)'
  <2>1. Keys \subseteq Entered'
    BY <1>1, <1>2 DEF IInv, Entered
  <2>2. k \in Entered'
    BY <1>1, <1>2, TurnFacts DEF Entered
  <2> QED
    BY <1>3, <2>1, <2>2
<1>16. FinalsAreMarked'
  BY <1>1, <1>3, <1>7 DEF IInv, FinalsAreMarked
<1> QED
  BY <1>9, <1>10, <1>11, <1>12, <1>13, <1>14, <1>15, <1>16 DEF IInv

\* A replacement that fails leaves all as it is.
LEMMA ThrownIInv ==
  IInv /\ phase' = "thrown" /\ UNCHANGED <<states, final, edges, initial, violating, stack>> => IInv'
<1> SUFFICES ASSUME IInv, phase' = "thrown",
                    UNCHANGED <<states, final, edges, initial, violating, stack>>
             PROVE  IInv'
  OBVIOUS
<1>1. Keys' = Keys
  BY DEF Keys
<1>2. TypeOK' /\ NothingDangles'
  BY <1>1 DEF IInv, TypeOK, NothingDangles
<1>3. ViolationIsApart' /\ KeysAreClosures'
  BY <1>1 DEF IInv, ViolationIsApart, KeysAreClosures
<1>4. EdgesAreSteps' /\ JobsAreFiled' /\ (Keys \subseteq Entered)' /\ FinalsAreMarked'
  BY <1>1 DEF IInv, EdgesAreSteps, JobsAreFiled, Entered, FinalsAreMarked
<1> QED
  BY <1>2, <1>3, <1>4 DEF IInv

LEMMA FirstViolationIInv == IInv /\ Working /\ FirstViolation(Found) => IInv'
<1> SUFFICES ASSUME IInv, Working, FirstViolation(Found) PROVE IInv'
  OBVIOUS
<1> DEFINE k == Found.states
<1>1. Found.violation /\ violating = {} /\ initial' = initial /\ final' = final
  BY DEF FirstViolation
<1>2. CASE k \in DOMAIN states
  BY <1>2, ThrownIInv DEF FirstViolation
<1>3. CASE k \notin DOMAIN states
  <2>1. /\ states' = AddState(states, k, Found.loop, TRUE)
        /\ violating' = {k} /\ stack' = JobDone /\ phase' = phase
        /\ edges' = Connect(edges, Top.state, JobLabel(Job), JobType(Job), k)
    BY <1>3 DEF FirstViolation
  <2>2. /\ edges \subseteq edges'
        /\ \A e \in edges' : e \in edges \/ e = NewEdge(k)
        /\ \E e \in edges' : e.source = Top.state /\ e.label = JobLabel(Job) /\ e.target = k
    BY <2>1, ConnectAdds
  <2>3. /\ Keys' = Keys \cup {k} /\ states'[k].violation = TRUE
        /\ \A key \in Keys : states'[key] = states[key]
    BY <1>3, <2>1 DEF AddState, Keys
  <2>4. k \in SUBSET NetStates /\ IsFiniteSet(k) /\ \E s \in k : ~ IsBounded(s)
    BY <1>1, TurnFacts DEF IsClosure
  <2>5. k \notin Keys
    BY <1>3 DEF Keys
  <2> HIDE DEF k
  <2>6. k \notin initial /\ k \notin final
    BY <2>5 DEF IInv, NothingDangles
  <2>7. \A call \in Held(stack') : call.state \in Keys
    <3>1. \A call \in Held(stack) : call.state \in Keys
      BY DEF IInv, NothingDangles, Held
    <3> QED
      BY <2>1, <3>1, TurnFacts
  <2>8. TypeOK'
    BY <1>1, <2>1, <2>2, <2>3, <2>4, NewEdgeFits, TurnFacts DEF IInv, TypeOK, Working
  <2>9. NothingDangles'
    <3>1. \A i \in DOMAIN stack' : stack'[i].state \in Keys
      BY <2>7, HeldAlive
    <3> QED
      BY <1>1, <2>1, <2>2, <2>3, <3>1, NewEdgeFits, TurnFacts DEF IInv, NothingDangles
  <2>10. ViolationIsApart'
    <3>1. \A e \in edges : e.source # k /\ e.target # k
      BY <2>5 DEF IInv, NothingDangles
    <3>2. \A e \in edges' : e.source \notin violating' /\ (e.target \in violating' => e.source # {})
      BY <1>1, <2>1, <2>2, <2>5, <3>1, NewEdgeFits, TurnFacts
    <3> QED
      BY <1>1, <2>1, <2>5, <2>6, <2>7, <3>2 DEF ViolationIsApart
  <2>11. KeysAreClosures'
    <3>1. KeysAreClosures /\ initial \subseteq Keys
      BY DEF IInv, NothingDangles
    <3>2. \A key \in initial' : IsClosureOf(key, {InitialState}, states'[key].violation)
      BY <1>1, <2>3, <3>1 DEF KeysAreClosures
    <3>3. \A key \in Keys' \ (initial' \cup violating') : \E S : IsClosureOf(key, S, FALSE)
      BY <1>1, <2>1, <2>3, <3>1 DEF KeysAreClosures
    <3>4. \A key \in Keys' \ (initial' \cup violating') : states'[key].violation = FALSE
      <4>1. \A key \in Keys \ initial : states[key].violation = FALSE
        BY <1>1, <3>1 DEF KeysAreClosures
      <4>2. Keys' \ (initial' \cup violating') \subseteq Keys \ initial
        BY <1>1, <2>1, <2>3
      <4> QED
        BY <2>3, <4>1, <4>2
    <3>5. \A key \in violating' : states'[key].violation = TRUE /\ \E s \in key : ~ IsBounded(s)
      BY <2>1, <2>3, <2>4
    <3> QED
      BY <3>2, <3>3, <3>4, <3>5 DEF KeysAreClosures
  <2>12. EdgesAreSteps'
    <3>1. IsStep(NewEdge(k), Job, violating')
      BY <2>1, NewEdgeFits DEF IsStep
    <3>2. \A e \in edges : \E j \in Jobs : IsStep(e, j, violating')
      BY <1>1 DEF IInv, EdgesAreSteps, IsStep
    <3> QED
      BY <2>2, <3>1, <3>2, TurnFacts DEF EdgesAreSteps
  <2>13. JobsAreFiled'
    <3>1. IsFiled(Top.state, Job, edges', violating')
      BY <2>1, <2>2 DEF IsFiled
    <3>2. \A key \in Keys \ violating, j \in Jobs :
            IsFiled(key, j, edges, violating) => IsFiled(key, j, edges', violating')
      BY <1>1, <2>2 DEF IsFiled
    <3>3. \A key \in Keys \ violating, j \in Jobs :
            \/ \E call \in Held(stack') : call.state = key /\ j \in call.left
            \/ IsFiled(key, j, edges', violating')
      BY <2>1, <3>1, <3>2, JobsStayFiled
    <3> QED
      BY <1>1, <2>1, <2>3, <3>3 DEF JobsAreFiled
  <2>14. (Keys \subseteq Entered)'
    <3>1. Keys \subseteq Entered'
      BY <1>1, <2>2 DEF IInv, Entered
    <3>2. k \in Entered'
      BY <2>2, <2>5, TurnFacts DEF Entered
    <3> QED
      BY <2>3, <3>1, <3>2
  <2>15. FinalsAreMarked'
    BY <1>1, <2>1, <2>3, <2>5, <2>6 DEF IInv, FinalsAreMarked
  <2> QED
    BY <2>8, <2>9, <2>10, <2>11, <2>12, <2>13, <2>14, <2>15 DEF IInv
<1> QED
  BY <1>2, <1>3

(***************************************************************************)
(* Replacing the bound violation state: what led to it leads to the new    *)
(* one, and nothing else changes.                                          *)
(***************************************************************************)
Moved(e, old, new) ==
  [e EXCEPT !.source = Renamed(@, old, new), !.target = Renamed(@, old, new)]

LEMMA MovedEdge ==
  ASSUME NEW e, IsEdge(e), NEW old, NEW new, e.source # old
  PROVE  /\ IsEdge(Moved(e, old, new))
         /\ Moved(e, old, new).source = e.source /\ Moved(e, old, new).label = e.label
         /\ Moved(e, old, new).type = e.type
         /\ Moved(e, old, new).target = IF e.target = old THEN new ELSE e.target
<1>1. Moved(e, old, new) = [e EXCEPT !.source = e.source,
                                     !.target = IF e.target = old THEN new ELSE e.target]
  BY DEF Moved, Renamed
<1> QED
  BY <1>1 DEF IsEdge

\* Nothing but the bound violation state is renamed, and it is in no activation or mark.
LEMMA RenamedElsewhere ==
  ASSUME NEW old, NEW new, NEW S, old \notin S
  PROVE  {Renamed(k, old, new) : k \in S} = S
BY DEF Renamed

LEMMA FurtherViolationIInv == IInv /\ Working /\ FurtherViolation(Found) => IInv'
<1> SUFFICES ASSUME IInv, Working, FurtherViolation(Found) PROVE IInv'
  OBVIOUS
<1> DEFINE k == Found.states
           old == CHOOSE v \in violating : TRUE
           new == old \cup k
           moved == {Moved(e, old, new) : e \in edges}
<1>1. Found.violation /\ violating # {}
  BY DEF FurtherViolation
<1>2. old \in violating /\ violating = {old}
  BY <1>1 DEF IInv, ViolationIsApart
<1>3. CASE Taken(old, new)
  BY <1>3, ThrownIInv DEF FurtherViolation
<1>4. CASE ~ Taken(old, new)
  <2>1. /\ states' = IF new = old THEN states
                     ELSE AddState([v \in DOMAIN states \ {old} |-> states[v]], new, FALSE, TRUE)
        /\ violating' = {new} /\ stack' = JobDone /\ phase' = phase
        /\ edges' = Connect(moved, Renamed(Top.state, old, new), JobLabel(Job), JobType(Job), new)
        /\ initial' = {Renamed(v, old, new) : v \in initial}
        /\ final' = {Renamed(v, old, new) : v \in final}
    BY <1>4 DEF FurtherViolation, Moved
  <2>2. old \in SUBSET NetStates /\ IsFiniteSet(old) /\ old \in Keys
    BY <1>2 DEF IInv, TypeOK, NothingDangles
  <2>3. k \in SUBSET NetStates /\ IsFiniteSet(k) /\ \E s \in k : ~ IsBounded(s)
    BY <1>1, TurnFacts DEF IsClosure
  <2>4. new \in SUBSET NetStates /\ IsFiniteSet(new) /\ \E s \in new : ~ IsBounded(s)
    BY <2>2, <2>3, FS_Union
  <2>5. new = old \/ new \notin Keys
    BY <1>4 DEF Taken, Keys
  <2> HIDE DEF new, old, k
  <2>6. states[old].violation = TRUE
    BY <1>2 DEF IInv, KeysAreClosures
  <2>7. /\ Keys' = (Keys \ {old}) \cup {new} /\ states'[new].violation = TRUE
        /\ \A key \in Keys \ {old} : key # new /\ states'[key] = states[key]
    <3>1. CASE new = old
      BY <2>1, <2>2, <2>6, <3>1 DEF Keys
    <3>2. CASE new # old
      BY <2>1, <2>2, <2>5, <3>2 DEF AddState, Keys
    <3> QED
      BY <3>1, <3>2
  <2>8. Top.state \in Keys \ {old} /\ Top.state # new
    BY <1>2, <2>7, TurnFacts
  <2>9. Renamed(Top.state, old, new) = Top.state
    BY <2>8 DEF Renamed
  <2>10. initial' = initial /\ final' = final /\ initial \cup final \subseteq Keys \ {old}
    <3>1. initial \cup final \subseteq Keys \ {old}
      BY <1>2 DEF IInv, ViolationIsApart, NothingDangles
    <3> QED
      BY <2>1, <3>1, RenamedElsewhere
  <2>11. \A f \in edges : /\ IsEdge(f) /\ f.source \in Keys \ {old} /\ f.target \in Keys
                          /\ f.target = old => f.source # {}
    BY <1>2 DEF IInv, TypeOK, NothingDangles, ViolationIsApart
  <2>12. \A f \in edges : \E e \in edges' : /\ e.source = f.source /\ e.label = f.label
                                            /\ e.target = IF f.target = old THEN new ELSE f.target
    <3>1. moved \subseteq edges'
      BY <2>1, <2>9, ConnectAdds
    <3>2. \A f \in edges : Moved(f, old, new) \in moved
      OBVIOUS
    <3> HIDE DEF moved
    <3> QED
      BY <2>11, <3>1, <3>2, MovedEdge
  <2>13. \A e \in edges' :
           \/ e = NewEdge(new)
           \/ \E f \in edges : /\ IsEdge(e) /\ e.source = f.source /\ e.label = f.label
                               /\ e.type = f.type
                               /\ e.target = IF f.target = old THEN new ELSE f.target
    <3>1. \A e \in edges' : e = NewEdge(new) \/ e \in moved
      BY <2>1, <2>9, ConnectAdds
    <3>2. \A e \in moved : \E f \in edges : e = Moved(f, old, new)
      OBVIOUS
    <3> HIDE DEF moved
    <3> QED
      BY <2>11, <3>1, <3>2, MovedEdge
  <2>14. \E e \in edges' : e.source = Top.state /\ e.label = JobLabel(Job) /\ e.target = new
    BY <2>1, <2>9, ConnectAdds
  <2> HIDE DEF moved
  <2>15. \A e \in edges' : /\ IsEdge(e) /\ e.source \in Keys \ {old} /\ e.target \in Keys'
                           /\ e.target = new => e.source # {}
    <3> SUFFICES ASSUME NEW e \in edges'
                 PROVE  /\ IsEdge(e) /\ e.source \in Keys \ {old} /\ e.target \in Keys'
                        /\ e.target = new => e.source # {}
      OBVIOUS
    <3>1. CASE e = NewEdge(new)
      <4>1. Top.state # {}
        BY <1>1, TurnFacts
      <4> QED
        BY <2>7, <2>8, <3>1, <4>1, NewEdgeFits
    <3>2. CASE e # NewEdge(new)
      <4>1. PICK f \in edges : /\ IsEdge(e) /\ e.source = f.source
                               /\ e.target = IF f.target = old THEN new ELSE f.target
        BY <2>13, <3>2
      <4>2. f.source \in Keys \ {old} /\ f.target \in Keys /\ (f.target = old => f.source # {})
        BY <2>11
      <4> QED
        BY <2>7, <4>1, <4>2
    <3> QED
      BY <3>1, <3>2
  <2>16. \A call \in Held(stack') : call.state \in Keys \ {old}
    <3>1. \A call \in Held(stack) : call.state \in Keys \ {old}
      BY <1>2 DEF IInv, NothingDangles, ViolationIsApart, Held
    <3> QED
      BY <2>1, <3>1, TurnFacts
  <2>17. TypeOK'
    <3>1. stack' \in Seq(Calls)
      BY <2>1, TurnFacts
    <3>2. \A key \in Keys' : key \in SUBSET NetStates /\ IsFiniteSet(key)
      BY <2>4, <2>7 DEF IInv, TypeOK
    <3>3. phase' = "build"
      BY <2>1 DEF Working
    <3> QED
      BY <2>15, <3>1, <3>2, <3>3 DEF TypeOK
  <2>18. NothingDangles'
    <3>1. \A i \in DOMAIN stack' : stack'[i].state \in Keys \ {old}
      BY <2>16, HeldAlive
    <3> QED
      BY <2>1, <2>7, <2>10, <2>15, <3>1 DEF NothingDangles
  <2>19. ViolationIsApart'
    BY <2>1, <2>7, <2>10, <2>15, <2>16 DEF ViolationIsApart
  <2>20. Keys' \ violating' = Keys \ {old}
    BY <2>1, <2>7
  <2>21. KeysAreClosures'
    <3>1. KeysAreClosures
      BY DEF IInv
    <3>2. \A key \in initial' : IsClosureOf(key, {InitialState}, states'[key].violation)
      BY <2>7, <2>10, <3>1 DEF KeysAreClosures
    <3>3. Keys' \ (initial' \cup violating') \subseteq Keys \ (initial \cup violating)
      BY <1>2, <2>10, <2>20
    <3>4. \A key \in Keys' \ (initial' \cup violating') : \E S : IsClosureOf(key, S, FALSE)
      BY <3>1, <3>3 DEF KeysAreClosures
    <3>5. \A key \in Keys' \ (initial' \cup violating') : states'[key].violation = FALSE
      <4>1. \A key \in Keys \ (initial \cup violating) : states[key].violation = FALSE
        BY <3>1 DEF KeysAreClosures
      <4> QED
        BY <1>2, <2>7, <3>3, <4>1
    <3>6. \A key \in violating' : states'[key].violation = TRUE /\ \E s \in key : ~ IsBounded(s)
      BY <2>1, <2>4, <2>7
    <3> QED
      BY <3>2, <3>4, <3>5, <3>6 DEF KeysAreClosures
  <2>22. EdgesAreSteps'
    <3> SUFFICES ASSUME NEW e \in edges' PROVE \E j \in Jobs : IsStep(e, j, violating')
      BY DEF EdgesAreSteps
    <3>1. CASE e = NewEdge(new)
      <4>1. IsStep(e, Job, violating')
        BY <2>1, <3>1, NewEdgeFits DEF IsStep
      <4> QED
        BY <4>1, TurnFacts
    <3>2. CASE e # NewEdge(new)
      <4>1. PICK f \in edges : /\ e.source = f.source /\ e.label = f.label /\ e.type = f.type
                               /\ e.target = IF f.target = old THEN new ELSE f.target
        BY <2>13, <3>2
      <4>2. PICK j \in Jobs : IsStep(f, j, violating)
        BY DEF IInv, EdgesAreSteps
      <4>3. e.target \notin violating' => f.target \notin violating /\ e.target = f.target
        BY <1>2, <2>1, <4>1
      <4> QED
        BY <4>1, <4>2, <4>3 DEF IsStep
    <3> QED
      BY <3>1, <3>2
  <2>23. JobsAreFiled'
    <3>1. IsFiled(Top.state, Job, edges', violating')
      BY <2>1, <2>14 DEF IsFiled
    <3>2. \A key \in Keys \ violating, j \in Jobs :
            IsFiled(key, j, edges, violating) => IsFiled(key, j, edges', violating')
      <4> SUFFICES ASSUME NEW key, NEW j, IsFiled(key, j, edges, violating)
                   PROVE  IsFiled(key, j, edges', violating')
        OBVIOUS
      <4>1. PICK f \in edges : /\ f.source = key /\ f.label = JobLabel(j)
                               /\ f.target \in violating \/ SuccessorsFor(j, key) \subseteq f.target
        BY DEF IsFiled
      <4>2. PICK e \in edges' : /\ e.source = f.source /\ e.label = f.label
                                /\ e.target = IF f.target = old THEN new ELSE f.target
        BY <2>12
      <4>3. e.target \in violating' \/ SuccessorsFor(j, key) \subseteq e.target
        BY <1>2, <2>1, <4>1, <4>2
      <4> QED
        BY <4>1, <4>2, <4>3 DEF IsFiled
    <3>3. \A key \in Keys \ violating, j \in Jobs :
            \/ \E call \in Held(stack') : call.state = key /\ j \in call.left
            \/ IsFiled(key, j, edges', violating')
      BY <2>1, <3>1, <3>2, JobsStayFiled
    <3> QED
      BY <1>2, <2>20, <3>3 DEF JobsAreFiled
  <2>24. (Keys \subseteq Entered)'
    <3> SUFFICES ASSUME NEW key \in Keys' PROVE key \in Entered'
      OBVIOUS
    <3>1. CASE key = new
      <4>1. PICK e \in edges' : e.source = Top.state /\ e.target = new
        BY <2>14
      <4>2. e.source # e.target
        BY <2>8, <4>1
      <4> QED
        BY <3>1, <4>1, <4>2 DEF Entered
    <3>2. CASE key # new /\ key \in initial
      BY <2>10, <3>2 DEF Entered
    <3>3. CASE key # new /\ key \notin initial
      <4>1. key \in Keys \ {old}
        BY <2>7, <3>3
      <4>2. PICK f \in edges : f.source # f.target /\ f.target = key
        BY <3>3, <4>1 DEF IInv, Entered
      <4>3. PICK e \in edges' : e.source = f.source /\ e.target = key
        BY <2>12, <4>1, <4>2
      <4> QED
        BY <4>2, <4>3 DEF Entered
    <3> QED
      BY <3>1, <3>2, <3>3
  <2>25. FinalsAreMarked'
    <3>1. Keys' \ (initial' \cup violating') = Keys \ (initial \cup violating)
      BY <1>2, <2>10, <2>20
    <3> QED
      BY <2>10, <3>1 DEF IInv, FinalsAreMarked
  <2> QED
    BY <2>17, <2>18, <2>19, <2>21, <2>22, <2>23, <2>24, <2>25 DEF IInv
<1> QED
  BY <1>3, <1>4

LEMMA StartIInv == IInv /\ Start => IInv'
<1> SUFFICES ASSUME IInv, Start PROVE IInv'
  OBVIOUS
<1>1. /\ Keys = {} /\ stack = <<>> /\ edges = {} /\ initial = {} /\ violating = {} /\ final = {}
      /\ final' = {} /\ edges' = {} /\ violating' = {}
  BY DEF IInv, TypeOK, Start
<1>2. CASE ~ \A t \in Transitions : TypeAccepted(t)
  BY <1>2, ThrownIInv DEF Start
<1>3. CASE \A t \in Transitions : TypeAccepted(t)
  <2> DEFINE c == CloseOver({InitialState})
             k == c.states
  <2>1. /\ states' = AddState(states, k, c.loop, c.violation)
        /\ initial' = {k} /\ stack' = <<Activation(k)>> /\ phase' = "build"
    BY <1>3 DEF Start
  <2>2. {InitialState} \in SUBSET NetStates /\ IsFiniteSet({InitialState})
    BY InitialStateType, FS_Singleton
  <2>3. IsClosure(c)
    BY <2>2, ClosureHasSeeds
  <2>4. k \in SUBSET NetStates /\ IsFiniteSet(k)
    BY <2>3 DEF IsClosure
  <2>5. Keys' = {k} /\ states'[k].violation = c.violation
    BY <1>1, <2>1 DEF AddState, Keys
  <2>6. IsClosureOf(k, {InitialState}, c.violation)
    BY <2>2 DEF IsClosureOf
  <2>7. KeysAreClosures'
    BY <1>1, <2>1, <2>5, <2>6 DEF KeysAreClosures
  <2> HIDE DEF k, c
  <2>8. Activation(k) \in Calls /\ Activation(k).state = k /\ Activation(k).left = Jobs
    BY <2>4 DEF Activation, Calls
  <2>9. stack' \in Seq(Calls) /\ Held(stack') = {Activation(k)}
    BY <2>1, <2>8 DEF Held
  <2>10. TypeOK'
    BY <1>1, <2>1, <2>4, <2>5, <2>9 DEF TypeOK
  <2>11. \A i \in DOMAIN stack' : stack'[i].state \in Keys'
    BY <2>5, <2>8, <2>9, HeldAlive
  <2>12. NothingDangles'
    BY <1>1, <2>1, <2>5, <2>11 DEF NothingDangles
  <2>13. ViolationIsApart' /\ EdgesAreSteps' /\ FinalsAreMarked'
    BY <1>1, <2>1, <2>5 DEF ViolationIsApart, EdgesAreSteps, FinalsAreMarked
  <2>14. JobsAreFiled' /\ (Keys \subseteq Entered)'
    BY <2>1, <2>5, <2>8, <2>9 DEF JobsAreFiled, Entered
  <2> QED
    BY <2>7, <2>10, <2>12, <2>13, <2>14 DEF IInv
<1> QED
  BY <1>2, <1>3

LEMMA ReturnIInv == IInv /\ Return => IInv'
<1> SUFFICES ASSUME IInv, Return PROVE IInv'
  OBVIOUS
<1>1. /\ stack' = Below /\ stack # <<>> /\ Top.left = {} /\ phase = "build"
      /\ phase' = IF Below = <<>> THEN "done" ELSE "build"
      /\ states' = states /\ final' = final /\ edges' = edges /\ initial' = initial
      /\ violating' = violating /\ Keys' = Keys
  BY DEF Return, Keys
<1>2. Below \in Seq(Calls) /\ Held(stack) = {Top} \cup Held(Below)
  <2>1. stack \in Seq(Calls)
    BY DEF IInv, TypeOK
  <2> QED
    BY <1>1, <2>1, HeldOf DEF Top, Below
<1>3. TypeOK'
  BY <1>1, <1>2 DEF IInv, TypeOK
<1>4. NothingDangles'
  <2>1. \A call \in Held(stack') : call.state \in Keys
    BY <1>1, <1>2 DEF IInv, NothingDangles, Held
  <2>2. \A i \in DOMAIN stack' : stack'[i].state \in Keys
    BY <2>1, HeldAlive
  <2> QED
    BY <1>1, <2>2 DEF IInv, NothingDangles
<1>5. ViolationIsApart' /\ KeysAreClosures'
  BY <1>1, <1>2 DEF IInv, ViolationIsApart, KeysAreClosures
<1>6. JobsAreFiled'
  BY <1>1, <1>2 DEF IInv, JobsAreFiled
<1>7. EdgesAreSteps' /\ (Keys \subseteq Entered)' /\ FinalsAreMarked'
  BY <1>1 DEF IInv, EdgesAreSteps, Entered, FinalsAreMarked
<1> QED
  BY <1>3, <1>4, <1>5, <1>6, <1>7 DEF IInv

LEMMA NextIInv == IInv /\ [Next]_vars => IInv'
<1> SUFFICES ASSUME IInv, [Next]_vars PROVE IInv'
  OBVIOUS
<1>1. CASE Start
  BY <1>1, StartIInv
<1>2. CASE HandleSuccessors
  <2>1. Working /\ (KnownSuccessor(Found) \/ NewSuccessor(Found)
                      \/ FirstViolation(Found) \/ FurtherViolation(Found))
    BY <1>2 DEF HandleSuccessors, Found
  <2> QED
    BY <2>1, KnownSuccessorIInv, NewSuccessorIInv, FirstViolationIInv, FurtherViolationIInv
<1>3. CASE Return
  BY <1>3, ReturnIInv
<1>4. CASE UNCHANGED vars
  <2>1. Keys' = Keys
    BY <1>4 DEF vars, Keys
  <2>2. TypeOK' /\ NothingDangles' /\ ViolationIsApart' /\ KeysAreClosures'
    BY <1>4, <2>1 DEF vars, IInv, TypeOK, NothingDangles, ViolationIsApart, KeysAreClosures
  <2>3. EdgesAreSteps' /\ JobsAreFiled' /\ (Keys \subseteq Entered)' /\ FinalsAreMarked'
    BY <1>4, <2>1 DEF vars, IInv, EdgesAreSteps, JobsAreFiled, Entered, FinalsAreMarked
  <2> QED
    BY <2>2, <2>3 DEF IInv
<1> QED
  BY <1>1, <1>2, <1>3, <1>4 DEF Next

\* The invariant holds.
THEOREM IInvHolds == Spec => []IInv
<1> QED
  BY InitIInv, NextIInv, PTL DEF Spec

-----------------------------------------------------------------------------
(***************************************************************************)
(* isFinalState.  What either iterator has passed matches nothing, and as  *)
(* long as neither is at the end nor both at a match, one of them moves.   *)
(***************************************************************************)
IsWalk(w, ms, ss, most) ==
  w = [i \in 0 .. most |->
         IF i = 0 THEN [mark |-> 1, state |-> 1] ELSE Advance(w[i - 1], ms, ss)]

LEMMA WalkExists ==
  ASSUME NEW ms, NEW ss
  PROVE  \A n \in Nat : \E w : IsWalk(w, ms, ss, n)
<1> DEFINE First == [mark |-> 1, state |-> 1]
           Go(at) == Advance(at, ms, ss)
           T == {n \in Nat : \E w : w = [i \in 0 .. n |-> IF i = 0 THEN First ELSE Go(w[i - 1])]}
<1> HIDE DEF First, Go
<1>1. 0 \in T
  <2> DEFINE w == [i \in {0} |-> First]
  <2>1. 0 .. 0 = {0}
    OBVIOUS
  <2>2. w = [i \in 0 .. 0 |-> IF i = 0 THEN First ELSE Go(w[i - 1])]
    BY <2>1
  <2> HIDE DEF w
  <2> QED
    BY <2>2
<1>2. \A n \in Nat : n \in T => n + 1 \in T
  <2> SUFFICES ASSUME NEW n \in Nat, n \in T PROVE n + 1 \in T
    OBVIOUS
  <2>1. PICK w : w = [i \in 0 .. n |-> IF i = 0 THEN First ELSE Go(w[i - 1])]
    OBVIOUS
  <2> DEFINE v == [i \in 0 .. (n + 1) |-> IF i \in 0 .. n THEN w[i] ELSE Go(w[n])]
  <2>2. ASSUME NEW i \in 0 .. (n + 1)
        PROVE  v[i] = IF i = 0 THEN First ELSE Go(v[i - 1])
    <3>1. CASE i = 0
      <4>1. w[0] = First
        BY <2>1
      <4> QED
        BY <3>1, <4>1
    <3>2. CASE i # 0 /\ i <= n
      <4>1. i \in 0 .. n /\ i - 1 \in 0 .. n /\ i - 1 \in 0 .. (n + 1)
        BY <3>2
      <4>2. w[i] = Go(w[i - 1])
        BY <2>1, <3>2, <4>1
      <4> QED
        BY <3>2, <4>1, <4>2
    <3>3. CASE i = n + 1
      <4>1. i \notin 0 .. n /\ i - 1 = n /\ n \in 0 .. n /\ n \in 0 .. (n + 1) /\ i # 0
        BY <3>3
      <4> QED
        BY <4>1
    <3> QED
      BY <3>1, <3>2, <3>3
  <2>3. v = [i \in 0 .. (n + 1) |-> v[i]]
    OBVIOUS
  <2> HIDE DEF v
  <2>4. v = [i \in 0 .. (n + 1) |-> IF i = 0 THEN First ELSE Go(v[i - 1])]
    BY <2>2, <2>3
  <2>5. n + 1 \in Nat
    OBVIOUS
  <2> QED
    BY <2>4, <2>5
<1> HIDE DEF T
<1>3. \A n \in Nat : n \in T
  BY <1>1, <1>2, SetInduction
<1> QED
  BY <1>3 DEF T, IsWalk, First, Go

SortedMarkings == InOrder(FinalMarkings, MarkingLess)
SortedStates(S) == InOrder(S, StateLess)

LEMMA WalkOf ==
  ASSUME NEW S \in SUBSET NetStates, IsFiniteSet(S)
  PROVE  LET most == Cardinality(FinalMarkings) + Cardinality(S)
         IN  \E w : /\ w[0] = [mark |-> 1, state |-> 1]
                    /\ \A i \in 1 .. most : w[i] = Advance(w[i - 1], SortedMarkings, SortedStates(S))
                    /\ IsFinalClosure(S) <=> ~ AtEnd(w[most], SortedMarkings, SortedStates(S))
<1> DEFINE most == Cardinality(FinalMarkings) + Cardinality(S)
           w == CHOOSE w : IsWalk(w, SortedMarkings, SortedStates(S), most)
<1>1. most \in Nat
  BY FinalAssumption, FS_CardinalityType
<1>2. IsWalk(w, SortedMarkings, SortedStates(S), most)
  <2> HIDE DEF most
  <2> QED
    BY <1>1, WalkExists
<1>3. IsFinalClosure(S) <=> ~ AtEnd(w[most], SortedMarkings, SortedStates(S))
  BY DEF IsFinalClosure, IsWalk, SortedMarkings, SortedStates
<1> HIDE DEF w, most
<1>4. w[0] = [mark |-> 1, state |-> 1]
  BY <1>1, <1>2 DEF IsWalk
<1>5. \A i \in 1 .. most : w[i] = Advance(w[i - 1], SortedMarkings, SortedStates(S))
  <2>1. \A i \in 1 .. most : i \in 0 .. most /\ i # 0
    BY <1>1
  <2> QED
    BY <1>2, <2>1 DEF IsWalk
<1>6. \E v : /\ v[0] = [mark |-> 1, state |-> 1]
             /\ \A i \in 1 .. most : v[i] = Advance(v[i - 1], SortedMarkings, SortedStates(S))
             /\ IsFinalClosure(S) <=> ~ AtEnd(v[most], SortedMarkings, SortedStates(S))
  BY <1>3, <1>4, <1>5
<1> QED
  BY <1>6 DEF most

\* What the lists are: the final markings in order, and markings of net states in order.
AreLists(ms, ss, M, N) ==
  /\ DOMAIN ms = 1 .. M /\ DOMAIN ss = 1 .. N
  /\ \A a \in 1 .. M : ms[a] \in Markings
  /\ \A b \in 1 .. N : ss[b].place \in Markings
  /\ \A a, c \in 1 .. M : a < c => MarkingLess(ms[a], ms[c])
  /\ \A b, d \in 1 .. N : b < d => ss[b].place = ss[d].place \/ MarkingLess(ss[b].place, ss[d].place)

Ended(at, ms, ss) == AtEnd(at, ms, ss) \/ ss[at.state].place = ms[at.mark]

Passed(at, ms, ss, M, N) ==
  /\ at \in [mark : 1 .. (M + 1), state : 1 .. (N + 1)]
  /\ \A a \in 1 .. M, b \in 1 .. N :
       a < at.mark \/ b < at.state => ss[b].place # ms[a]

LEMMA ListsOf ==
  ASSUME NEW S \in SUBSET NetStates, IsFiniteSet(S)
  PROVE  AreLists(SortedMarkings, SortedStates(S), Cardinality(FinalMarkings), Cardinality(S))
<1> DEFINE ms == SortedMarkings
           ss == SortedStates(S)
           M  == Cardinality(FinalMarkings)
           N  == Cardinality(S)
<1>1. IsSorted(ms, MarkingsBefore, FinalMarkings) /\ IsSorted(ss, StatesBefore, S)
  BY MarkingsAreSorted, StatesAreSorted DEF SortedMarkings, SortedStates
<1> HIDE DEF ms, ss
<1>2. DOMAIN ms = 1 .. M /\ DOMAIN ss = 1 .. N
  BY <1>1 DEF IsSorted
<1>3. \A a \in 1 .. M : ms[a] \in Markings
  BY <1>1, <1>2, MarkingAssumption DEF IsSorted
<1>4. \A b \in 1 .. N : ss[b] \in NetStates /\ ss[b].place \in Markings
  <2>1. \A b \in 1 .. N : ss[b] \in S
    BY <1>1, <1>2 DEF IsSorted
  <2> QED
    BY <2>1 DEF NetStates
<1>5. \A a, c \in 1 .. M : a < c => MarkingLess(ms[a], ms[c])
  <2>1. \A a, c \in 1 .. M : a < c => <<ms[a], ms[c]>> \in MarkingsBefore
    BY <1>1, <1>2 DEF IsSorted
  <2> QED
    BY <2>1 DEF MarkingsBefore
<1>6. \A b, d \in 1 .. N :
        b < d => ss[b].place = ss[d].place \/ MarkingLess(ss[b].place, ss[d].place)
  <2>1. \A b, d \in 1 .. N : b < d => <<ss[b], ss[d]>> \in StatesBefore
    BY <1>1, <1>2 DEF IsSorted
  <2>2. \A x, y : <<x, y>> \in StatesBefore => StateLess(x, y)
    BY DEF StatesBefore
  <2> QED
    BY <2>1, <2>2 DEF StateLess
<1>7. AreLists(ms, ss, M, N)
  BY <1>2, <1>3, <1>4, <1>5, <1>6 DEF AreLists
<1> QED
  BY <1>7 DEF ms, ss

LEMMA AdvancePasses ==
  ASSUME NEW M \in Nat, NEW N \in Nat, NEW ms, NEW ss, AreLists(ms, ss, M, N),
         NEW at, Passed(at, ms, ss, M, N)
  PROVE  /\ Passed(Advance(at, ms, ss), ms, ss, M, N)
         /\ Ended(at, ms, ss) => Advance(at, ms, ss) = at
         /\ ~ Ended(at, ms, ss) =>
              Advance(at, ms, ss).mark + Advance(at, ms, ss).state = at.mark + at.state + 1
<1> DEFINE m == at.mark
           n == at.state
<1>1. m \in 1 .. (M + 1) /\ n \in 1 .. (N + 1) /\ at \in [mark : 1 .. (M + 1), state : 1 .. (N + 1)]
  BY DEF Passed
<1>2. CASE Ended(at, ms, ss)
  BY <1>2 DEF Advance, Ended
<1>3. CASE ~ Ended(at, ms, ss)
  <2>1. m \in 1 .. M /\ n \in 1 .. N /\ ss[n].place # ms[m]
        /\ ss[n].place \in Markings /\ ms[m] \in Markings
    BY <1>1, <1>3 DEF Ended, AtEnd, AreLists
  <2>2. CASE MarkingLess(ss[n].place, ms[m])
    <3>1. Advance(at, ms, ss) = [at EXCEPT !.state = n + 1]
      BY <1>3, <2>2 DEF Advance, Ended
    <3>2. Advance(at, ms, ss).mark = m /\ Advance(at, ms, ss).state = n + 1
          /\ Advance(at, ms, ss) \in [mark : 1 .. (M + 1), state : 1 .. (N + 1)]
      BY <1>1, <2>1, <3>1
    <3>3. ASSUME NEW a \in 1 .. M, NEW b \in 1 .. N, a < m \/ b < n + 1
          PROVE  ss[b].place # ms[a]
      <4>1. CASE a < m \/ b < n
        BY <4>1 DEF Passed
      <4>2. CASE b = n /\ ~ (a < m)
        <5>1. a = m \/ MarkingLess(ms[m], ms[a])
          BY <2>1, <4>2 DEF AreLists
        <5>2. ms[a] \in Markings
          BY DEF AreLists
        <5>3. MarkingLess(ss[n].place, ms[a])
          BY <2>1, <2>2, <5>1, <5>2, MarkingOrder
        <5> QED
          BY <2>1, <4>2, <5>2, <5>3, MarkingOrder
      <4> QED
        BY <2>1, <3>3, <4>1, <4>2
    <3> HIDE DEF m, n
    <3>4. Passed(Advance(at, ms, ss), ms, ss, M, N)
      BY <3>2, <3>3 DEF Passed
    <3>5. m + (n + 1) = m + n + 1
      BY <2>1
    <3> QED
      BY <1>3, <3>2, <3>4, <3>5 DEF m, n
  <2>3. CASE ~ MarkingLess(ss[n].place, ms[m])
    <3>0. MarkingLess(ms[m], ss[n].place)
      BY <2>1, <2>3, MarkingOrder
    <3>1. Advance(at, ms, ss) = [at EXCEPT !.mark = m + 1]
      BY <1>3, <2>3 DEF Advance, Ended
    <3>2. Advance(at, ms, ss).mark = m + 1 /\ Advance(at, ms, ss).state = n
          /\ Advance(at, ms, ss) \in [mark : 1 .. (M + 1), state : 1 .. (N + 1)]
      BY <1>1, <2>1, <3>1
    <3>3. ASSUME NEW a \in 1 .. M, NEW b \in 1 .. N, a < m + 1 \/ b < n
          PROVE  ss[b].place # ms[a]
      <4>1. CASE a < m \/ b < n
        BY <4>1 DEF Passed
      <4>2. CASE a = m /\ ~ (b < n)
        <5>1. b = n \/ ss[n].place = ss[b].place \/ MarkingLess(ss[n].place, ss[b].place)
          BY <2>1, <4>2 DEF AreLists
        <5>2. ss[b].place \in Markings
          BY DEF AreLists
        <5>3. MarkingLess(ms[m], ss[b].place)
          BY <2>1, <3>0, <5>1, <5>2, MarkingOrder
        <5> QED
          BY <2>1, <4>2, <5>2, <5>3, MarkingOrder
      <4> QED
        BY <2>1, <3>3, <4>1, <4>2
    <3> HIDE DEF m, n
    <3>4. Passed(Advance(at, ms, ss), ms, ss, M, N)
      BY <3>2, <3>3 DEF Passed
    <3>5. (m + 1) + n = m + n + 1
      BY <2>1
    <3> QED
      BY <1>3, <3>2, <3>4, <3>5 DEF m, n
  <2> QED
    BY <2>2, <2>3
<1> QED
  BY <1>2, <1>3

\* A closure is marked final if and only if it has a final marking.
LEMMA FinalMeansMarked ==
  ASSUME NEW S \in SUBSET NetStates, IsFiniteSet(S)
  PROVE  IsFinalClosure(S) <=> \E s \in S : IsFinalMarking(s.place)
<1> DEFINE ms == SortedMarkings
           ss == SortedStates(S)
           M  == Cardinality(FinalMarkings)
           N  == Cardinality(S)
           most == M + N
<1>1. M \in Nat /\ N \in Nat /\ most \in Nat
  BY FinalAssumption, FS_CardinalityType
<1>2. AreLists(ms, ss, M, N)
  BY ListsOf
<1>3. PICK w : /\ w[0] = [mark |-> 1, state |-> 1]
               /\ \A i \in 1 .. most : w[i] = Advance(w[i - 1], ms, ss)
               /\ IsFinalClosure(S) <=> ~ AtEnd(w[most], ms, ss)
  BY WalkOf
<1>4. IsSorted(ms, MarkingsBefore, FinalMarkings) /\ IsSorted(ss, StatesBefore, S)
  BY MarkingsAreSorted, StatesAreSorted DEF SortedMarkings, SortedStates
<1>5. DOMAIN ms = 1 .. M /\ DOMAIN ss = 1 .. N
  BY <1>2 DEF AreLists
<1> HIDE DEF M, N, ms, ss
<1> DEFINE Good(i) == /\ Passed(w[i], ms, ss, M, N)
                      /\ Ended(w[i], ms, ss) \/ w[i].mark + w[i].state = i + 2
           T == {i \in Nat : i <= most => Good(i)}
<1>6. 0 \in T
  <2>1. w[0].mark = 1 /\ w[0].state = 1 /\ w[0] \in [mark : 1 .. (M + 1), state : 1 .. (N + 1)]
    BY <1>1, <1>3
  <2>2. Good(0)
    BY <1>1, <2>1 DEF Passed
  <2> QED
    BY <2>2
<1>7. \A i \in Nat : i \in T => i + 1 \in T
  <2> SUFFICES ASSUME NEW i \in Nat, i \in T, i + 1 <= most PROVE Good(i + 1)
    OBVIOUS
  <2>1. i <= most /\ i + 1 \in 1 .. most /\ (i + 1) - 1 = i
    BY <1>1
  <2>2. w[i + 1] = Advance(w[i], ms, ss)
    BY <1>3, <2>1
  <2>3. Good(i)
    BY <2>1
  <2>4. w[i].mark \in Nat /\ w[i].state \in Nat
    BY <1>1, <2>3 DEF Passed
  <2>5. /\ Passed(w[i + 1], ms, ss, M, N)
        /\ Ended(w[i], ms, ss) => w[i + 1] = w[i]
        /\ ~ Ended(w[i], ms, ss) => w[i + 1].mark + w[i + 1].state = w[i].mark + w[i].state + 1
    BY <1>1, <1>2, <2>2, <2>3, AdvancePasses
  <2>6. CASE Ended(w[i], ms, ss)
    BY <2>5, <2>6
  <2>7. CASE ~ Ended(w[i], ms, ss)
    <3>1. w[i + 1].mark + w[i + 1].state = (i + 1) + 2
      BY <2>3, <2>4, <2>5, <2>7
    <3> QED
      BY <2>5, <3>1
  <2> QED
    BY <2>6, <2>7
<1>8. Good(most)
  <2> HIDE DEF T
  <2>1. most \in T
    BY <1>1, <1>6, <1>7, SetInduction
  <2> QED
    BY <1>1, <2>1 DEF T
<1> DEFINE at == w[most]
<1>9. at.mark \in 1 .. (M + 1) /\ at.state \in 1 .. (N + 1)
  BY <1>8 DEF Passed
<1>10. CASE AtEnd(at, ms, ss)
  <2>1. at.mark = M + 1 \/ at.state = N + 1
    BY <1>1, <1>5, <1>9, <1>10 DEF AtEnd
  <2>2. \A a \in 1 .. M, b \in 1 .. N : ss[b].place # ms[a]
    <3>1. \A a \in 1 .. M, b \in 1 .. N : a < M + 1 /\ b < N + 1
      BY <1>1
    <3> QED
      BY <1>8, <2>1, <3>1 DEF Passed
  <2>3. ASSUME NEW s \in S, IsFinalMarking(s.place) PROVE FALSE
    <3>1. PICK b \in 1 .. N : ss[b] = s
      BY <1>4, <1>5 DEF IsSorted
    <3>2. PICK a \in 1 .. M : ms[a] = s.place
      BY <1>4, <1>5, <2>3 DEF IsSorted, IsFinalMarking
    <3> QED
      BY <2>2, <3>1, <3>2
  <2> QED
    BY <1>3, <1>10, <2>3
<1>11. CASE ~ AtEnd(at, ms, ss)
  <2>1. at.mark \in 1 .. M /\ at.state \in 1 .. N
    BY <1>5, <1>11 DEF AtEnd
  <2>2. at.mark + at.state # most + 2
    BY <1>1, <2>1
  <2>3. ss[at.state].place = ms[at.mark]
    BY <1>8, <1>11, <2>2 DEF Ended
  <2>4. ss[at.state] \in S /\ ms[at.mark] \in FinalMarkings
    BY <1>4, <1>5, <2>1 DEF IsSorted
  <2>5. \E s \in S : IsFinalMarking(s.place)
    BY <2>3, <2>4 DEF IsFinalMarking
  <2> QED
    BY <1>3, <1>11, <2>5
<1> QED
  BY <1>10, <1>11

-----------------------------------------------------------------------------
(***************************************************************************)
(* What follows from the invariant.                                        *)
(***************************************************************************)
\* No edge, mark or activation of handleState is left with a state that was replaced.
THEOREM NothingEverDangles == Spec => []NothingDangles
<1>1. IInv => NothingDangles
  BY DEF IInv
<1> QED
  BY <1>1, IInvHolds, PTL

\* Whatever the net can do visibly the finished automaton can do, and what it can do silently
\* stays in a closure, if the recursion ends within MaxDepth.
THEOREM AutomatonTracksNet ==
  ASSUME DepthSuffices
  PROVE  Spec => []TracksNet
<1>1. IInv => TracksNet
  <2> SUFFICES ASSUME IInv, phase = "done", NEW key \in Keys \ violating, NEW s \in key
               PROVE  /\ \A t \in Observable :
                           IsFireable(t, s) => Covers(key, Label[t], FireTransition(t, s))
                      /\ CanMakeTimeStep(s) => Covers(key, TimeLabel, MakeTimeStep(s))
                      /\ \A t \in Silent : IsFireable(t, s) =>
                           FireTransition(t, s) \in key \/ states[key].violation
    BY DEF TracksNet
  <2>1. \A j \in Jobs : IsFiled(key, j, edges, violating)
    <3>1. Held(stack) = {}
      BY HeldNone DEF IInv, TypeOK
    <3> QED
      BY <3>1 DEF IInv, JobsAreFiled
  <2>2. ASSUME NEW j \in Jobs, NEW r \in SuccessorsFor(j, key)
        PROVE  Covers(key, JobLabel(j), r)
    BY <2>1 DEF IsFiled, Covers
  <2>3. ASSUME NEW t \in Observable, IsFireable(t, s)
        PROVE  Covers(key, Label[t], FireTransition(t, s))
    <3>1. PICK j \in Jobs \ {TimeJob} : TransitionList[j] = t
      BY JobsAreNumbers
    <3>2. FireTransition(t, s) \in SuccessorsFor(j, key) /\ JobLabel(j) = Label[t]
      BY <2>3, <3>1 DEF SuccessorsFor, Fired, JobLabel
    <3> QED
      BY <2>2, <3>2
  <2>4. ASSUME CanMakeTimeStep(s) PROVE Covers(key, TimeLabel, MakeTimeStep(s))
    <3>1. MakeTimeStep(s) \in SuccessorsFor(TimeJob, key) /\ JobLabel(TimeJob) = TimeLabel
      BY <2>4 DEF SuccessorsFor, JobLabel
    <3> QED
      BY <2>2, <3>1, JobsAreNumbers
  <2>5. ASSUME NEW t \in Silent, IsFireable(t, s), ~ states[key].violation
        PROVE  FireTransition(t, s) \in key
    <3>1. \E S : IsClosureOf(key, S, FALSE)
      <4>1. CASE key \in initial
        <5>1. IsClosureOf(key, {InitialState}, states[key].violation)
          BY <4>1 DEF IInv, KeysAreClosures
        <5> QED
          BY <2>5, <5>1, InitialStateType, FS_Singleton, ClosureHasSeeds DEF IsClosureOf, IsClosure
      <4>2. CASE key \notin initial
        BY <4>2 DEF IInv, KeysAreClosures
      <4> QED
        BY <4>1, <4>2
    <3>2. StaysIn(key)
      BY <3>1, ClosureStaysIn DEF IsClosureOf
    <3> QED
      BY <2>5, <3>2 DEF StaysIn
  <2> QED
    BY <2>3, <2>4, <2>5
<1> QED
  BY <1>1, IInvHolds, PTL

\* The finished automaton has nothing that the net cannot do.
THEOREM AutomatonInventsNothing == Spec => []InventsNothing
<1>1. IInv => InventsNothing
  <2> SUFFICES ASSUME IInv, NEW e \in edges, e.target \notin violating
               PROVE  e.target \subseteq SilentReach(VisibleSteps(e.label, e.source))
    BY DEF InventsNothing
  <2>1. PICK j \in Jobs : IsStep(e, j, violating)
    BY DEF IInv, EdgesAreSteps
  <2>2. e.label = JobLabel(j) /\ e.target = CloseOver(SuccessorsFor(j, e.source)).states
    BY <2>1 DEF IsStep
  <2>3. e.source \in SUBSET NetStates /\ IsFiniteSet(e.source)
    BY DEF IInv, TypeOK, NothingDangles
  <2>4. SuccessorsFor(j, e.source) \in SUBSET NetStates /\ IsFiniteSet(SuccessorsFor(j, e.source))
    BY <2>3, SuccessorsAreFinite
  <2>5. SuccessorsFor(j, e.source) \subseteq VisibleSteps(e.label, e.source)
    <3> SUFFICES ASSUME NEW r \in SuccessorsFor(j, e.source)
                 PROVE  r \in VisibleSteps(e.label, e.source)
      OBVIOUS
    <3>1. CASE j = TimeJob
      BY <2>2, <3>1 DEF SuccessorsFor, VisibleSteps, JobLabel
    <3>2. CASE j # TimeJob
      <4> DEFINE t == TransitionList[j]
      <4>1. t \in Observable /\ e.label = Label[t]
        BY <2>2, <3>2, JobsAreNumbers DEF JobLabel
      <4>2. PICK s \in e.source : IsFireable(t, s) /\ r = FireTransition(t, s)
        BY <3>2 DEF SuccessorsFor, Fired
      <4> DEFINE x == <<t, s>>
      <4>3. x \in {y \in Observable \X e.source : Label[y[1]] = e.label /\ IsFireable(y[1], y[2])}
        BY <4>1, <4>2
      <4>4. r = FireTransition(x[1], x[2])
        BY <4>2
      <4> HIDE DEF x
      <4> QED
        BY <4>3, <4>4 DEF VisibleSteps
    <3> QED
      BY <3>1, <3>2
  <2> QED
    BY <2>2, <2>4, <2>5, ClosureInReach
<1> QED
  BY <1>1, IInvHolds, PTL

\* The finished automaton is what the filters behind the construction take for granted.
THEOREM AutomatonIsComplete ==
  ASSUME LabelsTellTypes
  PROVE  Spec => []ResultIsComplete
<1>1. IInv => ResultIsComplete
  <2> SUFFICES ASSUME IInv, phase = "done"
               PROVE  /\ \A key \in Keys \ violating, j \in Jobs :
                           \E e \in edges : /\ e.source = key /\ e.label = JobLabel(j)
                                            /\ e.type = JobType(j)
                      /\ \A e \in edges : e.source = {} => e.target = {}
                      /\ \A e \in edges : e.source \notin violating
                      /\ Keys \subseteq Entered
                      /\ final \ violating =
                           {key \in Keys \ (initial \cup violating) :
                              \E s \in key : IsFinalMarking(s.place)}
    BY DEF ResultIsComplete
  <2>1. ASSUME NEW key \in Keys \ violating, NEW j \in Jobs
        PROVE  \E e \in edges : e.source = key /\ e.label = JobLabel(j) /\ e.type = JobType(j)
    <3>1. Held(stack) = {}
      BY HeldNone DEF IInv, TypeOK
    <3>2. PICK e \in edges : e.source = key /\ e.label = JobLabel(j)
      BY <3>1 DEF IInv, JobsAreFiled, IsFiled
    <3>3. PICK i \in Jobs : e.label = JobLabel(i) /\ e.type = JobType(i)
      BY DEF IInv, EdgesAreSteps, IsStep
    <3>4. e.type = JobType(j)
      BY <3>2, <3>3 DEF LabelsTellTypes
    <3> QED
      BY <3>2, <3>4
  <2>2. ASSUME NEW e \in edges, e.source = {} PROVE e.target = {}
    <3>1. e.target \notin violating
      BY <2>2 DEF IInv, ViolationIsApart
    <3>2. PICK j \in Jobs : IsStep(e, j, violating)
      BY DEF IInv, EdgesAreSteps
    <3>3. e.target = CloseOver(SuccessorsFor(j, {})).states
      BY <2>2, <3>1, <3>2 DEF IsStep
    <3> QED
      BY <3>3, EmptyStaysEmpty
  <2>3. \A e \in edges : e.source \notin violating
    BY DEF IInv, ViolationIsApart
  <2>4. Keys \subseteq Entered
    BY DEF IInv
  <2>5. final \ violating = {key \in Keys \ (initial \cup violating) :
                               \E s \in key : IsFinalMarking(s.place)}
    <3>1. \A key \in Keys : key \in SUBSET NetStates /\ IsFiniteSet(key)
      BY DEF IInv, TypeOK
    <3>2. \A key \in Keys : IsFinalClosure(key) <=> \E s \in key : IsFinalMarking(s.place)
      BY <3>1, FinalMeansMarked
    <3>3. final = {key \in Keys \ (initial \cup violating) : IsFinalClosure(key)}
      BY DEF IInv, FinalsAreMarked
    <3> QED
      BY <3>2, <3>3
  <2> QED
    BY <2>1, <2>2, <2>3, <2>4, <2>5
<1> QED
  BY <1>1, IInvHolds, PTL

\* createState is not asked twice for a closure, if no bound breaks before anything visible.
THEOREM CreateStateNeverThrows == Spec => []NeverThrowsTwice
<1> DEFINE Hyp == /\ \A s \in SilentReach({InitialState}) : IsBounded(s)
                  /\ \A t \in Transitions : TypeAccepted(t)
           Inv == IInv /\ (Hyp => phase # "thrown")
<1>1. Init => Inv
  BY InitIInv DEF Init
<1>2. Inv /\ [Next]_vars => Inv'
  <2> SUFFICES ASSUME Inv, [Next]_vars, Hyp PROVE phase' # "thrown"
    BY NextIInv
  <2>1. phase # "thrown" /\ IInv
    OBVIOUS
  <2>2. \A t \in Transitions : TypeAccepted(t)
    OBVIOUS
  <2>3. \A key \in Keys \ violating : \A s \in key : IsBounded(s)
    <3>1. \A key \in initial : \A s \in key : IsBounded(s)
      <4>1. {InitialState} \in SUBSET NetStates /\ IsFiniteSet({InitialState})
            /\ {InitialState} \subseteq {InitialState}
        BY InitialStateType, FS_Singleton
      <4>2. CloseOver({InitialState}).states \subseteq SilentReach({InitialState})
        BY <4>1, ClosureInReach
      <4>3. \A key \in initial : key = CloseOver({InitialState}).states
        BY <2>1 DEF IInv, KeysAreClosures, IsClosureOf
      <4> QED
        BY <4>2, <4>3
    <3>2. \A key \in Keys \ (initial \cup violating) : \A s \in key : IsBounded(s)
      <4> SUFFICES ASSUME NEW key \in Keys \ (initial \cup violating) PROVE \A s \in key : IsBounded(s)
        OBVIOUS
      <4>1. PICK S : IsClosureOf(key, S, FALSE)
        BY <2>1 DEF IInv, KeysAreClosures
      <4> QED
        BY <4>1, ClosureHasSeeds DEF IsClosureOf, IsClosure
    <3> QED
      BY <3>1, <3>2
  <2> HIDE DEF Hyp
  <2>4. CASE Start
    BY <2>2, <2>4 DEF Start
  <2>5. CASE HandleSuccessors
    <3>1. Working /\ (KnownSuccessor(Found) \/ NewSuccessor(Found)
                        \/ FirstViolation(Found) \/ FurtherViolation(Found))
      BY <2>5 DEF HandleSuccessors, Found
    <3>2. CASE KnownSuccessor(Found) \/ NewSuccessor(Found)
      BY <2>1, <3>2 DEF KnownSuccessor, NewSuccessor
    <3>3. ASSUME Found.violation PROVE \E s \in Found.states : ~ IsBounded(s)
      BY <2>1, <3>1, <3>3, TurnFacts DEF IsClosure
    <3>4. CASE FirstViolation(Found)
      <4>1. Found.states \notin DOMAIN states
        BY <2>3, <3>3, <3>4 DEF FirstViolation, Keys
      <4> QED
        BY <2>1, <3>4, <4>1 DEF FirstViolation
    <3>5. CASE FurtherViolation(Found)
      <4> DEFINE old == CHOOSE v \in violating : TRUE
                 new == old \cup Found.states
      <4>1. Found.violation /\ violating # {}
        BY <3>5 DEF FurtherViolation
      <4>2. violating = {old}
        BY <2>1, <4>1 DEF IInv, ViolationIsApart
      <4>3. \E s \in new : ~ IsBounded(s)
        BY <3>3, <4>1
      <4>4. ~ Taken(old, new)
        <5> HIDE DEF new, old
        <5> QED
          BY <2>3, <4>2, <4>3 DEF Taken, Keys
      <4> QED
        BY <2>1, <3>5, <4>4 DEF FurtherViolation
    <3> QED
      BY <3>1, <3>2, <3>4, <3>5
  <2>6. CASE Return
    BY <2>6 DEF Return
  <2>7. CASE UNCHANGED vars
    BY <2>1, <2>7 DEF vars
  <2> QED
    BY <2>4, <2>5, <2>6, <2>7 DEF Next
<1>3. Inv => NeverThrowsTwice
  BY DEF NeverThrowsTwice
<1> QED
  BY <1>1, <1>2, <1>3, PTL DEF Spec

================================================================================
