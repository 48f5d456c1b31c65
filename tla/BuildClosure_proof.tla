--------------------------- MODULE BuildClosure_proof ---------------------------
(***************************************************************************)
(* buildClosure returns exactly what is silently reachable, its loop flag  *)
(* says that some state is met twice, and the order of seeds and           *)
(* transitions makes no difference: for every net and every set of seeds.  *)
(*                                                                         *)
(* Soundness is a matter of levels: a call at depth d searches from a      *)
(* state at most d silent firings away from a seed.  Completeness is the   *)
(* argument about the call stack: a firing that leads out of the closure   *)
(* of a call is one the call has still to do, or one it is waiting for.    *)
(* For the flag, the silent firings from the seeds either form a forest or *)
(* meet some state twice; in a forest the closures that are merged lie in  *)
(* different branches.  For the order, CloseOver, which searches in list   *)
(* order, has the same two properties.                                     *)
(***************************************************************************)
EXTENDS BuildClosure, FiniteSetTheorems, WellFoundedInduction, TLAPS

-----------------------------------------------------------------------------
(***************************************************************************)
(* Induction over numbers.                                                 *)
(***************************************************************************)
\* Of any numbers one is the least.
LEMMA LeastNumber ==
  ASSUME NEW S \in SUBSET Nat, S # {}
  PROVE  \E i \in S : \A k \in S : i <= k
<1> DEFINE R == OpToRel(<, Nat)
<1>1. \A x, y \in Nat : x < y => <<x, y>> \in R
  BY DEF OpToRel
<1>2. IsWellFoundedOn(R, Nat)
  BY NatLessThanWellFounded
<1> HIDE DEF R
<1>3. PICK i \in S : \A k \in S : ~ (<<k, i>> \in R)
  BY <1>2, WFMin
<1>4. \A k \in S : ~ (k < i)
  BY <1>1, <1>3
<1> QED
  BY <1>4

\* A set of numbers that has 0 and the successor of each of its members has them all.
LEMMA SetInduction ==
  ASSUME NEW S, 0 \in S, \A n \in Nat : n \in S => n + 1 \in S
  PROVE  \A n \in Nat : n \in S
<1> SUFFICES ASSUME NEW k \in Nat, k \notin S PROVE FALSE
  OBVIOUS
<1> DEFINE T == {n \in Nat : n \notin S}
<1>1. PICK x \in T : \A y \in T : x <= y
  <2>1. T \in SUBSET Nat /\ T # {}
    OBVIOUS
  <2> HIDE DEF T
  <2> QED
    BY <2>1, LeastNumber
<1>2. x # 0 /\ x - 1 \in Nat /\ (x - 1) + 1 = x
  OBVIOUS
<1>3. x - 1 \notin T
  BY <1>1, <1>2
<1> QED
  BY <1>2, <1>3

-----------------------------------------------------------------------------
(***************************************************************************)
(* What is silently reachable, a level at a time.                          *)
(***************************************************************************)
\* The levels of the silent search: what at most n silent firings lead to.
NextLevel(S) == S \cup SilentSuccessors(S)

IsLevels(f, S, n) == f = [k \in 0 .. n |-> IF k = 0 THEN S ELSE NextLevel(f[k - 1])]

Levels(S) == CHOOSE f : IsLevels(f, S, MaxDepth)

\* There are such levels.
LEMMA LevelsExist ==
  ASSUME NEW S
  PROVE  \A n \in Nat : \E f : IsLevels(f, S, n)
<1> DEFINE T == {n \in Nat : \E f : IsLevels(f, S, n)}
<1>1. 0 \in T
  <2>1. IsLevels([k \in 0 .. 0 |-> S], S, 0)
    BY DEF IsLevels
  <2> QED
    BY <2>1
<1>2. \A n \in Nat : n \in T => n + 1 \in T
  <2> SUFFICES ASSUME NEW n \in Nat, NEW f, IsLevels(f, S, n)
               PROVE  \E g : IsLevels(g, S, n + 1)
    OBVIOUS
  <2> DEFINE g == [k \in 0 .. (n + 1) |-> IF k = n + 1 THEN NextLevel(f[n]) ELSE f[k]]
  <2>1. \A k \in 0 .. n : g[k] = f[k] /\ k \in 0 .. (n + 1)
    OBVIOUS
  <2>2. \A k \in 0 .. n : f[k] = IF k = 0 THEN S ELSE NextLevel(f[k - 1])
    BY DEF IsLevels
  <2>3. ASSUME NEW k \in 0 .. (n + 1)
        PROVE  g[k] = IF k = 0 THEN S ELSE NextLevel(g[k - 1])
    <3>1. CASE k = n + 1
      BY <2>1, <3>1
    <3>2. CASE k \in 0 .. n
      <4>1. k = 0 \/ k - 1 \in 0 .. n
        BY <3>2
      <4> QED
        BY <2>1, <2>2, <3>2, <4>1
    <3> QED
      BY <3>1, <3>2
  <2>4. IsLevels(g, S, n + 1)
    BY <2>3 DEF IsLevels
  <2> QED
    BY <2>4
<1> HIDE DEF T
<1>3. \A n \in Nat : n \in T
  BY <1>1, <1>2, SetInduction
<1> QED
  BY <1>3 DEF T

\* The levels begin with the seeds, and the last of them is SilentReach.
LEMMA LevelsOf ==
  ASSUME NEW S
  PROVE  /\ Levels(S)[0] = S
         /\ \A n \in 1 .. MaxDepth : Levels(S)[n] = NextLevel(Levels(S)[n - 1])
         /\ SilentReach(S) = Levels(S)[MaxDepth]
<1>1. IsLevels(Levels(S), S, MaxDepth)
  BY LevelsExist, DepthAssumption DEF Levels
<1>2. SilentReach(S) = Levels(S)[MaxDepth]
  BY DEF SilentReach, Levels, IsLevels, NextLevel
<1>3. \A n \in 0 .. MaxDepth : Levels(S)[n] = IF n = 0 THEN S ELSE NextLevel(Levels(S)[n - 1])
  BY <1>1 DEF IsLevels
<1>4. 0 \in 0 .. MaxDepth /\ \A n \in 1 .. MaxDepth : n \in 0 .. MaxDepth /\ n # 0
  BY DepthAssumption
<1> QED
  BY <1>2, <1>3, <1>4

\* The levels rise, up to SilentReach.
LEMMA LevelsRise ==
  ASSUME NEW S
  PROVE  \A n \in 0 .. MaxDepth : Levels(S)[n] \subseteq SilentReach(S)
<1> DEFINE T == {k \in Nat : k <= MaxDepth => Levels(S)[MaxDepth - k] \subseteq SilentReach(S)}
<1>1. 0 \in T
  BY LevelsOf, DepthAssumption
<1>2. \A k \in Nat : k \in T => k + 1 \in T
  <2> SUFFICES ASSUME NEW k \in Nat, k \in T, k + 1 <= MaxDepth
               PROVE  Levels(S)[MaxDepth - (k + 1)] \subseteq SilentReach(S)
    OBVIOUS
  <2>1. MaxDepth - k \in 1 .. MaxDepth /\ (MaxDepth - k) - 1 = MaxDepth - (k + 1)
    BY DepthAssumption
  <2>2. Levels(S)[MaxDepth - k] = NextLevel(Levels(S)[MaxDepth - (k + 1)])
    BY <2>1, LevelsOf
  <2>3. Levels(S)[MaxDepth - k] \subseteq SilentReach(S)
    BY DepthAssumption
  <2> QED
    BY <2>2, <2>3 DEF NextLevel
<1> HIDE DEF T
<1>3. \A k \in Nat : k \in T
  BY <1>1, <1>2, SetInduction
<1> SUFFICES ASSUME NEW n \in 0 .. MaxDepth PROVE Levels(S)[n] \subseteq SilentReach(S)
  OBVIOUS
<1>4. MaxDepth - n \in Nat /\ MaxDepth - n <= MaxDepth /\ MaxDepth - (MaxDepth - n) = n
  BY DepthAssumption
<1> QED
  BY <1>3, <1>4 DEF T

\* A set with the seeds that no silent firing leads out of holds all of SilentReach.
LEMMA ReachIsLeast ==
  ASSUME NEW S, NEW U, S \subseteq U, SilentSuccessors(U) \subseteq U
  PROVE  SilentReach(S) \subseteq U
<1> DEFINE T == {n \in Nat : n <= MaxDepth => Levels(S)[n] \subseteq U}
<1>1. 0 \in T
  BY LevelsOf
<1>2. \A n \in Nat : n \in T => n + 1 \in T
  <2> SUFFICES ASSUME NEW n \in Nat, n \in T, n + 1 <= MaxDepth
               PROVE  Levels(S)[n + 1] \subseteq U
    OBVIOUS
  <2>1. n + 1 \in 1 .. MaxDepth /\ (n + 1) - 1 = n /\ n <= MaxDepth
    BY DepthAssumption
  <2>2. Levels(S)[n + 1] = NextLevel(Levels(S)[n])
    BY <2>1, LevelsOf
  <2>3. Levels(S)[n] \subseteq U
    BY <2>1
  <2>4. SilentSuccessors(Levels(S)[n]) \subseteq SilentSuccessors(U)
    BY <2>3 DEF SilentSuccessors
  <2> QED
    BY <2>2, <2>3, <2>4 DEF NextLevel
<1> HIDE DEF T
<1>3. \A n \in Nat : n \in T
  BY <1>1, <1>2, SetInduction
<1> QED
  BY <1>3, LevelsOf, DepthAssumption DEF T

-----------------------------------------------------------------------------
(***************************************************************************)
(* The inductive invariant.  What it says of the call stack is stated for  *)
(* any stack, so that the steps can be compared.                           *)
(***************************************************************************)
Closures(S) == [states : SUBSET SilentReach(S), loop : BOOLEAN, violation : BOOLEAN]

CallsIn(S) == [state : SilentReach(S), closure : Closures(S), left : SUBSET Silent]

\* The flag for a bound violation and the net states agree.
FlagFits(c) == c.violation <=> \E s \in c.states : ~ IsBounded(s)

Fires(s, t) == t \in Silent /\ IsBounded(s) /\ IsFireable(t, s)

\* The firings the call at position i has still to do, and the one it waits for.
Underway(st, i, t) ==
  t \in st[i].left \/ (i > 1 /\ st[i - 1].state = FireTransition(t, st[i].state))

\* Only what is underway leads out of the closure of a call, once it is known to be bounded.
CallFits(S, st, i) ==
  /\ st[i].state \in Levels(S)[Len(st) - i]
  /\ Len(st) - i <= MaxDepth
  /\ st[i].state \in st[i].closure.states
  /\ \A t \in st[i].left : Fires(st[i].state, t)
  /\ FlagFits(st[i].closure)
  /\ ~ st[i].closure.violation =>
       \A s \in st[i].closure.states : \A t : Fires(s, t) =>
         \/ FireTransition(t, s) \in st[i].closure.states
         \/ s = st[i].state /\ Underway(st, i, t)

StackFits(S, st) == st \in Seq(CallsIn(S)) /\ \A i \in 1 .. Len(st) : CallFits(S, st, i)

ClosureFits ==
  /\ closure \in Closures(seeds)
  /\ FlagFits(closure)
  /\ ~ closure.violation =>
       \A s \in closure.states : \A t : Fires(s, t) => FireTransition(t, s) \in closure.states

\* No seed gets lost: it is pending, being searched from, or in the closure.
SeedsKept ==
  /\ pending \subseteq seeds
  /\ ~ closure.violation =>
       \A s \in seeds \ pending :
         s \in closure.states \/ (calls # <<>> /\ s = calls[Len(calls)].state)

DoneMeansAllSearched == done => calls = <<>> /\ (pending = {} \/ closure.violation)

BuildInv == ClosureFits /\ StackFits(seeds, calls) /\ SeedsKept /\ DoneMeansAllSearched

-----------------------------------------------------------------------------
(***************************************************************************)
(* Lemmas about closures and about stacks.                                 *)
(***************************************************************************)
\* What a call starts with.
LEMMA CallIsFresh ==
  ASSUME NEW S, NEW s \in SilentReach(S)
  PROVE  /\ Call(s) \in CallsIn(S)
         /\ Call(s).state = s /\ Call(s).closure.states = {s}
         /\ FlagFits(Call(s).closure)
         /\ \A t : t \in Call(s).left <=> Fires(s, t)
<1>1. Call(s).state = s /\ Call(s).closure = Single(s)
  BY DEF Call
<1>2. Single(s) \in Closures(S) /\ Single(s).states = {s} /\ FlagFits(Single(s))
  BY DEF Single, Closures, FlagFits, IsBounded, IsBoundedMarking
<1>3. \A t : t \in Call(s).left <=> Fires(s, t)
  BY DEF Call, Fires, FireableTransitions, Silent
<1>4. Call(s).left \subseteq Silent
  BY <1>3 DEF Fires
<1>5. Call(s) \in CallsIn(S)
  BY <1>1, <1>2, <1>4 DEF Call, CallsIn
<1> QED
  BY <1>1, <1>2, <1>3, <1>5

\* Merging closures that fit gives one that fits.
LEMMA MergeFits ==
  ASSUME NEW S, NEW c \in Closures(S), NEW d \in Closures(S), FlagFits(c), FlagFits(d)
  PROVE  /\ Merge(c, d) \in Closures(S) /\ FlagFits(Merge(c, d))
         /\ Merge(c, d).states = c.states \cup d.states
         /\ Merge(c, d).violation = (c.violation \/ d.violation)
BY DEF Merge, Closures, FlagFits

\* One silent firing leads one level on.
LEMMA FiringRises ==
  ASSUME NEW S, NEW n \in 0 .. MaxDepth, n + 1 <= MaxDepth, NEW s \in Levels(S)[n],
         NEW t, Fires(s, t)
  PROVE  FireTransition(t, s) \in Levels(S)[n + 1]
<1>1. n + 1 \in 1 .. MaxDepth /\ (n + 1) - 1 = n
  BY DepthAssumption
<1>2. FireTransition(t, s) \in SilentSuccessors(Levels(S)[n])
  <2>1. <<s, t>> \in {x \in Levels(S)[n] \X Silent : IsBounded(x[1]) /\ IsFireable(x[2], x[1])}
    BY DEF Fires
  <2> QED
    BY <2>1 DEF SilentSuccessors
<1>3. Levels(S)[n + 1] = NextLevel(Levels(S)[n])
  BY <1>1, LevelsOf
<1> QED
  BY <1>2, <1>3 DEF NextLevel

\* A call on top of another, which has changed.
LEMMA PushedStack ==
  ASSUME NEW C, NEW st \in Seq(C), st # <<>>, NEW x \in C, NEW y \in C
  PROVE  LET new == <<x, y>> \o Tail(st)
         IN  /\ new \in Seq(C) /\ Len(new) = Len(st) + 1
             /\ new[1] = x /\ new[2] = y
             /\ \A i \in 3 .. Len(new) : new[i] = st[i - 1]
OBVIOUS

\* The caller, changed, once the call has come back.
LEMMA PoppedStack ==
  ASSUME NEW C, NEW st \in Seq(C), Tail(st) # <<>>, st # <<>>, NEW y \in C
  PROVE  LET new == <<y>> \o Tail(Tail(st))
         IN  /\ new \in Seq(C) /\ Len(new) = Len(st) - 1
             /\ new[1] = y
             /\ \A i \in 2 .. Len(new) : new[i] = st[i + 1]
             /\ Len(st) >= 2
OBVIOUS

\* A stack that is not empty has one call, or more than one.
LEMMA CallsOnStack ==
  ASSUME NEW C, NEW st \in Seq(C), st # <<>>
  PROVE  /\ Len(st) # 1 => Len(st) \in Nat /\ Len(st) >= 2
         /\ Tail(st) = <<>> => Len(st) = 1
<1>1. Len(st) \in Nat \ {0}
  OBVIOUS
<1>2. Tail(st) = <<>> => Len(st) = 1
  <2>1. Len(Tail(st)) = Len(st) - 1
    OBVIOUS
  <2>2. Len(<<>>) = 0
    OBVIOUS
  <2>3. Tail(st) = <<>> => Len(Tail(st)) = 0
    BY <2>2, Zenon
  <2> QED
    BY <1>1, <2>1, <2>3
<1> QED
  BY <1>1, <1>2

-----------------------------------------------------------------------------
(***************************************************************************)
(* The steps.                                                              *)
(***************************************************************************)
LEMMA InitBuildInv == BuildInit => BuildInv
<1> SUFFICES ASSUME BuildInit PROVE BuildInv
  OBVIOUS
<1>1. EmptyClosure \in Closures(seeds) /\ FlagFits(EmptyClosure) /\ EmptyClosure.states = {}
  BY DEF EmptyClosure, Closures, FlagFits
<1>2. calls = <<>> /\ closure = EmptyClosure /\ pending = seeds /\ done = FALSE
  BY DEF BuildInit
<1> QED
  BY <1>1, <1>2 DEF BuildInv, ClosureFits, StackFits, SeedsKept, DoneMeansAllSearched

LEMMA NextSeedBuildInv ==
  ASSUME BuildInv, NextSeed
  PROVE  BuildInv'
<1>1. PICK s \in pending : pending' = pending \ {s} /\ calls' = <<Call(s)>>
  BY DEF NextSeed
<1>2. calls = <<>> /\ ~ closure.violation /\ UNCHANGED <<seeds, closure, done>>
  BY DEF NextSeed
<1>3. s \in seeds /\ s \in Levels(seeds)[0] /\ s \in SilentReach(seeds)
  BY <1>1, LevelsOf, LevelsRise, DepthAssumption DEF BuildInv, SeedsKept
<1>4. /\ Call(s) \in CallsIn(seeds)
      /\ Call(s).state = s /\ Call(s).closure.states = {s}
      /\ FlagFits(Call(s).closure)
      /\ \A t : t \in Call(s).left <=> Fires(s, t)
  BY <1>3, CallIsFresh
<1> DEFINE new == <<Call(s)>>
<1>5. Len(new) = 1 /\ new[1] = Call(s) /\ new \in Seq(CallsIn(seeds))
  BY <1>4
<1> HIDE DEF new
<1>6. CallFits(seeds, new, 1)
  BY <1>3, <1>4, <1>5, DepthAssumption DEF CallFits, Underway
<1>7. StackFits(seeds, new)
  BY <1>5, <1>6 DEF StackFits
<1>8. SeedsKept'
  BY <1>1, <1>2, <1>4, <1>5 DEF BuildInv, SeedsKept, new
<1>9. ClosureFits'
  BY <1>2 DEF BuildInv, ClosureFits
<1>10. DoneMeansAllSearched'
  BY <1>1, <1>2 DEF BuildInv, DoneMeansAllSearched
<1> QED
  BY <1>1, <1>2, <1>7, <1>8, <1>9, <1>10 DEF BuildInv, new

LEMMA DescendBuildInv ==
  ASSUME BuildInv, Descend
  PROVE  BuildInv'
<1> DEFINE top == calls[1]
<1>1. calls # <<>> /\ Head(calls) = top /\ 1 \in 1 .. Len(calls) /\ top \in CallsIn(seeds)
      /\ calls \in Seq(CallsIn(seeds))
  BY DEF Descend, BuildInv, StackFits
<1>2. PICK t \in top.left :
        calls' = <<Call(FireTransition(t, top.state)), [top EXCEPT !.left = @ \ {t}]>> \o Tail(calls)
  BY <1>1 DEF Descend
<1>3. Len(calls) < MaxDepth /\ ~ top.closure.violation /\ UNCHANGED <<seeds, pending, closure, done>>
  BY <1>1 DEF Descend
<1> DEFINE r == FireTransition(t, top.state)
           low == [top EXCEPT !.left = @ \ {t}]
           new == <<Call(r), low>> \o Tail(calls)
<1>4. CallFits(seeds, calls, 1)
  BY <1>1 DEF BuildInv, StackFits
<1>5. Fires(top.state, t) /\ top.state \in Levels(seeds)[Len(calls) - 1]
  BY <1>4 DEF CallFits
<1>6. Len(calls) - 1 \in 0 .. MaxDepth /\ (Len(calls) - 1) + 1 = Len(calls) /\ Len(calls) \in 0 .. MaxDepth
  BY <1>1, <1>3, DepthAssumption
<1>7. r \in Levels(seeds)[Len(calls)] /\ r \in SilentReach(seeds)
  <2>1. r \in Levels(seeds)[(Len(calls) - 1) + 1]
    BY <1>3, <1>5, <1>6, FiringRises
  <2> QED
    BY <2>1, <1>6, LevelsRise
<1>8. /\ Call(r) \in CallsIn(seeds)
      /\ Call(r).state = r /\ Call(r).closure.states = {r}
      /\ FlagFits(Call(r).closure)
      /\ \A u : u \in Call(r).left <=> Fires(r, u)
  BY <1>7, CallIsFresh
<1>9. /\ low \in CallsIn(seeds) /\ low.state = top.state /\ low.closure = top.closure
      /\ low.left = top.left \ {t}
  BY <1>1 DEF CallsIn
<1> HIDE DEF top, low, r
<1>10. /\ new \in Seq(CallsIn(seeds)) /\ Len(new) = Len(calls) + 1
       /\ new[1] = Call(r) /\ new[2] = low
       /\ \A i \in 3 .. Len(new) : new[i] = calls[i - 1]
  BY <1>1, <1>8, <1>9, PushedStack
<1> HIDE DEF new
<1>11. CallFits(seeds, new, 1)
  BY <1>1, <1>6, <1>7, <1>8, <1>10 DEF CallFits, Underway
<1>12. CallFits(seeds, new, 2)
  <2>1. Len(new) - 2 = Len(calls) - 1
    BY <1>1, <1>10
  <2>2. \A u : Underway(calls, 1, u) => Underway(new, 2, u)
    <3> SUFFICES ASSUME NEW u, Underway(calls, 1, u) PROVE Underway(new, 2, u)
      OBVIOUS
    <3>1. u \in top.left
      BY DEF Underway, top
    <3>2. u = t => new[1].state = FireTransition(u, new[2].state)
      BY <1>8, <1>9, <1>10 DEF r
    <3> QED
      BY <3>1, <3>2, <1>9, <1>10 DEF Underway
  <2> QED
    BY <2>1, <2>2, <1>4, <1>9, <1>10 DEF CallFits, top
<1>13. ASSUME NEW i \in 3 .. Len(new) PROVE CallFits(seeds, new, i)
  <2>1. i - 1 \in 1 .. Len(calls) /\ Len(new) - i = Len(calls) - (i - 1) /\ i - 1 > 1
    BY <1>1, <1>10
  <2>2. CallFits(seeds, calls, i - 1)
    BY <2>1 DEF BuildInv, StackFits
  <2>3. new[i] = calls[i - 1]
    BY <1>10
  <2>4. new[i - 1].state = calls[(i - 1) - 1].state
    <3>1. CASE i = 3
      BY <3>1, <1>9, <1>10 DEF top
    <3>2. CASE i # 3
      <4>1. i - 1 \in 3 .. Len(new)
        BY <3>2, <1>1, <1>10
      <4> QED
        BY <4>1, <1>10
    <3> QED
      BY <3>1, <3>2
  <2>5. \A u : Underway(calls, i - 1, u) => Underway(new, i, u)
    BY <2>1, <2>3, <2>4 DEF Underway
  <2> QED
    BY <2>1, <2>2, <2>3, <2>5 DEF CallFits
<1>14. StackFits(seeds, new)
  BY <1>1, <1>10, <1>11, <1>12, <1>13 DEF StackFits
<1>15. calls' = new
  BY <1>2 DEF new, r, low
<1>16. new # <<>> /\ new[Len(new)].state = calls[Len(calls)].state
  <2>1. CASE Len(calls) = 1
    <3>1. Len(new) = 2 /\ new # <<>>
      BY <2>1, <1>10
    <3> QED
      BY <2>1, <3>1, <1>9, <1>10 DEF top
  <2>2. CASE Len(calls) # 1
    <3>1. Len(new) \in 3 .. Len(new) /\ Len(new) - 1 = Len(calls)
      BY <2>2, <1>6, <1>10, DepthAssumption
    <3> QED
      BY <3>1, <1>10
  <2> QED
    BY <2>1, <2>2, <1>1, <1>10
<1>17. SeedsKept'
  BY <1>3, <1>15, <1>16 DEF BuildInv, SeedsKept
<1>18. ClosureFits' /\ DoneMeansAllSearched'
  BY <1>1, <1>3 DEF BuildInv, ClosureFits, DoneMeansAllSearched
<1> QED
  BY <1>3, <1>14, <1>15, <1>17, <1>18 DEF BuildInv

\* What a call hands over when it comes back: nothing leads out of it, unless it gave up.
LEMMA ReturnedFits ==
  ASSUME NEW S, NEW st, StackFits(S, st), st # <<>>,
         st[1].left = {} \/ st[1].closure.violation
  PROVE  /\ st[1].closure \in Closures(S) /\ FlagFits(st[1].closure)
         /\ st[1].state \in st[1].closure.states
         /\ ~ st[1].closure.violation =>
              \A s \in st[1].closure.states : \A t : Fires(s, t) =>
                FireTransition(t, s) \in st[1].closure.states
<1>1. st \in Seq(CallsIn(S)) /\ 1 \in 1 .. Len(st) /\ st[1] \in CallsIn(S)
  BY DEF StackFits
<1>2. CallFits(S, st, 1)
  BY <1>1 DEF StackFits
<1> QED
  BY <1>1, <1>2 DEF CallFits, Underway, CallsIn

\* The outermost call comes back.
LEMMA ReturnToSeedBuildInv ==
  ASSUME BuildInv, ReturnClosure, Tail(calls) = <<>>
  PROVE  BuildInv'
<1> DEFINE c == calls[1].closure
<1>1. calls # <<>> /\ calls \in Seq(CallsIn(seeds)) /\ Head(calls) = calls[1]
  BY DEF ReturnClosure, BuildInv, StackFits
<1>2. /\ calls[1].left = {} \/ c.violation
      /\ closure' = Merge(closure, c) /\ calls' = <<>>
      /\ UNCHANGED <<seeds, pending, done>>
  BY <1>1 DEF ReturnClosure
<1>3. /\ c \in Closures(seeds) /\ FlagFits(c) /\ calls[1].state \in c.states
      /\ ~ c.violation =>
           \A s \in c.states : \A t : Fires(s, t) => FireTransition(t, s) \in c.states
  BY <1>1, <1>2, ReturnedFits DEF BuildInv
<1>4. Len(calls) = 1
  BY <1>1, CallsOnStack
<1> HIDE DEF c
<1>5. /\ Merge(closure, c) \in Closures(seeds) /\ FlagFits(Merge(closure, c))
      /\ Merge(closure, c).states = closure.states \cup c.states
      /\ Merge(closure, c).violation = (closure.violation \/ c.violation)
  BY <1>3, MergeFits, SMTT(40) DEF BuildInv, ClosureFits
<1>6. ClosureFits'
  BY <1>2, <1>3, <1>5 DEF BuildInv, ClosureFits
<1>7. SeedsKept'
  BY <1>2, <1>3, <1>4, <1>5 DEF BuildInv, SeedsKept
<1>8. StackFits(seeds, <<>>)
  BY DEF StackFits
<1>9. DoneMeansAllSearched'
  BY <1>1, <1>2 DEF BuildInv, DoneMeansAllSearched
<1> QED
  BY <1>2, <1>6, <1>7, <1>8, <1>9 DEF BuildInv

\* A call comes back to its caller, which merges what it found.
LEMMA ReturnToCallerBuildInv ==
  ASSUME BuildInv, ReturnClosure, Tail(calls) # <<>>
  PROVE  BuildInv'
<1> DEFINE c == calls[1].closure
           d == calls[2].closure
           low == [calls[2] EXCEPT !.closure = Merge(@, c)]
           new == <<low>> \o Tail(Tail(calls))
<1>1. calls # <<>> /\ calls \in Seq(CallsIn(seeds)) /\ Head(calls) = calls[1]
      /\ Head(Tail(calls)) = calls[2] /\ 2 \in 1 .. Len(calls) /\ calls[2] \in CallsIn(seeds)
  BY DEF ReturnClosure, BuildInv, StackFits
<1>2. /\ calls[1].left = {} \/ c.violation
      /\ calls' = new /\ UNCHANGED closure
      /\ UNCHANGED <<seeds, pending, done>>
  BY <1>1 DEF ReturnClosure
<1>3. /\ c \in Closures(seeds) /\ FlagFits(c) /\ calls[1].state \in c.states
      /\ ~ c.violation =>
           \A s \in c.states : \A t : Fires(s, t) => FireTransition(t, s) \in c.states
  BY <1>1, <1>2, ReturnedFits DEF BuildInv
<1>4. CallFits(seeds, calls, 2) /\ d \in Closures(seeds)
  BY <1>1 DEF BuildInv, StackFits, CallsIn
<1> HIDE DEF c
<1>5. /\ Merge(d, c) \in Closures(seeds) /\ FlagFits(Merge(d, c))
      /\ Merge(d, c).states = d.states \cup c.states
      /\ Merge(d, c).violation = (d.violation \/ c.violation)
  <2>1. FlagFits(d)
    BY <1>4 DEF CallFits
  <2> HIDE DEF d
  <2> QED
    BY <1>3, <1>4, <2>1, MergeFits
<1>6. /\ low \in CallsIn(seeds) /\ low.state = calls[2].state /\ low.left = calls[2].left
      /\ low.closure = Merge(d, c)
  BY <1>1, <1>5 DEF CallsIn
<1> HIDE DEF low
<1>7. /\ new \in Seq(CallsIn(seeds)) /\ Len(new) = Len(calls) - 1
      /\ new[1] = low
      /\ \A i \in 2 .. Len(new) : new[i] = calls[i + 1]
      /\ Len(calls) >= 2
  BY <1>1, <1>6, PoppedStack
<1> HIDE DEF new
<1>8. CallFits(seeds, new, 1)
  <2>1. Len(new) - 1 = Len(calls) - 2
    BY <1>1, <1>7
  <2>2. ASSUME ~ low.closure.violation, NEW s \in low.closure.states, NEW t, Fires(s, t)
        PROVE  \/ FireTransition(t, s) \in low.closure.states
               \/ s = new[1].state /\ Underway(new, 1, t)
    <3>1. ~ c.violation /\ ~ d.violation
      BY <2>2, <1>3, <1>4, <1>5, <1>6 DEF Closures
    <3>2. CASE s \in c.states
      BY <2>2, <3>1, <3>2, <1>3, <1>5, <1>6
    <3>3. CASE s \in d.states
      <4>1. \/ FireTransition(t, s) \in d.states
            \/ s = calls[2].state /\ Underway(calls, 2, t)
        BY <2>2, <3>1, <3>3, <1>4 DEF CallFits
      <4>2. Underway(calls, 2, t) => \/ t \in calls[2].left
                                     \/ FireTransition(t, calls[2].state) \in c.states
        BY <1>3 DEF Underway
      <4> QED
        BY <4>1, <4>2, <1>5, <1>6, <1>7 DEF Underway
    <3> QED
      BY <2>2, <3>2, <3>3, <1>5, <1>6
  <2> HIDE DEF d
  <2>3. calls[2].state \in low.closure.states
    BY <1>4, <1>5, <1>6 DEF CallFits, d
  <2> QED
    BY <2>1, <2>2, <2>3, <1>4, <1>5, <1>6, <1>7 DEF CallFits
<1>9. ASSUME NEW i \in 2 .. Len(new) PROVE CallFits(seeds, new, i)
  <2>1. i + 1 \in 1 .. Len(calls) /\ Len(new) - i = Len(calls) - (i + 1) /\ i > 1 /\ i + 1 > 1
        /\ (i + 1) - 1 = i
    BY <1>1, <1>7
  <2>2. CallFits(seeds, calls, i + 1)
    BY <2>1 DEF BuildInv, StackFits
  <2>3. new[i] = calls[i + 1]
    BY <1>7
  <2>4. new[i - 1].state = calls[i].state
    <3>1. CASE i = 2
      BY <3>1, <1>6, <1>7
    <3>2. CASE i # 2
      <4>1. i - 1 \in 2 .. Len(new) /\ (i - 1) + 1 = i
        BY <3>2, <1>1, <1>7
      <4> QED
        BY <4>1, <1>7
    <3> QED
      BY <3>1, <3>2
  <2>5. \A u : Underway(calls, i + 1, u) => Underway(new, i, u)
    BY <2>1, <2>3, <2>4 DEF Underway
  <2> QED
    BY <2>1, <2>2, <2>3, <2>5 DEF CallFits
<1>10. StackFits(seeds, new)
  BY <1>1, <1>7, <1>8, <1>9 DEF StackFits
<1>11. new # <<>> /\ new[Len(new)].state = calls[Len(calls)].state
  <2>1. CASE Len(calls) = 2
    <3>1. Len(new) = 1
      BY <2>1, <1>7
    <3>2. new # <<>> /\ new[Len(new)] = low
      BY <3>1, <1>7
    <3> QED
      BY <2>1, <3>2, <1>6
  <2>2. CASE Len(calls) # 2
    <3>1. Len(new) \in 2 .. Len(new) /\ Len(new) + 1 = Len(calls)
      BY <2>2, <1>1, <1>7
    <3> QED
      BY <3>1, <1>7
  <2> QED
    BY <2>1, <2>2, <1>1, <1>7
<1>12. SeedsKept'
  BY <1>1, <1>2, <1>11 DEF BuildInv, SeedsKept
<1>13. ClosureFits' /\ DoneMeansAllSearched'
  BY <1>1, <1>2 DEF BuildInv, ClosureFits, DoneMeansAllSearched
<1> QED
  BY <1>2, <1>10, <1>12, <1>13 DEF BuildInv

\* Every step of the search keeps the invariant.
LEMMA NextBuildInv ==
  ASSUME BuildInv, [BuildNext]_buildVars
  PROVE  BuildInv'
<1>1. CASE Finish
  BY <1>1 DEF Finish, BuildInv, ClosureFits, SeedsKept, DoneMeansAllSearched
<1>2. CASE UNCHANGED buildVars
  BY <1>2 DEF buildVars, BuildInv, ClosureFits, SeedsKept, DoneMeansAllSearched
<1> QED
  BY <1>1, <1>2, NextSeedBuildInv, DescendBuildInv, ReturnToSeedBuildInv, ReturnToCallerBuildInv DEF BuildNext

\* The invariant holds in every run of buildClosure.
THEOREM BuildInvHolds == BuildSpec => []BuildInv
<1>1. BuildInit => BuildInv
  BY InitBuildInv
<1>2. BuildInv /\ [BuildNext]_buildVars => BuildInv'
  BY NextBuildInv
<1> QED
  BY <1>1, <1>2, PTL DEF BuildSpec

\* The closure that is returned is the silently reachable set, up to the first bound violation.
THEOREM ClosuresAreExact == BuildSpec => []ClosureIsExact
<1>1. BuildInv => ClosureIsExact
  <2> SUFFICES ASSUME BuildInv, done
               PROVE  /\ closure.violation <=> \E s \in SilentReach(seeds) : ~ IsBounded(s)
                      /\ closure.states \subseteq SilentReach(seeds)
                      /\ closure.violation \/ closure.states = SilentReach(seeds)
    BY DEF ClosureIsExact
  <2>1. calls = <<>> /\ (pending = {} \/ closure.violation)
    BY DEF BuildInv, DoneMeansAllSearched
  <2>2. closure.states \subseteq SilentReach(seeds) /\ FlagFits(closure)
    BY DEF BuildInv, ClosureFits, Closures
  <2>3. CASE closure.violation
    BY <2>2, <2>3 DEF FlagFits
  <2>4. CASE ~ closure.violation
    <3>1. seeds \subseteq closure.states
      BY <2>1, <2>4 DEF BuildInv, SeedsKept
    <3>2. SilentSuccessors(closure.states) \subseteq closure.states
      <4>1. \A s \in closure.states : \A t : Fires(s, t) => FireTransition(t, s) \in closure.states
        BY <2>4 DEF BuildInv, ClosureFits
      <4>2. \A x \in closure.states \X Silent :
              IsBounded(x[1]) /\ IsFireable(x[2], x[1])
                => FireTransition(x[2], x[1]) \in closure.states
        BY <4>1 DEF Fires
      <4> QED
        BY <4>2 DEF SilentSuccessors
    <3>3. closure.states = SilentReach(seeds)
      BY <2>2, <3>1, <3>2, ReachIsLeast
    <3> QED
      BY <2>2, <2>4, <3>3 DEF FlagFits
  <2> QED
    BY <2>3, <2>4
<1> QED
  BY <1>1, BuildInvHolds, PTL

-----------------------------------------------------------------------------
(***************************************************************************)
(* The loop flag.  Nothing is met twice if the silent firings make a       *)
(* forest of the reachable states, with the seeds as its roots: then       *)
(* closures of different calls share a state only if one call is below the *)
(* other.                                                                  *)
(***************************************************************************)
IsClosedSet(U) == \A s \in U : \A t : Fires(s, t) => FireTransition(t, s) \in U

\* No two firings lead to the same state.
OneWay(U) ==
  \A s, r \in U : \A t, u :
    Fires(s, t) /\ Fires(r, u) /\ FireTransition(t, s) = FireTransition(u, r) => s = r /\ t = u

NoneBack(S, U) == \A s \in U : \A t : Fires(s, t) => FireTransition(t, s) \notin S

IsForest(S) ==
  LET U == SilentReach(S) IN IsClosedSet(U) /\ OneWay(U) /\ NoneBack(S, U)

\* What is silently reached from q.
Under(S, q) ==
  {x \in SilentReach(S) :
     \A V \in SUBSET SilentReach(S) : IsClosedSet(V) /\ q \in V => x \in V}

\* The seeds are reached.
LEMMA SeedsReached ==
  ASSUME NEW S
  PROVE  S \subseteq SilentReach(S)
BY LevelsOf, LevelsRise, DepthAssumption

\* A closed set with the seeds has everything that is reached.
LEMMA ClosedHasAll ==
  ASSUME NEW S, NEW U, S \subseteq U, IsClosedSet(U)
  PROVE  SilentReach(S) \subseteq U
<1>1. \A x \in U \X Silent :
        IsBounded(x[1]) /\ IsFireable(x[2], x[1]) => FireTransition(x[2], x[1]) \in U
  BY DEF IsClosedSet, Fires
<1>2. SilentSuccessors(U) \subseteq U
  BY <1>1 DEF SilentSuccessors
<1> QED
  BY <1>2, ReachIsLeast

\* Under(S, q) is the least closed set with q.
LEMMA UnderIs ==
  ASSUME NEW S, IsForest(S), NEW q \in SilentReach(S)
  PROVE  /\ q \in Under(S, q) /\ Under(S, q) \subseteq SilentReach(S) /\ IsClosedSet(Under(S, q))
         /\ \A V \in SUBSET SilentReach(S) : IsClosedSet(V) /\ q \in V => Under(S, q) \subseteq V
<1>1. IsClosedSet(SilentReach(S))
  BY DEF IsForest
<1>2. IsClosedSet(Under(S, q))
  <2> SUFFICES ASSUME NEW s \in Under(S, q), NEW t, Fires(s, t)
               PROVE  FireTransition(t, s) \in Under(S, q)
    BY DEF IsClosedSet
  <2>1. FireTransition(t, s) \in SilentReach(S)
    BY <1>1 DEF IsClosedSet, Under
  <2>2. ASSUME NEW V \in SUBSET SilentReach(S), IsClosedSet(V), q \in V
        PROVE  FireTransition(t, s) \in V
    BY <2>2 DEF IsClosedSet, Under
  <2> QED
    BY <2>1, <2>2 DEF Under
<1> QED
  BY <1>2 DEF Under

\* What is reached from q by firings is q or is reached by one of them.
LEMMA ParentIsUnder ==
  ASSUME NEW S, IsForest(S), NEW q \in SilentReach(S), NEW x \in Under(S, q), x # q
  PROVE  \E s \in Under(S, q) : \E t : Fires(s, t) /\ FireTransition(t, s) = x
<1> SUFFICES ASSUME \A s \in Under(S, q) : \A t : Fires(s, t) => FireTransition(t, s) # x
             PROVE  FALSE
  OBVIOUS
<1> DEFINE V == Under(S, q) \ {x}
<1>1. IsClosedSet(V) /\ q \in V /\ V \in SUBSET SilentReach(S)
  BY UnderIs DEF IsClosedSet
<1>2. Under(S, q) \subseteq V
  <2> HIDE DEF V
  <2> QED
    BY <1>1, UnderIs
<1> QED
  BY <1>2

\* In a forest, a firing to a state below q is a firing below q, or leads to q.
LEMMA OnlyParent ==
  ASSUME NEW S, IsForest(S), NEW q \in SilentReach(S), NEW s \in SilentReach(S), NEW t, Fires(s, t),
         FireTransition(t, s) \in Under(S, q), FireTransition(t, s) # q
  PROVE  s \in Under(S, q)
<1>1. PICK r \in Under(S, q) : \E u : Fires(r, u) /\ FireTransition(u, r) = FireTransition(t, s)
  BY ParentIsUnder
<1>2. PICK u : Fires(r, u) /\ FireTransition(u, r) = FireTransition(t, s)
  BY <1>1
<1>3. r \in SilentReach(S)
  BY UnderIs
<1>4. OneWay(SilentReach(S))
  BY DEF IsForest
<1>5. s = r
  BY <1>2, <1>3, <1>4 DEF OneWay
<1> QED
  BY <1>5

\* There is no way back to a state from where its firings lead.
LEMMA NoWayBack ==
  ASSUME NEW S, IsForest(S), NEW s \in SilentReach(S), NEW t, Fires(s, t)
  PROVE  s \notin Under(S, FireTransition(t, s))
<1> DEFINE q == FireTransition(t, s)
           V == SilentReach(S) \ Under(S, q)
<1> SUFFICES ASSUME s \in Under(S, q) PROVE FALSE
  OBVIOUS
<1>1. IsClosedSet(SilentReach(S)) /\ OneWay(SilentReach(S)) /\ NoneBack(S, SilentReach(S))
  BY DEF IsForest
<1>2. q \in SilentReach(S)
  BY <1>1 DEF IsClosedSet
<1>3. ASSUME NEW x \in Under(S, q)
      PROVE  \E r \in Under(S, q) : \E u : Fires(r, u) /\ FireTransition(u, r) = x
  <2>1. CASE x = q
    BY <2>1
  <2>2. CASE x # q
    <3> HIDE DEF q
    <3> QED
      BY <1>2, <2>2, ParentIsUnder
  <2> QED
    BY <2>1, <2>2
<1>4. q \in Under(S, q) /\ Under(S, q) \subseteq SilentReach(S)
  <2> HIDE DEF q
  <2> QED
    BY <1>2, UnderIs
<1>5. S \subseteq V
  <2> SUFFICES ASSUME NEW x \in S, x \in Under(S, q) PROVE FALSE
    BY SeedsReached
  <2>1. PICK r \in Under(S, q) : \E u : Fires(r, u) /\ FireTransition(u, r) = x
    BY <1>3
  <2> QED
    BY <1>1, <1>4, <2>1 DEF NoneBack
<1>6. IsClosedSet(V)
  <2> SUFFICES ASSUME NEW x \in V, NEW u, Fires(x, u), FireTransition(u, x) \in Under(S, q)
               PROVE  FALSE
    BY <1>1 DEF IsClosedSet
  <2> DEFINE y == FireTransition(u, x)
  <2>1. PICK r \in Under(S, q) : \E v : Fires(r, v) /\ FireTransition(v, r) = y
    BY <1>3
  <2>2. r = x
    BY <1>1, <1>4, <2>1 DEF OneWay
  <2> QED
    BY <2>2
<1>7. SilentReach(S) \subseteq V
  <2> HIDE DEF V
  <2> QED
    BY <1>5, <1>6, ClosedHasAll
<1> QED
  BY <1>4, <1>7

\* Two states of which none is reached from the other reach nothing in common.
LEMMA UnderApart ==
  ASSUME NEW S, IsForest(S), NEW q \in SilentReach(S), NEW r \in SilentReach(S),
         q \notin Under(S, r), r \notin Under(S, q)
  PROVE  Under(S, q) \cap Under(S, r) = {}
<1> DEFINE V == Under(S, q) \ Under(S, r)
<1>1. q \in V /\ V \in SUBSET SilentReach(S)
  BY UnderIs
<1>2. IsClosedSet(V)
  <2> SUFFICES ASSUME NEW x \in V, NEW u, Fires(x, u) PROVE FireTransition(u, x) \in V
    BY DEF IsClosedSet
  <2>1. FireTransition(u, x) \in Under(S, q) /\ x \in SilentReach(S)
    BY UnderIs DEF IsClosedSet
  <2>2. FireTransition(u, x) \notin Under(S, r)
    BY <2>1, OnlyParent
  <2> QED
    BY <2>1, <2>2
<1>3. Under(S, q) \subseteq V
  <2> HIDE DEF V
  <2> QED
    BY <1>1, <1>2, UnderIs
<1> QED
  BY <1>3

\* Different firings from one state reach nothing in common.
LEMMA BranchesApart ==
  ASSUME NEW S, IsForest(S), NEW s \in SilentReach(S), NEW t, NEW u, Fires(s, t), Fires(s, u), t # u
  PROVE  Under(S, FireTransition(t, s)) \cap Under(S, FireTransition(u, s)) = {}
<1>1. IsClosedSet(SilentReach(S)) /\ OneWay(SilentReach(S))
  BY DEF IsForest
<1>2. FireTransition(t, s) \in SilentReach(S) /\ FireTransition(u, s) \in SilentReach(S)
  BY <1>1 DEF IsClosedSet
<1>3. FireTransition(t, s) # FireTransition(u, s)
  BY <1>1 DEF OneWay
<1>4. FireTransition(t, s) \notin Under(S, FireTransition(u, s))
  BY <1>2, <1>3, OnlyParent, NoWayBack
<1>5. FireTransition(u, s) \notin Under(S, FireTransition(t, s))
  BY <1>2, <1>3, OnlyParent, NoWayBack
<1> QED
  BY <1>2, <1>4, <1>5, UnderApart

\* Different seeds reach nothing in common.
LEMMA SeedsApart ==
  ASSUME NEW S, IsForest(S), NEW q \in S, NEW r \in S, q # r
  PROVE  Under(S, q) \cap Under(S, r) = {}
<1>1. q \in SilentReach(S) /\ r \in SilentReach(S)
  BY SeedsReached
<1>2. \A x, y \in S : x # y => x \notin Under(S, y)
  <2> SUFFICES ASSUME NEW x \in S, NEW y \in S, x # y, x \in Under(S, y) PROVE FALSE
    OBVIOUS
  <2>1. y \in SilentReach(S)
    BY SeedsReached
  <2>2. PICK s \in Under(S, y) : \E t : Fires(s, t) /\ FireTransition(t, s) = x
    BY <2>1, ParentIsUnder
  <2>3. s \in SilentReach(S)
    BY <2>1, UnderIs
  <2>4. NoneBack(S, SilentReach(S))
    BY DEF IsForest
  <2> QED
    BY <2>2, <2>3, <2>4 DEF NoneBack
<1> QED
  BY <1>1, <1>2, UnderApart

-----------------------------------------------------------------------------
(***************************************************************************)
(* What the loop flag of a call stands for, while the firings with         *)
(* transitions in o have not been merged yet.                              *)
(***************************************************************************)
\* The firings that the closure U of a call from s accounts for.
Counted(U, s, o, x, t) == x \in U /\ Fires(x, t) /\ ~ (x = s /\ t \in o)

\* Each of them led to a state that no other led to, and none back to s.
MetOnce(U, s, o) ==
  /\ \A x, t : Counted(U, s, o, x, t) =>
       FireTransition(t, x) \in U /\ FireTransition(t, x) # s
  /\ \A x, y, t, u : Counted(U, s, o, x, t) /\ Counted(U, s, o, y, u)
                       /\ FireTransition(t, x) = FireTransition(u, y) => x = y /\ t = u

\* In a forest, U has what the merged firings reach, and s.
IsBelow(S, U, s, o) ==
  \A x \in U : x = s \/ \E t : Fires(s, t) /\ t \notin o /\ x \in Under(S, FireTransition(t, s))

LoopFits(S, s, c, o) ==
  /\ IsFiniteSet(c.states)
  /\ ~ c.violation /\ ~ c.loop => MetOnce(c.states, s, o)
  /\ IsForest(S) => ~ c.loop /\ IsBelow(S, c.states, s, o)

\* The firing a call on the stack waits for is the one that led to the call above it.
Awaited(S, st, i, t) ==
  /\ t \notin st[i].left /\ Fires(st[i].state, t)
  /\ FireTransition(t, st[i].state) = st[i - 1].state
  /\ LoopFits(S, st[i].state, st[i].closure, st[i].left \cup {t})

LoopsFitStack(S, st) ==
  /\ st # <<>> => LoopFits(S, st[1].state, st[1].closure, st[1].left)
  /\ \A i \in 2 .. Len(st) : \E t : Awaited(S, st, i, t)

\* The seeds whose closures have been merged.
Searched == seeds \ (pending \cup IF calls = <<>> THEN {} ELSE {calls[Len(calls)].state})

\* The same of the closure that is returned: each seed is met as well, before any firing.
AllMetOnce(U, R) ==
  /\ \A x \in U : \A t : Fires(x, t) => FireTransition(t, x) \in U /\ FireTransition(t, x) \notin R
  /\ OneWay(U)

IsBelowAll(S, U, R) == \A x \in U : \E r \in R : x \in Under(S, r)

LoopFitsAll(S, c, R) ==
  /\ IsFiniteSet(c.states)
  /\ ~ c.violation /\ ~ c.loop => AllMetOnce(c.states, R)
  /\ IsForest(S) => ~ c.loop /\ IsBelowAll(S, c.states, R)

LoopInv ==
  /\ BuildInv
  /\ LoopsFitStack(seeds, calls)
  /\ LoopFitsAll(seeds, closure, Searched)
  /\ calls # <<>> => calls[Len(calls)].state \in seeds \ pending

-----------------------------------------------------------------------------
\* A call begins with its state, and all its firings to be done.
LEMMA SingleLoop ==
  ASSUME NEW S, NEW s, NEW o, \A t : Fires(s, t) => t \in o
  PROVE  LoopFits(S, s, Single(s), o)
<1>1. Single(s).states = {s} /\ Single(s).loop = FALSE
  BY DEF Single
<1>2. IsFiniteSet({s})
  BY FS_Singleton
<1>3. \A x, t : ~ Counted({s}, s, o, x, t)
  BY DEF Counted
<1>4. MetOnce({s}, s, o) /\ IsBelow(S, {s}, s, o)
  BY <1>3 DEF MetOnce, IsBelow
<1> QED
  BY <1>1, <1>2, <1>4 DEF LoopFits

LEMMA FreshLoop ==
  ASSUME NEW S, NEW s
  PROVE  LoopFits(S, s, Call(s).closure, Call(s).left)
<1>1. Call(s).closure = Single(s) /\ \A t : t \in Call(s).left <=> Fires(s, t)
  BY DEF Call, Fires, FireableTransitions, Silent
<1> QED
  BY <1>1, SingleLoop

\* What a call returns lies below its state.
LEMMA ReturnedIsUnder ==
  ASSUME NEW S, NEW s \in SilentReach(S), NEW c, NEW o, LoopFits(S, s, c, o), IsForest(S)
  PROVE  c.states \subseteq Under(S, s)
<1> SUFFICES ASSUME NEW x \in c.states, x # s PROVE x \in Under(S, s)
  BY UnderIs
<1>1. PICK t : Fires(s, t) /\ t \notin o /\ x \in Under(S, FireTransition(t, s))
  BY DEF LoopFits, IsBelow
<1> DEFINE q == FireTransition(t, s)
<1>2. q \in Under(S, s) /\ q \in SilentReach(S)
  BY <1>1, UnderIs DEF IsClosedSet
<1> HIDE DEF q
<1>3. Under(S, q) \subseteq Under(S, s)
  BY <1>2, UnderIs
<1> QED
  BY <1>1, <1>3 DEF q

\* Closures of two sets of states that share none account for their firings together.
LEMMA MetOnceJoins ==
  ASSUME NEW U, NEW V, NEW s \in U, NEW o, NEW t, Fires(s, t), t \notin o, U \cap V = {},
         MetOnce(U, s, o \cup {t}), MetOnce(V, FireTransition(t, s), {}), FireTransition(t, s) \in V
  PROVE  MetOnce(U \cup V, s, o)
<1> DEFINE r == FireTransition(t, s)
<1>1. ASSUME NEW x, NEW u, Counted(U \cup V, s, o, x, u)
      PROVE  \/ Counted(U, s, o \cup {t}, x, u) /\ FireTransition(u, x) \in U /\ FireTransition(u, x) # s
             \/ Counted(V, r, {}, x, u) /\ FireTransition(u, x) \in V /\ FireTransition(u, x) # r
             \/ x = s /\ u = t
  <2>1. CASE x \in V
    <3>1. Counted(V, r, {}, x, u)
      BY <1>1, <2>1 DEF Counted
    <3> QED
      BY <3>1 DEF MetOnce
  <2>2. CASE x \in U
    <3>1. (x = s /\ u = t) \/ Counted(U, s, o \cup {t}, x, u)
      BY <1>1, <2>2 DEF Counted
    <3> QED
      BY <3>1 DEF MetOnce
  <2> QED
    BY <1>1, <2>1, <2>2 DEF Counted
<1>2. r \in V /\ s \notin V
  OBVIOUS
<1>3. ASSUME NEW x, NEW u, Counted(U \cup V, s, o, x, u)
      PROVE  FireTransition(u, x) \in U \cup V /\ FireTransition(u, x) # s
  BY <1>1, <1>2, <1>3
<1>4. ASSUME NEW x, NEW y, NEW u, NEW v, Counted(U \cup V, s, o, x, u), Counted(U \cup V, s, o, y, v),
             FireTransition(u, x) = FireTransition(v, y)
      PROVE  x = y /\ u = v
  <2>1. \A a, b, c, d : Counted(U, s, o \cup {t}, a, b) /\ Counted(U, s, o \cup {t}, c, d)
                          /\ FireTransition(b, a) = FireTransition(d, c) => a = c /\ b = d
    BY DEF MetOnce
  <2>2. \A a, b, c, d : Counted(V, r, {}, a, b) /\ Counted(V, r, {}, c, d)
                          /\ FireTransition(b, a) = FireTransition(d, c) => a = c /\ b = d
    BY DEF MetOnce
  <2> DEFINE InU(a, b) == Counted(U, s, o \cup {t}, a, b) /\ FireTransition(b, a) \in U
             InV(a, b) == Counted(V, r, {}, a, b) /\ FireTransition(b, a) \in V /\ FireTransition(b, a) # r
  <2>3. (InU(x, u) \/ InV(x, u) \/ (x = s /\ u = t)) /\ (InU(y, v) \/ InV(y, v) \/ (y = s /\ v = t))
    BY <1>1, <1>4
  <2>4. FireTransition(t, s) = r
    OBVIOUS
  <2> QED
    BY <2>1, <2>2, <2>3, <2>4, <1>2, <1>4
<1> QED
  BY <1>3, <1>4 DEF MetOnce

\* A caller merges what the call above it returns.
LEMMA MergedLoop ==
  ASSUME NEW S, NEW s \in SilentReach(S), NEW c, NEW d,
         NEW left, NEW t, NEW o, t \notin left, Fires(s, t),
         s \in c.states, FireTransition(t, s) \in d.states,
         LoopFits(S, s, c, left \cup {t}), LoopFits(S, FireTransition(t, s), d, o),
         o = {} \/ d.violation
  PROVE  LoopFits(S, s, Merge(c, d), left)
<1> DEFINE r == FireTransition(t, s)
           m == Merge(c, d)
<1>1. /\ m.states = c.states \cup d.states
      /\ m.violation <=> c.violation \/ d.violation
      /\ m.loop <=> c.loop \/ d.loop \/ c.states \cap d.states # {}
  BY DEF Merge
<1>2. IsFiniteSet(m.states)
  BY <1>1, FS_Union DEF LoopFits
<1>3. ASSUME ~ m.violation, ~ m.loop PROVE MetOnce(m.states, s, left)
  <2>1. ~ c.violation /\ ~ d.violation /\ ~ c.loop /\ ~ d.loop /\ c.states \cap d.states = {}
    BY <1>1, <1>3
  <2>2. MetOnce(c.states, s, left \cup {t}) /\ MetOnce(d.states, r, {})
    BY <2>1 DEF LoopFits
  <2> QED
    BY <1>1, <2>1, <2>2, MetOnceJoins
<1>4. ASSUME IsForest(S) PROVE ~ m.loop /\ IsBelow(S, m.states, s, left)
  <2>1. r \in SilentReach(S)
    BY <1>4 DEF IsForest, IsClosedSet
  <2>2. d.states \subseteq Under(S, r)
    <3> HIDE DEF r
    <3> QED
      BY <1>4, <2>1, ReturnedIsUnder DEF r
  <2>3. IsBelow(S, c.states, s, left \cup {t}) /\ ~ c.loop /\ ~ d.loop
    BY <1>4 DEF LoopFits
  <2>4. ASSUME NEW x \in c.states, x \in d.states PROVE FALSE
    <3>1. CASE x = s
      BY <3>1, <1>4, <2>2, <2>4, NoWayBack
    <3>2. CASE x # s
      <4>1. PICK u : Fires(s, u) /\ u \notin left \cup {t} /\ x \in Under(S, FireTransition(u, s))
        BY <3>2, <2>3 DEF IsBelow
      <4>2. u # t
        BY <4>1
      <4> QED
        BY <4>1, <4>2, <1>4, <2>2, <2>4, BranchesApart
    <3> QED
      BY <3>1, <3>2
  <2>5. ASSUME NEW x \in m.states
        PROVE  x = s \/ \E u : Fires(s, u) /\ u \notin left /\ x \in Under(S, FireTransition(u, s))
    <3>1. CASE x \in c.states
      BY <3>1, <2>3 DEF IsBelow
    <3>2. CASE x \in d.states
      BY <3>2, <2>2
    <3> QED
      BY <1>1, <3>1, <3>2
  <2> QED
    BY <1>1, <2>3, <2>4, <2>5 DEF IsBelow
<1> QED
  BY <1>2, <1>3, <1>4 DEF LoopFits

\* The result merges what the call for the seed q returns.
LEMMA MergedLoopAll ==
  ASSUME NEW S, NEW R, NEW q \in S, NEW c, NEW d, NEW o,
         R \subseteq S, q \notin R, q \in d.states, ~ c.violation => R \subseteq c.states,
         LoopFitsAll(S, c, R), LoopFits(S, q, d, o), o = {} \/ d.violation
  PROVE  LoopFitsAll(S, Merge(c, d), R \cup {q})
<1> DEFINE m == Merge(c, d)
<1>1. /\ m.states = c.states \cup d.states
      /\ m.violation <=> c.violation \/ d.violation
      /\ m.loop <=> c.loop \/ d.loop \/ c.states \cap d.states # {}
  BY DEF Merge
<1>2. IsFiniteSet(m.states)
  BY <1>1, FS_Union DEF LoopFits, LoopFitsAll
<1>3. ASSUME ~ m.violation, ~ m.loop PROVE AllMetOnce(m.states, R \cup {q})
  <2>1. ~ c.violation /\ ~ d.violation /\ ~ c.loop /\ ~ d.loop /\ c.states \cap d.states = {}
    BY <1>1, <1>3
  <2>2. AllMetOnce(c.states, R) /\ MetOnce(d.states, q, {})
    BY <2>1 DEF LoopFits, LoopFitsAll
  <2>3. \A x \in d.states : \A t : Fires(x, t) => Counted(d.states, q, {}, x, t)
    BY DEF Counted
  <2>4. \A x \in d.states : \A t : Fires(x, t) =>
          FireTransition(t, x) \in d.states /\ FireTransition(t, x) # q
    BY <2>2, <2>3 DEF MetOnce
  <2>5. \A x \in c.states : \A t : Fires(x, t) =>
          FireTransition(t, x) \in c.states /\ FireTransition(t, x) \notin R
    BY <2>2 DEF AllMetOnce
  <2>6. OneWay(d.states)
    BY <2>2, <2>3 DEF MetOnce, OneWay
  <2>7. OneWay(c.states)
    BY <2>2 DEF AllMetOnce
  <2>8. R \subseteq c.states
    BY <2>1
  <2>9. OneWay(m.states)
    <3> SUFFICES ASSUME NEW x \in m.states, NEW y \in m.states, NEW t, NEW u, Fires(x, t), Fires(y, u),
                        FireTransition(t, x) = FireTransition(u, y)
                 PROVE  x = y /\ t = u
      BY DEF OneWay
    <3>1. CASE x \in c.states /\ y \in c.states
      BY <3>1, <2>7 DEF OneWay
    <3>2. CASE x \in d.states /\ y \in d.states
      BY <3>2, <2>6 DEF OneWay
    <3> QED
      BY <3>1, <3>2, <1>1, <2>1, <2>4, <2>5
  <2> QED
    BY <1>1, <2>1, <2>4, <2>5, <2>8, <2>9 DEF AllMetOnce
<1>4. ASSUME IsForest(S) PROVE ~ m.loop /\ IsBelowAll(S, m.states, R \cup {q})
  <2>1. d.states \subseteq Under(S, q)
    BY <1>4, SeedsReached, ReturnedIsUnder
  <2>2. IsBelowAll(S, c.states, R) /\ ~ c.loop /\ ~ d.loop
    BY <1>4 DEF LoopFits, LoopFitsAll
  <2>3. ASSUME NEW x \in c.states, x \in d.states PROVE FALSE
    <3>1. PICK r \in R : x \in Under(S, r)
      BY <2>2 DEF IsBelowAll
    <3>2. r \in S /\ r # q
      BY <3>1
    <3> QED
      BY <3>1, <3>2, <1>4, <2>1, <2>3, SeedsApart
  <2>4. IsBelowAll(S, m.states, R \cup {q})
    BY <1>1, <2>1, <2>2 DEF IsBelowAll
  <2> QED
    BY <1>1, <2>2, <2>3, <2>4
<1> QED
  BY <1>2, <1>3, <1>4 DEF LoopFitsAll

-----------------------------------------------------------------------------
(***************************************************************************)
(* The steps.                                                              *)
(***************************************************************************)
LEMMA InitLoopInv == BuildInit => LoopInv
<1> SUFFICES ASSUME BuildInit PROVE LoopInv
  OBVIOUS
<1>1. BuildInv
  BY InitBuildInv
<1>2. calls = <<>> /\ closure = EmptyClosure /\ pending = seeds
  BY DEF BuildInit
<1>3. LoopsFitStack(seeds, calls)
  BY <1>2 DEF LoopsFitStack
<1>4. EmptyClosure.states = {} /\ EmptyClosure.loop = FALSE
  BY DEF EmptyClosure
<1>5. IsFiniteSet({}) /\ AllMetOnce({}, Searched) /\ IsBelowAll(seeds, {}, Searched)
  BY FS_EmptySet DEF AllMetOnce, OneWay, IsBelowAll
<1>6. LoopFitsAll(seeds, closure, Searched)
  BY <1>2, <1>4, <1>5 DEF LoopFitsAll
<1> QED
  BY <1>1, <1>2, <1>3, <1>6 DEF LoopInv

LEMMA NextSeedLoopInv ==
  ASSUME LoopInv, NextSeed
  PROVE  LoopInv'
<1>1. PICK s \in pending : pending' = pending \ {s} /\ calls' = <<Call(s)>>
  BY DEF NextSeed
<1>2. calls = <<>> /\ UNCHANGED <<seeds, closure>>
  BY DEF NextSeed
<1>3. BuildInv'
  BY NextSeedBuildInv DEF LoopInv
<1>4. s \in seeds /\ Call(s).state = s
  BY <1>1 DEF LoopInv, BuildInv, SeedsKept, Call
<1> DEFINE new == <<Call(s)>>
<1>5. Len(new) = 1 /\ new[1] = Call(s) /\ new # <<>>
  OBVIOUS
<1> HIDE DEF new
<1>6. LoopsFitStack(seeds, new)
  BY <1>4, <1>5, FreshLoop DEF LoopsFitStack
<1>7. Searched' = Searched
  BY <1>1, <1>2, <1>4, <1>5 DEF Searched, new
<1>8. calls' # <<>> /\ calls'[Len(calls')].state = s
  BY <1>1, <1>4, <1>5 DEF new
<1> QED
  BY <1>1, <1>2, <1>3, <1>4, <1>6, <1>7, <1>8 DEF LoopInv, new

LEMMA DescendLoopInv ==
  ASSUME LoopInv, Descend
  PROVE  LoopInv'
<1> DEFINE top == calls[1]
<1>1. calls # <<>> /\ Head(calls) = top /\ 1 \in 1 .. Len(calls) /\ top \in CallsIn(seeds)
      /\ calls \in Seq(CallsIn(seeds))
  BY DEF Descend, LoopInv, BuildInv, StackFits
<1>2. PICK t \in top.left :
        calls' = <<Call(FireTransition(t, top.state)), [top EXCEPT !.left = @ \ {t}]>> \o Tail(calls)
  BY <1>1 DEF Descend
<1>3. UNCHANGED <<seeds, pending, closure, done>>
  BY <1>1 DEF Descend
<1>4. BuildInv'
  BY DescendBuildInv DEF LoopInv
<1> DEFINE r == FireTransition(t, top.state)
           low == [top EXCEPT !.left = @ \ {t}]
           C == {Call(r), low} \cup CallsIn(seeds)
           new == <<Call(r), low>> \o Tail(calls)
<1>5. Fires(top.state, t)
  BY <1>1 DEF LoopInv, BuildInv, StackFits, CallFits
<1>6. low.state = top.state /\ low.closure = top.closure /\ low.left = top.left \ {t}
  BY <1>1 DEF CallsIn
<1>7. Call(r).state = r
  BY DEF Call
<1>8. calls \in Seq(C) /\ Call(r) \in C /\ low \in C
  BY <1>1
<1> HIDE DEF top, low, r, C
<1>9. /\ new \in Seq(C) /\ Len(new) = Len(calls) + 1
      /\ new[1] = Call(r) /\ new[2] = low
      /\ \A i \in 3 .. Len(new) : new[i] = calls[i - 1]
  BY <1>1, <1>8, PushedStack
<1> HIDE DEF new
<1>10. Awaited(seeds, new, 2, t)
  <2>1. LoopFits(seeds, top.state, top.closure, top.left)
    BY <1>1 DEF LoopInv, LoopsFitStack, top
  <2>2. (top.left \ {t}) \cup {t} = top.left
    BY <1>2
  <2>3. t \notin low.left /\ Fires(low.state, t) /\ FireTransition(t, low.state) = Call(r).state
    BY <1>5, <1>6, <1>7 DEF r
  <2>4. LoopFits(seeds, low.state, low.closure, low.left \cup {t})
    BY <2>1, <2>2, <1>6
  <2> QED
    BY <2>3, <2>4, <1>9 DEF Awaited
<1>11. ASSUME NEW i \in 3 .. Len(new) PROVE \E u : Awaited(seeds, new, i, u)
  <2>1. i - 1 \in 2 .. Len(calls) /\ new[i] = calls[i - 1]
    BY <1>1, <1>9
  <2>2. PICK u : Awaited(seeds, calls, i - 1, u)
    BY <2>1 DEF LoopInv, LoopsFitStack
  <2>3. new[i - 1].state = calls[(i - 1) - 1].state
    <3>1. CASE i = 3
      BY <3>1, <1>6, <1>9 DEF top
    <3>2. CASE i # 3
      <4>1. i - 1 \in 3 .. Len(new)
        BY <3>2, <1>1, <1>9
      <4> QED
        BY <4>1, <1>9
    <3> QED
      BY <3>1, <3>2
  <2> QED
    BY <2>1, <2>2, <2>3 DEF Awaited
<1>12. LoopsFitStack(seeds, new)
  <2>1. LoopFits(seeds, new[1].state, new[1].closure, new[1].left)
    BY <1>7, <1>9, FreshLoop
  <2>2. \A i \in 2 .. Len(new) : i = 2 \/ i \in 3 .. Len(new)
    BY <1>1, <1>9
  <2> QED
    BY <2>1, <2>2, <1>10, <1>11 DEF LoopsFitStack
<1>13. new # <<>> /\ new[Len(new)].state = calls[Len(calls)].state
  <2>1. CASE Len(calls) = 1
    <3>1. Len(new) = 2 /\ new # <<>>
      BY <2>1, <1>9
    <3> QED
      BY <2>1, <3>1, <1>6, <1>9 DEF top
  <2>2. CASE Len(calls) # 1
    <3>1. Len(calls) \in Nat /\ Len(calls) >= 2
      BY <2>2, <1>1, CallsOnStack
    <3>2. Len(new) \in 3 .. Len(new) /\ Len(new) - 1 = Len(calls)
      BY <3>1, <1>9
    <3>3. new # <<>>
      BY <3>1, <1>9
    <3> QED
      BY <3>2, <3>3, <1>9
  <2> QED
    BY <2>1, <2>2
<1>14. calls' = new
  BY <1>2 DEF new, low, r, top
<1>15. Searched' = Searched
  BY <1>1, <1>3, <1>13, <1>14 DEF Searched
<1> QED
  BY <1>1, <1>3, <1>4, <1>12, <1>13, <1>14, <1>15 DEF LoopInv

LEMMA ReturnToSeedLoopInv ==
  ASSUME LoopInv, ReturnClosure, Tail(calls) = <<>>
  PROVE  LoopInv'
<1> DEFINE c == calls[1].closure
           q == calls[1].state
<1>1. calls # <<>> /\ calls \in Seq(CallsIn(seeds)) /\ Head(calls) = calls[1] /\ BuildInv
  BY DEF ReturnClosure, LoopInv, BuildInv, StackFits
<1>2. /\ calls[1].left = {} \/ c.violation
      /\ closure' = Merge(closure, c) /\ calls' = <<>>
      /\ UNCHANGED <<seeds, pending, done>>
  BY <1>1 DEF ReturnClosure
<1>3. BuildInv'
  BY ReturnToSeedBuildInv DEF LoopInv
<1>4. c \in Closures(seeds) /\ q \in c.states
  BY <1>1, <1>2, ReturnedFits DEF BuildInv
<1>5. Len(calls) = 1 /\ q \in seeds \ pending
  <2>1. Len(calls) = 1
    BY <1>1, CallsOnStack
  <2> QED
    BY <2>1, <1>1 DEF LoopInv
<1>6. Searched = (seeds \ pending) \ {q} /\ Searched' = Searched \cup {q}
  BY <1>1, <1>2, <1>5 DEF Searched
<1>7. closure \in Closures(seeds) /\ (~ closure.violation => Searched \subseteq closure.states)
  BY <1>1, <1>5, <1>6 DEF BuildInv, SeedsKept, ClosureFits
<1>8. LoopFits(seeds, q, c, calls[1].left) /\ LoopFitsAll(seeds, closure, Searched)
  BY <1>1 DEF LoopInv, LoopsFitStack
<1> HIDE DEF c, q
<1>9. q \in seeds /\ q \notin Searched /\ Searched \subseteq seeds
  BY <1>5, <1>6
<1>10. LoopFitsAll(seeds, Merge(closure, c), Searched \cup {q})
  BY <1>2, <1>4, <1>7, <1>8, <1>9, MergedLoopAll
<1>11. LoopsFitStack(seeds, <<>>)
  BY DEF LoopsFitStack
<1> QED
  BY <1>2, <1>3, <1>6, <1>10, <1>11 DEF LoopInv

LEMMA ReturnToCallerLoopInv ==
  ASSUME LoopInv, ReturnClosure, Tail(calls) # <<>>
  PROVE  LoopInv'
<1> DEFINE c == calls[1].closure
           d == calls[2].closure
           low == [calls[2] EXCEPT !.closure = Merge(@, c)]
           C == {low} \cup CallsIn(seeds)
           new == <<low>> \o Tail(Tail(calls))
<1>1. calls # <<>> /\ calls \in Seq(CallsIn(seeds)) /\ Head(calls) = calls[1]
      /\ Head(Tail(calls)) = calls[2] /\ 2 \in 2 .. Len(calls) /\ calls[2] \in CallsIn(seeds)
  BY DEF ReturnClosure, LoopInv, BuildInv, StackFits
<1>2. /\ calls[1].left = {} \/ c.violation
      /\ calls' = new /\ UNCHANGED closure
      /\ UNCHANGED <<seeds, pending, done>>
  BY <1>1 DEF ReturnClosure
<1>3. BuildInv'
  BY ReturnToCallerBuildInv DEF LoopInv
<1>4. c \in Closures(seeds) /\ calls[1].state \in c.states
  BY <1>1, <1>2, ReturnedFits DEF LoopInv, BuildInv
<1>5. calls[2].state \in d.states /\ d \in Closures(seeds) /\ calls[2].state \in SilentReach(seeds)
  BY <1>1 DEF LoopInv, BuildInv, StackFits, CallFits, CallsIn
<1>6. low.state = calls[2].state /\ low.left = calls[2].left /\ low.closure = Merge(d, c)
  BY <1>1 DEF CallsIn
<1>7. calls \in Seq(C) /\ low \in C
  BY <1>1
<1> HIDE DEF low, C
<1>8. /\ new \in Seq(C) /\ Len(new) = Len(calls) - 1
      /\ new[1] = low
      /\ \A i \in 2 .. Len(new) : new[i] = calls[i + 1]
      /\ Len(calls) >= 2
  BY <1>1, <1>7, PoppedStack
<1> HIDE DEF new
<1>9. LoopFits(seeds, low.state, low.closure, low.left)
  <2>1. PICK t : Awaited(seeds, calls, 2, t)
    BY <1>1 DEF LoopInv, LoopsFitStack
  <2>2. /\ t \notin calls[2].left /\ Fires(calls[2].state, t)
        /\ FireTransition(t, calls[2].state) = calls[1].state
        /\ LoopFits(seeds, calls[2].state, d, calls[2].left \cup {t})
    BY <2>1 DEF Awaited
  <2>3. LoopFits(seeds, calls[1].state, c, calls[1].left)
    BY <1>1 DEF LoopInv, LoopsFitStack
  <2> HIDE DEF c, d
  <2>4. LoopFits(seeds, calls[2].state, Merge(d, c), calls[2].left)
    BY <2>2, <2>3, <1>2, <1>4, <1>5, MergedLoop
  <2> QED
    BY <2>4, <1>6
<1>10. ASSUME NEW i \in 2 .. Len(new) PROVE \E u : Awaited(seeds, new, i, u)
  <2>1. i + 1 \in 2 .. Len(calls) /\ new[i] = calls[i + 1] /\ (i + 1) - 1 = i
    BY <1>1, <1>8
  <2>2. PICK u : Awaited(seeds, calls, i + 1, u)
    BY <2>1 DEF LoopInv, LoopsFitStack
  <2>3. new[i - 1].state = calls[i].state
    <3>1. CASE i = 2
      BY <3>1, <1>6, <1>8
    <3>2. CASE i # 2
      <4>1. i - 1 \in 2 .. Len(new) /\ (i - 1) + 1 = i
        BY <3>2, <1>1, <1>8
      <4> QED
        BY <4>1, <1>8
    <3> QED
      BY <3>1, <3>2
  <2> QED
    BY <2>1, <2>2, <2>3 DEF Awaited
<1>11. LoopsFitStack(seeds, new)
  BY <1>8, <1>9, <1>10 DEF LoopsFitStack
<1>12. new # <<>> /\ new[Len(new)].state = calls[Len(calls)].state
  <2>1. CASE Len(calls) = 2
    <3>1. Len(new) = 1 /\ new # <<>>
      BY <2>1, <1>8, SMTT(40)
    <3> QED
      BY <2>1, <3>1, <1>6, <1>8
  <2>2. CASE Len(calls) # 2
    <3>1. Len(new) \in 2 .. Len(new) /\ Len(new) + 1 = Len(calls)
      BY <2>2, <1>1, <1>8
    <3> QED
      BY <3>1, <1>8
  <2> QED
    BY <2>1, <2>2
<1>13. Searched' = Searched
  BY <1>1, <1>2, <1>12 DEF Searched
<1> QED
  BY <1>1, <1>2, <1>3, <1>11, <1>12, <1>13 DEF LoopInv

LEMMA NextLoopInv ==
  ASSUME LoopInv, [BuildNext]_buildVars
  PROVE  LoopInv'
<1>1. CASE Finish \/ UNCHANGED buildVars
  <2>1. UNCHANGED <<seeds, pending, calls, closure>>
    BY <1>1 DEF Finish, buildVars
  <2>2. BuildInv'
    BY NextBuildInv DEF LoopInv
  <2> QED
    BY <2>1, <2>2 DEF LoopInv, Searched
<1> QED
  BY <1>1, NextSeedLoopInv, DescendLoopInv, ReturnToSeedLoopInv, ReturnToCallerLoopInv DEF BuildNext

-----------------------------------------------------------------------------
(***************************************************************************)
(* Counting: silent firings and seeds are as many as reachable states in a *)
(* forest, and more otherwise.                                             *)
(***************************************************************************)
LedTo(x) == FireTransition(x[2], x[1])

\* A net has finitely many silent transitions, and a finite set of states finitely many firings.
LEMMA FiringsAreFinite ==
  ASSUME NEW U, IsFiniteSet(U)
  PROVE  IsFiniteSet(SilentFirings(U))
<1> DEFINE D == 1 .. Len(TransitionList)
<1>1. TransitionList \in [D -> Transitions] /\ D = DOMAIN TransitionList
  BY ListAssumption
<1>2. TransitionList \in Surjection(D, Transitions)
  BY <1>1, ListAssumption DEF Surjection
<1>3. IsFiniteSet(D)
  BY ListAssumption, FS_Interval
<1> HIDE DEF D
<1>4. IsFiniteSet(Transitions)
  BY <1>2, <1>3, FS_Surjection
<1>5. Silent \subseteq Transitions
  BY DEF Silent
<1>6. IsFiniteSet(Silent)
  BY <1>4, <1>5, FS_Subset
<1>7. IsFiniteSet(U \X Silent) /\ SilentFirings(U) \subseteq U \X Silent
  BY <1>6, FS_Product DEF SilentFirings
<1> QED
  BY <1>7, FS_Subset

\* The firings in words of Fires.
LEMMA FiringsOf ==
  ASSUME NEW U
  PROVE  /\ \A x \in SilentFirings(U) : x[1] \in U /\ Fires(x[1], x[2]) /\ x = <<x[1], x[2]>>
         /\ \A s \in U : \A t : Fires(s, t) =>
              /\ <<s, t>> \in SilentFirings(U)
              /\ LedTo(<<s, t>>) = FireTransition(t, s)
BY DEF SilentFirings, Fires, LedTo

\* Finitely many firings do not lead to more states than they are.
LEMMA LedToFewer ==
  ASSUME NEW F, IsFiniteSet(F), NEW V, \A v \in V : \E x \in F : LedTo(x) = v
  PROVE  Cardinality(V) <= Cardinality(F) /\ Cardinality(F) \in Nat /\ Cardinality(V) \in Nat
<1> DEFINE G == {x \in F : LedTo(x) \in V}
           f == [x \in G |-> LedTo(x)]
<1>1. f \in [G -> V] /\ \A v \in V : \E x \in G : f[x] = v
  OBVIOUS
<1>2. f \in Surjection(G, V)
  <2> HIDE DEF f, G
  <2> QED
    BY <1>1 DEF Surjection
<1>3. G \subseteq F
  OBVIOUS
<1> HIDE DEF f, G
<1>4. IsFiniteSet(G) /\ Cardinality(G) <= Cardinality(F)
  BY <1>3, FS_Subset
<1>5. IsFiniteSet(V) /\ Cardinality(V) <= Cardinality(G)
  BY <1>2, <1>4, FS_Surjection
<1>6. Cardinality(F) \in Nat /\ Cardinality(G) \in Nat /\ Cardinality(V) \in Nat
  BY <1>4, <1>5, FS_CardinalityType
<1> QED
  BY <1>4, <1>5, <1>6

\* What is reached is a seed, or led to.
LEMMA AllLedTo ==
  ASSUME NEW S, NEW v \in SilentReach(S) \ S, IsClosedSet(SilentReach(S))
  PROVE  \E x \in SilentFirings(SilentReach(S)) : LedTo(x) = v
<1> DEFINE U == SilentReach(S)
           V == U \ {v}
<1> SUFFICES ASSUME \A x \in SilentFirings(U) : LedTo(x) # v PROVE FALSE
  OBVIOUS
<1>1. S \subseteq V
  BY SeedsReached
<1>2. \A s \in U : \A t : Fires(s, t) => FireTransition(t, s) # v
  <2> HIDE DEF U
  <2> QED
    BY FiringsOf
<1>3. IsClosedSet(V)
  BY <1>2 DEF IsClosedSet
<1>4. U \subseteq V
  <2> HIDE DEF V
  <2> QED
    BY <1>1, <1>3, ClosedHasAll
<1> QED
  BY <1>4

LEMMA ForestIsCounted ==
  ASSUME NEW S, IsFiniteSet(SilentReach(S)), IsClosedSet(SilentReach(S))
  PROVE  ~ IsForest(S) <=>
           Cardinality(SilentFirings(SilentReach(S))) + Cardinality(S) > Cardinality(SilentReach(S))
<1> DEFINE U == SilentReach(S)
           F == SilentFirings(U)
           V == U \ S
<1>1. S \subseteq U
  BY SeedsReached
<1>2. IsFiniteSet(F)
  BY FiringsAreFinite
<1>3. \A v \in V : \E x \in F : LedTo(x) = v
  BY AllLedTo
<1>4. /\ \A x \in F : x[1] \in U /\ Fires(x[1], x[2]) /\ x = <<x[1], x[2]>>
      /\ \A s \in U : \A t : Fires(s, t) => <<s, t>> \in F /\ LedTo(<<s, t>>) = FireTransition(t, s)
  BY FiringsOf
<1>5. /\ IsFiniteSet(V) /\ Cardinality(V) = Cardinality(U) - Cardinality(S)
      /\ Cardinality(U) \in Nat /\ Cardinality(S) \in Nat /\ Cardinality(F) \in Nat
  <2>1. U \cap S = S
    BY <1>1
  <2>2. IsFiniteSet(S)
    BY <1>1, FS_Subset
  <2> QED
    BY <2>1, <2>2, <1>2, FS_Difference, FS_CardinalityType
<1>6. IsForest(S) <=> OneWay(U) /\ NoneBack(S, U)
  BY DEF IsForest
<1> HIDE DEF F, V, U
<1>7. ASSUME OneWay(U), NoneBack(S, U)
      PROVE  Cardinality(F) = Cardinality(V)
  <2> DEFINE f == [x \in F |-> LedTo(x)]
  <2>1. \A x \in F : LedTo(x) = FireTransition(x[2], x[1])
    BY DEF LedTo
  <2>2. \A x \in F : LedTo(x) \in V
    BY <1>4, <1>7, <2>1 DEF NoneBack, IsClosedSet, U, V
  <2>3. \A x, y \in F : LedTo(x) = LedTo(y) => x = y
    BY <1>4, <1>7, <2>1 DEF OneWay
  <2>4. f \in [F -> V] /\ \A x \in F : f[x] = LedTo(x)
    BY <2>2
  <2> HIDE DEF f
  <2>5. f \in Surjection(F, V) /\ f \in Injection(F, V)
    BY <1>3, <2>3, <2>4 DEF Surjection, Injection, IsInjective
  <2> QED
    BY <2>5, <1>2, FS_Surjection
<1>8. ASSUME NEW x \in F, \A v \in V : \E y \in F \ {x} : LedTo(y) = v
      PROVE  Cardinality(F) > Cardinality(V)
  <2>1. IsFiniteSet(F \ {x}) /\ Cardinality(F \ {x}) = Cardinality(F) - 1
    BY <1>2, FS_RemoveElement
  <2>2. Cardinality(V) <= Cardinality(F \ {x}) /\ Cardinality(V) \in Nat
    BY <1>8, <2>1, LedToFewer
  <2> QED
    BY <2>1, <2>2, <1>5
<1>9. ASSUME ~ OneWay(U) PROVE Cardinality(F) > Cardinality(V)
  <2>1. PICK s \in U, r \in U : \E t, u :
          /\ Fires(s, t) /\ Fires(r, u) /\ FireTransition(t, s) = FireTransition(u, r)
          /\ ~ (s = r /\ t = u)
    BY <1>9 DEF OneWay
  <2>2. PICK t, u : /\ Fires(s, t) /\ Fires(r, u) /\ FireTransition(t, s) = FireTransition(u, r)
                    /\ ~ (s = r /\ t = u)
    BY <2>1
  <2>3. /\ <<s, t>> \in F /\ <<r, u>> \in F /\ <<s, t>> # <<r, u>>
        /\ LedTo(<<s, t>>) = LedTo(<<r, u>>)
    BY <2>2, <1>4
  <2>4. \A v \in V : \E y \in F \ {<<s, t>>} : LedTo(y) = v
    BY <2>3, <1>3
  <2> QED
    BY <2>3, <2>4, <1>8
<1>10. ASSUME ~ NoneBack(S, U) PROVE Cardinality(F) > Cardinality(V)
  <2>1. PICK s \in U : \E t : Fires(s, t) /\ FireTransition(t, s) \in S
    BY <1>10 DEF NoneBack
  <2>2. PICK t : Fires(s, t) /\ FireTransition(t, s) \in S
    BY <2>1
  <2>3. <<s, t>> \in F /\ LedTo(<<s, t>>) \notin V
    BY <2>2, <1>4 DEF V
  <2>4. \A v \in V : \E y \in F \ {<<s, t>>} : LedTo(y) = v
    BY <2>3, <1>3
  <2> QED
    BY <2>3, <2>4, <1>8
<1>11. ~ IsForest(S) <=> Cardinality(F) + Cardinality(S) > Cardinality(U)
  BY <1>5, <1>6, <1>7, <1>9, <1>10
<1> QED
  BY <1>11 DEF F, U

\* The loop flag of the closure that is returned means that some state was met twice.
THEOREM LoopsAreMetTwice == BuildSpec => []LoopMeansMetTwice
<1>1. BuildInit => LoopInv
  BY InitLoopInv
<1>2. LoopInv /\ [BuildNext]_buildVars => LoopInv'
  BY NextLoopInv
<1>3. LoopInv /\ ClosureIsExact => LoopMeansMetTwice
  <2> SUFFICES ASSUME LoopInv, ClosureIsExact, done, ~ closure.violation
               PROVE  closure.loop <=>
                        Cardinality(SilentFirings(closure.states)) + Cardinality(seeds)
                          > Cardinality(closure.states)
    BY DEF LoopMeansMetTwice
  <2> DEFINE U == SilentReach(seeds)
  <2>1. closure.states = U
    BY DEF ClosureIsExact
  <2>2. IsFiniteSet(U) /\ closure.loop \in BOOLEAN
    BY <2>1 DEF LoopInv, LoopFitsAll, BuildInv, ClosureFits, Closures
  <2>3. IsClosedSet(U)
    BY <2>1 DEF LoopInv, BuildInv, ClosureFits, IsClosedSet
  <2>4. Searched = seeds
    BY DEF LoopInv, BuildInv, DoneMeansAllSearched, Searched
  <2>5. IsForest(seeds) => ~ closure.loop
    BY DEF LoopInv, LoopFitsAll
  <2>6. ~ closure.loop => IsForest(seeds)
    BY <2>1, <2>3, <2>4 DEF LoopInv, LoopFitsAll, AllMetOnce, IsForest, NoneBack
  <2>7. ~ IsForest(seeds) <=> Cardinality(SilentFirings(U)) + Cardinality(seeds) > Cardinality(U)
    BY <2>2, <2>3, ForestIsCounted
  <2> QED
    BY <2>1, <2>2, <2>5, <2>6, <2>7
<1> QED
  BY <1>1, <1>2, <1>3, ClosuresAreExact, PTL DEF BuildSpec

-----------------------------------------------------------------------------
(***************************************************************************)
(* The net.  Steps lead from net states to net states.                     *)
(***************************************************************************)
LEMMA SizeArithmetic ==
  ASSUME NEW a \in Size, NEW b \in Size
  PROVE  Plus(a, b) \in Size /\ Minus(a, b) \in Size
BY SizeAssumption DEF Plus, Minus, Size

\* Firing a transition.
LEMMA FireType ==
  ASSUME NEW s \in NetStates, NEW t \in Transitions
  PROVE  FireTransition(t, s) \in NetStates
<1>1. s.place \in Markings /\ s.time \in [Transitions -> Size]
  BY DEF NetStates
<1>2. UpdateTokens(t, s.place) \in Markings
  <2> SUFFICES ASSUME NEW p \in Places
               PROVE  Plus(Minus(s.place[p], Incoming[t][p]), Outgoing[t][p]) \in Size
    BY DEF UpdateTokens, Markings
  <2>1. s.place[p] \in Size /\ Incoming[t][p] \in Size /\ Outgoing[t][p] \in Size
    BY <1>1, ArcAssumption DEF Markings
  <2> QED
    BY <2>1, SizeArithmetic
<1>3. 0 \in Size /\ DisabledTransition \in Size
  BY SizeAssumption DEF Size, DisabledTransition
<1>4. ASSUME NEW m, NEW time \in [Transitions -> Size]
      PROVE  /\ UpdateSiblings(t, m, time) \in [Transitions -> Size]
             /\ UpdateSuccessors(t, m, time) \in [Transitions -> Size]
  BY <1>3 DEF UpdateSiblings, UpdateSuccessors, EnablePostset
<1> QED
  BY <1>1, <1>2, <1>4 DEF FireTransition, NetStates

-----------------------------------------------------------------------------
(***************************************************************************)
(* Net states in order.  Comparing entry by entry is a strict and total    *)
(* order, so that sorting the seeds loses none of them and adds none.      *)
(***************************************************************************)
LEMMA BeforeIsOrder ==
  ASSUME NEW X, NEW list \in Seq(X), X = {list[i] : i \in DOMAIN list},
         NEW f \in [X -> Size], NEW g \in [X -> Size], NEW h \in [X -> Size]
  PROVE  /\ ~ Before(f, f, list)
         /\ Before(f, g, list) /\ Before(g, h, list) => Before(f, h, list)
         /\ f = g \/ Before(f, g, list) \/ Before(g, f, list)
<1>1. DOMAIN list \subseteq Nat /\ \A i \in DOMAIN list : \A k \in 1 .. (i - 1) : k \in DOMAIN list
  <2>1. Len(list) \in Nat /\ DOMAIN list = 1 .. Len(list)
    OBVIOUS
  <2> QED
    BY <2>1
<1>2. \A i \in DOMAIN list : /\ f[list[i]] \in Nat /\ g[list[i]] \in Nat /\ h[list[i]] \in Nat
  BY SizeAssumption DEF Size
<1>3. ~ Before(f, f, list)
  BY <1>2 DEF Before
<1>4. ASSUME Before(f, g, list), Before(g, h, list) PROVE Before(f, h, list)
  <2>1. PICK i \in DOMAIN list : /\ f[list[i]] < g[list[i]]
                                 /\ \A k \in 1 .. (i - 1) : f[list[k]] = g[list[k]]
    BY <1>4 DEF Before
  <2>2. PICK j \in DOMAIN list : /\ g[list[j]] < h[list[j]]
                                 /\ \A k \in 1 .. (j - 1) : g[list[k]] = h[list[k]]
    BY <1>4 DEF Before
  <2> DEFINE least == IF i <= j THEN i ELSE j
  <2>3. i \in Nat \ {0} /\ j \in Nat \ {0}
    BY <1>1, <2>1, <2>2
  <2>4. f[list[least]] < h[list[least]]
    <3>1. CASE i < j
      <4>1. i \in 1 .. (j - 1) /\ least = i
        BY <2>3, <3>1
      <4> QED
        BY <2>1, <2>2, <4>1
    <3>2. CASE j < i
      <4>1. j \in 1 .. (i - 1) /\ least = j
        BY <2>3, <3>2
      <4> QED
        BY <2>1, <2>2, <4>1
    <3>3. CASE i = j
      BY <1>2, <2>1, <2>2, <2>3, <3>3
    <3> QED
      BY <2>3, <3>1, <3>2, <3>3
  <2>5. \A k \in 1 .. (least - 1) : k \in 1 .. (i - 1) /\ k \in 1 .. (j - 1)
    BY <2>3
  <2>6. \A k \in 1 .. (least - 1) : f[list[k]] = h[list[k]]
    BY <2>1, <2>2, <2>5
  <2>7. least \in DOMAIN list
    OBVIOUS
  <2> HIDE DEF least
  <2> QED
    BY <2>4, <2>6, <2>7 DEF Before
<1>5. ASSUME f # g PROVE Before(f, g, list) \/ Before(g, f, list)
  <2> DEFINE D == {i \in DOMAIN list : f[list[i]] # g[list[i]]}
  <2>1. D \in SUBSET Nat
    BY <1>1
  <2>2. D # {}
    <3>1. PICK x \in X : f[x] # g[x]
      BY <1>5
    <3>2. PICK i \in DOMAIN list : x = list[i]
      OBVIOUS
    <3> QED
      BY <3>1, <3>2
  <2>3. PICK i \in D : \A k \in D : i <= k
    <3> HIDE DEF D
    <3> QED
      BY <2>1, <2>2, LeastNumber
  <2>4. \A k \in 1 .. (i - 1) : k \in DOMAIN list /\ ~ (i <= k)
    BY <1>1
  <2>5. \A k \in 1 .. (i - 1) : f[list[k]] = g[list[k]]
    BY <2>3, <2>4
  <2>6. f[list[i]] < g[list[i]] \/ g[list[i]] < f[list[i]]
    BY <1>2
  <2>7. i \in DOMAIN list
    OBVIOUS
  <2> HIDE DEF D
  <2> QED
    BY <2>5, <2>6, <2>7 DEF Before
<1> QED
  BY <1>3, <1>4, <1>5

LEMMA StateOrder ==
  ASSUME NEW s \in NetStates, NEW r \in NetStates, NEW q \in NetStates
  PROVE  /\ ~ StateLess(s, s)
         /\ StateLess(s, r) /\ StateLess(r, q) => StateLess(s, q)
         /\ s = r \/ StateLess(s, r) \/ StateLess(r, s)
<1>1. \A n \in {s, r, q} : n.place \in [Places -> Size] /\ n.time \in [Transitions -> Size]
  BY DEF NetStates, Markings
<1>2. ASSUME NEW f \in [Places -> Size], NEW g \in [Places -> Size], NEW h \in [Places -> Size]
      PROVE  /\ ~ Before(f, f, PlaceList)
             /\ Before(f, g, PlaceList) /\ Before(g, h, PlaceList) => Before(f, h, PlaceList)
             /\ f = g \/ Before(f, g, PlaceList) \/ Before(g, f, PlaceList)
  <2>1. PlaceList \in Seq(Places) /\ Places = {PlaceList[i] : i \in DOMAIN PlaceList}
    BY ListAssumption
  <2> QED
    BY <2>1, BeforeIsOrder
<1>3. ASSUME NEW f \in [Transitions -> Size], NEW g \in [Transitions -> Size], NEW h \in [Transitions -> Size]
      PROVE  /\ ~ Before(f, f, TransitionList)
             /\ Before(f, g, TransitionList) /\ Before(g, h, TransitionList) => Before(f, h, TransitionList)
             /\ f = g \/ Before(f, g, TransitionList) \/ Before(g, f, TransitionList)
  <2>1. TransitionList \in Seq(Transitions) /\ Transitions = {TransitionList[i] : i \in DOMAIN TransitionList}
    BY ListAssumption
  <2> QED
    BY <2>1, BeforeIsOrder
<1>4. s.place = r.place /\ s.time = r.time => s = r
  BY DEF NetStates
<1> QED
  BY <1>1, <1>2, <1>3, <1>4 DEF StateLess, MarkingLess

\* A list of S in the order R: as many come before an element as its position says.
Orders(R, S) ==
  \A x, y, z \in S : /\ <<x, x>> \notin R
                     /\ <<x, y>> \in R /\ <<y, z>> \in R => <<x, z>> \in R
                     /\ x = y \/ <<x, y>> \in R \/ <<y, x>> \in R

Earlier(R, S, x) == {y \in S : <<y, x>> \in R}

IsSorted(f, R, S) ==
  /\ DOMAIN f = 1 .. Cardinality(S)
  /\ \A i \in DOMAIN f : f[i] \in S
  /\ \A x \in S : \E i \in DOMAIN f : f[i] = x
  /\ \A i, k \in DOMAIN f : i < k => <<f[i], f[k]>> \in R

LEMMA SortingWorks ==
  ASSUME NEW S, IsFiniteSet(S), NEW R, Orders(R, S),
         NEW f, DOMAIN f = 1 .. Cardinality(S),
         \A i \in 1 .. Cardinality(S) :
           (\E x \in S : Cardinality(Earlier(R, S, x)) = i - 1)
             => f[i] \in S /\ Cardinality(Earlier(R, S, f[i])) = i - 1
  PROVE  IsSorted(f, R, S)
<1> DEFINE n == Cardinality(S)
           Less(x) == Earlier(R, S, x)
           rank == [x \in S |-> Cardinality(Less(x))]
           Positions == 0 .. (n - 1)
<1>1. n \in Nat
  BY FS_CardinalityType
<1>2. ASSUME NEW x \in S
      PROVE  IsFiniteSet(Less(x)) /\ rank[x] \in Positions
  <2>1. Less(x) \in SUBSET (S \ {x})
    BY DEF Orders, Earlier
  <2>2. IsFiniteSet(S \ {x}) /\ Cardinality(S \ {x}) = n - 1
    BY FS_RemoveElement
  <2>3. IsFiniteSet(Less(x)) /\ Cardinality(Less(x)) <= n - 1 /\ Cardinality(Less(x)) \in Nat
    <3> HIDE DEF Less, n
    <3> QED
      BY <2>1, <2>2, FS_Subset, FS_CardinalityType
  <2> QED
    BY <1>1, <2>3
<1>3. ASSUME NEW x \in S, NEW y \in S, <<x, y>> \in R
      PROVE  rank[x] < rank[y]
  <2>1. x \in Less(y) /\ x \notin Less(x)
    BY <1>3 DEF Orders, Earlier
  <2>2. Less(x) \in SUBSET (Less(y) \ {x})
    <3> SUFFICES ASSUME NEW q \in Less(x) PROVE q \in Less(y) \ {x}
      OBVIOUS
    <3>1. q \in S /\ <<q, x>> \in R
      BY DEF Earlier
    <3>2. <<q, y>> \in R /\ q # x
      BY <1>3, <3>1 DEF Orders
    <3> QED
      BY <3>1, <3>2 DEF Earlier
  <2>3. IsFiniteSet(Less(y))
    BY <1>2
  <2>4. Cardinality(Less(y)) \in Nat /\ Cardinality(Less(x)) \in Nat
    BY <1>2, FS_CardinalityType
  <2>5. Cardinality(Less(x)) <= Cardinality(Less(y)) - 1
    <3>1. IsFiniteSet(Less(y) \ {x}) /\ Cardinality(Less(y) \ {x}) = Cardinality(Less(y)) - 1
      BY <2>1, <2>3, FS_RemoveElement
    <3> HIDE DEF Less
    <3> QED
      BY <2>2, <3>1, FS_Subset
  <2> QED
    BY <2>4, <2>5
<1>4. \A x, y \in S : rank[x] = rank[y] => x = y
  <2> SUFFICES ASSUME NEW x \in S, NEW y \in S, rank[x] = rank[y], x # y PROVE FALSE
    OBVIOUS
  <2>1. <<x, y>> \in R \/ <<y, x>> \in R
    BY DEF Orders
  <2>2. rank[x] \in Positions /\ rank[y] \in Positions
    BY <1>2
  <2>3. rank[x] < rank[y] \/ rank[y] < rank[x]
    BY <1>3, <2>1
  <2> HIDE DEF rank
  <2> QED
    BY <1>1, <2>2, <2>3
<1>5. rank \in Injection(S, Positions)
  <2>1. rank \in [S -> Positions]
    BY <1>2
  <2> HIDE DEF rank, Positions
  <2> QED
    BY <1>4, <2>1 DEF Injection, IsInjective
<1>6. IsFiniteSet(Positions) /\ Cardinality(Positions) = n
  <2>1. 0 \in Int /\ n - 1 \in Int /\ (IF 0 > n - 1 THEN 0 ELSE (n - 1) - 0 + 1) = n
    BY <1>1
  <2> HIDE DEF n
  <2> QED
    BY <2>1, FS_Interval
<1>7. rank \in Surjection(S, Positions)
  <2> HIDE DEF rank, Positions
  <2> QED
    BY <1>5, <1>6, FS_Injection
<1>8. \A k \in Positions : \E x \in S : rank[x] = k
  <2> HIDE DEF rank, Positions
  <2> QED
    BY <1>7 DEF Surjection
<1>9. ASSUME NEW i \in 1 .. n
      PROVE  f[i] \in S /\ rank[f[i]] = i - 1
  <2>1. i - 1 \in Positions
    BY <1>1
  <2>2. \E x \in S : Cardinality(Less(x)) = i - 1
    <3> HIDE DEF Positions
    <3> QED
      BY <1>8, <2>1
  <2> QED
    BY <2>2
<1>10. ASSUME NEW x \in S PROVE \E i \in 1 .. n : f[i] = x
  <2>1. rank[x] \in Positions
    BY <1>2
  <2>2. rank[x] + 1 \in 1 .. n /\ (rank[x] + 1) - 1 = rank[x]
    BY <1>1, <2>1
  <2> QED
    BY <1>4, <1>9, <2>2
<1>11. ASSUME NEW i \in 1 .. n, NEW k \in 1 .. n, i < k PROVE <<f[i], f[k]>> \in R
  <2>1. f[i] \in S /\ f[k] \in S /\ rank[f[i]] = i - 1 /\ rank[f[k]] = k - 1
    BY <1>9
  <2> HIDE DEF rank
  <2>2. f[i] # f[k] /\ ~ (rank[f[k]] < rank[f[i]])
    BY <1>1, <1>11, <2>1
  <2> QED
    BY <1>3, <2>1, <2>2 DEF Orders
<1> QED
  BY <1>9, <1>10, <1>11 DEF IsSorted

StatesBefore   == {x \in NetStates \X NetStates : StateLess(x[1], x[2])}

LEMMA StatesAreSorted ==
  ASSUME NEW S \in SUBSET NetStates, IsFiniteSet(S)
  PROVE  IsSorted(InOrder(S, StateLess), StatesBefore, S)
<1> DEFINE f == InOrder(S, StateLess)
<1>1. \A s, r \in S : <<s, r>> \in StatesBefore <=> StateLess(s, r)
  BY DEF StatesBefore
<1>2. Orders(StatesBefore, S)
  BY <1>1, StateOrder DEF Orders
<1>3. \A s \in S : Earlier(StatesBefore, S, s) = {r \in S : StateLess(r, s)}
  BY <1>1 DEF Earlier
<1>4. DOMAIN f = 1 .. Cardinality(S)
      /\ \A i \in 1 .. Cardinality(S) :
           f[i] = CHOOSE s \in S : Cardinality({r \in S : StateLess(r, s)}) = i - 1
  BY DEF InOrder
<1>5. ASSUME NEW i \in 1 .. Cardinality(S),
             \E s \in S : Cardinality(Earlier(StatesBefore, S, s)) = i - 1
      PROVE  f[i] \in S /\ Cardinality(Earlier(StatesBefore, S, f[i])) = i - 1
  <2>1. \E s \in S : Cardinality({r \in S : StateLess(r, s)}) = i - 1
    BY <1>3, <1>5
  <2>2. f[i] \in S /\ Cardinality({r \in S : StateLess(r, f[i])}) = i - 1
    BY <1>4, <2>1
  <2> QED
    BY <1>3, <2>2
<1> HIDE DEF f
<1>6. IsSorted(f, StatesBefore, S)
  BY <1>2, <1>4, <1>5, SortingWorks
<1> QED
  BY <1>6 DEF f

\* Sorting loses no net state and adds none.
LEMMA SortingKeepsAll ==
  ASSUME NEW S \in SUBSET NetStates, IsFiniteSet(S)
  PROVE  /\ \A i \in 1 .. Cardinality(S) : InOrder(S, StateLess)[i] \in S
         /\ \A s \in S : \E i \in 1 .. Cardinality(S) : InOrder(S, StateLess)[i] = s
         /\ DOMAIN InOrder(S, StateLess) = 1 .. Cardinality(S)
BY StatesAreSorted DEF IsSorted

-----------------------------------------------------------------------------
(***************************************************************************)
(* Merging.  A closure reports a broken bound if and only if it holds a    *)
(* net state beyond one, and merging keeps that.                           *)
(***************************************************************************)
IsClosure(c) ==
  /\ c \in [states : SUBSET NetStates, loop : BOOLEAN, violation : BOOLEAN]
  /\ IsFiniteSet(c.states)
  /\ c.violation <=> \E s \in c.states : ~ IsBounded(s)

\* m is c with the first n closures of inner merged into it, up to a broken bound.
IsMerged(m, c, inner, n) ==
  /\ IsClosure(m)
  /\ c.states \subseteq m.states
  /\ \A s \in m.states : s \in c.states \/ \E k \in 1 .. n : s \in inner[k].states
  /\ ~ m.violation => \A k \in 1 .. n : inner[k].states \subseteq m.states

IsMerging(f, c, inner, n) ==
  f = [k \in 0 .. n |->
         IF k = 0 THEN c
         ELSE CHOOSE m \in {Joined(x, d) : x \in {f[k - 1]}, d \in {inner[k]}} : TRUE]

LEMMA OneJoined ==
  ASSUME NEW a, NEW b
  PROVE  (CHOOSE m \in {Joined(x, d) : x \in {a}, d \in {b}} : TRUE) = Joined(a, b)
<1>1. {Joined(x, d) : x \in {a}, d \in {b}} = {Joined(a, b)}
  OBVIOUS
<1> QED
  BY <1>1

LEMMA MergingExists ==
  ASSUME NEW c, NEW inner
  PROVE  \A n \in Nat : \E f : IsMerging(f, c, inner, n)
<1> DEFINE T == {n \in Nat : \E f : IsMerging(f, c, inner, n)}
           Step(a, k) == CHOOSE m \in {Joined(x, d) : x \in {a}, d \in {inner[k]}} : TRUE
<1>1. 0 \in T
  <2>1. IsMerging([k \in 0 .. 0 |-> c], c, inner, 0)
    BY DEF IsMerging
  <2> QED
    BY <2>1
<1>2. \A n \in Nat : n \in T => n + 1 \in T
  <2> SUFFICES ASSUME NEW n \in Nat, NEW f, IsMerging(f, c, inner, n)
               PROVE  \E g : IsMerging(g, c, inner, n + 1)
    OBVIOUS
  <2>0. f = [k \in 0 .. n |-> IF k = 0 THEN c ELSE Step(f[k - 1], k)]
    BY DEF IsMerging
  <2>a. \A g : g = [k \in 0 .. (n + 1) |-> IF k = 0 THEN c ELSE Step(g[k - 1], k)]
                 => IsMerging(g, c, inner, n + 1)
    BY DEF IsMerging
  <2> HIDE DEF Step
  <2> DEFINE g == [k \in 0 .. (n + 1) |-> IF k = n + 1 THEN Step(f[n], n + 1) ELSE f[k]]
  <2>1. \A k \in 0 .. n : g[k] = f[k] /\ k \in 0 .. (n + 1)
    OBVIOUS
  <2>2. \A k \in 0 .. n : f[k] = IF k = 0 THEN c ELSE Step(f[k - 1], k)
    BY <2>0
  <2>3. ASSUME NEW k \in 0 .. (n + 1)
        PROVE  g[k] = IF k = 0 THEN c ELSE Step(g[k - 1], k)
    <3>1. CASE k = n + 1
      BY <2>1, <3>1
    <3>2. CASE k \in 0 .. n
      <4>1. k = 0 \/ k - 1 \in 0 .. n
        BY <3>2
      <4> QED
        BY <2>1, <2>2, <3>2, <4>1
    <3> QED
      BY <3>1, <3>2
  <2>4. g = [k \in 0 .. (n + 1) |-> IF k = 0 THEN c ELSE Step(g[k - 1], k)]
    BY <2>3
  <2> QED
    BY <2>4, <2>a
<1> HIDE DEF T
<1>3. \A n \in Nat : n \in T
  BY <1>1, <1>2, SetInduction
<1> QED
  BY <1>3 DEF T

\* Merging one after the other.
LEMMA MergingOneByOne ==
  ASSUME NEW c, NEW inner, NEW n \in Nat
  PROVE  \E f : /\ MergeAll(c, inner, n) = f[n] /\ f[0] = c
                /\ \A k \in 1 .. n : f[k] = Joined(f[k - 1], inner[k])
<1> DEFINE f == CHOOSE g : IsMerging(g, c, inner, n)
<1>1. IsMerging(f, c, inner, n)
  BY MergingExists
<1>2. MergeAll(c, inner, n) = f[n]
  BY DEF MergeAll, IsMerging
<1> HIDE DEF f
<1> DEFINE Step(a, k) == CHOOSE m \in {Joined(x, d) : x \in {a}, d \in {inner[k]}} : TRUE
<1>3. \A k \in 0 .. n : f[k] = IF k = 0 THEN c ELSE Step(f[k - 1], k)
  <2>1. f = [k \in 0 .. n |-> IF k = 0 THEN c ELSE Step(f[k - 1], k)]
    BY <1>1 DEF IsMerging
  <2> HIDE DEF Step
  <2> QED
    BY <2>1
<1>4. 0 \in 0 .. n /\ \A k \in 1 .. n : k \in 0 .. n /\ k # 0
  OBVIOUS
<1>5. f[0] = c
  BY <1>3, <1>4
<1>6. ASSUME NEW k \in 1 .. n PROVE f[k] = Joined(f[k - 1], inner[k])
  BY <1>3, <1>4, OneJoined
<1> QED
  BY <1>2, <1>5, <1>6

LEMMA JoinedIsClosure ==
  ASSUME NEW c, NEW d, IsClosure(c), IsClosure(d)
  PROVE  /\ IsClosure(Joined(c, d))
         /\ Joined(c, d).states \subseteq c.states \cup d.states
         /\ c.states \subseteq Joined(c, d).states
         /\ ~ Joined(c, d).violation => ~ c.violation /\ d.states \subseteq Joined(c, d).states
<1>1. CASE c.violation
  BY <1>1 DEF Joined
<1>2. CASE ~ c.violation
  <2>1. IsFiniteSet(c.states \cup d.states)
    BY FS_Union DEF IsClosure
  <2>2. /\ Joined(c, d).states = c.states \cup d.states
        /\ Joined(c, d).loop \in BOOLEAN
        /\ Joined(c, d).violation = (c.violation \/ d.violation)
        /\ Joined(c, d) \in [states : SUBSET NetStates, loop : BOOLEAN, violation : BOOLEAN]
    BY <1>2 DEF Joined, Merge, IsClosure
  <2> QED
    BY <1>2, <2>1, <2>2 DEF IsClosure
<1> QED
  BY <1>1, <1>2

LEMMA MergeAllMerges ==
  ASSUME NEW c, NEW inner, NEW n \in Nat,
         IsClosure(c), \A k \in 1 .. n : IsClosure(inner[k])
  PROVE  IsMerged(MergeAll(c, inner, n), c, inner, n)
<1>1. PICK f : /\ MergeAll(c, inner, n) = f[n] /\ f[0] = c
               /\ \A k \in 1 .. n : f[k] = Joined(f[k - 1], inner[k])
  BY MergingOneByOne
<1> DEFINE T == {k \in Nat : k <= n => IsMerged(f[k], c, inner, k)}
<1>2. 0 \in T
  BY <1>1 DEF IsMerged
<1>3. \A k \in Nat : k \in T => k + 1 \in T
  <2> SUFFICES ASSUME NEW k \in Nat, k \in T, k + 1 <= n
               PROVE  IsMerged(f[k + 1], c, inner, k + 1)
    OBVIOUS
  <2>1. k + 1 \in 1 .. n /\ (k + 1) - 1 = k /\ k <= n
    OBVIOUS
  <2>2. f[k + 1] = Joined(f[k], inner[k + 1]) /\ IsClosure(inner[k + 1])
    BY <1>1, <2>1
  <2>3. IsMerged(f[k], c, inner, k)
    BY <2>1
  <2>4. IsClosure(f[k])
    BY <2>3 DEF IsMerged
  <2>5. /\ IsClosure(f[k + 1])
        /\ f[k + 1].states \subseteq f[k].states \cup inner[k + 1].states
        /\ f[k].states \subseteq f[k + 1].states
        /\ ~ f[k + 1].violation => ~ f[k].violation /\ inner[k + 1].states \subseteq f[k + 1].states
    BY <2>2, <2>4, JoinedIsClosure
  <2>6. 1 .. (k + 1) = (1 .. k) \cup {k + 1}
    OBVIOUS
  <2> HIDE DEF T
  <2>7. \A s \in f[k + 1].states : s \in c.states \/ \E i \in 1 .. (k + 1) : s \in inner[i].states
    BY <2>3, <2>5, <2>6 DEF IsMerged
  <2>8. ~ f[k + 1].violation => \A i \in 1 .. (k + 1) : inner[i].states \subseteq f[k + 1].states
    BY <2>3, <2>5, <2>6 DEF IsMerged
  <2> QED
    BY <2>3, <2>5, <2>7, <2>8 DEF IsMerged
<1> HIDE DEF T
<1>4. \A k \in Nat : k \in T
  BY <1>2, <1>3, SetInduction
<1> QED
  BY <1>1, <1>4 DEF T

-----------------------------------------------------------------------------
(***************************************************************************)
(* The recursion, a depth at a time.                                       *)
(***************************************************************************)
CallsAt(deeper) ==
  [s \in NetStates |-> MergeAll(Single(s), Inner(s, deeper), Len(TransitionList))]

IsRecursion(f, n) ==
  f = [d \in 0 .. n |->
         [s \in NetStates |->
            IF d = 0 THEN Single(s)
            ELSE MergeAll(Single(s), Inner(s, f[d - 1]), Len(TransitionList))]]

Recursion == CHOOSE f : IsRecursion(f, MaxDepth)

LEMMA RecursionExists == \A n \in Nat : \E f : IsRecursion(f, n)
<1> DEFINE T == {n \in Nat : \E f : IsRecursion(f, n)}
           First == [s \in NetStates |-> Single(s)]
           Step(a) == CallsAt(a)
<1>0. ASSUME NEW n \in Nat, NEW f,
             f = [d \in 0 .. n |-> IF d = 0 THEN First ELSE Step(f[d - 1])]
      PROVE  IsRecursion(f, n)
  <2>1. \A d \in 0 .. n :
          (IF d = 0 THEN First ELSE Step(f[d - 1]))
            = [s \in NetStates |->
                 IF d = 0 THEN Single(s)
                 ELSE MergeAll(Single(s), Inner(s, f[d - 1]), Len(TransitionList))]
    BY DEF CallsAt
  <2> HIDE DEF First, Step
  <2> QED
    BY <1>0, <2>1 DEF IsRecursion
<1>1. 0 \in T
  <2>1. [d \in 0 .. 0 |-> First]
          = [d \in 0 .. 0 |-> IF d = 0 THEN First ELSE Step([k \in 0 .. 0 |-> First][d - 1])]
    OBVIOUS
  <2> QED
    BY <1>0, <2>1
<1>2. \A n \in Nat : n \in T => n + 1 \in T
  <2> SUFFICES ASSUME NEW n \in Nat, NEW f, IsRecursion(f, n)
               PROVE  \E g : IsRecursion(g, n + 1)
    OBVIOUS
  <2>1. \A d \in 0 .. n : f[d] = IF d = 0 THEN First ELSE Step(f[d - 1])
    BY DEF IsRecursion, CallsAt
  <2> HIDE DEF First, Step
  <2> DEFINE g == [d \in 0 .. (n + 1) |-> IF d = n + 1 THEN Step(f[n]) ELSE f[d]]
  <2>2. \A d \in 0 .. n : g[d] = f[d] /\ d \in 0 .. (n + 1)
    OBVIOUS
  <2>3. ASSUME NEW d \in 0 .. (n + 1)
        PROVE  g[d] = IF d = 0 THEN First ELSE Step(g[d - 1])
    <3>1. CASE d = n + 1
      BY <2>2, <3>1
    <3>2. CASE d \in 0 .. n
      <4>1. d = 0 \/ d - 1 \in 0 .. n
        BY <3>2
      <4> QED
        BY <2>1, <2>2, <3>2, <4>1
    <3> QED
      BY <3>1, <3>2
  <2>4. g = [d \in 0 .. (n + 1) |-> IF d = 0 THEN First ELSE Step(g[d - 1])]
    BY <2>3
  <2> HIDE DEF g
  <2> QED
    BY <1>0, <2>4
<1> HIDE DEF T
<1>3. \A n \in Nat : n \in T
  BY <1>1, <1>2, SetInduction
<1> QED
  BY <1>3 DEF T

\* CloseOver goes down to the last depth, and each depth rests on the one before.
LEMMA RecursionOf ==
  /\ \A s \in NetStates : Recursion[0][s] = Single(s)
  /\ \A d \in 1 .. MaxDepth : \A s \in NetStates :
       Recursion[d][s] = MergeAll(Single(s), Inner(s, Recursion[d - 1]), Len(TransitionList))
<1>1. IsRecursion(Recursion, MaxDepth)
  BY RecursionExists, DepthAssumption DEF Recursion
<1> DEFINE Calls(d, s) ==
             IF d = 0 THEN Single(s)
             ELSE MergeAll(Single(s), Inner(s, Recursion[d - 1]), Len(TransitionList))
<1>2. \A d \in 0 .. MaxDepth : \A s \in NetStates : Recursion[d][s] = Calls(d, s)
  <2>1. Recursion = [d \in 0 .. MaxDepth |-> [s \in NetStates |-> Calls(d, s)]]
    BY <1>1 DEF IsRecursion
  <2> HIDE DEF Calls
  <2> QED
    BY <2>1
<1>3. 0 \in 0 .. MaxDepth /\ \A d \in 1 .. MaxDepth : d \in 0 .. MaxDepth /\ d # 0
  BY DepthAssumption
<1> QED
  BY <1>2, <1>3

LEMMA ClosingOver ==
  ASSUME NEW S
  PROVE  CloseOver(S) = MergeAll(EmptyClosure,
                                 [i \in DOMAIN InOrder(S, StateLess) |->
                                    Recursion[MaxDepth][InOrder(S, StateLess)[i]]],
                                 Cardinality(S))
BY DEF CloseOver, Recursion, IsRecursion

\* The closures a call starts from.
LEMMA FirstClosures ==
  /\ IsClosure(EmptyClosure)
  /\ \A s \in NetStates : IsClosure(Single(s)) /\ Single(s).states = {s}
BY FS_EmptySet, FS_Singleton DEF IsClosure, EmptyClosure, Single

\* A broken bound ends a call at once.
LEMMA MergeAllStops ==
  ASSUME NEW c, NEW inner, NEW n \in Nat, c.violation
  PROVE  MergeAll(c, inner, n) = c
<1>1. PICK f : /\ MergeAll(c, inner, n) = f[n] /\ f[0] = c
               /\ \A k \in 1 .. n : f[k] = Joined(f[k - 1], inner[k])
  BY MergingOneByOne
<1> DEFINE T == {k \in Nat : k <= n => f[k] = c}
<1>2. 0 \in T
  BY <1>1
<1>3. \A k \in Nat : k \in T => k + 1 \in T
  <2> SUFFICES ASSUME NEW k \in Nat, k \in T, k + 1 <= n PROVE f[k + 1] = c
    OBVIOUS
  <2>1. k + 1 \in 1 .. n /\ (k + 1) - 1 = k /\ k <= n
    OBVIOUS
  <2>2. f[k + 1] = Joined(f[k], inner[k + 1]) /\ f[k] = c
    BY <1>1, <2>1
  <2> QED
    BY <2>2 DEF Joined
<1> HIDE DEF T
<1>4. \A k \in Nat : k \in T
  BY <1>2, <1>3, SetInduction
<1> QED
  BY <1>1, <1>4 DEF T

FiresAt(s, k) == TransitionList[k] \in Silent /\ IsFireable(TransitionList[k], s)

LEMMA InnerClosures ==
  ASSUME NEW s \in NetStates, NEW deeper, NEW k \in 1 .. Len(TransitionList)
  PROVE  /\ TransitionList[k] \in Transitions
         /\ FireTransition(TransitionList[k], s) \in NetStates
         /\ FiresAt(s, k)   => Inner(s, deeper)[k] = deeper[FireTransition(TransitionList[k], s)]
         /\ ~ FiresAt(s, k) => Inner(s, deeper)[k] = EmptyClosure
<1>1. k \in DOMAIN TransitionList /\ TransitionList[k] \in Transitions
  BY ListAssumption
<1> QED
  BY <1>1, FireType DEF Inner, FiresAt

LEMMA CallsAreClosures ==
  \A d \in Nat : d <= MaxDepth =>
    \A s \in NetStates :
      /\ IsClosure(Recursion[d][s])
      /\ s \in Recursion[d][s].states
      /\ d > 0 => IsMerged(Recursion[d][s], Single(s), Inner(s, Recursion[d - 1]), Len(TransitionList))
<1> DEFINE Fits(d) ==
             \A s \in NetStates :
               /\ IsClosure(Recursion[d][s])
               /\ s \in Recursion[d][s].states
               /\ d > 0 => IsMerged(Recursion[d][s], Single(s), Inner(s, Recursion[d - 1]),
                                    Len(TransitionList))
           T == {d \in Nat : d <= MaxDepth => Fits(d)}
<1>1. 0 \in T
  BY RecursionOf, FirstClosures
<1>2. \A d \in Nat : d \in T => d + 1 \in T
  <2> SUFFICES ASSUME NEW d \in Nat, d \in T, d + 1 <= MaxDepth PROVE Fits(d + 1)
    OBVIOUS
  <2>1. d + 1 \in 1 .. MaxDepth /\ (d + 1) - 1 = d /\ d <= MaxDepth /\ Len(TransitionList) \in Nat
    BY DepthAssumption, ListAssumption
  <2>2. \A r \in NetStates : IsClosure(Recursion[d][r])
    BY <2>1
  <2> SUFFICES ASSUME NEW s \in NetStates
               PROVE  /\ IsClosure(Recursion[d + 1][s])
                      /\ s \in Recursion[d + 1][s].states
                      /\ IsMerged(Recursion[d + 1][s], Single(s), Inner(s, Recursion[d]),
                                  Len(TransitionList))
    BY <2>1
  <2> HIDE DEF T, Fits
  <2>3. \A k \in 1 .. Len(TransitionList) : IsClosure(Inner(s, Recursion[d])[k])
    BY <2>2, InnerClosures, FirstClosures
  <2>4. Recursion[d + 1][s] = MergeAll(Single(s), Inner(s, Recursion[d]), Len(TransitionList))
    BY <2>1, RecursionOf
  <2>5. IsMerged(Recursion[d + 1][s], Single(s), Inner(s, Recursion[d]), Len(TransitionList))
    BY <2>1, <2>3, <2>4, FirstClosures, MergeAllMerges
  <2> QED
    BY <2>5, FirstClosures DEF IsMerged
<1> HIDE DEF T
<1>3. \A d \in Nat : d \in T
  BY <1>1, <1>2, SetInduction
<1> QED
  BY <1>3 DEF T

LEMMA UnboundedCall ==
  ASSUME NEW d \in 0 .. MaxDepth, NEW s \in NetStates, ~ IsBounded(s)
  PROVE  Recursion[d][s] = Single(s)
<1>1. Single(s).violation
  BY DEF Single
<1>2. Len(TransitionList) \in Nat /\ (d = 0 \/ d \in 1 .. MaxDepth)
  BY ListAssumption, DepthAssumption
<1> QED
  BY <1>1, <1>2, RecursionOf, MergeAllStops

\* A firing that a call goes on from leads one level further.
LEMMA FiringIsSilent ==
  ASSUME NEW s \in NetStates, IsBounded(s), NEW k \in 1 .. Len(TransitionList), FiresAt(s, k),
         NEW S, s \in S
  PROVE  FireTransition(TransitionList[k], s) \in SilentSuccessors(S)
<1> DEFINE x == <<s, TransitionList[k]>>
<1>1. x \in S \X Silent /\ x[1] = s /\ x[2] = TransitionList[k]
  BY DEF FiresAt
<1>2. IsFireable(x[2], x[1]) /\ IsBounded(x[1])
  BY <1>1 DEF FiresAt
<1> HIDE DEF x
<1> QED
  BY <1>1, <1>2 DEF SilentSuccessors

\* What a call finds is on the levels of the silent search, however few are left.
LEMMA CallStaysInReach ==
  ASSUME NEW S
  PROVE  \A d \in Nat : d <= MaxDepth =>
           \A n \in Nat : n + d <= MaxDepth =>
             \A s \in Levels(S)[n] \cap NetStates : Recursion[d][s].states \subseteq SilentReach(S)
<1> DEFINE Fits(d) ==
             \A n \in Nat : n + d <= MaxDepth =>
               \A s \in Levels(S)[n] \cap NetStates : Recursion[d][s].states \subseteq SilentReach(S)
           T == {d \in Nat : d <= MaxDepth => Fits(d)}
<1>0. ASSUME NEW n \in Nat, n <= MaxDepth
      PROVE  Levels(S)[n] \subseteq SilentReach(S)
  <2>1. n \in 0 .. MaxDepth
    BY <1>0, DepthAssumption
  <2> QED
    BY <2>1, LevelsRise
<1>1. 0 \in T
  BY <1>0, RecursionOf, FirstClosures
<1>2. \A d \in Nat : d \in T => d + 1 \in T
  <2> SUFFICES ASSUME NEW d \in Nat, d \in T, d + 1 <= MaxDepth PROVE Fits(d + 1)
    OBVIOUS
  <2> SUFFICES ASSUME NEW n \in Nat, n + (d + 1) <= MaxDepth,
                      NEW s \in Levels(S)[n] \cap NetStates,
                      NEW r \in Recursion[d + 1][s].states
               PROVE  r \in SilentReach(S)
    OBVIOUS
  <2>1. /\ n <= MaxDepth /\ n + 1 \in 1 .. MaxDepth /\ (n + 1) - 1 = n /\ n + 1 \in Nat
        /\ (n + 1) + d <= MaxDepth /\ d + 1 \in 0 .. MaxDepth /\ d <= MaxDepth /\ (d + 1) - 1 = d
        /\ d + 1 > 0 /\ d + 1 \in Nat
    BY DepthAssumption
  <2>2. s \in SilentReach(S)
    BY <1>0, <2>1
  <2>3. \A q \in Levels(S)[n + 1] \cap NetStates : Recursion[d][q].states \subseteq SilentReach(S)
    BY <2>1
  <2> HIDE DEF T
  <2>4. CASE ~ IsBounded(s)
    BY <2>1, <2>2, <2>4, UnboundedCall, FirstClosures
  <2>5. CASE IsBounded(s)
    <3>1. IsMerged(Recursion[d + 1][s], Single(s), Inner(s, Recursion[d]), Len(TransitionList))
      BY <2>1, CallsAreClosures
    <3>2. r = s \/ \E k \in 1 .. Len(TransitionList) : r \in Inner(s, Recursion[d])[k].states
      BY <3>1, FirstClosures DEF IsMerged
    <3>3. ASSUME NEW k \in 1 .. Len(TransitionList), r \in Inner(s, Recursion[d])[k].states
          PROVE  r \in SilentReach(S)
      <4>1. FiresAt(s, k)
        BY <3>3, InnerClosures DEF EmptyClosure
      <4> DEFINE q == FireTransition(TransitionList[k], s)
      <4>2. q \in NetStates /\ r \in Recursion[d][q].states
        BY <3>3, <4>1, InnerClosures
      <4>3. q \in SilentSuccessors(Levels(S)[n])
        BY <2>5, <4>1, FiringIsSilent
      <4>4. q \in Levels(S)[n + 1]
        BY <2>1, <4>3, LevelsOf DEF NextLevel
      <4> HIDE DEF q
      <4> QED
        BY <2>3, <4>2, <4>4
    <3> QED
      BY <2>2, <3>2, <3>3
  <2> QED
    BY <2>4, <2>5
<1> HIDE DEF T
<1>3. \A d \in Nat : d \in T
  BY <1>1, <1>2, SetInduction
<1> QED
  BY <1>3 DEF T

(***************************************************************************)
(* The recursion of the code has no bound.  MaxDepth stands for one only   *)
(* if no chain of silent firings is longer; a net without such a number    *)
(* lets the code recurse for ever.                                         *)
(***************************************************************************)
IsRank(rank) ==
  /\ rank \in [NetStates -> 0 .. MaxDepth]
  /\ \A s \in NetStates, t \in Silent :
       IsBounded(s) /\ IsFireable(t, s) => rank[FireTransition(t, s)] < rank[s]

DepthSuffices == \E rank : IsRank(rank)

\* No silent firing leads out of U.
StaysIn(U) == \A s \in U, t \in Silent : IsFireable(t, s) => FireTransition(t, s) \in U

LEMMA CallStaysIn ==
  ASSUME NEW rank, IsRank(rank)
  PROVE  \A d \in Nat : d <= MaxDepth =>
           \A s \in NetStates : rank[s] <= d /\ ~ Recursion[d][s].violation
                                  => StaysIn(Recursion[d][s].states)
<1> DEFINE Fits(d) == \A s \in NetStates : rank[s] <= d /\ ~ Recursion[d][s].violation
                                             => StaysIn(Recursion[d][s].states)
           T == {d \in Nat : d <= MaxDepth => Fits(d)}
<1>0. \A s \in NetStates : rank[s] \in Nat
  BY DepthAssumption DEF IsRank
<1>1. 0 \in T
  <2> SUFFICES ASSUME NEW s \in NetStates, rank[s] <= 0, ~ Recursion[0][s].violation,
                      NEW t \in Silent, IsFireable(t, s)
               PROVE  FALSE
    BY RecursionOf, FirstClosures DEF StaysIn
  <2>1. IsBounded(s) /\ t \in Transitions
    BY RecursionOf, FirstClosures DEF IsClosure, Silent
  <2>2. rank[FireTransition(t, s)] < rank[s] /\ rank[FireTransition(t, s)] \in Nat
    BY <1>0, <2>1, FireType DEF IsRank
  <2> QED
    BY <1>0, <2>2
<1>2. \A d \in Nat : d \in T => d + 1 \in T
  <2> SUFFICES ASSUME NEW d \in Nat, d \in T, d + 1 <= MaxDepth PROVE Fits(d + 1)
    OBVIOUS
  <2> DEFINE c(s) == Recursion[d + 1][s]
  <2> SUFFICES ASSUME NEW s \in NetStates, rank[s] <= d + 1, ~ c(s).violation,
                      NEW r \in c(s).states, NEW t \in Silent, IsFireable(t, r)
               PROVE  FireTransition(t, r) \in c(s).states
    BY DEF StaysIn
  <2>1. d + 1 \in Nat /\ d + 1 > 0 /\ (d + 1) - 1 = d /\ d <= MaxDepth
    BY DepthAssumption
  <2>2. /\ IsClosure(c(s)) /\ s \in c(s).states
        /\ IsMerged(c(s), Single(s), Inner(s, Recursion[d]), Len(TransitionList))
    BY <2>1, CallsAreClosures
  <2>3. \A q \in c(s).states : IsBounded(q) /\ q \in NetStates
    BY <2>2 DEF IsClosure
  <2>4. \A k \in 1 .. Len(TransitionList) : Inner(s, Recursion[d])[k].states \subseteq c(s).states
    BY <2>2 DEF IsMerged
  <2>5. r = s \/ \E k \in 1 .. Len(TransitionList) : r \in Inner(s, Recursion[d])[k].states
    BY <2>2, FirstClosures DEF IsMerged
  <2>6. Fits(d)
    BY <2>1
  <2>7. \A q \in NetStates : IsClosure(Recursion[d][q]) /\ q \in Recursion[d][q].states
    BY <2>1, CallsAreClosures
  <2> HIDE DEF T, c
  <2>8. CASE r = s
    <3>1. PICK k \in 1 .. Len(TransitionList) : TransitionList[k] = t
      BY ListAssumption DEF Silent
    <3>2. Inner(s, Recursion[d])[k] = Recursion[d][FireTransition(t, s)]
          /\ FireTransition(t, s) \in NetStates
      BY <2>8, <3>1, InnerClosures DEF FiresAt
    <3> QED
      BY <2>4, <2>7, <2>8, <3>2
  <2>9. ASSUME NEW k \in 1 .. Len(TransitionList), r \in Inner(s, Recursion[d])[k].states
        PROVE  FireTransition(t, r) \in c(s).states
    <3>1. FiresAt(s, k)
      BY <2>9, InnerClosures DEF EmptyClosure
    <3> DEFINE q == FireTransition(TransitionList[k], s)
    <3>2. q \in NetStates /\ r \in Recursion[d][q].states
          /\ Recursion[d][q].states \subseteq c(s).states
      BY <2>4, <2>9, <3>1, InnerClosures
    <3>3. rank[q] < rank[s] /\ rank[q] \in Nat /\ rank[s] \in Nat
      BY <1>0, <2>2, <2>3, <3>1, <3>2 DEF IsRank, FiresAt
    <3> HIDE DEF q
    <3>4. rank[q] <= d
      BY <3>3
    <3>5. ~ Recursion[d][q].violation
      BY <2>3, <2>7, <3>2 DEF IsClosure
    <3>6. StaysIn(Recursion[d][q].states)
      BY <2>6, <3>2, <3>4, <3>5
    <3> QED
      BY <3>2, <3>6 DEF StaysIn
  <2> QED
    BY <2>5, <2>8, <2>9
<1> HIDE DEF T
<1>3. \A d \in Nat : d \in T
  BY <1>1, <1>2, SetInduction
<1> QED
  BY <1>3 DEF T

-----------------------------------------------------------------------------
(***************************************************************************)
(* The closure of a set of net states.                                     *)
(***************************************************************************)
LEMMA ClosureIsMerged ==
  ASSUME NEW S \in SUBSET NetStates, IsFiniteSet(S)
  PROVE  \E inner : /\ IsMerged(CloseOver(S), EmptyClosure, inner, Cardinality(S))
                    /\ \A k \in 1 .. Cardinality(S) :
                         inner[k] = Recursion[MaxDepth][InOrder(S, StateLess)[k]]
<1> DEFINE inner == [i \in DOMAIN InOrder(S, StateLess) |->
                       Recursion[MaxDepth][InOrder(S, StateLess)[i]]]
<1>1. Cardinality(S) \in Nat
  BY FS_CardinalityType
<1>2. \A k \in 1 .. Cardinality(S) :
        inner[k] = Recursion[MaxDepth][InOrder(S, StateLess)[k]] /\ InOrder(S, StateLess)[k] \in S
  BY SortingKeepsAll
<1>3. CloseOver(S) = MergeAll(EmptyClosure, inner, Cardinality(S))
  BY ClosingOver
<1> HIDE DEF inner
<1>4. MaxDepth <= MaxDepth /\ \A s \in NetStates : IsClosure(Recursion[MaxDepth][s])
  BY DepthAssumption, CallsAreClosures
<1>5. \A k \in 1 .. Cardinality(S) : IsClosure(inner[k])
  BY <1>2, <1>4
<1>6. IsMerged(CloseOver(S), EmptyClosure, inner, Cardinality(S))
  BY <1>1, <1>3, <1>5, FirstClosures, MergeAllMerges
<1> QED
  BY <1>2, <1>6

\* It is a closure, and without a broken bound it has all of the set and more.
LEMMA ClosureHasSeeds ==
  ASSUME NEW S \in SUBSET NetStates, IsFiniteSet(S)
  PROVE  /\ IsClosure(CloseOver(S))
         /\ ~ CloseOver(S).violation =>
              /\ S \subseteq CloseOver(S).states
              /\ \A s \in S : Recursion[MaxDepth][s].states \subseteq CloseOver(S).states
         /\ \A r \in CloseOver(S).states : \E s \in S : r \in Recursion[MaxDepth][s].states
<1>1. PICK inner : /\ IsMerged(CloseOver(S), EmptyClosure, inner, Cardinality(S))
                   /\ \A k \in 1 .. Cardinality(S) :
                        inner[k] = Recursion[MaxDepth][InOrder(S, StateLess)[k]]
  BY ClosureIsMerged
<1>2. \A s \in NetStates : s \in Recursion[MaxDepth][s].states
  BY DepthAssumption, CallsAreClosures
<1>3. ~ CloseOver(S).violation =>
        \A s \in S : Recursion[MaxDepth][s].states \subseteq CloseOver(S).states
  BY <1>1, SortingKeepsAll DEF IsMerged
<1>4. \A r \in CloseOver(S).states : \E s \in S : r \in Recursion[MaxDepth][s].states
  BY <1>1, SortingKeepsAll DEF IsMerged, EmptyClosure
<1> QED
  BY <1>1, <1>2, <1>3, <1>4 DEF IsMerged

\* It has nothing but what is silently reachable.
LEMMA ClosureInReach ==
  ASSUME NEW S \in SUBSET NetStates, IsFiniteSet(S), NEW U, S \subseteq U
  PROVE  CloseOver(S).states \subseteq SilentReach(U)
<1>1. MaxDepth \in Nat /\ MaxDepth <= MaxDepth /\ 0 \in Nat /\ 0 + MaxDepth <= MaxDepth
  BY DepthAssumption
<1>2. \A s \in Levels(U)[0] \cap NetStates : Recursion[MaxDepth][s].states \subseteq SilentReach(U)
  BY <1>1, CallStaysInReach
<1>3. Levels(U)[0] = U
  BY LevelsOf
<1> QED
  BY <1>2, <1>3, ClosureHasSeeds

\* And without a broken bound no silent firing leads out of it.
LEMMA ClosureStaysIn ==
  ASSUME DepthSuffices, NEW S \in SUBSET NetStates, IsFiniteSet(S), ~ CloseOver(S).violation
  PROVE  StaysIn(CloseOver(S).states)
<1>1. PICK rank : IsRank(rank)
  BY DEF DepthSuffices
<1>2. MaxDepth \in Nat /\ MaxDepth <= MaxDepth /\ \A s \in NetStates : rank[s] <= MaxDepth
  BY <1>1, DepthAssumption DEF IsRank
<1>3. \A r \in CloseOver(S).states : IsBounded(r)
  BY ClosureHasSeeds DEF IsClosure
<1>4. ASSUME NEW s \in S PROVE StaysIn(Recursion[MaxDepth][s].states)
  <2>1. Recursion[MaxDepth][s].states \subseteq CloseOver(S).states
    BY ClosureHasSeeds
  <2>2. IsClosure(Recursion[MaxDepth][s])
    BY <1>2, CallsAreClosures
  <2>3. ~ Recursion[MaxDepth][s].violation
    BY <1>3, <2>1, <2>2 DEF IsClosure
  <2> QED
    BY <1>1, <1>2, <2>3, CallStaysIn
<1> QED
  BY <1>4, ClosureHasSeeds DEF StaysIn

-----------------------------------------------------------------------------
(***************************************************************************)
(* Order.  Searching in list order, CloseOver stops at MaxDepth, where the *)
(* search that has no order would have to wait; so the one can only be     *)
(* compared with the other once that has returned.  Then no chain of       *)
(* silent firings from a seed is longer than MaxDepth, and there is        *)
(* nothing at which CloseOver would have had to stop.                      *)
(***************************************************************************)
\* The states from which at most n silent firings can follow one another.
IsQuiet(f, n) ==
  f = [k \in 0 .. n |->
         {s \in NetStates : \A t : Fires(s, t) => k > 0 /\ FireTransition(t, s) \in f[k - 1]}]

Quiet == CHOOSE f : IsQuiet(f, MaxDepth)

Quietens(s, k) == \A t : Fires(s, t) => k > 0 /\ FireTransition(t, s) \in Quiet[k - 1]

LEMMA QuietExists == \A n \in Nat : \E f : IsQuiet(f, n)
<1> DEFINE T == {n \in Nat : \E f : IsQuiet(f, n)}
<1>1. 0 \in T
  <2> DEFINE g == [k \in 0 .. 0 |-> {s \in NetStates : \A t : ~ Fires(s, t)}]
  <2>1. IsQuiet(g, 0)
    <3>1. \A k \in 0 .. 0 :
            {s \in NetStates : \A t : ~ Fires(s, t)}
              = {s \in NetStates : \A t : Fires(s, t) => k > 0 /\ FireTransition(t, s) \in g[k - 1]}
      OBVIOUS
    <3> QED
      BY <3>1 DEF IsQuiet
  <2> HIDE DEF g
  <2> QED
    BY <2>1
<1>2. \A n \in Nat : n \in T => n + 1 \in T
  <2> SUFFICES ASSUME NEW n \in Nat, NEW f, IsQuiet(f, n)
               PROVE  \E g : IsQuiet(g, n + 1)
    OBVIOUS
  <2> DEFINE Of(h, k) == {s \in NetStates : \A t : Fires(s, t) => k > 0 /\ FireTransition(t, s) \in h[k - 1]}
             g == [k \in 0 .. (n + 1) |-> IF k = n + 1 THEN Of(f, k) ELSE f[k]]
  <2>1. \A k \in 0 .. n : g[k] = f[k] /\ k \in 0 .. (n + 1)
    OBVIOUS
  <2>2. f = [k \in 0 .. n |-> Of(f, k)]
    BY DEF IsQuiet
  <2>3. \A k \in 0 .. n : f[k] = Of(f, k)
    <3> HIDE DEF Of
    <3> QED
      BY <2>2
  <2>4. ASSUME NEW k \in 0 .. (n + 1)
        PROVE  g[k] = Of(g, k)
    <3>1. k > 0 => g[k - 1] = f[k - 1]
      BY <2>1
    <3>2. Of(g, k) = Of(f, k)
      <4> HIDE DEF g
      <4> QED
        BY <3>1
    <3>3. g[k] = Of(f, k)
      <4> HIDE DEF Of
      <4> QED
        BY <2>1, <2>3
    <3> QED
      BY <3>2, <3>3
  <2>5. g = [k \in 0 .. (n + 1) |-> Of(g, k)]
    <3>1. g = [k \in 0 .. (n + 1) |-> g[k]]
      OBVIOUS
    <3> HIDE DEF g, Of
    <3> QED
      BY <2>4, <3>1
  <2>6. IsQuiet(g, n + 1)
    <3> HIDE DEF g
    <3> QED
      BY <2>5 DEF IsQuiet
  <2> HIDE DEF g
  <2> QED
    BY <2>6
<1> HIDE DEF T
<1>3. \A n \in Nat : n \in T
  BY <1>1, <1>2, SetInduction
<1> QED
  BY <1>3 DEF T

LEMMA QuietOf ==
  \A k \in 0 .. MaxDepth : \A s \in NetStates : s \in Quiet[k] <=> Quietens(s, k)
<1> DEFINE Of(k) == {s \in NetStates : \A t : Fires(s, t) => k > 0 /\ FireTransition(t, s) \in Quiet[k - 1]}
<1>1. IsQuiet(Quiet, MaxDepth)
  BY QuietExists, DepthAssumption DEF Quiet
<1>2. Quiet = [k \in 0 .. MaxDepth |-> Of(k)]
  BY <1>1 DEF IsQuiet
<1>3. \A k \in 0 .. MaxDepth : Quiet[k] = Of(k)
  <2> HIDE DEF Of
  <2> QED
    BY <1>2
<1> QED
  BY <1>3 DEF Quietens

\* What is silently reached from net states are net states.
LEMMA ReachInNet ==
  ASSUME NEW S \in SUBSET NetStates
  PROVE  SilentReach(S) \subseteq NetStates
<1>1. IsClosedSet(NetStates)
  BY FireType DEF IsClosedSet, Fires, Silent
<1> QED
  BY <1>1, ClosedHasAll

-----------------------------------------------------------------------------
(***************************************************************************)
(* A call that has returned without a broken bound had depth enough.       *)
(***************************************************************************)
Depth(st, i) == MaxDepth - (Len(st) - i)

QuietAt(st, i) ==
  ~ st[i].closure.violation =>
    \A t : Fires(st[i].state, t) /\ t \notin st[i].left =>
      \/ i > 1 /\ FireTransition(t, st[i].state) = st[i - 1].state
      \/ Depth(st, i) > 0 /\ FireTransition(t, st[i].state) \in Quiet[Depth(st, i) - 1]

DepthInv ==
  /\ LoopInv
  /\ seeds \in SeedSets
  /\ \A i \in 1 .. Len(calls) : QuietAt(calls, i)
  /\ ~ closure.violation => Searched \subseteq Quiet[MaxDepth]

\* A call with nothing left to do is about a quiet state.
LEMMA ReturnedIsQuiet ==
  ASSUME NEW st, QuietAt(st, 1), st[1].left = {}, ~ st[1].closure.violation,
         st[1].state \in NetStates, Depth(st, 1) \in 0 .. MaxDepth
  PROVE  st[1].state \in Quiet[Depth(st, 1)]
<1>1. Quietens(st[1].state, Depth(st, 1))
  BY DEF QuietAt, Quietens
<1> QED
  BY <1>1, QuietOf

LEMMA InitDepthInv == BuildInit => DepthInv
<1> SUFFICES ASSUME BuildInit PROVE DepthInv
  OBVIOUS
<1>1. LoopInv
  BY InitLoopInv
<1>2. calls = <<>> /\ seeds \in SeedSets /\ Searched = {}
  BY DEF BuildInit, Searched
<1> QED
  BY <1>1, <1>2 DEF DepthInv

\* A new call has all its firings to do.
LEMMA FreshIsQuiet ==
  ASSUME NEW st, NEW s, st[1] = Call(s)
  PROVE  QuietAt(st, 1)
<1>1. st[1].state = s /\ \A t : Fires(s, t) => t \in st[1].left
  BY DEF Call, Fires, FireableTransitions, Silent
<1> QED
  BY <1>1 DEF QuietAt

LEMMA NextSeedDepthInv ==
  ASSUME DepthInv, NextSeed
  PROVE  DepthInv'
<1>1. PICK s \in pending : pending' = pending \ {s} /\ calls' = <<Call(s)>>
  BY DEF NextSeed
<1>2. calls = <<>> /\ UNCHANGED <<seeds, closure>>
  BY DEF NextSeed
<1>3. LoopInv'
  BY NextSeedLoopInv DEF DepthInv
<1>4. s \in seeds /\ Call(s).state = s
  BY <1>1 DEF DepthInv, LoopInv, BuildInv, SeedsKept, Call
<1> DEFINE new == <<Call(s)>>
<1>5. Len(new) = 1 /\ new[1] = Call(s) /\ new # <<>>
  OBVIOUS
<1> HIDE DEF new
<1>6. \A i \in 1 .. Len(new) : QuietAt(new, i)
  <2>1. \A i \in 1 .. Len(new) : i = 1
    BY <1>5
  <2> QED
    BY <2>1, <1>5, FreshIsQuiet
<1>7. Searched' = Searched
  BY <1>1, <1>2, <1>4, <1>5 DEF Searched, new
<1> QED
  BY <1>1, <1>2, <1>3, <1>6, <1>7 DEF DepthInv, new

LEMMA DescendDepthInv ==
  ASSUME DepthInv, Descend
  PROVE  DepthInv'
<1> DEFINE top == calls[1]
<1>1. calls # <<>> /\ Head(calls) = top /\ 1 \in 1 .. Len(calls) /\ top \in CallsIn(seeds)
      /\ calls \in Seq(CallsIn(seeds))
  BY DEF Descend, DepthInv, LoopInv, BuildInv, StackFits
<1>2. PICK t \in top.left :
        calls' = <<Call(FireTransition(t, top.state)), [top EXCEPT !.left = @ \ {t}]>> \o Tail(calls)
  BY <1>1 DEF Descend
<1>3. UNCHANGED <<seeds, pending, closure, done>>
  BY <1>1 DEF Descend
<1>4. LoopInv'
  BY DescendLoopInv DEF DepthInv
<1> DEFINE r == FireTransition(t, top.state)
           low == [top EXCEPT !.left = @ \ {t}]
           C == {Call(r), low} \cup CallsIn(seeds)
           new == <<Call(r), low>> \o Tail(calls)
<1>5. low.state = top.state /\ low.closure = top.closure /\ low.left = top.left \ {t}
  BY <1>1 DEF CallsIn
<1>6. Call(r).state = r
  BY DEF Call
<1>7. calls \in Seq(C) /\ Call(r) \in C /\ low \in C
  BY <1>1
<1> HIDE DEF top, low, r, C
<1>8. /\ new \in Seq(C) /\ Len(new) = Len(calls) + 1
      /\ new[1] = Call(r) /\ new[2] = low
      /\ \A i \in 3 .. Len(new) : new[i] = calls[i - 1]
  BY <1>1, <1>7, PushedStack
<1> HIDE DEF new
<1>9. QuietAt(new, 1)
  BY <1>8, FreshIsQuiet
<1>10. QuietAt(new, 2)
  <2>1. QuietAt(calls, 1)
    BY <1>1 DEF DepthInv
  <2>2. Depth(new, 2) = Depth(calls, 1)
    BY <1>1, <1>8, DepthAssumption DEF Depth
  <2>3. FireTransition(t, top.state) = new[2 - 1].state
    BY <1>6, <1>8 DEF r
  <2> QED
    BY <2>1, <2>2, <2>3, <1>5, <1>8 DEF QuietAt, top
<1>11. ASSUME NEW i \in 3 .. Len(new) PROVE QuietAt(new, i)
  <2>1. i - 1 \in 1 .. Len(calls) /\ new[i] = calls[i - 1] /\ i > 1 /\ i - 1 > 1
    BY <1>1, <1>8
  <2>2. QuietAt(calls, i - 1)
    BY <2>1 DEF DepthInv
  <2>3. new[i - 1].state = calls[(i - 1) - 1].state
    <3>1. CASE i = 3
      BY <3>1, <1>5, <1>8 DEF top
    <3>2. CASE i # 3
      <4>1. i - 1 \in 3 .. Len(new)
        BY <3>2, <1>1, <1>8
      <4> QED
        BY <4>1, <1>8
    <3> QED
      BY <3>1, <3>2
  <2>4. Depth(new, i) = Depth(calls, i - 1)
    BY <1>1, <1>8, DepthAssumption DEF Depth
  <2> QED
    BY <2>1, <2>2, <2>3, <2>4 DEF QuietAt
<1>12. \A i \in 1 .. Len(new) : QuietAt(new, i)
  <2>1. \A i \in 1 .. Len(new) : i = 1 \/ i = 2 \/ i \in 3 .. Len(new)
    BY <1>1, <1>8
  <2> QED
    BY <2>1, <1>9, <1>10, <1>11
<1>13. calls' = new
  BY <1>2 DEF new, low, r, top
<1>14. new # <<>> /\ new[Len(new)].state = calls[Len(calls)].state
  <2>1. CASE Len(calls) = 1
    <3>1. Len(new) = 2 /\ new # <<>>
      BY <2>1, <1>8
    <3> QED
      BY <2>1, <3>1, <1>5, <1>8 DEF top
  <2>2. CASE Len(calls) # 1
    <3>1. Len(calls) \in Nat /\ Len(calls) >= 2
      BY <2>2, <1>1, CallsOnStack
    <3>2. Len(new) \in 3 .. Len(new) /\ Len(new) - 1 = Len(calls)
      BY <3>1, <1>8
    <3>3. new # <<>>
      BY <3>1, <1>8
    <3> QED
      BY <3>2, <3>3, <1>8
  <2> QED
    BY <2>1, <2>2
<1>15. Searched' = Searched
  BY <1>1, <1>3, <1>13, <1>14 DEF Searched
<1> QED
  BY <1>3, <1>4, <1>12, <1>13, <1>15 DEF DepthInv

\* The call that comes back is about a quiet state.
LEMMA TopIsQuiet ==
  ASSUME DepthInv, ReturnClosure
  PROVE  /\ calls # <<>> /\ calls \in Seq(CallsIn(seeds)) /\ Head(calls) = calls[1]
         /\ calls[1].left = {} \/ calls[1].closure.violation
         /\ Depth(calls, 1) \in 0 .. MaxDepth
         /\ ~ calls[1].closure.violation => calls[1].state \in Quiet[Depth(calls, 1)]
<1>1. calls # <<>> /\ calls \in Seq(CallsIn(seeds)) /\ Head(calls) = calls[1]
      /\ 1 \in 1 .. Len(calls)
  BY DEF ReturnClosure, DepthInv, LoopInv, BuildInv, StackFits
<1>2. calls[1].left = {} \/ calls[1].closure.violation
  BY <1>1 DEF ReturnClosure
<1>3. CallFits(seeds, calls, 1) /\ calls[1] \in CallsIn(seeds)
  BY <1>1 DEF DepthInv, LoopInv, BuildInv, StackFits
<1>4. Depth(calls, 1) \in 0 .. MaxDepth
  BY <1>1, <1>3, DepthAssumption DEF CallFits, Depth
<1>5. calls[1].state \in NetStates
  <2>1. seeds \in SUBSET NetStates
    BY SeedAssumption DEF DepthInv
  <2> QED
    BY <2>1, <1>3, ReachInNet DEF CallsIn
<1>6. QuietAt(calls, 1)
  BY <1>1 DEF DepthInv
<1> QED
  BY <1>1, <1>2, <1>4, <1>5, <1>6, ReturnedIsQuiet

LEMMA ReturnToSeedDepthInv ==
  ASSUME DepthInv, ReturnClosure, Tail(calls) = <<>>
  PROVE  DepthInv'
<1> DEFINE c == calls[1].closure
           q == calls[1].state
<1>1. calls # <<>> /\ calls \in Seq(CallsIn(seeds)) /\ Head(calls) = calls[1]
  BY TopIsQuiet
<1>2. closure' = Merge(closure, c) /\ calls' = <<>> /\ UNCHANGED <<seeds, pending, done>>
  BY <1>1 DEF ReturnClosure
<1>3. LoopInv'
  BY ReturnToSeedLoopInv DEF DepthInv
<1>4. Len(calls) = 1
  BY <1>1, CallsOnStack
<1>5. Searched' \subseteq Searched \cup {q}
  BY <1>1, <1>2, <1>4 DEF Searched
<1>6. closure'.violation = (closure.violation \/ c.violation)
  BY <1>2 DEF Merge
<1>7. Depth(calls, 1) = MaxDepth
  BY <1>4, DepthAssumption DEF Depth
<1>8. ~ c.violation => q \in Quiet[MaxDepth]
  BY <1>7, TopIsQuiet
<1>9. ~ closure'.violation => Searched' \subseteq Quiet[MaxDepth]
  BY <1>5, <1>6, <1>8 DEF DepthInv
<1>10. seeds' \in SeedSets /\ \A i \in 1 .. Len(calls') : FALSE
  BY <1>2 DEF DepthInv
<1> QED
  BY <1>3, <1>9, <1>10 DEF DepthInv

LEMMA ReturnToCallerDepthInv ==
  ASSUME DepthInv, ReturnClosure, Tail(calls) # <<>>
  PROVE  DepthInv'
<1> DEFINE c == calls[1].closure
           low == [calls[2] EXCEPT !.closure = Merge(@, c)]
           C == {low} \cup CallsIn(seeds)
           new == <<low>> \o Tail(Tail(calls))
<1>1. calls # <<>> /\ calls \in Seq(CallsIn(seeds)) /\ Head(calls) = calls[1]
      /\ Head(Tail(calls)) = calls[2] /\ 2 \in 1 .. Len(calls) /\ calls[2] \in CallsIn(seeds)
  BY TopIsQuiet DEF DepthInv, LoopInv, BuildInv, StackFits
<1>2. calls' = new /\ UNCHANGED closure /\ UNCHANGED <<seeds, pending, done>>
  BY <1>1 DEF ReturnClosure
<1>3. LoopInv'
  BY ReturnToCallerLoopInv DEF DepthInv
<1>4. low.state = calls[2].state /\ low.left = calls[2].left
      /\ low.closure.violation = (calls[2].closure.violation \/ c.violation)
  BY <1>1 DEF CallsIn, Closures, Merge
<1>5. calls \in Seq(C) /\ low \in C
  BY <1>1
<1> HIDE DEF low, C
<1>6. /\ new \in Seq(C) /\ Len(new) = Len(calls) - 1
      /\ new[1] = low
      /\ \A i \in 2 .. Len(new) : new[i] = calls[i + 1]
      /\ Len(calls) >= 2
  BY <1>1, <1>5, PoppedStack
<1> HIDE DEF new
<1>7. QuietAt(new, 1)
  <2>1. QuietAt(calls, 2)
    BY <1>1 DEF DepthInv
  <2>2. Depth(new, 1) = Depth(calls, 2) /\ Depth(calls, 2) - 1 = Depth(calls, 1)
        /\ Depth(calls, 1) \in 0 .. MaxDepth /\ Depth(calls, 2) \in Int
    BY <1>1, <1>6, DepthAssumption, TopIsQuiet DEF Depth
  <2>3. ~ c.violation => calls[2 - 1].state \in Quiet[Depth(calls, 1)]
    BY TopIsQuiet
  <2>4. Depth(calls, 2) > 0
    BY <2>2
  <2> QED
    BY <2>1, <2>2, <2>3, <2>4, <1>4, <1>6 DEF QuietAt
<1>8. ASSUME NEW i \in 2 .. Len(new) PROVE QuietAt(new, i)
  <2>1. i + 1 \in 1 .. Len(calls) /\ new[i] = calls[i + 1] /\ (i + 1) - 1 = i /\ i > 1 /\ i + 1 > 1
    BY <1>1, <1>6
  <2>2. QuietAt(calls, i + 1)
    BY <2>1 DEF DepthInv
  <2>3. new[i - 1].state = calls[i].state
    <3>1. CASE i = 2
      BY <3>1, <1>4, <1>6
    <3>2. CASE i # 2
      <4>1. i - 1 \in 2 .. Len(new) /\ (i - 1) + 1 = i
        BY <3>2, <1>1, <1>6
      <4> QED
        BY <4>1, <1>6
    <3> QED
      BY <3>1, <3>2
  <2>4. Depth(new, i) = Depth(calls, i + 1)
    BY <1>1, <1>6, DepthAssumption DEF Depth
  <2> QED
    BY <2>1, <2>2, <2>3, <2>4 DEF QuietAt
<1>9. \A i \in 1 .. Len(new) : QuietAt(new, i)
  <2>1. \A i \in 1 .. Len(new) : i = 1 \/ i \in 2 .. Len(new)
    BY <1>1, <1>6
  <2> QED
    BY <2>1, <1>7, <1>8
<1>10. new # <<>> /\ new[Len(new)].state = calls[Len(calls)].state
  <2>1. CASE Len(calls) = 2
    <3>1. Len(new) = 1
      BY <2>1, <1>6
    <3>2. new # <<>>
      BY <3>1, <1>6
    <3> QED
      BY <2>1, <3>1, <3>2, <1>4, <1>6
  <2>2. CASE Len(calls) # 2
    <3>1. Len(new) \in 2 .. Len(new) /\ Len(new) + 1 = Len(calls)
      BY <2>2, <1>1, <1>6
    <3> QED
      BY <3>1, <1>6
  <2> QED
    BY <2>1, <2>2
<1>11. Searched' = Searched
  BY <1>1, <1>2, <1>10 DEF Searched
<1> QED
  BY <1>2, <1>3, <1>9, <1>11 DEF DepthInv

LEMMA NextDepthInv ==
  ASSUME DepthInv, [BuildNext]_buildVars
  PROVE  DepthInv'
<1>1. CASE Finish \/ UNCHANGED buildVars
  <2>1. UNCHANGED <<seeds, pending, calls, closure>>
    BY <1>1 DEF Finish, buildVars
  <2>2. LoopInv'
    BY NextLoopInv DEF DepthInv
  <2>3. Searched' = Searched
    BY <2>1 DEF Searched
  <2> QED
    BY <2>1, <2>2, <2>3 DEF DepthInv
<1> QED
  BY <1>1, NextSeedDepthInv, DescendDepthInv, ReturnToSeedDepthInv, ReturnToCallerDepthInv DEF BuildNext

-----------------------------------------------------------------------------
(***************************************************************************)
(* What CloseOver finds, as far as MaxDepth goes.                          *)
(***************************************************************************)
\* Without a broken bound it finds all that is silently reachable.
LEMMA ClosureReachesAll ==
  ASSUME NEW S \in SUBSET NetStates, IsFiniteSet(S), ~ CloseOver(S).violation
  PROVE  SilentReach(S) \subseteq CloseOver(S).states
<1> DEFINE K == CloseOver(S).states
           Searches(x, d) == x \in NetStates /\ Recursion[d][x].states \subseteq K
           T == {n \in Nat : n <= MaxDepth =>
                   \A x \in Levels(S)[n] :
                     \E d \in 0 .. MaxDepth : d >= MaxDepth - n /\ Searches(x, d)}
<1>1. \A x \in K : IsBounded(x)
  BY ClosureHasSeeds DEF IsClosure
<1>2. 0 \in T
  <2>1. ASSUME NEW x \in S PROVE Searches(x, MaxDepth)
    BY ClosureHasSeeds
  <2>2. Levels(S)[0] = S /\ MaxDepth \in 0 .. MaxDepth /\ MaxDepth >= MaxDepth - 0
    BY LevelsOf, DepthAssumption
  <2> HIDE DEF Searches
  <2> QED
    BY <2>1, <2>2
<1>3. \A n \in Nat : n \in T => n + 1 \in T
  <2> SUFFICES ASSUME NEW n \in Nat, n \in T, n + 1 <= MaxDepth, NEW x \in Levels(S)[n + 1]
               PROVE  \E d \in 0 .. MaxDepth : d >= MaxDepth - (n + 1) /\ Searches(x, d)
    OBVIOUS
  <2>1. n + 1 \in 1 .. MaxDepth /\ (n + 1) - 1 = n /\ n <= MaxDepth
    BY DepthAssumption
  <2>2. \A y \in Levels(S)[n] : \E d \in 0 .. MaxDepth : d >= MaxDepth - n /\ Searches(y, d)
    BY <2>1
  <2>3. Levels(S)[n + 1] = Levels(S)[n] \cup SilentSuccessors(Levels(S)[n])
    BY <2>1, LevelsOf DEF NextLevel
  <2> HIDE DEF T
  <2>4. CASE x \in Levels(S)[n]
    <3>1. PICK d \in 0 .. MaxDepth : d >= MaxDepth - n /\ Searches(x, d)
      BY <2>2, <2>4
    <3>2. d >= MaxDepth - (n + 1)
      BY <3>1, DepthAssumption
    <3> QED
      BY <3>1, <3>2
  <2>5. CASE x \in SilentSuccessors(Levels(S)[n])
    <3>1. PICK y \in Levels(S)[n], t \in Silent : IsBounded(y) /\ IsFireable(t, y) /\ x = FireTransition(t, y)
      BY <2>5 DEF SilentSuccessors
    <3>2. PICK d \in 0 .. MaxDepth : d >= MaxDepth - n /\ Searches(y, d)
      BY <2>2, <3>1
    <3>3. d \in 1 .. MaxDepth /\ d - 1 \in 0 .. MaxDepth /\ d - 1 >= MaxDepth - (n + 1) /\ d > 0
          /\ d \in Nat /\ d <= MaxDepth
      BY <2>1, <3>2, DepthAssumption
    <3>4. PICK k \in 1 .. Len(TransitionList) : TransitionList[k] = t
      BY ListAssumption DEF Silent
    <3>5. /\ IsClosure(Recursion[d][y])
          /\ IsMerged(Recursion[d][y], Single(y), Inner(y, Recursion[d - 1]), Len(TransitionList))
      BY <3>2, <3>3, CallsAreClosures
    <3>6. ~ Recursion[d][y].violation
      BY <1>1, <3>2, <3>5 DEF IsClosure
    <3>7. Inner(y, Recursion[d - 1])[k].states \subseteq K
      BY <3>2, <3>5, <3>6 DEF IsMerged
    <3>8. x \in NetStates /\ Inner(y, Recursion[d - 1])[k] = Recursion[d - 1][x]
      BY <3>1, <3>2, <3>4, InnerClosures DEF FiresAt
    <3> QED
      BY <3>3, <3>7, <3>8
  <2> QED
    BY <2>3, <2>4, <2>5
<1> HIDE DEF T
<1>4. \A n \in Nat : n \in T
  BY <1>2, <1>3, SetInduction
<1> SUFFICES ASSUME NEW x \in SilentReach(S) PROVE x \in K
  OBVIOUS
<1>5. x \in Levels(S)[MaxDepth]
  BY LevelsOf
<1>6. PICK d \in 0 .. MaxDepth : Searches(x, d)
  BY <1>4, <1>5, DepthAssumption DEF T
<1>7. d \in Nat /\ d <= MaxDepth
  BY DepthAssumption
<1> QED
  BY <1>6, <1>7, CallsAreClosures

\* A transition that adds nothing need not be waited for.
LEMMA NothingToMerge ==
  ASSUME NEW S, NEW s, NEW c, NEW o, NEW t, LoopFits(S, s, c, o \cup {t}),
         ~ Fires(s, t) \/ c.violation
  PROVE  LoopFits(S, s, c, o)
<1>1. ASSUME IsForest(S) PROVE ~ c.loop /\ IsBelow(S, c.states, s, o)
  BY <1>1 DEF LoopFits, IsBelow
<1>2. ASSUME ~ c.violation, ~ c.loop PROVE MetOnce(c.states, s, o)
  <2>1. MetOnce(c.states, s, o \cup {t}) /\ ~ Fires(s, t)
    BY <1>2 DEF LoopFits
  <2>2. \A x, u : Counted(c.states, s, o, x, u) => Counted(c.states, s, o \cup {t}, x, u)
    BY <2>1 DEF Counted
  <2> QED
    BY <2>1, <2>2 DEF MetOnce
<1> QED
  BY <1>1, <1>2 DEF LoopFits

LEMMA JoinNothing ==
  ASSUME NEW c, IsClosure(c)
  PROVE  Joined(c, EmptyClosure) = c
<1>1. CASE c.violation
  BY <1>1 DEF Joined
<1>2. CASE ~ c.violation
  <2>1. c = [states |-> c.states, loop |-> c.loop, violation |-> c.violation]
        /\ c.loop \in BOOLEAN /\ c.violation \in BOOLEAN
    BY DEF IsClosure
  <2>2. Merge(c, EmptyClosure) = [states |-> c.states, loop |-> c.loop, violation |-> c.violation]
    BY <2>1 DEF Merge, EmptyClosure
  <2> QED
    BY <1>2, <2>1, <2>2 DEF Joined
<1> QED
  BY <1>1, <1>2

\* The transitions of the list behind position k.
Behind(k) == {TransitionList[j] : j \in (k + 1) .. Len(TransitionList)}

LEMMA BehindOf ==
  /\ Len(TransitionList) \in Nat
  /\ Silent \subseteq Behind(0)
  /\ Behind(Len(TransitionList)) = {}
  /\ \A k \in 1 .. Len(TransitionList) :
       Behind(k - 1) = Behind(k) \cup {TransitionList[k]} /\ TransitionList[k] \notin Behind(k)
<1>1. Len(TransitionList) \in Nat /\ DOMAIN TransitionList = 1 .. Len(TransitionList)
  BY ListAssumption
<1>2. Silent \subseteq Behind(0)
  BY <1>1, ListAssumption DEF Silent, Behind
<1>3. Behind(Len(TransitionList)) = {}
  BY <1>1 DEF Behind
<1>4. ASSUME NEW k \in 1 .. Len(TransitionList)
      PROVE  Behind(k - 1) = Behind(k) \cup {TransitionList[k]} /\ TransitionList[k] \notin Behind(k)
  <2>1. \A j : j \in ((k - 1) + 1) .. Len(TransitionList) <=> j = k \/ j \in (k + 1) .. Len(TransitionList)
    BY <1>1
  <2>2. \A j \in (k + 1) .. Len(TransitionList) : j \in DOMAIN TransitionList /\ j # k
    BY <1>1
  <2> QED
    BY <1>1, <2>1, <2>2, ListAssumption DEF Behind
<1> QED
  BY <1>1, <1>2, <1>3, <1>4

\* Merging what one transition led to.
LEMMA MergedInner ==
  ASSUME NEW S, NEW s \in SilentReach(S) \cap NetStates, NEW deeper, NEW k \in 1 .. Len(TransitionList),
         NEW c, IsClosure(c), s \in c.states, LoopFits(S, s, c, Behind(k - 1)),
         \A t : Fires(s, t) => /\ LoopFits(S, FireTransition(t, s), deeper[FireTransition(t, s)], {})
                               /\ FireTransition(t, s) \in deeper[FireTransition(t, s)].states,
         IsBounded(s)
  PROVE  LoopFits(S, s, Joined(c, Inner(s, deeper)[k]), Behind(k))
<1> DEFINE t == TransitionList[k]
           d == Inner(s, deeper)[k]
<1>1. Behind(k - 1) = Behind(k) \cup {t} /\ t \notin Behind(k)
  BY BehindOf
<1>2. LoopFits(S, s, c, Behind(k) \cup {t})
  BY <1>1
<1>3. CASE c.violation
  <2>1. Joined(c, d) = c
    BY <1>3 DEF Joined
  <2> HIDE DEF t, d
  <2>2. LoopFits(S, s, c, Behind(k))
    BY <1>2, <1>3, NothingToMerge, Zenon
  <2> QED
    BY <2>1, <2>2 DEF d
<1>4. CASE ~ Fires(s, t)
  <2>1. d = EmptyClosure
    BY <1>4, InnerClosures DEF FiresAt, Fires
  <2>2. Joined(c, d) = c
    BY <2>1, JoinNothing
  <2> HIDE DEF t, d
  <2> QED
    BY <1>2, <1>4, <2>2, NothingToMerge DEF d
<1>5. CASE ~ c.violation /\ Fires(s, t)
  <2>1. d = deeper[FireTransition(t, s)]
    BY <1>5, InnerClosures DEF FiresAt, Fires
  <2>2. LoopFits(S, FireTransition(t, s), d, {}) /\ FireTransition(t, s) \in d.states
    BY <1>5, <2>1
  <2>3. Joined(c, d) = Merge(c, d)
    BY <1>5 DEF Joined
  <2> HIDE DEF t, d
  <2>4. LoopFits(S, s, Merge(c, d), Behind(k))
    BY <1>1, <1>2, <1>5, <2>2, MergedLoop
  <2> QED
    BY <2>3, <2>4 DEF d
<1> QED
  BY <1>3, <1>4, <1>5

\* A call that depth is enough for accounts for its firings.
LEMMA CallLoops ==
  ASSUME NEW S \in SUBSET NetStates, IsClosedSet(SilentReach(S))
  PROVE  \A d \in Nat : d <= MaxDepth =>
           \A s \in SilentReach(S) \cap Quiet[d] : LoopFits(S, s, Recursion[d][s], {})
<1> DEFINE Fits(d) == \A s \in SilentReach(S) \cap Quiet[d] : LoopFits(S, s, Recursion[d][s], {})
           T == {d \in Nat : d <= MaxDepth => Fits(d)}
<1>0. SilentReach(S) \subseteq NetStates
  BY ReachInNet
<1>1. 0 \in T
  <2> SUFFICES ASSUME NEW s \in SilentReach(S) \cap Quiet[0]
               PROVE  LoopFits(S, s, Recursion[0][s], {})
    OBVIOUS
  <2>1. 0 \in 0 .. MaxDepth /\ s \in NetStates
    BY <1>0, DepthAssumption
  <2>2. \A t : ~ Fires(s, t)
    BY <2>1, QuietOf DEF Quietens
  <2>3. LoopFits(S, s, Single(s), {})
    BY <2>2, SingleLoop
  <2> QED
    BY <2>1, <2>3, RecursionOf
<1>2. \A d \in Nat : d \in T => d + 1 \in T
  <2> SUFFICES ASSUME NEW d \in Nat, d \in T, d + 1 <= MaxDepth,
                      NEW s \in SilentReach(S) \cap Quiet[d + 1]
               PROVE  LoopFits(S, s, Recursion[d + 1][s], {})
    OBVIOUS
  <2>1. /\ d <= MaxDepth /\ d + 1 \in 0 .. MaxDepth /\ d + 1 \in 1 .. MaxDepth /\ (d + 1) - 1 = d
        /\ s \in NetStates
    BY <1>0, DepthAssumption
  <2>2. Fits(d)
    BY <2>1
  <2>3. Quietens(s, d + 1)
    BY <2>1, QuietOf
  <2> HIDE DEF T
  <2>4. CASE ~ IsBounded(s)
    <3>1. Recursion[d + 1][s] = Single(s)
      BY <2>1, <2>4, UnboundedCall
    <3>2. \A t : ~ Fires(s, t)
      BY <2>4 DEF Fires
    <3> QED
      BY <3>1, <3>2, SingleLoop
  <2>5. CASE IsBounded(s)
    <3> DEFINE n == Len(TransitionList)
               inner == Inner(s, Recursion[d])
    <3>1. n \in Nat
      BY BehindOf
    <3>2. Recursion[d + 1][s] = MergeAll(Single(s), inner, n)
      BY <2>1, RecursionOf
    <3>3. PICK f : /\ MergeAll(Single(s), inner, n) = f[n] /\ f[0] = Single(s)
                   /\ \A k \in 1 .. n : f[k] = Joined(f[k - 1], inner[k])
      BY <3>1, MergingOneByOne
    <3>4. \A r \in NetStates : IsClosure(Recursion[d][r]) /\ r \in Recursion[d][r].states
      BY <2>1, CallsAreClosures
    <3>5. \A k \in 1 .. n : IsClosure(inner[k])
      BY <2>1, <3>4, InnerClosures, FirstClosures
    <3>6. ASSUME NEW t, Fires(s, t)
          PROVE  /\ LoopFits(S, FireTransition(t, s), Recursion[d][FireTransition(t, s)], {})
                 /\ FireTransition(t, s) \in Recursion[d][FireTransition(t, s)].states
      <4>1. FireTransition(t, s) \in SilentReach(S)
        BY <3>6 DEF IsClosedSet
      <4>2. FireTransition(t, s) \in Quiet[d]
        BY <2>1, <2>3, <3>6 DEF Quietens
      <4> QED
        BY <1>0, <2>2, <3>4, <4>1, <4>2
    <3> DEFINE R == {k \in Nat : k <= n =>
                       IsClosure(f[k]) /\ s \in f[k].states /\ LoopFits(S, s, f[k], Behind(k))}
    <3>7. 0 \in R
      <4>1. \A t : Fires(s, t) => t \in Behind(0)
        BY BehindOf DEF Fires
      <4>2. LoopFits(S, s, Single(s), Behind(0))
        BY <4>1, SingleLoop
      <4> QED
        BY <2>1, <3>3, <4>2, FirstClosures
    <3>8. \A k \in Nat : k \in R => k + 1 \in R
      <4> SUFFICES ASSUME NEW k \in Nat, k \in R, k + 1 <= n
                   PROVE  /\ IsClosure(f[k + 1]) /\ s \in f[k + 1].states
                          /\ LoopFits(S, s, f[k + 1], Behind(k + 1))
        OBVIOUS
      <4>1. k + 1 \in 1 .. n /\ (k + 1) - 1 = k /\ k <= n
        BY <3>1
      <4>2. IsClosure(f[k]) /\ s \in f[k].states /\ LoopFits(S, s, f[k], Behind((k + 1) - 1))
        BY <4>1
      <4>3. f[k + 1] = Joined(f[k], inner[k + 1])
        BY <3>3, <4>1
      <4> HIDE DEF R
      <4>4. IsClosure(f[k + 1]) /\ s \in f[k + 1].states
        <5>1. IsClosure(inner[k + 1])
          BY <3>5, <4>1
        <5> HIDE DEF inner, n
        <5> QED
          BY <4>2, <4>3, <5>1, JoinedIsClosure
      <4>5. LoopFits(S, s, Joined(f[k], inner[k + 1]), Behind(k + 1))
        BY <2>1, <2>5, <3>6, <4>1, <4>2, MergedInner
      <4> QED
        BY <4>3, <4>4, <4>5
    <3> HIDE DEF R
    <3>9. \A k \in Nat : k \in R
      BY <3>7, <3>8, SetInduction
    <3>10. n \in R
      BY <3>1, <3>9
    <3>11. LoopFits(S, s, f[n], Behind(n))
      <4>1. n <= n
        BY <3>1
      <4> HIDE DEF n
      <4> QED
        BY <3>10, <4>1 DEF R
    <3>12. Behind(n) = {}
      BY BehindOf
    <3> HIDE DEF n, inner
    <3> QED
      BY <3>2, <3>3, <3>11, <3>12
  <2> QED
    BY <2>4, <2>5
<1> HIDE DEF T
<1>3. \A d \in Nat : d \in T
  BY <1>1, <1>2, SetInduction
<1> QED
  BY <1>3 DEF T

\* Seeds merged that had been merged before, or would not be, change nothing.
LEMMA MoreSeeds ==
  ASSUME NEW S, NEW c, NEW R, NEW q, LoopFitsAll(S, c, R), c.violation
  PROVE  LoopFitsAll(S, c, R \cup {q})
BY DEF LoopFitsAll, IsBelowAll

\* And so does the closure of the seeds.
LEMMA ClosureLoops ==
  ASSUME NEW S \in SUBSET NetStates, IsFiniteSet(S), IsClosedSet(SilentReach(S)),
         S \subseteq Quiet[MaxDepth]
  PROVE  LoopFitsAll(S, CloseOver(S), S)
<1> DEFINE n == Cardinality(S)
           g == InOrder(S, StateLess)
           inner == [i \in DOMAIN g |-> Recursion[MaxDepth][g[i]]]
           R(k) == {g[i] : i \in 1 .. k}
<1>1. n \in Nat
  BY FS_CardinalityType
<1>2. /\ DOMAIN g = 1 .. n /\ \A i \in 1 .. n : g[i] \in S
      /\ \A s \in S : \E i \in 1 .. n : g[i] = s
      /\ \A i, k \in 1 .. n : i < k => g[i] # g[k]
  <2>1. IsSorted(g, StatesBefore, S)
    BY StatesAreSorted
  <2>2. \A s : <<s, s>> \notin StatesBefore
    BY StateOrder DEF StatesBefore
  <2> HIDE DEF g
  <2> QED
    BY <2>1, <2>2 DEF IsSorted
<1>3. CloseOver(S) = MergeAll(EmptyClosure, inner, n)
  BY ClosingOver
<1> HIDE DEF g
<1>4. \A i \in 1 .. n : inner[i] = Recursion[MaxDepth][g[i]]
  BY <1>2
<1> HIDE DEF inner
<1>5. PICK f : /\ MergeAll(EmptyClosure, inner, n) = f[n] /\ f[0] = EmptyClosure
               /\ \A k \in 1 .. n : f[k] = Joined(f[k - 1], inner[k])
  BY <1>1, MergingOneByOne
<1>6. MaxDepth \in Nat /\ MaxDepth <= MaxDepth
  BY DepthAssumption
<1>7. \A i \in 1 .. n : /\ IsClosure(inner[i]) /\ g[i] \in inner[i].states
                        /\ LoopFits(S, g[i], inner[i], {})
  <2>1. \A s \in S : s \in SilentReach(S) \cap Quiet[MaxDepth] /\ s \in NetStates
    BY SeedsReached
  <2> QED
    BY <1>2, <1>4, <1>6, <2>1, CallsAreClosures, CallLoops
<1>8. /\ R(0) = {} /\ R(n) = S /\ \A k \in 0 .. n : R(k) \subseteq S
      /\ \A k \in Nat : k + 1 \in 1 .. n => R(k + 1) = R(k) \cup {g[k + 1]} /\ g[k + 1] \notin R(k)
  <2>1. \A k \in Nat : 1 .. (k + 1) = (1 .. k) \cup {k + 1}
    OBVIOUS
  <2>2. R(0) = {} /\ R(n) = S /\ \A k \in 0 .. n : R(k) \subseteq S
    BY <1>1, <1>2
  <2>3. ASSUME NEW k \in Nat, k + 1 \in 1 .. n
        PROVE  R(k + 1) = R(k) \cup {g[k + 1]} /\ g[k + 1] \notin R(k)
    <3>1. \A i \in 1 .. k : i \in 1 .. n /\ i < k + 1
      BY <1>1, <2>3
    <3> QED
      BY <1>2, <2>1, <2>3, <3>1
  <2> QED
    BY <2>2, <2>3
<1> HIDE DEF R
<1> DEFINE Fits(k) == /\ IsClosure(f[k]) /\ LoopFitsAll(S, f[k], R(k))
                      /\ ~ f[k].violation => R(k) \subseteq f[k].states
           T == {k \in Nat : k <= n => Fits(k)}
<1>9. 0 \in T
  <2>1. EmptyClosure.states = {} /\ EmptyClosure.loop = FALSE
    BY DEF EmptyClosure
  <2>2. AllMetOnce({}, {}) /\ IsBelowAll(S, {}, {}) /\ IsFiniteSet({})
    BY FS_EmptySet DEF AllMetOnce, OneWay, IsBelowAll
  <2>3. LoopFitsAll(S, EmptyClosure, {})
    BY <2>1, <2>2 DEF LoopFitsAll
  <2> QED
    BY <1>5, <1>8, <2>3, FirstClosures
<1>10. \A k \in Nat : k \in T => k + 1 \in T
  <2> SUFFICES ASSUME NEW k \in Nat, k \in T, k + 1 <= n PROVE Fits(k + 1)
    OBVIOUS
  <2>1. k + 1 \in 1 .. n /\ (k + 1) - 1 = k /\ k <= n /\ k \in 0 .. n
    BY <1>1
  <2>2. Fits(k)
    BY <2>1
  <2> DEFINE q == g[k + 1]
             d == inner[k + 1]
  <2>3. f[k + 1] = Joined(f[k], d) /\ R(k + 1) = R(k) \cup {q}
    BY <1>5, <1>8, <2>1
  <2>4. /\ q \in S /\ IsClosure(d) /\ q \in d.states /\ LoopFits(S, q, d, {})
        /\ R(k) \subseteq S /\ q \notin R(k)
    BY <1>2, <1>7, <1>8, <2>1
  <2> HIDE DEF q, d, T
  <2>5. /\ IsClosure(f[k + 1])
        /\ f[k].states \subseteq f[k + 1].states
        /\ ~ f[k + 1].violation => ~ f[k].violation /\ d.states \subseteq f[k + 1].states
    BY <2>2, <2>3, <2>4, JoinedIsClosure
  <2>6. ~ f[k + 1].violation => R(k + 1) \subseteq f[k + 1].states
    BY <2>2, <2>3, <2>4, <2>5
  <2>7. CASE f[k].violation
    <3>1. f[k + 1] = f[k]
      BY <2>3, <2>7 DEF Joined
    <3>2. LoopFitsAll(S, f[k], R(k) \cup {q})
      BY <2>2, <2>7, MoreSeeds
    <3> QED
      BY <2>3, <2>5, <2>6, <3>1, <3>2
  <2>8. CASE ~ f[k].violation
    <3>1. f[k + 1] = Merge(f[k], d)
      BY <2>3, <2>8 DEF Joined
    <3>2. LoopFitsAll(S, Merge(f[k], d), R(k) \cup {q})
      BY <2>2, <2>4, MergedLoopAll
    <3> QED
      BY <2>3, <2>5, <2>6, <3>1, <3>2
  <2> QED
    BY <2>7, <2>8
<1> HIDE DEF T
<1>11. \A k \in Nat : k \in T
  BY <1>9, <1>10, SetInduction
<1>12. LoopFitsAll(S, f[n], R(n))
  BY <1>1, <1>11 DEF T
<1> QED
  BY <1>3, <1>5, <1>8, <1>12

-----------------------------------------------------------------------------
(***************************************************************************)
(* OrderIrrelevant: in whatever order seeds and transitions are taken, the *)
(* search returns what it returns in list order, flag for a loop and all,  *)
(* unless a bound is broken, and then list order finds one too.  No net is *)
(* excluded: where the search would never end, it does not return.         *)
(***************************************************************************)
\* A loop is reported unless the seeds begin a forest.
LEMMA LoopMeansNoForest ==
  ASSUME NEW S, NEW c, LoopFitsAll(S, c, S), ~ c.violation,
         c.states = SilentReach(S), IsClosedSet(SilentReach(S))
  PROVE  c.loop <=> ~ IsForest(S)
<1>1. IsForest(S) => ~ c.loop
  BY DEF LoopFitsAll
<1>2. ~ c.loop => IsForest(S)
  BY DEF LoopFitsAll, AllMetOnce, IsForest, NoneBack
<1> QED
  BY <1>1, <1>2

\* In list order a broken bound is found too, for all that is reached is searched.
LEMMA ViolationInOrder ==
  ASSUME NEW S \in SUBSET NetStates, IsFiniteSet(S), NEW s \in SilentReach(S), ~ IsBounded(s)
  PROVE  CloseOver(S).violation
<1>1. CloseOver(S).violation <=> \E r \in CloseOver(S).states : ~ IsBounded(r)
  BY ClosureHasSeeds DEF IsClosure
<1>2. SUFFICES ASSUME ~ CloseOver(S).violation PROVE FALSE
  BY <1>1
<1> QED
  BY <1>1, <1>2, ClosureReachesAll

\* And without one it returns all that is reached.
LEMMA NoViolationInOrder ==
  ASSUME NEW S \in SUBSET NetStates, IsFiniteSet(S), \A s \in SilentReach(S) : IsBounded(s)
  PROVE  ~ CloseOver(S).violation /\ CloseOver(S).states = SilentReach(S)
<1>1. CloseOver(S).states \subseteq SilentReach(S)
  BY ClosureInReach
<1>2. ~ CloseOver(S).violation
  BY <1>1, ClosureHasSeeds DEF IsClosure
<1> QED
  BY <1>1, <1>2, ClosureReachesAll

THEOREM OrdersAgree == BuildSpec => []OrderIrrelevant
<1>1. DepthInv /\ ClosureIsExact => OrderIrrelevant
  <2> SUFFICES ASSUME DepthInv, ClosureIsExact, done
               PROVE  IF closure.violation THEN CloseOver(seeds).violation
                                           ELSE closure = CloseOver(seeds)
    BY DEF OrderIrrelevant
  <2> DEFINE U == SilentReach(seeds)
  <2>1. seeds \in SUBSET NetStates /\ IsFiniteSet(seeds)
    BY SeedAssumption DEF DepthInv
  <2>2. closure.violation <=> \E s \in U : ~ IsBounded(s)
    BY DEF ClosureIsExact
  <2>3. CASE closure.violation
    BY <2>1, <2>2, <2>3, ViolationInOrder
  <2>4. CASE ~ closure.violation
    <3>1. closure.states = U /\ \A s \in U : IsBounded(s)
      BY <2>2, <2>4 DEF ClosureIsExact
    <3>2. ~ CloseOver(seeds).violation /\ CloseOver(seeds).states = U
      BY <2>1, <3>1, NoViolationInOrder
    <3>3. IsClosedSet(U)
      BY <2>4, <3>1 DEF DepthInv, LoopInv, BuildInv, ClosureFits, IsClosedSet
    <3>4. Searched = seeds
      BY <2>4 DEF DepthInv, LoopInv, BuildInv, DoneMeansAllSearched, Searched
    <3>5. seeds \subseteq Quiet[MaxDepth] /\ LoopFitsAll(seeds, closure, seeds)
      BY <2>4, <3>4 DEF DepthInv, LoopInv
    <3>6. LoopFitsAll(seeds, CloseOver(seeds), seeds)
      BY <2>1, <3>3, <3>5, ClosureLoops
    <3>7. closure.loop <=> CloseOver(seeds).loop
      BY <2>4, <3>1, <3>2, <3>3, <3>5, <3>6, LoopMeansNoForest
    <3>8. closure \in Closures(seeds) /\ IsClosure(CloseOver(seeds))
      BY <2>1, ClosureHasSeeds DEF DepthInv, LoopInv, BuildInv, ClosureFits
    <3> DEFINE Records == [states : SUBSET (U \cup NetStates), loop : BOOLEAN, violation : BOOLEAN]
    <3>9. closure \in Records /\ CloseOver(seeds) \in Records
      BY <3>8 DEF Closures, IsClosure
    <3>10. ASSUME NEW a \in Records, NEW b \in Records, a.states = b.states,
                  a.loop <=> b.loop, a.violation <=> b.violation
           PROVE  a = b
      BY <3>10
    <3> HIDE DEF Records
    <3> QED
      BY <2>4, <3>1, <3>2, <3>7, <3>9, <3>10
  <2> QED
    BY <2>3, <2>4
<1>2. BuildInit => DepthInv
  BY InitDepthInv
<1>3. DepthInv /\ [BuildNext]_buildVars => DepthInv'
  BY NextDepthInv
<1> QED
  BY <1>1, <1>2, <1>3, ClosuresAreExact, PTL DEF BuildSpec
=============================================================================
