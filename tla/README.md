# Tippi in TLA+

Tippi reads open time Petri nets ("interval nets") and builds automata from
them: the behavior of a net, the closure automaton that a communication partner
of the net can rely on, and simulation checks between automata. This directory
models its core, checks it with TLC and proves with TLAPS, for nets and automata
of any size, what matters most about it: the firing rule, the store of automata,
loading a net and closing it, closures, the closure automaton, the behavior, the
filters, regions, components and the simulation checks. File names below are relative to `src/src`.

## The system

| part | state | operations | hard about it |
|---|---|---|---|
| Interval net (`IntervalNet`, `NetNode`, `TimeInterval`, `Marking`, `GraphNode/Edge`) | places with bounds, transitions with intervals and labels, arcs, initial and final markings | building and deleting nodes and arcs, queries | an arc is held in three lists; nothing forbids doubled arcs; the largest `size_t` means "no latest time" |
| Net parser (`IntervalNetParser`, `LoadIntervalNet`) | the net under construction, the section it is in | one production per place, interface place, marking, transition, arc | what it refuses and what it lets through, an end of text anywhere |
| Net state, firing rule (`IntervalNetState`, `IntervalNetFiringRule`) | place marking, time marking | `fireTransition`, `makeTimeStep`, `isFireable`, `canMakeTimeStep` | the time marking is updated at the neighbours only, a sentinel marks disabled transitions, clocks are cut off |
| Closures (`FiringRule::Closure`, `buildClosure`) | set of net states, loop flag, violation flag | recursion over silent transitions | no call knows what another visited; early stop; flags take no part in comparison |
| Maximal net (`ConstructMaximalNet`) | changes the net it is given | adds a partner transition per interface place, labels | works in place; name clash half way |
| Closure automaton (`ConstructClosureAutomaton`, `Closure`) | states, edges, initial, final, bound violation state | depth-first subset construction, `replaceState` | pointers held by outer calls while inner ones replace states |
| Automaton (`Automaton.h`, `GraphNode`, `GraphEdge`) | states, edges by key and at both ends, initial and final states | `createState`, `connect`, `deleteState`, `replaceState` | three holders of an edge, one of them ordered by what `replaceState` changes |
| Filters (`MarkUnsafeStates`, `RemoveUnsafeStates`, `RemoveUnreachableStates`; `apps/net2cl.cpp`) | the safety of each state | dead ends, backwards marking, deletion | verdicts in place, in an order nobody chose |
| Components (`ComputeComponents` in `Automaton.h`) | index, low link and stack flag per state | one-pass depth-first search | links passed back through the recursion |
| Behavior (`ConstructBehavior`, `Behavior`) | automaton over net states | depth-first construction | one shared violation state |
| Simulation (`Automaton::simulates`, `weaklySimulates`; `apps/chksim.cpp`) | the relation assumed so far | recursive check | greedy choice, unobservable cycles |
| Regions (`ConstructRegionAutomaton`, `Region`) | regions, visited flags | growing, recursion | one visited flag serves the growth of a region and the recursion into others |
| Automaton parser (`SimpleAutomatonParser`; `apps/chksim.cpp`) | the automaton under construction | sections in any order | deletes the automaton when a production fails |
| Tokens, renderers, collections | | text in, text out | |

The parts call each other directly; there are no threads, and nothing survives a
run. What is hard is not concurrency but order: incremental updates, recursion
that is interrupted by its own inner calls, results that must not depend on the
order of a set, sentinels at the end of the number range. `net2cl` runs the
whole chain: parse, `ConstructMaximalNet`, `ConstructClosureAutomaton`,
`MarkUnsafeStates`, `RemoveUnsafeStates` (unless told to keep them),
`RemoveUnreachableStates`, render.

## Modules

| module | models | state and actions |
|---|---|---|
| `IntervalNet` | the finished net | constants with the assumptions the constructors and the parser establish; `Incoming[t][p]` counts arcs, because `Net::connect` allows doubled ones; `Plus`, `Minus` wrap like `size_t` |
| `FiringRule` | `NetState`, `FiringRule` | operators: the result of firing and of a time step, named as in the code |
| `NetExecution` | the runs of a net | `state`; `Fire(t)`, `TimeStep` |
| `TimePetriNet` | the promise | abstract: true ages without limit, no sentinel, enabledness read off the marking |
| `AgedExecution` | `NetExecution` with the true ages as history | refinement mapping to `TimePetriNet` |
| `FiringSteps` | the loops of `fireTransition` | one action per arc and loop, arcs in any order |
| `AgedSteps` | both together: the caller's state changes when the loops are through | implements `NetExecution` |
| `Closure` | `buildClosure` as a function | `CloseOver`, in the order of the lists; recursive functions, so that proofs can be about it |
| `BuildClosure` | `buildClosure` and its recursion | the stack of calls; `NextSeed`, `Descend`, `ReturnClosure`, `Finish`, in any order of seeds and transitions |
| `ConstructMaximalNet` | the filter of that name | operators from the open net to the maximal one |
| `NetBuilding` | `Net` with its nodes and arcs as objects | operators from a net to the next: create, connect, disconnect, delete |
| `NetParser` | `NetParser::parse` | one action per production; `section` and `current` say where in the text it is |
| `NetLoading` | reading a net, closing it with `ConstructMaximalNet` place by place, or changing it | `StartMaximal`, `VisitPlace`, `SetTransitionLabels`, `EditNet`; compared with `ConstructMaximalNet` |
| `ConstructClosureAutomaton` | the subset construction and the `ClosureAutomaton` it fills | the activations of `handleState` on a stack; `Start`, `HandleSuccessors` (known, new, first and further bound violation), `Return` |
| `ClosureGraph` | what the filters ask of a finished automaton | the automaton, what is assumed of it, operators |
| `MarkUnsafeStates` | the filters of `net2cl` | parts of the marking, one verdict at a time, then the removals |
| `AutomatonGraph` | the promise of `Automaton` | abstract: states, edges as triples, each operation one step |
| `AutomatonStore` | `m_states`, `m_edges`, the lists of the states, the edge objects | building in one step each, `deleteState` and `replaceState` edge by edge; refinement mapping to `AutomatonGraph` |
| `SimpleAutomatonParser` | the parser of that name on an `AutomatonStore`, or a construction that works on one | one alternative per production |
| `ComputeComponents` | the one-pass search behind `computeComponents` | the recursion of `visitState` on a stack; `StartPass`, `VisitNew`, `VisitKnown`, `CloseComponent`, `LeaveOpen`, `ReturnVisit` |
| `ConstructBehavior` | the filter of that name and the `Behavior` it fills | the activations of `handleState`; `BeyondBound`, `KnownState`, `NewState`, `Return`; computes with the operators of `FiringRule` |
| `ConstructRegionAutomaton` | the filter of that name and the `RegionAutomaton` | visited flags, regions, the activations of `buildSuccessors`; `StartRegions`, `KnownRegion`, `NewRegion`, `ReturnFromRegion` |
| `Simulation` | `simulates` and `weaklySimulates` | the pairs assumed so far and the activations of the check; `FollowTogether`, `FollowAlone`, `Fail`, `Overflow`, `Return`; `IsAutomaton` says what `Automaton` guarantees of its two arguments |
| `NetExecution_proof` | | theorems about the firing rule, its loops and the true ages |
| `NetLoading_proof` | | about reading and editing a net and about the maximal net |
| `BuildClosure_proof` | | about one closure |
| `ConstructClosureAutomaton_proof` | | about the closure automaton |
| `ConstructBehavior_proof` | | about the behavior |
| `AutomatonStore_proof` | | about the store of automata |
| `MarkUnsafeStates_proof` | | about the filters of `net2cl`, the region automaton and the search for components |
| `Simulation_proof` | | about both simulation checks |
| `MC...`, `MCNet` | nets and automata for TLC | |

Definitions introduced by a comment "Variant" are broken versions of the
definition that follows; with one of them in its place the properties must
fail, which shows that they can. No specification uses them.

Arcs have multiplicity 1 because the parser refuses anything else
(`IntervalNetParser.cpp:362`). Net states beyond a bound are not expanded, as in
`ConstructBehavior::handleNetState` and `handleSuccessors`; only the initial
state is expanded unasked. A transition label is a pair of place and direction
or the empty tuple; two labels are only ever compared.

## Runs

| run | question | bounds |
|---|---|---|
| `net_execution` | do clocks, tokens and intervals agree in every net state, do the loops of `fireTransition` amount to one step, and is the firing rule a time Petri net | `MCNet`: four places bounded by 2, five transitions with a conflict, a loop on a place, a zero earliest time, one without latest time and one without input; every order of arcs; `MaxSize` 7 stands for the largest `size_t` and lies above every latest time; ages up to `Horizon` 5, beyond the earliest time of every unbounded transition, where clocks have stopped; all 110 net states of the net are met within it |
| `net_loading` | do the holders of arcs agree whatever is read or deleted, does the filter come to the maximal net or stop where it must | two places, two transitions, one of them with the name of a partner transition, two arcs: enough for a doubled arc, for a place that loses one of its arcs and keeps another, and for a name clash after a partner was added |
| `build_closure` | is the closure the reachable set with the right violation flag, in any order | from every reachable net state and every set of direct successors; `MaxDepth` 6 is deeper than any chain of silent firings of the net |
| `closure_automaton` | is the automaton exact and well formed | a net with one input and one output place bounded by 1; both the partner and the service break a bound, so that the violation state is replaced repeatedly. The module also checks the hypotheses of the theorems on this net: labels tell the kinds of actions (`LabelsFit`) and no silent chain is longer than `MaxDepth` (`SilenceEnds`) |
| `automaton_store` | do the holders of edges agree after, and stay usable during, every operation | three states at a time, two labels, three edges: a loop edge together with an incoming and an outgoing one, two edges that differ in their label only; names and addresses are interchangeable and taken as symmetric |
| `mark_unsafe` | are verdicts final, deserved, and independent of order | every automaton with up to two proper states, the empty one and the bound violation, one action of each kind, all targets, final and loop flags; and a family with up to three proper states, one of them final, and a second action of the partner |
| `compute_components` | are the components found those the filters are modelled with, successors first | every graph of four states with at most six edges, reached from the initial one, and any order of the edges; four states allow two components, one of them nested below a state on the stack |
| `construct_behavior` | is the behavior exactly the reachable net states and steps | the net of `MCNet`, which reaches states beyond a bound more than once, so that the shared violation state is found again |
| `region_automaton` | do regions partition the closure states, is no edge between them lost | every closure automaton with up to three states and the empty one and at most four edges: time, an input, a second input in the initial state |
| `simulation` | what a yes and a no of the simulation check are worth, and when there is no answer | simulators of three states with three edges over two labels and the empty one, simulatees of two states over one label and the empty one, in the strong and the weak check, nondeterministic ones included |
| `set_safe_twice` | is `setSafe` called once | it is not |
| `unknown_target` | is a transition to an unknown state refused | it is not |

The shape of the automata in `mark_unsafe` is what `ResultIsComplete` shows of
the construction: every state has an edge per job, the empty state loops, the
bound violation has no edges, the initial state is not marked final. Two proper
states with one action of each kind give every combination of marks and targets,
but not one case of `determineSafety`: a state that is not final, is safe, and
has an action of the service to a proper state. Such a state shares its
component with a final one, or the dead ends would take it, and its service
action leads to a state that was judged safe before it. There the final one
leads nowhere but back and can only be judged after the other. Therefore the run
adds automata where a final, stable state s2 leads to s1 or to a third state s3,
which may lead on, and a second action of the partner may break a bound in s2:
now s2 can be judged first, through s3 or through the bound violation, and s1
can be safe without being final and has an action of the service to keep, which
is what `ServiceKeepsItsActions` is about. Longer chains repeat this, because
`determineSafety` looks at direct successors only. `MaxDepth` bounds the
recursion of `buildClosure`; on a net with a silent cycle that takes no time the
code recurses for ever and the model does not apply
(`test/data/innerlivelock.net`).

Deadlock is not an error in these runs: net states beyond a bound are not
expanded, texts and constructions end.

A text is modelled by the sequence of its productions: what is read next is any
of them, in the order of sections the parser insists on, and each is carried
out or refused by the conditions of the code. A wrong token may turn up
anywhere (`Malformed`). The contents of a refused net are left as they were,
because nobody gets to see them; a refused automaton is deleted as the code
does.

### Fairness

`BuildClosure`, `ConstructClosureAutomaton` and `MarkUnsafeStates` are
recursions and loops of a single thread that nothing interrupts: once called
they go on, which is weak fairness of their next step. That they end is a
question there, because it rests on bounds, on clocks that stop and on verdicts
that stay. The other modules state safety only and have no fairness; nothing
obliges a caller of `NetExecution` to fire, a client of an automaton to change
it or a text to go on, and the recursions of `ComputeComponents`,
`ConstructRegionAutomaton` and `Simulation` go through a finished graph once.

### What the runs found

* `setSafe` is called on states with a verdict (`set_safe_twice`).
* The parser of automata tests the source of a transition twice and its target
  never; an unknown target ends in a null pointer (`unknown_target`).

Seen while modelling, and reflected in the model: doubled arcs, which nothing
refuses, let a transition fire with too few tokens and break the assertion of
`consumeTokens` (`IntervalNetFiringRule.cpp:211`); two independent silent
transitions raise the loop flag without a loop, which is then rendered as "inner
livelock" and makes `RemoveInnerLivelocks` and `MarkUnsafeStates` discard states;
a transition at the very end of a text is dropped; without a `MARKING` the
initial marking has no entries and cannot be used, without a `SAFE` bounds are 0;
the initial state is never
marked final; the check that a transition has one interface place at most only
counts kinds of arcs, and lets two input places or three kinds through
(`TypeAccepted`); dead ends are looked for before any state is safe, so that every
component without a final, empty or violating state counts as one, also when it
leads on to a final state; an initial marking from which silent firings break a
bound, immediately or later, can make `createState` throw: time steps find the
closure of the initial state again, as a state that exists (a first version of
`NeverThrowsTwice` asked for a bounded initial marking only, and its proof
failed there); the first states marked in dead ends start no
backward round; the simulation check tries one successor per
label and never another, so that its no is only worth something for a
deterministic simulator (`RejectedIsJust`), while its yes always is; it
overflows the stack on unobservable cycles of the simulator.

Seen, and outside of the model: `findSplitOffset` in `apps/chksim.cpp` returns the
first `AUTOMATON` of the input where the second is meant, so that the simulator
read from standard input is a null pointer; `Token::toInteger` reads every
number with `atoi`; `Automaton::disconnect` names a type that does not exist and
the three-argument `createState` drops an argument, but neither is ever
instantiated; `replaceState` moves the entry in the set of final states and not
the flag, but the one state it is used for is never final.

## Proofs

Everything below is proved for nets, automata and texts of any size, under the
assumptions on the constants that the modules name, and only those:

* `SizeAssumption`, `ArcAssumption`, `IntervalAssumption`, `MarkingAssumption`,
  `InterfaceAssumption` (`IntervalNet`), `FinalAssumption`: what constructors and
  parser establish of a net. `ListAssumption`: the lists of a net have its places
  and transitions, each transition once. `SeedAssumption`: `buildClosure` is given a
  finite set of net states. `NumberAssumption`: the numbers of a text are of type `size_t`.
  `PartnerAssumption`: a letter in front leaves different names different.
* `AutomataAssumption`: what the construction establishes of a closure automaton
  (`AutomatonIsComplete`, `NothingEverDangles`): it is finite, edges join states of
  it, it has at most one initial state, and the empty closure is not it. Stated in
  `ClosureGraph`, it is shared by filters, regions and components. `PairsAssumption`: what
  `AutomatonStore_proof` establishes of any automaton.
* `ViolationAssumption`: the bound violation of a behavior is no net state.
  `DepthAssumption`: `MaxDepth` is a number.

Four theorems have a hypothesis of their own, because the code is only right
under it: `SourcesAnytime`, `SingleArcs`, `DepthSuffices`, `LabelsTellTypes`; each
is explained at its theorem below.

**The firing rule** (`NetExecution_proof`). The inductive invariant `IInv` joins
`TypeOK`, `ClockMatchesTokens` and `ClockWithinInterval`. None is inductive alone:
a time step keeps clocks in their intervals only if the sentinel really means
disabled, and firing keeps the sentinel right only if a clock in use never
reaches it, which needs the interval. `ClockAfterFire` is the heart: it computes
what the two loops leave of one clock, in four cases by whether the transition
shares an input place with the one that fired and whether it is enabled before
and after; `UntouchedEnabled` disposes of the transitions the loops never visit.
From `IInv` follow `NoTimelock`, `TokensCovered` (under `SingleArcs`, without which
it fails) and the action property `ClockSurvives`. The relation `ClockIsAge`
between a clock and the true age makes firing and letting time pass decided
alike on both (`SameVerdict`, `SamePatience`), and the refinement of
`TimePetriNet` follows under `SourcesAnytime`: a transition without input places
must be able to fire at any age, because the code never restarts its clock. The
partner transitions of `ConstructMaximalNet` are such; a net file could hold
another kind. `LoopsFit` says what the loops of `fireTransition` have made of the
copy when given arcs are still to visit; it depends on these arcs alone and not
on the order of the others, so that the loops are one step of the firing rule
(`AtomicFiring`), and they implement the time Petri net too (`LoopsRefine`).

**Loading a net** (`NetLoading_proof`). That the net and its nodes hold the same
arcs (`ArcsAgree`) is kept by each operation on nets, which are functions, so the
lemmas are about nets and not about steps. A net that was read and not edited
satisfies what the firing rule assumes (`LoadedNetIsSound`). The places visited so
far have their partners and the others have not, and at each place the name and
the kind of the place decide whether the filter goes on, so that going through
the places one by one comes to `ConstructMaximalNet`'s net or stops where that
has none (`MaximalNetIsExact`).

**One closure** (`BuildClosure_proof`). Soundness is a matter of levels: a call at
depth d searches from a state at most d silent firings away from a seed.
Completeness is about the call stack: a firing that leads out of the closure of a
call is one the call has still to do, or the one it is waiting for.

What the loop flag says (`LoopMeansMetTwice`): the silent firings from the seeds form
a forest, or some state is met twice. In a forest the states under two seeds, or
under two firings from one state, are different (`BranchesApart`, `SeedsApart`), and
`LoopInv` keeps each closure on the stack to the branches merged into it, so no
merge finds a known state; and a closure without the flag has each of its
states met once. That a forest is what counts as many firings and seeds as
states is `ForestIsCounted`. Nothing here says that a loop is a cycle, and
it need not be.

That the order leaves no trace (`OrderIrrelevant`) compares the search with
`CloseOver`, which takes everything in list order and stops at `MaxDepth`, where the
search without order would have to wait. A search that returned had depth enough:
`DepthInv` says that what a call has searched through is quiet, which means that no
more silent firings can follow one another than there was depth left. From quiet
seeds `CloseOver` finds all there is (`ClosureReachesAll`) and its flag says the same
of the forest (`ClosureLoops`). So the theorem excludes no net.

The lemmas about `CloseOver`, which `ConstructClosureAutomaton_proof` uses too, are in
this module: sorting loses no seed, nothing is found but what is silently reachable,
and all of it if no bound broke and `MaxDepth` sufficed.

**The closure automaton** (`ConstructClosureAutomaton_proof`). On
top of one closure as the function `CloseOver` computes it: each state is such a closure or the one bound
violation state, each edge is a job done for its source, and each job of each
state has its edge or an activation that has the state in hand and the job left.
Replacing the bound violation state disturbs none of this, because no activation
has it in hand and no edge leaves it. `AutomatonTracksNet` has the hypothesis
`DepthSuffices`: some rank below `MaxDepth` falls with every silent firing, that is,
no silent chain is longer than the recursion can be, which the run checks on its
net (`SilenceEnds`); `AutomatonIsComplete` has `LabelsTellTypes`: jobs with one
label have one kind. Without it `connect` finds the edge of the one and keeps it
for the other.

**The behavior** (`ConstructBehavior_proof`). A net state of the behavior has the
edges of all its steps, but for those its activation has still to do, and it is
at most as many steps from the initial state as there are states.

**The store of automata** (`AutomatonStore_proof`). The invariant says, for each
point of `deleteState` and `replaceState`, which of the three holders of an edge
are up to date and what is still to do; the order of the tree of edges is the
action property `EdgesStaySorted`. What an operation under way has still to do is
done in the refinement mapping, so that each implements one step of
`AutomatonGraph` (`StoreImplementsGraph`).

**The filters** (`MarkUnsafeStates_proof`). `determineSafety` only asks questions
whose answers stay: more safe states can only make safe a state that was, and no
state with a verdict is judged again. So `SafeIsDeserved` is inductive with the
order of the phases, and so is its counterpart for unsafe states, which no run
checks. `ReachableStatesStay` and `ServiceKeepsItsActions` rest on an induction over
the rounds of `UnreachableStates` and `ReachFrom`.

`OrderIrrelevant` compares with a definition that has no order. Dead ends are found
component by component, and components share no state. After that a verdict
given on little evidence is the verdict on more evidence (`VerdictLasts`), so no
order marks more than the least verdicts that judging does not change
(`FixedPointIs`); and a state with evidence waits to be judged or has a successor
that is marked and will be taken up (`JudgingFits`), so no order marks less.

**Regions** (same module). Growing from a state ends with
the least set that time and service actions lead out of, either way, to visited
states only. The regions before are closed, so the new one is closed too and
connected. An action of the partner out of a region has its edge, or is among
those an activation has still to follow, or is the one whose call is under way;
so when all have returned none is missing and none invented (`RegionsAreExact`).

**Components** (same module). A state that was met has an
activation, or lies on the stack, or is in a component. `Searched` says of them: a
state with an activation leads to everything above it on the stack; what lies
on the stack leads to a state with an activation at or below it; a low link is
the number of a state on the stack that there is a way to, and no higher than
what the edges visited for this state lead to; what is in a component leads
nowhere but into components. A state that returns with its own number as low link
is then the lowest that anything above it leads to, and what lies above it is its
component (`CloseFits`). The pass is the same for one order of edges as for any.

The proofs about regions and components are in the module of the filters because
all three run on the same automata, those of `AutomataAssumption`, and need the
same lemmas on reachability: `ReachIsLeast` and `ComponentsApart`.

**The simulation checks** (`Simulation_proof`). A yes: each edge of each pair of
the relation is matched within the relation or left for an activation that
works for the pair; when the last one returns nothing is left. A no: suppose
some simulation relates the initial states and each label has one answer; then
quiet steps lead from any pair of the relation to a pair of that simulation, so
that each label asked for has an answer, and the code never says no. That needs
the search for indirect successors: it finds what quiet steps lead to, finds
something if there is anything, and goes on for ever only on a cycle of quiet
steps (by the pigeonhole principle: a walk as long as there are states repeats
one). The greatest simulation of `RejectedIsJust` is found by shrinking sets, and
has every simulation in it.

Several of these definitions are recursive functions (rounds of a search, walks
over lists). The library's induction theorems cannot be instantiated by the
provers at hand, but induction over a SET of numbers can: `SetInduction`, derived
from the well-foundedness of `<`, is cited with the set of those n for which the
statement holds.

Only model-checked: the liveness properties (`BuildEnds`, `ConstructionEnds`,
`FilteringEnds`), for which fairness and `ENABLED` are out of the prover's reach.

## Not modelled

Vendored code (`src/lib` and its headers: gtest, gmock, getoptpp), which is most
of the lines of the repository and none of the program. Characters and tokens
(`Tokenizer`, `Token`), rendering, helpers for collections and strings: text in,
text out, or stood for by sets and sequences. `RemoveInnerLivelocks`, which no
application calls, as an action of its own. The visited flags of nodes and edges
outside of the algorithms that use them.

What each module leaves out: order within edge and arc lists, where results
must not depend on it (it is left open, not fixed); ids of states; types of
edges in `AutomatonStore`, which play no part in finding an edge; the depth of the
machine's stack.

## Plan

The order has been from the middle of the program outwards: the firing rule and
its promise, closures, the closure automaton, the filters, the other readers of
automata, and last what nets and automata are read into and kept in; then the
theorems, in the same order. Every invariant and every action property the passing
runs check is stated by a theorem. What is left stays with TLC: the liveness
properties, and the two runs that show a violation.
