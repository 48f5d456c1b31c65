--------------------------- MODULE MCMarkUnsafeStates --------------------------
(***************************************************************************)
(* The filters over automata of a shape ConstructClosureAutomaton can hand *)
(* over: a state has an edge for every service action, every partner       *)
(* action and time, each to any state, the empty one and the bound         *)
(* violation included; the empty state leads to itself only and the bound  *)
(* violation nowhere; and the initial state, s1, is never marked final.    *)
(***************************************************************************)
EXTENDS MarkUnsafeStates

Types == {"InputRead", "InputSend", "Time"}

Edge(s, type, r) == [source |-> s, type |-> type, target |-> r]

\* The construction adds no state it has not reached.
Trimmed(a) == DeleteStates(a, a.states \ ReachFrom(a, a.initial))

Whole(proper, edges, finals, loops) ==
  Trimmed([states |-> proper \cup {"empty", "bad"}, initial |-> {"s1"}, final |-> finals,
           loop |-> loops, violation |-> {"bad"},
           edges |-> edges \cup {Edge("empty", type, "empty") : type \in Types}])

-----------------------------------------------------------------------------
\* All with two proper states and one action of each kind.
Proper2 == {"s1", "s2"}
Targets2 == Proper2 \cup {"empty", "bad"}

Shapes2 == {2} \X [Proper2 \X Types -> Targets2] \X {{}, {"s2"}} \X SUBSET Proper2

TwoStates(f, finals, loops) ==
  Whole(Proper2, {Edge(st[1], st[2], f[st]) : st \in DOMAIN f}, finals, loops)

TwoStateAutomata == {TwoStates(x[2], x[3], x[4]) : x \in Shapes2}

(***************************************************************************)
(* Up to three proper states, and a second action of the partner.  A state *)
(* that is not final can be safe and have something to do for the service  *)
(* only if it shares its component with a final one, or it would be a dead *)
(* end, and if that action leads to a state that was judged safe before    *)
(* it.  Above, s2 leads nowhere but back to s1 and cannot be the first.    *)
(* Here it is final and stable and leads to s1 or s3, and the second       *)
(* action of the partner breaks a bound in it or can do nothing, so s2 can *)
(* be judged through s3 or through the bound violation, and s1 after it.   *)
(***************************************************************************)
Proper3 == Proper2 \cup {"s3"}
Targets3 == Proper3 \cup {"empty", "bad"}

\* The first action of the partner, and what s1 and s3 do for the service.
Partners == {f \in [Proper3 -> Targets3] : f["s2"] \in {"s1", "s3"}}
Services == {f \in [{"s1", "s3"} -> Targets3] : f["s1"] \in {"s2", "s3"}}

Shapes3 == {3} \X Services \X Partners \X {"empty", "bad"} \X Proper3

ThreeStates(service, partner, second, later) ==
  Whole(Proper3,
        {Edge(s, "InputRead", service[s]) : s \in {"s1", "s3"}}
          \cup {Edge(s, "InputSend", partner[s]) : s \in Proper3}
          \cup {Edge("s1", "Time", later), Edge("s2", "Time", "s2"), Edge("s3", "Time", "s3"),
                Edge("s2", "InputRead", "empty"), Edge("s2", "InputSend", second),
                Edge("s1", "InputSend", "empty"), Edge("s3", "InputSend", "empty")},
        {"s2"}, {})

\* One set over the shapes: comparing shapes is cheaper than comparing automata.
TwoOrThreeStateAutomata ==
  {IF x[1] = 2 THEN TwoStates(x[2], x[3], x[4]) ELSE ThreeStates(x[2], x[3], x[4], x[5]) :
     x \in Shapes2 \cup Shapes3}
=============================================================================
