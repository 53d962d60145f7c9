--------------------------- MODULE ViewChangeSpec ---------------------------
(***************************************************************************)
(* What view changes promise (spec.md section 4.8), abstractly: each node  *)
(* has a view, a mode and a height (the sequence number it works on), and  *)
(* the network remembers which nodes asked for which view.                *)
(*                                                                        *)
(*  - A node in Normal mode that suspects the primary asks for the next   *)
(*    view and becomes ViewChanging, in one step.                         *)
(*  - A node moves to a higher view, back in Normal mode, when 2f + 1     *)
(*    nodes asked for that view (its own ask may come in the same step).  *)
(*  - At a commit (the height grows by one) a node may also move up       *)
(*    without asks: a forced rotation or membership change takes it one  *)
(*    view up, and catch-up adopts a view that a node already reached.    *)
(*  - Nothing else changes a view or a mode; views never go down.         *)
(***************************************************************************)
EXTENDS Naturals, FiniteSets, FiniteSetsExt

CONSTANTS
    Node,   \* the nodes
    F,      \* the number of faults tolerated
    Start   \* the height every node starts at

VARIABLES
    view,   \* view[n]
    mode,   \* mode[n]: "Normal" or "ViewChanging"
    height, \* height[n]
    asked   \* the pairs <<node, view>> such that node asked for view

avars == <<view, mode, height, asked>>

Init ==
    /\ view = [n \in Node |-> 0]
    /\ mode = [n \in Node |-> "Normal"]
    /\ height = [n \in Node |-> Start]
    /\ asked = {}

\* The nodes that asked for view v, after the step.
AskersOf(v) == {p \in Node : <<p, v>> \in asked'}

\* n asks for the view after its own.
Ask(n) ==
    /\ mode[n] = "Normal"
    /\ asked' = asked \cup {<<n, view[n] + 1>>}

\* n becomes ViewChanging in its view.
Suspect(n) ==
    /\ view'[n] = view[n]
    /\ mode'[n] = "ViewChanging"
    /\ height'[n] = height[n]

\* n enters a higher view that 2f + 1 nodes asked for.
Enter(n) ==
    /\ view'[n] > view[n]
    /\ mode'[n] = "Normal"
    /\ height'[n] = height[n]
    /\ Cardinality(AskersOf(view'[n])) >= 2 * F + 1

\* n keeps its view and mode, and may commit.
Idle(n) ==
    /\ view'[n] = view[n]
    /\ mode'[n] = mode[n]
    /\ height'[n] \in {height[n], height[n] + 1}

\* n commits and moves up to at most one view above the highest view a
\* node is in.
Rotate(n) ==
    /\ height'[n] = height[n] + 1
    /\ view'[n] > view[n]
    /\ view'[n] <= Max({view[p] : p \in Node}) + 1
    /\ mode'[n] \in {mode[n], "Normal"}

\* A step of node n; every other node keeps its view, mode and height.
Step(n) ==
    /\ \A p \in Node \ {n} :
          /\ view'[p] = view[p]
          /\ mode'[p] = mode[p]
          /\ height'[p] = height[p]
    /\ \/ Ask(n) /\ (Suspect(n) \/ Enter(n))
       \/ asked' = asked /\ (Idle(n) \/ Enter(n) \/ Rotate(n))

Next == \E n \in Node : Step(n)

Spec == Init /\ [][Next]_avars
=============================================================================
