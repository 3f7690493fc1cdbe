----------------------------- MODULE SearchSpace -----------------------------
(***************************************************************************)
(* The state space that a search is given, and what the search should find *)
(* in it, computed without searching.                                      *)
(***************************************************************************)
EXTENDS Integers, FiniteSets, FiniteSetsExt

CONSTANTS
  States,           \* the states of the domain
  Start,            \* the initial state
  Goals,            \* State::is_goal
  Edges,            \* SearchDomain::expand: per state, [to, cost]
  H,                \* State::get_h
  Infinity          \* fp_infinity: no solution, empty open list

ASSUME SpaceAssumption ==
  /\ IsFiniteSet(States) /\ Start \in States /\ Goals \subseteq States
  /\ Infinity \in Nat \ {0}
  /\ \A s \in States : \A e \in Edges[s] : e.to \in States /\ e.cost \in Nat
  /\ H \in [States -> Nat] /\ \A s \in Goals : H[s] = 0

\* Per state, the cost of a cheapest path of at most k edges to a goal.
ToGoal[k \in 0..Cardinality(States)] ==
  [s \in States |->
     IF s \in Goals THEN 0
     ELSE IF k = 0 THEN Infinity
     ELSE Min({Infinity} \cup {e.cost + ToGoal[k - 1][e.to] : e \in Edges[s]})]

CostToGo == ToGoal[Cardinality(States)]

\* The heuristic never overestimates.
Admissible == \A s \in States : H[s] <= CostToGo[s]

\* An edge into a goal is a cheapest way to a goal, so that the siblings of
\* a goal child cannot lead to a better solution.
GoalEdgesAreShortest ==
  \A s \in States : \A e \in Edges[s] : e.to \in Goals => e.cost = CostToGo[s]
=============================================================================
