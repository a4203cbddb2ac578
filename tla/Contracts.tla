------------------------------- MODULE Contracts -------------------------------
(* ACSL contracts as Eva and WP use them for a function without code.  A      *)
(* contract applied to its arguments is                                       *)
(*   requires   whether the caller may make the call,                         *)
(*   outcomes   what the clauses outside of behaviors allow: the results, with *)
(*              the memory that the assigns clauses let change,               *)
(*   behaviors  by name: whether it is assumed, and the outcomes it allows,   *)
(*   complete   whether the contract says that one of them always applies,    *)
(*   disjoint   the sets of behaviors it says never apply together.           *)
EXTENDS Integers, FiniteSets

Behavior(assumes, outcomes) == [assumes |-> assumes, outcomes |-> outcomes]

Plain(requires, outcomes) ==
  [requires |-> requires, outcomes |-> outcomes, behaviors |-> <<>>,
   complete |-> FALSE, disjoint |-> {}]

With(requires, outcomes, behaviors, complete, disjoint) ==
  [requires |-> requires, outcomes |-> outcomes, behaviors |-> behaviors,
   complete |-> complete, disjoint |-> disjoint]

(* All behaviors, complete and disjoint. *)
Partition(requires, outcomes, behaviors) ==
  With(requires, outcomes, behaviors, TRUE, {DOMAIN behaviors})

Assumed(c) == {b \in DOMAIN c.behaviors : c.behaviors[b].assumes}

Allowed(c) == {o \in c.outcomes : \A b \in Assumed(c) : o \in c.behaviors[b].outcomes}

(* The function gave r. *)
Obeyed(c, r) == c.requires => r \in Allowed(c)

(* A call that is allowed has an outcome: the clauses do not contradict each  *)
(* other.                                                                     *)
Consistent(c) == c.requires => Allowed(c) # {}

(* "complete behaviors" and "disjoint behaviors" are true. *)
ClaimsTrue(c) ==
  c.requires => /\ c.complete => Assumed(c) # {}
                /\ \A D \in c.disjoint : Cardinality(Assumed(c) \cap D) <= 1
===============================================================================
