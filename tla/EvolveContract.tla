---------------------------- MODULE EvolveContract ----------------------------
(***************************************************************************)
(* What algorithm::evolve promises a caller, whichever solver is behind    *)
(* it (the class documentation of worhp.hpp and snopt7.hpp, and the        *)
(* comment "Store the new individual into the population, but only if it   *)
(* is improved" in both evolve bodies):                                    *)
(*   - a call ends, by returning or by throwing;                           *)
(*   - a call that throws leaves the caller's population as it was;        *)
(*   - a call that returns changes at most one individual, the one the     *)
(*     replacement policy designates, to a point with its true fitness,    *)
(*     strictly better than the individual the selection policy            *)
(*     designates.                                                         *)
(***************************************************************************)
CONSTANTS
  Problem, Point,       \* problems and decision vectors
  Fitness, Nec,         \* a problem's fitness and its number of equalities
  Policies,             \* selection and replacement policies
  Candidates(_, _, _),  \* the individuals a policy may designate
  CompareFC(_, _, _),   \* one fitness is strictly better than another
  Individual(_, _),     \* a point with its fitness
  Populations(_)        \* the populations of a problem

VARIABLES select, replace, prob, pop, busy, outcome

vars == <<select, replace, prob, pop, busy, outcome>>

Init ==
  /\ select \in Policies
  /\ replace \in Policies
  /\ prob \in Problem
  /\ pop \in Populations(prob)
  /\ busy = FALSE
  /\ outcome = "none"

(* The caller sets a policy between two calls. *)
Configure ==
  /\ ~busy
  /\ select' \in Policies
  /\ replace' \in Policies
  /\ UNCHANGED <<prob, pop, busy, outcome>>

(* The caller evolves a population of its choice. *)
Call ==
  /\ ~busy
  /\ busy' = TRUE
  /\ outcome' = "none"
  /\ prob' \in Problem
  /\ pop' \in Populations(prob')
  /\ UNCHANGED <<select, replace>>

Improvement(x) ==
  \E s \in Candidates(select, pop, Nec[prob]) :
    CompareFC(Fitness[prob][x], pop[s].f, Nec[prob])

Return ==
  /\ busy
  /\ busy' = FALSE
  /\ outcome' = "returned"
  /\ \/ pop' = pop
     \/ \E x \in Point, i \in Candidates(replace, pop, Nec[prob]) :
          /\ Improvement(x)
          /\ pop' = [pop EXCEPT ![i] = Individual(prob, x)]
  /\ UNCHANGED <<select, replace, prob>>

Throw ==
  /\ busy
  /\ busy' = FALSE
  /\ outcome' = "threw"
  /\ UNCHANGED <<select, replace, prob, pop>>

Next == Configure \/ Call \/ Return \/ Throw

(* A call does not last for ever, however it ends. *)
Progress == busy ~> ~busy

Spec == Init /\ [][Next]_vars /\ Progress

(* Policies under which evolve() can lose no good individual: it starts    *)
(* from the best, or replaces the worst, or the one it started from.       *)
Protective ==
  \/ select.kind = "best"
  \/ replace.kind = "worst"
  \/ select.kind = "index" /\ replace = select

AtLeastAsGood(new, old) == ~CompareFC(old.f, new.f, Nec[prob])

(* "only if it is improved" (worhp.cpp:704, snopt7.cpp:769) is a promise   *)
(* about the selected individual, not the replaced one.  With protective   *)
(* policies it is one about the population: a call leaves, for every       *)
(* individual it was given, one at least as good, so the champion never    *)
(* gets worse.  With others, say from the worst over the best, it may.     *)
ChampionKept ==
  [][busy /\ ~busy' /\ outcome' = "returned" /\ Protective =>
       \A i \in DOMAIN pop : \E j \in DOMAIN pop' : AtLeastAsGood(pop'[j], pop[i])]_vars
==============================================================================
