----------------------------- MODULE Snopt7Evolve -----------------------------
(***************************************************************************)
(* ppnf::snopt7, the pagmo algorithm that hands a problem to the snOptA    *)
(* interface of SNOPT 7 and is called back by it (src/src/snopt7.cpp).     *)
(*                                                                         *)
(* solveA() keeps control until it returns; it calls the C function        *)
(* snopt_fitness_wrapper, which no C++ exception may leave.  The wrapper   *)
(* stores the user's exception in `info` and tells the solver to stop;     *)
(* evolve() throws it again after it has reported, reinserted and logged,  *)
(* three steps of which two may throw an exception of their own.           *)
(*                                                                         *)
(* `pop` is the population the caller holds, `work` the copy evolve() was  *)
(* passed; the caller gets `work` when evolve() returns.                   *)
(***************************************************************************)
EXTENDS Pagmo, SequencesExt

CONSTANTS
  WithGradient,   \* problems that provide a gradient
  ReturnsEarly,   \* solveA may return before it evaluates anything
  Codes,          \* codes solveA returns when it was not interrupted
  MaxEval,        \* SNOPT's own limit on its calls of the wrapper
  Verbosities,    \* arguments of set_verbosity
  UserPolicies,   \* arguments of set_selection and set_replacement
  NoPoint         \* an empty vector_double

(* The codes `results` has a text for. *)
Results ==
  {0, 1, 2, 3, 5, 6} \cup 11..16 \cup {21, 22} \cup 31..34 \cup 41..45
    \cup {51, 52, 56} \cup 61..63 \cup {71, 74} \cup 81..84 \cup {91, 92}
    \cup {141, 142}

Interrupted == 71

ASSUME SnoptAssumption ==
  /\ WithGradient \subseteq Problem
  /\ ReturnsEarly \in BOOLEAN
  /\ Codes \subseteq Int
  /\ MaxEval \in Nat \ {0}
  /\ Verbosities \subseteq Nat
  /\ UserPolicies \subseteq Policies
  /\ NoPoint \notin Point

VARIABLES
  \* the members of the snopt7 object
  screenOutput, verbosity, select, replace, log, lastRes,
  \* evolve(): control, the caller's population and the copy worked on, the
  \* starting individual, the arrays x and F, and the user_data
  pc, prob, pop, work, start, sol, info,
  \* the solver: its Status argument, the points it has evaluated, the last
  \* of them, the calls it has made, and its memory
  stat, evaluated, calls, allocated,
  \* how the last call ended
  outcome,
  \* history: the problem threw during the last call
  raised

options == <<screenOutput, verbosity, select, replace>>
solver == <<stat, evaluated, calls, allocated>>
vars == <<options, log, lastRes, pc, prob, pop, work, start, sol, info, solver,
          outcome, raised>>

NoInd == [x |-> NoPoint, f |-> <<>>]

(* A new user_data: m_log, m_objfun_counter and whether m_eptr is set. *)
BlankInfo == [log |-> <<>>, count |-> 0, eptr |-> FALSE]

Init ==
  /\ screenOutput \in BOOLEAN
  /\ verbosity = 0
  /\ select = [kind |-> "best", idx |-> 0]
  /\ replace = [kind |-> "best", idx |-> 0]
  /\ log = <<>>
  /\ lastRes = 0
  /\ pc = "idle"
  /\ prob \in Problem
  /\ pop = <<>>
  /\ work = <<>>
  /\ start = NoInd
  /\ sol = NoInd
  /\ info = BlankInfo
  /\ stat = 0
  /\ evaluated = <<>>
  /\ calls = 0
  /\ allocated = FALSE
  /\ outcome = "none"
  /\ raised = FALSE

-------------------------------------------------------------------------------
(* The setters, called between two evolves *)

(* Slip: set_verbosity accepts any n. *)
AnyVerbosity(n) == TRUE

(* set_verbosity throws, and changes nothing, when the screen output of    *)
(* the solver was chosen and n is not zero.                                *)
VerbosityAllowed(n) == ~(screenOutput /\ n # 0)

SetVerbosity ==
  /\ pc = "idle"
  /\ \E n \in Verbosities : VerbosityAllowed(n) /\ verbosity' = n
  /\ UNCHANGED <<screenOutput, select, replace, log, lastRes, pc, prob, pop, work,
                 start, sol, info, solver, outcome, raised>>

SetPolicies ==
  /\ pc = "idle"
  /\ select' \in UserPolicies
  /\ replace' \in UserPolicies
  /\ UNCHANGED <<screenOutput, verbosity, log, lastRes, pc, prob, pop, work,
                 start, sol, info, solver, outcome, raised>>

-------------------------------------------------------------------------------
(* Entering and leaving evolve() *)

(* Slip: deleteSNOPT is called at the end of evolve() and not by a guard.  *)
LeaveWithoutGuard(how) ==
  /\ pc' = "idle"
  /\ outcome' = how
  /\ work' = <<>> /\ start' = NoInd /\ sol' = NoInd /\ info' = BlankInfo
  /\ stat' = 0 /\ evaluated' = <<>> /\ calls' = 0
  /\ allocated' = (allocated /\ how # "returned")

(* Control goes back to the caller: the locals go out of scope, and        *)
(* ~sn_problem_raii calls deleteSNOPT, on every path.                      *)
Leave(how) ==
  /\ pc' = "idle"
  /\ outcome' = how
  /\ work' = <<>> /\ start' = NoInd /\ sol' = NoInd /\ info' = BlankInfo
  /\ stat' = 0 /\ evaluated' = <<>> /\ calls' = 0
  /\ allocated' = FALSE

(* An exception that does not come from the problem the wrapper evaluates. *)
Refuse == Leave("refused") /\ UNCHANGED <<options, log, lastRes, prob, pop, raised>>

Call ==
  /\ pc = "idle"
  /\ pc' = "preamble"
  /\ prob' \in Problem
  /\ pop' \in Populations(prob')
  /\ work' = pop'
  /\ outcome' = "none"
  /\ raised' = FALSE
  /\ UNCHANGED <<options, log, lastRes, start, sol, info, solver>>

(* Multi-objective and stochastic problems are refused. *)
RejectProblem ==
  /\ pc = "preamble"
  /\ prob \in Unsuitable
  /\ Refuse

ReturnEmpty ==
  /\ pc = "preamble"
  /\ prob \notin Unsuitable
  /\ work = <<>>
  /\ Leave("returned")
  /\ UNCHANGED <<options, log, lastRes, prob, pop, raised>>

(* The library is missing or lacks a symbol. *)
LoadFails ==
  /\ pc = "preamble"
  /\ prob \notin Unsuitable
  /\ work # <<>>
  /\ Refuse

(* The constructor of sn_problem_raii calls snInit. *)
StartRun ==
  /\ pc = "preamble"
  /\ prob \notin Unsuitable
  /\ work # <<>>
  /\ allocated' = TRUE
  /\ pc' = "configure"
  /\ UNCHANGED <<options, log, lastRes, prob, pop, work, start, sol, info, stat,
                 evaluated, calls, outcome, raised>>

(* The user set "Derivative option", or the solver refuses an option.      *)
OptionRejected == pc = "configure" /\ Refuse

(* A selection index past the end of the population. *)
SelectionFails ==
  /\ pc = "configure"
  /\ Candidates(select, work, Nec[prob]) = {}
  /\ Refuse

(* What evolve() puts in F before the call: every entry is fit0[0].        *)
InitialF(fit0) == [i \in DOMAIN fit0 |-> fit0[1]]

SelectIndividual ==
  /\ pc = "configure"
  /\ \E i \in Candidates(select, work, Nec[prob]) :
       /\ start' = work[i]
       /\ sol' = [x |-> work[i].x, f |-> InitialF(work[i].f)]
  /\ pc' = "solveA"
  /\ UNCHANGED <<options, log, lastRes, prob, pop, work, info, solver, outcome,
                 raised>>

-------------------------------------------------------------------------------
(* snopt_fitness_wrapper, called by the solver *)

(* Slip: a line every n evaluations that starts with the n-th. *)
LineDueLate == verbosity > 0 /\ (info.count + 1) % verbosity = 0

(* The log line of an evaluation is due before the counter moves. *)
LineDue == verbosity > 0 /\ info.count % verbosity = 0

(* m_log and m_objfun_counter after fitness() returned fit. *)
Counted(fit) ==
  [info EXCEPT
     !.count = @ + 1,
     !.log = IF LineDue
               THEN Append(@, [fevals |-> info.count + 1, objval |-> fit[1]])
               ELSE @]

(* The solver calls the wrapper; a negative status has ended that. *)
Calling ==
  /\ pc = "solveA"
  /\ stat = 0
  /\ calls < MaxEval
  /\ calls' = calls + 1

OutsideUnchanged ==
  UNCHANGED <<options, log, lastRes, pc, prob, pop, work, start, sol, allocated,
              outcome>>

(* The solver asks for the functions first, later for the functions, their *)
(* gradient or both.                                                       *)
Needs == IF evaluated = <<>> THEN {TRUE} ELSE BOOLEAN

(* Nothing throws. *)
Wrapper ==
  /\ Calling
  /\ \E x \in Point, needF \in Needs :
       IF needF
         THEN /\ info' = Counted(Fitness[prob][x])
              /\ evaluated' = Append(evaluated, Individual(prob, x))
         ELSE UNCHANGED <<info, evaluated>>
  /\ UNCHANGED <<stat, raised>>
  /\ OutsideUnchanged

(* Slips: the exception is not kept; the status has the wrong sign.        *)
CaughtStatusOnly(i) == info' = i /\ stat' = -100 /\ raised' = TRUE

CaughtPositive(i) ==
  info' = [i EXCEPT !.eptr = TRUE] /\ stat' = 100 /\ raised' = TRUE

(* catch (...): the exception is kept, and the solver told to stop. *)
Caught(i) ==
  /\ info' = [i EXCEPT !.eptr = TRUE]
  /\ stat' = -100
  /\ raised' = TRUE

FitnessThrows ==
  /\ Calling
  /\ Caught(info)
  /\ UNCHANGED evaluated
  /\ OutsideUnchanged

(* The gradient is asked for after the fitness, if that is asked for, has  *)
(* been logged and counted.                                                *)
GradientThrows ==
  /\ Calling
  /\ prob \in WithGradient
  /\ \E x \in Point, needF \in Needs :
       IF needF
         THEN /\ Caught(Counted(Fitness[prob][x]))
              /\ evaluated' = Append(evaluated, Individual(prob, x))
         ELSE Caught(info) /\ UNCHANGED evaluated
  /\ OutsideUnchanged

-------------------------------------------------------------------------------
(* solveA returns, and what evolve() does then *)

(* The x and F the solver leaves: a point it evaluated.  It leaves the     *)
(* arrays alone if it was interrupted before, or returns early, as codes 81*)
(* to 92 say it may.                                                       *)
Answers ==
  Range(evaluated) \cup (IF stat < 0 \/ ReturnsEarly THEN {sol} ELSE {})

SolveA ==
  /\ pc = "solveA"
  /\ sol' \in Answers
  /\ lastRes' \in IF stat < 0 THEN {Interrupted} ELSE Codes
  /\ pc' = "solved"
  /\ UNCHANGED <<options, log, prob, pop, work, start, info, solver, outcome,
                 raised>>

(* results.at(m_last_opt_res) throws std::out_of_range. *)
Reportable == verbosity > 0 => lastRes \in Results

ReportFails ==
  /\ pc = "solved"
  /\ ~Reportable
  /\ Refuse

(* Slip: the comparison is the other way round. *)
Worsened == CompareFC(start.f, sol.f, Nec[prob])

Improved == CompareFC(sol.f, start.f, Nec[prob])

(* A replacement index past the end of the population. *)
ReplacementFails ==
  /\ pc = "solved"
  /\ Reportable
  /\ Improved
  /\ Candidates(replace, work, Nec[prob]) = {}
  /\ Refuse

(* Slip: replace_individual(pop, x0, F). *)
StartWithNewFitness == [x |-> start.x, f |-> sol.f]

(* replace_individual(pop, x, F): F is stored as it is. *)
Solution == sol

Reinsert ==
  /\ pc = "solved"
  /\ Reportable
  /\ \/ ~Improved /\ work' = work
     \/ /\ Improved
        /\ \E i \in Candidates(replace, work, Nec[prob]) :
             work' = [work EXCEPT ![i] = Solution]
  /\ pc' = "deliver"
  /\ UNCHANGED <<options, log, lastRes, prob, pop, start, sol, info, solver,
                 outcome, raised>>

(* Slip: the lines of this run are appended to those of the last.          *)
Accumulated == log \o info.log

(* m_log = std::move(info.m_log): what get_log returns from now on.        *)
Published == info.log

(* After that, the user's exception or the result. *)
Rethrow ==
  /\ pc = "deliver"
  /\ info.eptr
  /\ log' = Published
  /\ Leave("rethrown")
  /\ UNCHANGED <<options, lastRes, prob, pop, raised>>

Return ==
  /\ pc = "deliver"
  /\ ~info.eptr
  /\ log' = Published
  /\ pop' = work
  /\ Leave("returned")
  /\ UNCHANGED <<options, lastRes, prob, raised>>

-------------------------------------------------------------------------------
Evolve ==
  \/ RejectProblem \/ ReturnEmpty \/ LoadFails \/ StartRun
  \/ OptionRejected \/ SelectionFails \/ SelectIndividual
  \/ Wrapper \/ FitnessThrows \/ GradientThrows \/ SolveA
  \/ ReportFails \/ ReplacementFails \/ Reinsert \/ Rethrow \/ Return

Caller == SetVerbosity \/ SetPolicies \/ Call

Next == Caller \/ Evolve

Spec == Init /\ [][Next]_vars

-------------------------------------------------------------------------------
(* Properties *)

LogLines == [fevals : Nat, objval : Int]
SolverCalls == {"configure", "solveA", "solved", "deliver"}

(* The type of every variable of the object, of evolve() and of the        *)
(* solver (members of snopt7.hpp, user_data, and the locals of             *)
(* evolve_version).                                                        *)
TypeOK ==
  /\ screenOutput \in BOOLEAN
  /\ verbosity \in Nat
  /\ select \in Policies /\ replace \in Policies
  /\ log \in Seq(LogLines)
  /\ lastRes \in Int
  /\ pc \in {"idle", "preamble"} \cup SolverCalls
  /\ prob \in Problem
  /\ pop \in Seq(Individuals) /\ work \in Seq(Individuals)
  /\ start \in Individuals \cup {NoInd}
  /\ sol \in Individuals \cup {NoInd}
  /\ info \in [log : Seq(LogLines), count : Nat, eptr : BOOLEAN]
  /\ stat \in {0, -100}
  /\ evaluated \in Seq(Individuals)
  /\ calls \in 0..MaxEval
  /\ allocated \in BOOLEAN
  /\ outcome \in {"none", "returned", "refused", "rethrown"}
  /\ raised \in BOOLEAN

(* evolve() never returns a result when the problem threw while the solver *)
(* was evaluating it, in whichever order fitness, gradient, log and        *)
(* counter went (snopt7.cpp:171-174, 776-778).                             *)
UserExceptionNeverLost == raised => outcome # "returned"

(* "If not null, it will be re-thrown in the evolve() method"              *)
(* (snopt7.hpp:104-107): the caller gets the problem's exception and no    *)
(* other.                                                                  *)
UserExceptionRethrown == raised => outcome # "refused"

(* "every n objective function evaluations the status of the optimisation  *)
(* will be ... recorded" (snopt7.cpp:290-293): the log has a line for the  *)
(* first of every n evaluations that returned, in order, and no other,     *)
(* whichever of them were followed by a gradient that threw.               *)
LogSampled ==
  /\ verbosity = 0 => info.log = <<>>
  /\ verbosity > 0 =>
       /\ Len(info.log) = (info.count + verbosity - 1) \div verbosity
       /\ \A k \in DOMAIN info.log :
            info.log[k] = [fevals |-> 1 + (k - 1) * verbosity,
                           objval |-> evaluated[1 + (k - 1) * verbosity].f[1]]

(* The log an object shows is that of one run: the first of every n of its *)
(* evaluations, for one n.  A run of another verbosity, or one that throws *)
(* before or after it has stored its log (snopt7.cpp:774), never leaves a  *)
(* mixture with the lines of an earlier one.                               *)
LogOfOneRun ==
  \/ log = <<>>
  \/ \E n \in Verbosities \ {0} :
       \A k \in DOMAIN log : log[k].fevals = 1 + (k - 1) * n

(* The on-screen output of the solver and the log exclude each other       *)
(* (snopt7.cpp:329-331).                                                   *)
ScreenOutputExcludesLog == screenOutput => log = <<>> /\ info.log = <<>>

(* deleteSNOPT balances snInit on every way out of evolve().               *)
SolverMemoryBalanced == allocated <=> pc \in SolverCalls

(* Every individual the caller holds carries the true fitness of its       *)
(* point, although evolve() does not evaluate the point it inserts:        *)
(* "Store the new individual into the population, but only if it is        *)
(* improved" (snopt7.cpp:769).                                             *)
PopulationConsistent == \A i \in 1..Len(pop) : Consistent(prob, pop[i])

Contract == INSTANCE EvolveContract WITH
  busy <- pc # "idle",
  outcome <- IF outcome \in {"refused", "rethrown"} THEN "threw" ELSE outcome

(* evolve() keeps the promise every pagmo algorithm makes: in particular a *)
(* call that throws after it has reinserted leaves the caller's population *)
(* alone.                                                                  *)
ImplementsContract == Contract!Init /\ [][Contract!Next]_(Contract!vars)

(* With the best selected, or the worst or the selected one replaced, no   *)
(* call makes the champion of the caller's population worse, whatever the  *)
(* solver answers and whichever individual the comparison was with         *)
(* (snopt7.cpp:770-772).                                                   *)
ChampionKept == Contract!ChampionKept
==============================================================================
