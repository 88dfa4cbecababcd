----------------------------- MODULE WorhpEvolve -----------------------------
(***************************************************************************)
(* ppnf::worhp, the pagmo algorithm that drives the WORHP solver through   *)
(* its reverse-communication interface (src/src/worhp.cpp).                *)
(*                                                                         *)
(* One worhp object lives through any number of calls of evolve(), on      *)
(* populations of different problems, with its setters called in between.  *)
(* Its log, its last result and its two caches are mutable members: they   *)
(* survive from one call to the next.  The WORHP library is the            *)
(* environment: it answers Worhp() with any point, status and set of       *)
(* requests its interface allows, and the loop in evolve() serves them.    *)
(*                                                                         *)
(* A population is passed by value, so `prob` and `pop` are the copies     *)
(* evolve() works on; what the caller gets is `pop` when outcome is        *)
(* "returned" and an exception when outcome is "threw".                    *)
(***************************************************************************)
EXTENDS Pagmo

CONSTANTS
  Gradient,       \* Gradient[p][x]: what prob.gradient(x) returns
  FNnz,           \* FNnz[p]: how many of its entries belong to the objective
  WithGradient,   \* problems WORHP takes the gradient of (UserDF, UserDG)
  WithHessians,   \* problems WORHP takes the hessians of (UserHM)
  Garbage,        \* values a read past the end of a vector may return
  Scales,         \* values WORHP may give to the objective scaling ScaleObj
  Multipliers,    \* values WORHP may give to the constraint multipliers Mu
  RequestSets,    \* sets of evaluations one return of Worhp() may request
  MaxIter,        \* WORHP's own limit on its iterations in one call
  Verbosities,    \* arguments of set_verbosity
  UserPolicies,   \* arguments of set_selection and set_replacement
  UIntModulus,    \* 2^w, w the width of an unsigned
  NoPoint         \* an empty vector_double

Evaluations == {"evalF", "evalG", "evalDF", "evalHM", "evalDG"}

ASSUME WorhpAssumption ==
  /\ Gradient \in [Problem -> [Point -> Seq(Int)]]
  /\ FNnz \in [Problem -> Nat]
  /\ \A p \in Problem : \A x, y \in Point :
       FNnz[p] <= Len(Gradient[p][x]) /\ Len(Gradient[p][x]) = Len(Gradient[p][y])
  /\ WithGradient \subseteq Problem /\ WithHessians \subseteq Problem
  /\ Garbage \subseteq Int /\ Scales \subseteq Int /\ 1 \in Scales
  /\ Multipliers \subseteq Int /\ 0 \in Multipliers
  /\ RequestSets \subseteq SUBSET Evaluations
  /\ MaxIter \in Nat
  /\ Verbosities \subseteq Nat
  /\ UserPolicies \subseteq Policies
  /\ UIntModulus \in Nat \ {0}
  /\ NoPoint \notin Point

VARIABLES
  \* the members of the worhp object
  screenOutput, verbosity, select, replace, log, lastRes, fcache, gcache,
  \* evolve(): control, the population, and its local variables
  pc, prob, pop, start, opt, wsp, nev,
  \* the solver: cnt's requests and status, and what it keeps to itself
  requests, status, iters, base, allocated,
  \* how the last call ended
  outcome,
  \* history: what the solver asked for at the current point, and the
  \* evaluations of the problem spent there
  asked, spent

options == <<screenOutput, verbosity, select, replace>>
caches == <<fcache, gcache>>
solver == <<requests, status, iters, base, allocated>>
vars == <<options, log, lastRes, caches, pc, prob, pop, start, opt, wsp, nev,
          solver, outcome, asked, spent>>

(* Slip: the loop condition tests for success only. *)
NotYetSuccessful == {"running", "error"}

Running == {"running"}
Terminal == {"success", "error"}

(* The cached pair of empty vectors of a new object.  `by` is a history    *)
(* field: the problem the entry was computed with.                         *)
EmptyCache == [x |-> NoPoint, val |-> <<>>, by |-> CHOOSE p \in Problem : TRUE]

NoInd == [x |-> NoPoint, f |-> <<>>]
BlankOpt == [X |-> NoPoint, F |-> 0, G |-> <<>>, Mu |-> 0]
BlankWsp == [ScaleObj |-> 1, DF |-> <<>>, DG |-> <<>>, HM |-> <<>>]
NoSpending == [f |-> 0, g |-> 0]

Init ==
  /\ screenOutput \in BOOLEAN
  /\ verbosity = 0
  /\ select = [kind |-> "best", idx |-> 0]
  /\ replace = [kind |-> "best", idx |-> 0]
  /\ log = <<>>
  /\ lastRes = "none"
  /\ fcache = EmptyCache
  /\ gcache = EmptyCache
  /\ pc = "idle"
  /\ prob \in Problem
  /\ pop = <<>>
  /\ start = NoInd
  /\ opt = BlankOpt
  /\ wsp = BlankWsp
  /\ nev = 0
  /\ requests = {}
  /\ status = "none"
  /\ iters = 0
  /\ base = NoPoint
  /\ allocated = FALSE
  /\ outcome = "none"
  /\ asked = {}
  /\ spent = NoSpending

-------------------------------------------------------------------------------
(* The setters, called between two evolves *)

(* Slip: set_verbosity accepts any n. *)
AnyVerbosity(n) == TRUE

(* set_verbosity throws, and changes nothing, when the screen output of    *)
(* the solver was chosen and n is not zero.                                *)
VerbosityAllowed(n) == ~(screenOutput /\ n # 0)

SetVerbosity ==
  /\ pc = "idle"
  /\ \E n \in Verbosities : VerbosityAllowed(n) /\ verbosity' = n
  /\ UNCHANGED <<screenOutput, select, replace, log, lastRes, caches, pc, prob,
                 pop, start, opt, wsp, nev, solver, outcome, asked, spent>>

SetPolicies ==
  /\ pc = "idle"
  /\ select' \in UserPolicies
  /\ replace' \in UserPolicies
  /\ UNCHANGED <<screenOutput, verbosity, log, lastRes, caches, pc, prob, pop,
                 start, opt, wsp, nev, solver, outcome, asked, spent>>

-------------------------------------------------------------------------------
(* Entering and leaving evolve() *)

(* Slip: WorhpFree is called at the end of evolve() and not by a guard.    *)
LeaveWithoutGuard(how) ==
  /\ pc' = "idle"
  /\ outcome' = how
  /\ start' = NoInd /\ opt' = BlankOpt /\ wsp' = BlankWsp /\ nev' = 0
  /\ requests' = {} /\ status' = "none" /\ iters' = 0 /\ base' = NoPoint
  /\ allocated' = (allocated /\ how = "threw")
  /\ asked' = {} /\ spent' = NoSpending

(* Control goes back to the caller: the locals of evolve() go out of scope *)
(* and ~worhp_raii calls WorhpFree, on every path.                         *)
Leave(how) ==
  /\ pc' = "idle"
  /\ outcome' = how
  /\ start' = NoInd /\ opt' = BlankOpt /\ wsp' = BlankWsp /\ nev' = 0
  /\ requests' = {} /\ status' = "none" /\ iters' = 0 /\ base' = NoPoint
  /\ allocated' = FALSE
  /\ asked' = {} /\ spent' = NoSpending

Throw == Leave("threw") /\ UNCHANGED <<options, log, lastRes, prob, pop>>

Call ==
  /\ pc = "idle"
  /\ pc' = "preamble"
  /\ prob' \in Problem
  /\ pop' \in Populations(prob')
  /\ outcome' = "none"
  /\ UNCHANGED <<options, log, lastRes, caches, start, opt, wsp, nev, solver,
                 asked, spent>>

(* Multi-objective and stochastic problems are refused. *)
RejectProblem ==
  /\ pc = "preamble"
  /\ prob \in Unsuitable
  /\ Throw
  /\ UNCHANGED caches

ReturnEmpty ==
  /\ pc = "preamble"
  /\ prob \notin Unsuitable
  /\ pop = <<>>
  /\ Leave("returned")
  /\ UNCHANGED <<options, log, lastRes, caches, prob, pop>>

(* The library is missing, lacks a symbol, or has the wrong version. *)
LoadFails ==
  /\ pc = "preamble"
  /\ prob \notin Unsuitable
  /\ pop # <<>>
  /\ Throw
  /\ UNCHANGED caches

(* gradient_sparsity() or hessians_sparsity() throws: the log is cleared,  *)
(* and there is no worhp_raii yet.                                         *)
SparsityFails ==
  /\ pc = "preamble"
  /\ prob \notin Unsuitable
  /\ pop # <<>>
  /\ log' = <<>>
  /\ Leave("threw")
  /\ UNCHANGED <<options, lastRes, caches, prob, pop>>

(* m_log.clear(), then WorhpPreInit, ReadParams, the problem dimensions    *)
(* and WorhpInit.                                                          *)
StartRun ==
  /\ pc = "preamble"
  /\ prob \notin Unsuitable
  /\ pop # <<>>
  /\ log' = <<>>
  /\ allocated' = TRUE
  /\ pc' = "configure"
  /\ UNCHANGED <<options, lastRes, caches, prob, pop, start, opt, wsp, nev,
                 requests, status, iters, base, outcome, asked, spent>>

(* The solver refuses one of the user's options. *)
OptionRejected ==
  /\ pc = "configure"
  /\ Throw
  /\ UNCHANGED caches

(* A selection index past the end of the population. *)
SelectionFails ==
  /\ pc = "configure"
  /\ Candidates(select, pop, Nec[prob]) = {}
  /\ Throw
  /\ UNCHANGED caches

(* The starting point, its fitness and the initial requests.  The first    *)
(* call of Worhp() uses opt.F and opt.G as the values at opt.X.            *)
SelectIndividual ==
  /\ pc = "configure"
  /\ \E i \in Candidates(select, pop, Nec[prob]) :
       /\ start' = pop[i]
       /\ opt' = [X |-> pop[i].x, F |-> wsp.ScaleObj * pop[i].f[1],
                  G |-> Tail(pop[i].f), Mu |-> 0]
  /\ status' \in Running \cup {"error"}
  /\ requests' = {"callWorhp"}
  /\ asked' = {"evalF", "evalG"}
  /\ pc' = "callWorhp"
  /\ UNCHANGED <<options, log, lastRes, caches, prob, pop, wsp, nev, iters, base,
                 allocated, outcome, spent>>

-------------------------------------------------------------------------------
(* The reverse-communication loop *)

(* Slip: the loop body does not serve evalHM. *)
NoHessianPoll == [callWorhp |-> "iterOutput", iterOutput |-> "evalF",
                  evalF |-> "evalG", evalG |-> "evalDF", evalDF |-> "evalDG",
                  evalHM |-> "evalDG", evalDG |-> "fidif", fidif |-> "callWorhp"]

(* The order in which the loop body polls GetUserAction. *)
NextPoll == [callWorhp |-> "iterOutput", iterOutput |-> "evalF",
             evalF |-> "evalG", evalG |-> "evalDF", evalDF |-> "evalHM",
             evalHM |-> "evalDG", evalDG |-> "fidif", fidif |-> "callWorhp"]

Polls == DOMAIN NextPoll

(* The while condition is tested before the first poll of the body. *)
Polling(action) ==
  pc = action /\ (action = "callWorhp" => status \in Running)

Requested(action) == Polling(action) /\ action \in requests

(* DoneUserAction(&cnt, action), then on to the next poll. *)
Done(action) ==
  /\ requests' = requests \ {action}
  /\ pc' = NextPoll[action]

(* GetUserAction answers false: the body skips to the next poll. *)
NotRequested ==
  /\ \E action \in Polls :
       /\ Polling(action)
       /\ action \notin requests
       /\ pc' = NextPoll[action]
  /\ UNCHANGED <<options, log, lastRes, caches, prob, pop, start, opt, wsp, nev,
                 solver, outcome, asked, spent>>

(* What Worhp() may request: with FGtogether, set when the problem is      *)
(* constrained, evalF and evalG come together; derivatives are requested   *)
(* only if UserDF, UserDG, UserHM say the problem provides them.  A user   *)
(* option that overrides these puts the problem in or out of WithGradient  *)
(* and WithHessians; one that overrides FGtogether is left out.            *)
MayRequest(p) ==
  {r \in RequestSets :
     /\ Nc(p) > 0 => ("evalF" \in r <=> "evalG" \in r)
     /\ Nc(p) = 0 => r \cap {"evalG", "evalDG"} = {}
     /\ p \notin WithGradient => r \cap {"evalDF", "evalDG"} = {}
     /\ p \notin WithHessians => "evalHM" \notin r}

(* One call of the solver: a new iterate and what it needs there, or finite*)
(* differences around it, or the end.  There is no DoneUserAction.         *)
Worhp ==
  /\ Requested("callWorhp")
  /\ \E x \in Point, scale \in Scales, mu \in Multipliers :
       /\ opt' = [opt EXCEPT !.X = x, !.Mu = mu]
       /\ wsp' = [wsp EXCEPT !.ScaleObj = scale]
  /\ \/ /\ iters < MaxIter
        /\ status' = "running"
        /\ \/ \E r \in MayRequest(prob) :
                asked' = r /\ requests' = r \cup {"callWorhp", "iterOutput"}
           \/ /\ prob \notin WithGradient \cap WithHessians
              /\ asked' = {} /\ requests' = {"callWorhp", "fidif"}
     \/ /\ status' \in Terminal
        /\ asked' = {} /\ requests' = {"callWorhp", "iterOutput"}
  /\ iters' = IF iters < MaxIter THEN iters + 1 ELSE iters
  /\ base' = NoPoint
  /\ spent' = NoSpending
  /\ pc' = NextPoll["callWorhp"]
  /\ UNCHANGED <<options, log, lastRes, caches, prob, pop, start, nev, allocated,
                 outcome>>

IterationOutput ==
  /\ Requested("iterOutput")
  /\ Done("iterOutput")
  /\ UNCHANGED <<options, log, lastRes, caches, prob, pop, start, opt, wsp, nev,
                 status, iters, base, allocated, outcome, asked, spent>>

(* fitness_with_cache: the value it returns, and its effect. *)
FitnessHit == opt.X = fcache.x
FitnessWithCache == IF FitnessHit THEN fcache.val ELSE Fitness[prob][opt.X]

(* Slips: the value is not stored with its point; nothing is stored.       *)
UpdateFitnessKey ==
  IF FitnessHit
    THEN UNCHANGED <<fcache, nev, spent>>
    ELSE /\ fcache' = [fcache EXCEPT !.x = opt.X, !.by = prob]
         /\ nev' = nev + 1
         /\ spent' = [spent EXCEPT !.f = @ + 1]

ForgetFitness ==
  IF FitnessHit
    THEN UNCHANGED <<fcache, nev, spent>>
    ELSE /\ nev' = nev + 1
         /\ spent' = [spent EXCEPT !.f = @ + 1]
         /\ UNCHANGED fcache

UpdateFitnessCache ==
  IF FitnessHit
    THEN UNCHANGED <<fcache, nev, spent>>
    ELSE /\ fcache' = [x |-> opt.X, val |-> Fitness[prob][opt.X], by |-> prob]
         /\ nev' = nev + 1
         /\ spent' = [spent EXCEPT !.f = @ + 1]

(* Slip: gradient_with_cache looks at the point of the other cache.        *)
WrongCacheHit == opt.X = fcache.x

(* gradient_with_cache, likewise. *)
GradientHit == opt.X = gcache.x
GradientWithCache == IF GradientHit THEN gcache.val ELSE Gradient[prob][opt.X]
UpdateGradientCache ==
  IF GradientHit
    THEN UNCHANGED <<gcache, spent>>
    ELSE /\ gcache' = [x |-> opt.X, val |-> Gradient[prob][opt.X], by |-> prob]
         /\ spent' = [spent EXCEPT !.g = @ + 1]

(* The n entries of v after the first `skip`: an entry past the end of v   *)
(* is read from outside the vector.                                        *)
Read(v, skip, n) ==
  {s \in [1..n -> Garbage \cup {v[i] : i \in DOMAIN v}] :
     \A i \in 1..n : skip + i <= Len(v) => s[i] = v[skip + i]}

(* Slip: the line is numbered as SNOPT7's, before its evaluation counts.   *)
UpdateLogAhead(fit, count) ==
  LET fevals == (count + 1) % UIntModulus IN
  log' = IF verbosity > 0 /\ fevals % verbosity = 0
           THEN Append(log, [fevals |-> fevals, objval |-> fit[1]])
           ELSE log

LineDue(count) == verbosity > 0 /\ (count % UIntModulus) % verbosity = 0

(* update_log: a line every `verbosity` evaluations counted by the problem *)
(* since the call began.                                                   *)
UpdateLog(fit, count) ==
  log' = IF LineDue(count)
           THEN Append(log, [fevals |-> count % UIntModulus, objval |-> fit[1]])
           ELSE log

(* feasibility_f throws: the cache answered with a vector of the length of *)
(* another problem's.                                                      *)
LogRefuses ==
  FitnessHit /\ LineDue(nev) /\ Len(fcache.val) # Nc(prob) + 1

UserF ==
  /\ Requested("evalF")
  /\ ~LogRefuses
  /\ UpdateFitnessCache
  /\ UpdateLog(FitnessWithCache, nev')
  /\ opt' = [opt EXCEPT !.F = wsp.ScaleObj * FitnessWithCache[1]]
  /\ Done("evalF")
  /\ UNCHANGED <<options, lastRes, gcache, prob, pop, start, wsp, status, iters,
                 base, allocated, outcome, asked>>

UserG ==
  /\ Requested("evalG")
  /\ UpdateFitnessCache
  /\ \E g \in Read(FitnessWithCache, 1, Nc(prob)) : opt' = [opt EXCEPT !.G = g]
  /\ Done("evalG")
  /\ UNCHANGED <<options, log, lastRes, gcache, prob, pop, start, wsp, status,
                 iters, base, allocated, outcome, asked>>

UserDF ==
  /\ Requested("evalDF")
  /\ UpdateGradientCache
  /\ \E d \in Read(GradientWithCache, 0, FNnz[prob]) : wsp' = [wsp EXCEPT !.DF = d]
  /\ Done("evalDF")
  /\ UNCHANGED <<options, log, lastRes, fcache, prob, pop, start, opt, nev,
                 status, iters, base, allocated, outcome, asked>>

(* The hessian of ScaleObj * f + Mu * g of the problem at X.  hessians()   *)
(* is not cached, and its value is kept symbolic.                          *)
Lagrangian(p, o, w) == <<p, o.X, w.ScaleObj, o.Mu>>

UserHM ==
  /\ Requested("evalHM")
  /\ wsp' = [wsp EXCEPT !.HM = Lagrangian(prob, opt, wsp)]
  /\ Done("evalHM")
  /\ UNCHANGED <<options, log, lastRes, caches, prob, pop, start, opt, nev,
                 status, iters, base, allocated, outcome, asked, spent>>

(* DG is indexed here in pagmo's order of its entries. *)
DGnnz(p) == Len(Gradient[p][CHOOSE x \in Point : TRUE]) - FNnz[p]

UserDG ==
  /\ Requested("evalDG")
  /\ UpdateGradientCache
  /\ \E d \in Read(GradientWithCache, FNnz[prob], DGnnz(prob)) :
       wsp' = [wsp EXCEPT !.DG = d]
  /\ Done("evalDG")
  /\ UNCHANGED <<options, log, lastRes, fcache, prob, pop, start, opt, nev,
                 status, iters, base, allocated, outcome, asked>>

(* The problem throws where it is evaluated, or where a line is logged.    *)
EvaluationThrows ==
  /\ \/ (Requested("evalF") \/ Requested("evalG")) /\ ~FitnessHit
     \/ Requested("evalF") /\ LogRefuses
     \/ (Requested("evalDF") \/ Requested("evalDG")) /\ ~GradientHit
     \/ Requested("evalHM")
  /\ Throw
  /\ UNCHANGED caches

(* Finite differences: WorhpFidif withdraws callWorhp and asks for the     *)
(* functions at perturbed points, then restores the point and hands back   *)
(* to Worhp().                                                             *)
Perturb ==
  /\ Requested("fidif")
  /\ iters < MaxIter
  /\ iters' = iters + 1
  /\ base' = IF base = NoPoint THEN opt.X ELSE base
  /\ \E x \in Point : opt' = [opt EXCEPT !.X = x]
  /\ asked' = IF Nc(prob) > 0 THEN {"evalF", "evalG"} ELSE {"evalF"}
  /\ requests' = asked' \cup {"fidif"}
  /\ spent' = NoSpending
  /\ pc' = NextPoll["fidif"]
  /\ UNCHANGED <<options, log, lastRes, caches, prob, pop, start, wsp, nev, status,
                 allocated, outcome>>

FinishDifferences ==
  /\ Requested("fidif")
  /\ base' = NoPoint
  /\ opt' = IF base = NoPoint THEN opt ELSE [opt EXCEPT !.X = base]
  /\ asked' = {}
  /\ requests' = {"callWorhp"}
  /\ spent' = NoSpending
  /\ pc' = NextPoll["fidif"]
  /\ UNCHANGED <<options, log, lastRes, caches, prob, pop, start, wsp, nev, status,
                 iters, allocated, outcome>>

WorhpFidif == Perturb \/ FinishDifferences

-------------------------------------------------------------------------------
(* After the loop: the final point is evaluated, without the cache, and    *)
(* replaces an individual if it improves on the starting point.            *)

(* Slip: the loop can be left while the solver is running. *)
LeaveLoopEarly ==
  /\ pc = "callWorhp"
  /\ pc' = "reinsert"
  /\ UNCHANGED <<options, log, lastRes, caches, prob, pop, start, opt, wsp, nev,
                 solver, outcome, asked, spent>>

LoopExit ==
  /\ pc = "callWorhp"
  /\ status \notin Running
  /\ pc' = "reinsert"
  /\ UNCHANGED <<options, log, lastRes, caches, prob, pop, start, opt, wsp, nev,
                 solver, outcome, asked, spent>>

FinalFitness == Fitness[prob][opt.X]

(* Slip: the comparison is the other way round. *)
Worsened == CompareFC(start.f, FinalFitness, Nec[prob])

Improved == CompareFC(FinalFitness, start.f, Nec[prob])

(* prob.fitness(x_final) throws, or the replacement index is out of range. *)
ReinsertThrows ==
  /\ pc = "reinsert"
  /\ Throw
  /\ UNCHANGED caches

ReplacementFails ==
  /\ pc = "reinsert"
  /\ Improved
  /\ Candidates(replace, pop, Nec[prob]) = {}
  /\ Throw
  /\ UNCHANGED caches

Reinsert ==
  /\ pc = "reinsert"
  /\ \/ ~Improved /\ pop' = pop
     \/ /\ Improved
        /\ \E i \in Candidates(replace, pop, Nec[prob]) :
             pop' = [pop EXCEPT ![i] = [x |-> opt.X, f |-> FinalFitness]]
  /\ lastRes' = status
  /\ Leave("returned")
  /\ UNCHANGED <<options, log, caches, prob>>

-------------------------------------------------------------------------------
(* The thread inside evolve(), and the caller between two calls of it. *)
Evolve ==
  \/ RejectProblem \/ ReturnEmpty \/ LoadFails \/ SparsityFails \/ StartRun
  \/ OptionRejected \/ SelectionFails \/ SelectIndividual
  \/ NotRequested \/ Worhp \/ IterationOutput \/ UserF \/ UserG
  \/ UserDF \/ UserHM \/ UserDG \/ WorhpFidif \/ EvaluationThrows
  \/ LoopExit \/ ReinsertThrows \/ ReplacementFails \/ Reinsert

Caller == SetVerbosity \/ SetPolicies \/ Call

Next == Caller \/ Evolve

Spec == Init /\ [][Next]_vars

(* evolve() runs on its caller's thread: it keeps taking steps. *)
FairSpec == Spec /\ WF_vars(Evolve)

-------------------------------------------------------------------------------
(* Properties *)

SolverCalls == {"configure", "reinsert"} \cup Polls
EvolveStates == {"preamble"} \cup SolverCalls

LogLines == [fevals : Nat, objval : Int]
CacheEntries == [x : Point \cup {NoPoint}, val : Seq(Int), by : Problem]

ObjectTypes ==
  /\ screenOutput \in BOOLEAN
  /\ verbosity \in Nat
  /\ select \in Policies /\ replace \in Policies
  /\ log \in Seq(LogLines)
  /\ lastRes \in Terminal \cup {"none"}
  /\ fcache \in CacheEntries /\ gcache \in CacheEntries

LocalTypes ==
  /\ prob \in Problem
  /\ pop \in Seq(Individuals)
  /\ start \in Individuals \cup {NoInd}
  /\ opt \in [X : Point \cup {NoPoint}, F : Int, G : Seq(Int), Mu : Int]
  /\ DOMAIN wsp = {"ScaleObj", "DF", "DG", "HM"}
  /\ wsp.ScaleObj \in Int /\ wsp.DF \in Seq(Int) /\ wsp.DG \in Seq(Int)
  /\ nev \in Nat

ControlTypes ==
  /\ pc \in {"idle"} \cup EvolveStates
  /\ requests \subseteq Evaluations \cup {"callWorhp", "iterOutput", "fidif"}
  /\ status \in Running \cup Terminal \cup {"none"}
  /\ iters \in 0..MaxIter
  /\ base \in Point \cup {NoPoint}
  /\ allocated \in BOOLEAN
  /\ outcome \in {"none", "returned", "threw"}
  /\ asked \subseteq Evaluations
  /\ spent \in [f : Nat, g : Nat]

(* The type of every variable of the object, of evolve() and of the        *)
(* solver (worhp.hpp:243-259 and the locals of evolve).                    *)
TypeOK == ObjectTypes /\ LocalTypes /\ ControlTypes

(* An entry of a cache has the value of the problem that computed it: a    *)
(* part of IInv, which by itself says nothing of the problem that reads it.*)
CachesExact ==
  /\ fcache.x # NoPoint => fcache.val = Fitness[fcache.by][fcache.x]
  /\ gcache.x # NoPoint => gcache.val = Gradient[gcache.by][gcache.x]

(* What the solver asked for, at its current point and of this problem.    *)
Fresh(request) ==
  LET f == Fitness[prob][opt.X]
      g == Gradient[prob][opt.X]
  IN CASE request = "evalF" -> opt.F = wsp.ScaleObj * f[1]
       [] request = "evalG" -> opt.G = Tail(f)
       [] request = "evalDF" -> wsp.DF = SubSeq(g, 1, FNnz[prob])
       [] request = "evalDG" -> wsp.DG = SubSeq(g, FNnz[prob] + 1, Len(g))
       [] request = "evalHM" -> wsp.HM = Lagrangian(prob, opt, wsp)

(* Whenever the solver gets control back, every value it asked for is the  *)
(* problem's own value at the point it asked about, whatever the caches    *)
(* remember from earlier points, runs and exceptions (the comments of the  *)
(* loop, worhp.cpp:648-686, "Evaluate the objective function." and so on). *)
SolverGetsFreshAnswers ==
  Requested("callWorhp") \/ Requested("fidif") => \A r \in asked : Fresh(r)

(* The answer to the request may be another function's: the solver is at   *)
(* the one point the cache knows, a problem of another function left it    *)
(* there, and this run has not called fitness() since it began.            *)
Inherited(request) ==
  \/ /\ request \in {"evalF", "evalG"}
     /\ nev = 0
     /\ fcache.x = opt.X
     /\ Fitness[fcache.by] # Fitness[prob]
  \/ /\ request \in {"evalDF", "evalDG"}
     /\ gcache.x = opt.X
     /\ Gradient[gcache.by] # Gradient[prob]

(* However different the problems an object is used with, the members      *)
(* m_f_cache and m_g_cache mislead the solver in no other case: every      *)
(* answer is this problem's own value at the solver's point, or that of an *)
(* inherited entry, which the first evaluation of the run puts an end to   *)
(* (worhp.cpp:1111-1133, where the caches are not reset between runs).     *)
StaleOnlyIfInherited ==
  Requested("callWorhp") \/ Requested("fidif") =>
    \A r \in asked : Fresh(r) \/ Inherited(r)

(* When Worhp() is called no request it made earlier is still pending: the *)
(* loop body polls and resets each of them between two calls.              *)
AllRequestsServed ==
  Requested("callWorhp") => requests \cap (Evaluations \cup {"iterOutput"}) = {}

(* Every individual of the population carries the true fitness of its      *)
(* point under its own problem, although the caches may be stale when the  *)
(* loop ends: the final point is evaluated without them (worhp.cpp:710).   *)
PopulationConsistent == \A i \in 1..Len(pop) : Consistent(prob, pop[i])

(* WorhpFree balances WorhpInit on every way out of evolve(), and the      *)
(* solver is only used in between.                                         *)
SolverMemoryBalanced == allocated <=> pc \in SolverCalls

(* What every step of evolve() relies on: between the selection of the     *)
(* starting point and the end, the solver has a point and a status.        *)
SolverHasPoint ==
  /\ pc \in Polls \cup {"reinsert"} => opt.X \in Point
  /\ pc \in Polls => status \in Running \cup Terminal
  /\ pc = "reinsert" => status \in Terminal

(* The inductive invariant behind the theorems of WorhpEvolveProofs.       *)
IInv == TypeOK /\ CachesExact /\ PopulationConsistent /\ SolverHasPoint
          /\ SolverMemoryBalanced

(* The evaluations still to be polled in the current pass of the loop.     *)
After ==
  [callWorhp |-> Evaluations, iterOutput |-> Evaluations, evalF |-> Evaluations,
   evalG |-> {"evalG", "evalDF", "evalHM", "evalDG"},
   evalDF |-> {"evalDF", "evalHM", "evalDG"},
   evalHM |-> {"evalHM", "evalDG"}, evalDG |-> {"evalDG"}, fidif |-> {}]

(* What is pending will still be polled before the solver runs again, and  *)
(* what was asked is pending, answered, or answered by an inherited entry: *)
(* with IInv, the inductive invariant behind AllRequestsServed and         *)
(* SolverGetsFreshAnswers.                                                 *)
PendingInv ==
  pc \in Polls =>
    /\ requests \cap Evaluations \subseteq After[pc]
    /\ requests \cap {"callWorhp", "fidif"} # {}
    /\ "callWorhp" \in requests /\ pc = "callWorhp" => requests = {"callWorhp"}
    /\ "iterOutput" \in requests => pc = "iterOutput"

AnswersInv ==
  pc \in Polls => \A r \in asked : r \in requests \/ Fresh(r) \/ Inherited(r)

(* A run that has called fitness() has its own entry in the cache; with    *)
(* AnswersInv, what StaleOnlyIfInherited rests on.                         *)
OwnInv ==
  /\ nev # 0 => fcache.by = prob
  /\ pc \in {"idle", "preamble", "configure"} => nev = 0

(* The starting point is still the individual the policy designates in the *)
(* unchanged population: what ImplementsContract rests on, with IInv.      *)
StartInv ==
  pc \in Polls \cup {"reinsert"} =>
    \E s \in Candidates(select, pop, Nec[prob]) : start = pop[s]

(* However the requests are combined, a point costs at most one fitness    *)
(* and one gradient evaluation while the solver stays there ("We cache     *)
(* the last call to fitness as it will be repeated by worhp").             *)
OneEvaluationPerPoint == spent.f <= 1 /\ spent.g <= 1

(* The log holds the lines of one run, in chronological order              *)
(* (worhp.hpp:149-152), however many runs the object has made.             *)
LogChronological ==
  /\ \A i, j \in 1..Len(log) : i < j => log[i].fevals <= log[j].fevals
  /\ pc \in Polls => \A i \in 1..Len(log) : log[i].fevals <= nev

(* "only one among the original WORHP screen output and the pagmo logging  *)
(* system will be activated" (worhp.hpp:157-159).                          *)
ScreenOutputExcludesLog == screenOutput => log = <<>>

(* The gradient the solver is given is that of the objective it is given,  *)
(* which is ScaleObj times the problem's (worhp.cpp:667-668 "Evaluate the  *)
(* gradient of the objective function.", UserF at worhp.cpp:1033).         *)
GradientOfTheObjective ==
  Requested("callWorhp") /\ {"evalF", "evalDF"} \subseteq asked =>
    \A i \in 1..FNnz[prob] :
      wsp.DF[i] = wsp.ScaleObj * Gradient[prob][opt.X][i]

(* "every n objective function evaluations the status of the optimisation  *)
(* will be both printed to screen and recorded internally" (worhp.cpp:     *)
(* 735-737): an evaluation leaves at most one line in the log.             *)
OneLinePerEvaluation ==
  \A i, j \in 1..Len(log) : i < j => log[i].fevals < log[j].fevals

Contract == INSTANCE EvolveContract WITH busy <- pc # "idle"

(* evolve() keeps the promise every pagmo algorithm makes.                 *)
ImplementsContract == Contract!Init /\ [][Contract!Next]_(Contract!vars)

(* With the best selected, or the worst or the selected one replaced, no   *)
(* call makes the champion of the caller's population worse, although the  *)
(* one that is compared need not be the one that is replaced               *)
(* (worhp.cpp:704-718).                                                    *)
ChampionKept == Contract!ChampionKept

(* Every call of evolve() ends, as the solver's iterations do.             *)
EvolveEnds == Contract!Progress
==============================================================================
