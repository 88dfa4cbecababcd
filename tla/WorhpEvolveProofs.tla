-------------------------- MODULE WorhpEvolveProofs --------------------------
(* Theorems about WorhpEvolve, for every value of its constants. *)
EXTENDS WorhpEvolve, PagmoProofs, SequenceTheorems, TLAPS

LEMMA ConstantTypes ==
  ASSUME NEW p \in Problem, NEW x \in Point
  PROVE  /\ Fitness[p][x] \in Seq(Int) /\ Len(Fitness[p][x]) > 0
         /\ Fitness[p][x][1] \in Int /\ Tail(Fitness[p][x]) \in Seq(Int)
         /\ Gradient[p][x] \in Seq(Int)
         /\ NoPoint \notin Point
  BY PagmoAssumption, WorhpAssumption

(* The assumptions on the environment, one by one. *)
LEMMA EnvironmentTypes ==
  /\ MaxIter \in Nat
  /\ Garbage \subseteq Int
  /\ Scales \subseteq Int
  /\ Multipliers \subseteq Int
  /\ RequestSets \subseteq SUBSET Evaluations
  /\ Verbosities \subseteq Nat
  /\ UserPolicies \subseteq Policies
  /\ UIntModulus \in Nat \ {0}
  /\ FNnz \in [Problem -> Nat]
BY WorhpAssumption

(* A population a caller builds is consistent. *)
LEMMA PopulationsConsistent ==
  ASSUME NEW p \in Problem, NEW s \in Populations(p)
  PROVE  /\ s \in Seq(Individuals)
         /\ \A i \in 1..Len(s) : Consistent(p, s[i])
<1>1. PICK k \in 0..MaxPop : s \in [1..k -> {Individual(p, x) : x \in Point}]
  BY DEF Populations
<1>2. k \in Nat
  BY <1>1, PagmoAssumption
<1>3. \A i \in 1..k : s[i] \in Individuals /\ Consistent(p, s[i])
  BY <1>1, ConstantTypes DEF Individual, Individuals, Consistent
<1>4. s \in Seq(Individuals) /\ Len(s) = k
  BY <1>1, <1>2, <1>3
<1> QED
  BY <1>3, <1>4

LEMMA InitIInv == Init => IInv
<1> SUFFICES ASSUME Init PROVE IInv
  OBVIOUS
<1> USE DEF Init
<1>1. fcache \in CacheEntries /\ gcache \in CacheEntries
  BY DEF EmptyCache, CacheEntries
<1>2. select \in Policies /\ replace \in Policies
  BY DEF Policies
<1>3. log \in Seq(LogLines) /\ pop \in Seq(Individuals) /\ pop = << >>
  OBVIOUS
<1>4. opt \in [X : Point \cup {NoPoint}, F : Int, G : Seq(Int), Mu : Int]
  BY DEF BlankOpt
<1>5. /\ DOMAIN wsp = {"ScaleObj", "DF", "DG", "HM"}
      /\ wsp.ScaleObj \in Int /\ wsp.DF \in Seq(Int) /\ wsp.DG \in Seq(Int)
  BY DEF BlankWsp
<1>6. spent \in [f : Nat, g : Nat]
  BY DEF NoSpending
<1>7. TypeOK
  <2>1. /\ iters \in 0..MaxIter /\ nev \in Nat /\ verbosity \in Nat
        /\ base \in Point \cup {NoPoint}
    BY WorhpAssumption
  <2>2. /\ lastRes \in Terminal \cup {"none"}
        /\ status \in Running \cup Terminal \cup {"none"}
        /\ pc \in {"idle"} \cup EvolveStates
    OBVIOUS
  <2>3. requests \subseteq Evaluations \cup {"callWorhp", "iterOutput", "fidif"}
    OBVIOUS
  <2> QED
    BY <1>1, <1>2, <1>3, <1>4, <1>5, <1>6, <2>1, <2>2, <2>3
       DEF TypeOK, ObjectTypes, LocalTypes, ControlTypes
<1>8. CachesExact /\ PopulationConsistent /\ SolverHasPoint
  BY <1>3 DEF CachesExact, EmptyCache, PopulationConsistent, SolverHasPoint,
              Polls, NextPoll
<1>9. SolverMemoryBalanced
  BY DEF SolverMemoryBalanced, SolverCalls, Polls, NextPoll
<1> QED
  BY <1>7, <1>8, <1>9 DEF IInv

-------------------------------------------------------------------------------
(* Type correctness is preserved *)

(* Going back to the caller. *)
LEMMA LeaveTypes ==
  ASSUME TypeOK, NEW how \in {"returned", "threw"}, Leave(how),
         prob' \in Problem, pop' \in Seq(Individuals), ObjectTypes'
  PROVE  TypeOK'
<1> USE DEF Leave
<1>1. LocalTypes'
  BY DEF LocalTypes, NoInd, BlankOpt, BlankWsp
<1>2. ControlTypes'
  <2>1. spent' \in [f : Nat, g : Nat]
    BY DEF NoSpending
  <2>2. iters' \in 0..MaxIter
    BY EnvironmentTypes
  <2> QED
    BY <2>1, <2>2 DEF ControlTypes
<1> QED
  BY <1>1, <1>2 DEF TypeOK

LEMMA ThrowTypes ==
  ASSUME TypeOK, Throw, UNCHANGED caches
  PROVE  TypeOK'
<1>1. ObjectTypes' /\ prob' \in Problem /\ pop' \in Seq(Individuals)
  BY DEF TypeOK, Throw, ObjectTypes, LocalTypes, options, caches
<1> QED
  BY <1>1, LeaveTypes DEF Throw

(* The two cached evaluations. *)
LEMMA FitnessCacheTypes ==
  ASSUME TypeOK, CachesExact, opt.X \in Point, UpdateFitnessCache
  PROVE  /\ fcache' \in CacheEntries
         /\ nev' \in Nat
         /\ spent' \in [f : Nat, g : Nat]
         /\ FitnessWithCache \in Seq(Int)
         /\ FitnessWithCache[1] \in Int
<1>1. /\ fcache \in CacheEntries /\ nev \in Nat /\ prob \in Problem
      /\ spent \in [f : Nat, g : Nat]
  BY DEF TypeOK, ObjectTypes, LocalTypes, ControlTypes
<1>2. CASE FitnessHit
  <2>1. fcache.x \in Point /\ fcache.by \in Problem /\ FitnessWithCache = fcache.val
    BY <1>1, <1>2 DEF FitnessHit, FitnessWithCache, CacheEntries
  <2>2. FitnessWithCache = Fitness[fcache.by][fcache.x]
    BY <2>1, ConstantTypes DEF CachesExact
  <2>3. FitnessWithCache \in Seq(Int) /\ FitnessWithCache[1] \in Int
    BY <2>1, <2>2, ConstantTypes
  <2> QED
    BY <1>1, <1>2, <2>3 DEF UpdateFitnessCache
<1>3. CASE ~FitnessHit
  <2>1. FitnessWithCache = Fitness[prob][opt.X]
    BY <1>3 DEF FitnessWithCache
  <2>2. FitnessWithCache \in Seq(Int) /\ FitnessWithCache[1] \in Int
    BY <1>1, <2>1, ConstantTypes
  <2>3. fcache' = [x |-> opt.X, val |-> FitnessWithCache, by |-> prob]
    BY <1>3, <2>1 DEF UpdateFitnessCache
  <2>4. nev' = nev + 1 /\ spent' = [spent EXCEPT !.f = @ + 1]
    BY <1>3 DEF UpdateFitnessCache
  <2>5. nev' \in Nat /\ spent' \in [f : Nat, g : Nat]
    BY <1>1, <2>4
  <2>6. fcache' \in CacheEntries
    BY <1>1, <2>2, <2>3 DEF CacheEntries
  <2> QED
    BY <2>2, <2>5, <2>6
<1> QED
  BY <1>2, <1>3

LEMMA GradientCacheTypes ==
  ASSUME TypeOK, opt.X \in Point, UpdateGradientCache
  PROVE  /\ gcache' \in CacheEntries
         /\ spent' \in [f : Nat, g : Nat]
         /\ GradientWithCache \in Seq(Int)
<1>1. gcache \in CacheEntries /\ prob \in Problem /\ spent \in [f : Nat, g : Nat]
  BY DEF TypeOK, ObjectTypes, LocalTypes, ControlTypes
<1>2. CASE GradientHit
  BY <1>1, <1>2 DEF GradientHit, GradientWithCache, CacheEntries, UpdateGradientCache
<1>3. CASE ~GradientHit
  <2>1. GradientWithCache = Gradient[prob][opt.X] /\ GradientWithCache \in Seq(Int)
    BY <1>1, <1>3, ConstantTypes DEF GradientWithCache
  <2>2. gcache' = [x |-> opt.X, val |-> GradientWithCache, by |-> prob]
    BY <1>3, <2>1 DEF UpdateGradientCache
  <2>3. spent' = [spent EXCEPT !.g = @ + 1]
    BY <1>3 DEF UpdateGradientCache
  <2> QED
    BY <1>1, <2>1, <2>2, <2>3 DEF CacheEntries
<1> QED
  BY <1>2, <1>3

(* Reading n numbers, some of them perhaps past the end. *)
LEMMA ReadTypes ==
  ASSUME NEW v \in Seq(Int), NEW skip \in Nat, NEW n \in Nat,
         NEW s \in Read(v, skip, n)
  PROVE  s \in Seq(Int) /\ Len(s) = n
<1>1. \A i \in DOMAIN v : v[i] \in Int
  OBVIOUS
<1>2. Garbage \cup {v[i] : i \in DOMAIN v} \subseteq Int
  BY <1>1, EnvironmentTypes
<1>3. s \in [1..n -> Int]
  BY <1>2 DEF Read
<1> QED
  BY <1>3

LEMMA IntProduct ==
  ASSUME NEW a \in Int, NEW b \in Int
  PROVE  a * b \in Int
OBVIOUS

LEMMA NatModulo ==
  ASSUME NEW a \in Nat, NEW b \in Nat \ {0}
  PROVE  a % b \in Nat
<1>1. b \in Nat /\ b > 0
  OBVIOUS
<1>2. a % b \in 0..(b - 1)
  BY <1>1, Z3
<1> QED
  BY <1>1, <1>2

LEMMA ExceptIsSeq ==
  ASSUME NEW S, NEW s \in Seq(S), NEW i, NEW e \in S
  PROVE  /\ [s EXCEPT ![i] = e] \in Seq(S)
         /\ Len([s EXCEPT ![i] = e]) = Len(s)
<1>1. Len(s) \in Nat /\ s \in [1..Len(s) -> S]
  OBVIOUS
<1>2. [s EXCEPT ![i] = e] \in [1..Len(s) -> S]
  BY <1>1
<1> QED
  BY <1>1, <1>2

(* Polling. *)
LEMMA PollsAre ==
  /\ Polls = {"callWorhp", "iterOutput", "evalF", "evalG", "evalDF", "evalHM",
              "evalDG", "fidif"}
  /\ \A a \in Polls : NextPoll[a] \in Polls
BY DEF Polls, NextPoll

LEMMA RequestedFacts ==
  ASSUME NEW a \in Polls, Requested(a), SolverHasPoint
  PROVE  /\ pc = a /\ a \in requests /\ opt.X \in Point
         /\ status \in Running \cup Terminal
BY DEF Requested, Polling, SolverHasPoint

LEMMA DoneTypes ==
  ASSUME NEW a \in Polls, Done(a), ControlTypes
  PROVE  /\ requests' \subseteq Evaluations \cup {"callWorhp", "iterOutput", "fidif"}
         /\ requests' \subseteq requests
         /\ pc' \in {"idle"} \cup EvolveStates
         /\ pc' \in Polls
BY PollsAre DEF Done, ControlTypes, EvolveStates, SolverCalls

-------------------------------------------------------------------------------
(* One step lemma per part of the inductive invariant *)

LEMMA CallerTypes ==
  ASSUME IInv, Caller
  PROVE  TypeOK'
<1> USE DEF IInv, TypeOK
<1>1. CASE SetVerbosity
  <2>1. verbosity' \in Nat
    BY <1>1, EnvironmentTypes DEF SetVerbosity
  <2> QED
    BY <1>1, <2>1 DEF SetVerbosity, ObjectTypes, LocalTypes, ControlTypes, caches, solver
<1>2. CASE SetPolicies
  <2>1. select' \in Policies /\ replace' \in Policies
    BY <1>2, EnvironmentTypes DEF SetPolicies
  <2> QED
    BY <1>2, <2>1 DEF SetPolicies, ObjectTypes, LocalTypes, ControlTypes, caches, solver
<1>3. CASE Call
  <2>1. prob' \in Problem /\ pop' \in Seq(Individuals)
    BY <1>3, PopulationsConsistent DEF Call
  <2> QED
    BY <1>3, <2>1 DEF Call, ObjectTypes, LocalTypes, ControlTypes, options, caches,
                      solver, EvolveStates
<1> QED
  BY <1>1, <1>2, <1>3 DEF Caller

LEMMA ThrowStepTypes ==
  ASSUME TypeOK,
         RejectProblem \/ LoadFails \/ OptionRejected \/ SelectionFails
           \/ EvaluationThrows \/ ReinsertThrows \/ ReplacementFails
  PROVE  TypeOK' /\ Throw /\ UNCHANGED caches
<1>1. Throw /\ UNCHANGED caches
  BY DEF RejectProblem, LoadFails, OptionRejected, SelectionFails, EvaluationThrows,
         ReinsertThrows, ReplacementFails
<1> QED
  BY <1>1, ThrowTypes

LEMMA SetupTypes ==
  ASSUME IInv,
         ReturnEmpty \/ SparsityFails \/ StartRun \/ SelectIndividual \/ LoopExit
  PROVE  TypeOK'
<1> USE DEF IInv, TypeOK
<1>1. CASE ReturnEmpty
  <2>1. ObjectTypes' /\ prob' \in Problem /\ pop' \in Seq(Individuals)
    BY <1>1 DEF ReturnEmpty, ObjectTypes, LocalTypes, options, caches
  <2> QED
    BY <1>1, <2>1, LeaveTypes DEF ReturnEmpty
<1>2. CASE StartRun
  <2>1. ObjectTypes'
    BY <1>2 DEF StartRun, ObjectTypes, options, caches
  <2>2. LocalTypes' /\ ControlTypes'
    BY <1>2 DEF StartRun, LocalTypes, ControlTypes, EvolveStates, SolverCalls
  <2> QED
    BY <2>1, <2>2
<1>3. CASE SelectIndividual
  <2>1. PICK i \in Candidates(select, pop, Nec[prob]) :
          /\ start' = pop[i]
          /\ opt' = [X |-> pop[i].x, F |-> wsp.ScaleObj * pop[i].f[1],
                     G |-> Tail(pop[i].f), Mu |-> 0]
    BY <1>3 DEF SelectIndividual
  <2>2. i \in 1..Len(pop)
    BY DEF Candidates
  <2>3. pop[i] \in Individuals /\ Consistent(prob, pop[i])
    BY <2>2 DEF LocalTypes, PopulationConsistent
  <2>4. /\ pop[i].x \in Point /\ Tail(pop[i].f) \in Seq(Int)
        /\ pop[i].f[1] \in Int
    BY <2>3, ConstantTypes DEF Consistent, LocalTypes
  <2>5. wsp.ScaleObj * pop[i].f[1] \in Int
    BY <2>4 DEF LocalTypes
  <2>6. LocalTypes'
    BY <1>3, <2>1, <2>3, <2>4, <2>5 DEF SelectIndividual, LocalTypes
  <2>7. ObjectTypes'
    BY <1>3 DEF SelectIndividual, ObjectTypes, options, caches
  <2>8. ControlTypes'
    <3>1. /\ asked' \subseteq Evaluations
          /\ requests' \subseteq Evaluations \cup {"callWorhp", "iterOutput", "fidif"}
      BY <1>3 DEF SelectIndividual, Evaluations
    <3>2. pc' \in {"idle"} \cup EvolveStates
      BY <1>3, PollsAre DEF SelectIndividual, EvolveStates, SolverCalls
    <3>3. status' \in Running \cup Terminal \cup {"none"}
      BY <1>3 DEF SelectIndividual, Terminal
    <3>4. UNCHANGED <<iters, base, allocated, outcome, spent>>
      BY <1>3 DEF SelectIndividual
    <3> QED
      BY <3>1, <3>2, <3>3, <3>4 DEF ControlTypes
  <2> QED
    BY <2>6, <2>7, <2>8
<1>4. CASE LoopExit
  BY <1>4 DEF LoopExit, ObjectTypes, LocalTypes, ControlTypes, options, caches, solver,
              EvolveStates, SolverCalls
<1>5. CASE SparsityFails
  <2>1. ObjectTypes' /\ prob' \in Problem /\ pop' \in Seq(Individuals)
    BY <1>5 DEF SparsityFails, ObjectTypes, LocalTypes, options, caches
  <2> QED
    BY <1>5, <2>1, LeaveTypes DEF SparsityFails
<1> QED
  BY <1>1, <1>2, <1>3, <1>4, <1>5

LEMMA SolverTypes ==
  ASSUME IInv, NotRequested \/ Worhp \/ IterationOutput \/ WorhpFidif
  PROVE  TypeOK'
<1> USE DEF IInv, TypeOK
<1>1. CASE NotRequested
  <2>1. pc' \in {"idle"} \cup EvolveStates
    BY <1>1, PollsAre DEF NotRequested, EvolveStates, SolverCalls
  <2> QED
    BY <1>1, <2>1 DEF NotRequested, ObjectTypes, LocalTypes, ControlTypes, options, caches,
                      solver
<1>2. CASE Worhp
  <2>1. PICK x \in Point, scale \in Scales, mu \in Multipliers :
          /\ opt' = [opt EXCEPT !.X = x, !.Mu = mu]
          /\ wsp' = [wsp EXCEPT !.ScaleObj = scale]
    BY <1>2 DEF Worhp
  <2>2. scale \in Int /\ mu \in Int
    BY EnvironmentTypes
  <2>3. opt' \in [X : Point \cup {NoPoint}, F : Int, G : Seq(Int), Mu : Int]
    BY <2>1, <2>2 DEF LocalTypes
  <2>4. /\ DOMAIN wsp' = DOMAIN wsp /\ wsp'.ScaleObj = scale
        /\ wsp'.DF = wsp.DF /\ wsp'.DG = wsp.DG
    BY <2>1 DEF LocalTypes
  <2>5. LocalTypes' /\ ObjectTypes'
    BY <1>2, <2>2, <2>3, <2>4 DEF Worhp, LocalTypes, ObjectTypes, options, caches
  <2>6. asked' \subseteq Evaluations
    BY <1>2, EnvironmentTypes DEF Worhp, MayRequest
  <2>7. requests' \subseteq Evaluations \cup {"callWorhp", "iterOutput", "fidif"}
    BY <1>2, <2>6 DEF Worhp
  <2>8. iters' \in 0..MaxIter
    <3>1. iters' = IF iters < MaxIter THEN iters + 1 ELSE iters
      BY <1>2 DEF Worhp
    <3>2. MaxIter \in Nat /\ iters \in 0..MaxIter
      BY EnvironmentTypes DEF ControlTypes
    <3> QED
      BY <3>1, <3>2
  <2>9. spent' \in [f : Nat, g : Nat] /\ pc' \in {"idle"} \cup EvolveStates
    BY <1>2, PollsAre DEF Worhp, NoSpending, EvolveStates, SolverCalls
  <2>10. status' \in Running \cup Terminal \cup {"none"}
    BY <1>2 DEF Worhp, Running, Terminal
  <2>11. base' = NoPoint /\ UNCHANGED <<allocated, outcome>>
    BY <1>2 DEF Worhp
  <2> QED
    BY <2>5, <2>6, <2>7, <2>8, <2>9, <2>10, <2>11 DEF ControlTypes
<1>3. CASE IterationOutput
  <2>1. /\ requests' \subseteq Evaluations \cup {"callWorhp", "iterOutput", "fidif"}
        /\ pc' \in {"idle"} \cup EvolveStates
    BY <1>3, PollsAre, DoneTypes DEF IterationOutput
  <2> QED
    BY <1>3, <2>1 DEF IterationOutput, ObjectTypes, LocalTypes, ControlTypes, options,
                      caches
<1>4. CASE Perturb
  <2>1. PICK x \in Point : opt' = [opt EXCEPT !.X = x]
    BY <1>4 DEF Perturb
  <2>2. opt' \in [X : Point \cup {NoPoint}, F : Int, G : Seq(Int), Mu : Int]
    BY <2>1 DEF LocalTypes
  <2>3. LocalTypes' /\ ObjectTypes'
    BY <1>4, <2>2 DEF Perturb, LocalTypes, ObjectTypes, options, caches
  <2>4. asked' \subseteq Evaluations
    BY <1>4 DEF Perturb, Evaluations
  <2>5. requests' \subseteq Evaluations \cup {"callWorhp", "iterOutput", "fidif"}
    BY <1>4, <2>4 DEF Perturb
  <2>6. iters' \in 0..MaxIter
    BY <1>4, EnvironmentTypes DEF Perturb, ControlTypes
  <2>7. base' \in Point \cup {NoPoint}
    BY <1>4 DEF Perturb, ControlTypes, LocalTypes
  <2>8. spent' \in [f : Nat, g : Nat] /\ pc' \in {"idle"} \cup EvolveStates
    BY <1>4, PollsAre DEF Perturb, NoSpending, EvolveStates, SolverCalls
  <2>9. UNCHANGED <<status, allocated, outcome>>
    BY <1>4 DEF Perturb
  <2> QED
    BY <2>3, <2>4, <2>5, <2>6, <2>7, <2>8, <2>9 DEF ControlTypes
<1>5. CASE FinishDifferences
  <2>1. opt' \in [X : Point \cup {NoPoint}, F : Int, G : Seq(Int), Mu : Int]
    BY <1>5 DEF FinishDifferences, LocalTypes, ControlTypes
  <2>2. LocalTypes' /\ ObjectTypes'
    BY <1>5, <2>1 DEF FinishDifferences, LocalTypes, ObjectTypes, options, caches
  <2>3. spent' \in [f : Nat, g : Nat] /\ pc' \in {"idle"} \cup EvolveStates
    BY <1>5, PollsAre DEF FinishDifferences, NoSpending, EvolveStates, SolverCalls
  <2> QED
    BY <1>5, <2>2, <2>3 DEF FinishDifferences, ControlTypes
<1> QED
  BY <1>1, <1>2, <1>3, <1>4, <1>5 DEF WorhpFidif

LEMMA UserFTypes ==
  ASSUME IInv, UserF
  PROVE  TypeOK'
<1> USE DEF IInv, TypeOK
<1>1. opt.X \in Point
  BY PollsAre, RequestedFacts DEF UserF
<1>2. /\ fcache' \in CacheEntries /\ nev' \in Nat /\ spent' \in [f : Nat, g : Nat]
      /\ FitnessWithCache[1] \in Int
  BY <1>1, FitnessCacheTypes DEF UserF
<1>3. log' \in Seq(LogLines)
  <2> DEFINE fevals == nev' % UIntModulus
  <2>1. fevals \in Nat
    <3>1. nev' \in Nat /\ UIntModulus \in Nat \ {0}
      BY <1>2, EnvironmentTypes
    <3> QED
      BY <3>1, NatModulo
  <2>2. [fevals |-> fevals, objval |-> FitnessWithCache[1]] \in LogLines
    BY <1>2, <2>1 DEF LogLines
  <2>3. \/ log' = Append(log, [fevals |-> fevals, objval |-> FitnessWithCache[1]])
        \/ log' = log
    BY DEF UserF, UpdateLog
  <2> HIDE DEF fevals
  <2> QED
    BY <2>2, <2>3 DEF ObjectTypes
<1>4. opt' \in [X : Point \cup {NoPoint}, F : Int, G : Seq(Int), Mu : Int]
  <2>1. /\ wsp.ScaleObj \in Int
        /\ opt \in [X : Point \cup {NoPoint}, F : Int, G : Seq(Int), Mu : Int]
    BY DEF LocalTypes
  <2>2. wsp.ScaleObj * FitnessWithCache[1] \in Int
    BY <1>2, <2>1, IntProduct
  <2>3. opt' = [opt EXCEPT !.F = wsp.ScaleObj * FitnessWithCache[1]]
    BY DEF UserF
  <2> QED
    BY <2>1, <2>2, <2>3
<1>5. /\ requests' \subseteq Evaluations \cup {"callWorhp", "iterOutput", "fidif"}
      /\ pc' \in {"idle"} \cup EvolveStates
  BY PollsAre, DoneTypes DEF UserF
<1>6. ObjectTypes'
  BY <1>2, <1>3 DEF UserF, ObjectTypes, options
<1>7. LocalTypes'
  BY <1>2, <1>4 DEF UserF, LocalTypes
<1>8. ControlTypes'
  BY <1>2, <1>5 DEF UserF, ControlTypes
<1> QED
  BY <1>6, <1>7, <1>8

(* The lengths of what is read out of the caches. *)
LEMMA Lengths ==
  ASSUME NEW p \in Problem, NEW x \in Point
  PROVE  Nc(p) \in Nat /\ FNnz[p] \in Nat /\ DGnnz(p) \in Nat
<1> DEFINE y == CHOOSE z \in Point : TRUE
<1>1. y \in Point
  OBVIOUS
<1> HIDE DEF y
<1>2. Len(Fitness[p][y]) \in Nat /\ Len(Fitness[p][y]) > 0
  BY <1>1, ConstantTypes
<1>3. Len(Gradient[p][y]) \in Nat /\ FNnz[p] \in Nat /\ FNnz[p] <= Len(Gradient[p][y])
  BY <1>1, WorhpAssumption
<1> USE DEF y
<1> QED
  BY <1>2, <1>3 DEF Nc, DGnnz

LEMMA UserGTypes ==
  ASSUME IInv, UserG
  PROVE  TypeOK'
<1> USE DEF IInv, TypeOK
<1>1. opt.X \in Point
  BY PollsAre, RequestedFacts DEF UserG
<1>2. /\ fcache' \in CacheEntries /\ nev' \in Nat /\ spent' \in [f : Nat, g : Nat]
      /\ FitnessWithCache \in Seq(Int)
  BY <1>1, FitnessCacheTypes DEF UserG
<1>3. PICK g \in Read(FitnessWithCache, 1, Nc(prob)) : opt' = [opt EXCEPT !.G = g]
  BY DEF UserG
<1>4. g \in Seq(Int)
  BY <1>1, <1>2, Lengths, ReadTypes DEF LocalTypes
<1>5. opt' \in [X : Point \cup {NoPoint}, F : Int, G : Seq(Int), Mu : Int]
  BY <1>3, <1>4 DEF LocalTypes
<1>6. /\ requests' \subseteq Evaluations \cup {"callWorhp", "iterOutput", "fidif"}
      /\ pc' \in {"idle"} \cup EvolveStates
  BY PollsAre, DoneTypes DEF UserG
<1>7. ObjectTypes'
  BY <1>2 DEF UserG, ObjectTypes, options
<1>8. LocalTypes'
  BY <1>2, <1>5 DEF UserG, LocalTypes
<1>9. ControlTypes'
  BY <1>2, <1>6 DEF UserG, ControlTypes
<1> QED
  BY <1>7, <1>8, <1>9

LEMMA DerivativeTypes ==
  ASSUME IInv, UserDF \/ UserDG \/ UserHM
  PROVE  TypeOK'
<1> USE DEF IInv, TypeOK
<1>1. opt.X \in Point
  BY PollsAre, RequestedFacts DEF UserDF, UserDG, UserHM
<1>2. prob \in Problem
  BY DEF LocalTypes
<1>3. CASE UserDF
  <2>1. /\ gcache' \in CacheEntries /\ spent' \in [f : Nat, g : Nat]
        /\ GradientWithCache \in Seq(Int)
    BY <1>1, <1>3, GradientCacheTypes DEF UserDF
  <2>2. PICK d \in Read(GradientWithCache, 0, FNnz[prob]) : wsp' = [wsp EXCEPT !.DF = d]
    BY <1>3 DEF UserDF
  <2>3. d \in Seq(Int)
    BY <1>1, <1>2, <2>1, Lengths, ReadTypes
  <2>4. /\ requests' \subseteq Evaluations \cup {"callWorhp", "iterOutput", "fidif"}
        /\ pc' \in {"idle"} \cup EvolveStates
    BY <1>3, PollsAre, DoneTypes DEF UserDF
  <2>5. LocalTypes'
    BY <1>3, <2>2, <2>3 DEF UserDF, LocalTypes
  <2>6. ObjectTypes'
    BY <1>3, <2>1 DEF UserDF, ObjectTypes, options
  <2>7. ControlTypes'
    BY <1>3, <2>1, <2>4 DEF UserDF, ControlTypes
  <2> QED
    BY <2>5, <2>6, <2>7
<1>4. CASE UserDG
  <2>1. /\ gcache' \in CacheEntries /\ spent' \in [f : Nat, g : Nat]
        /\ GradientWithCache \in Seq(Int)
    BY <1>1, <1>4, GradientCacheTypes DEF UserDG
  <2>2. PICK d \in Read(GradientWithCache, FNnz[prob], DGnnz(prob)) :
          wsp' = [wsp EXCEPT !.DG = d]
    BY <1>4 DEF UserDG
  <2>3. d \in Seq(Int)
    BY <1>1, <1>2, <2>1, Lengths, ReadTypes
  <2>4. /\ requests' \subseteq Evaluations \cup {"callWorhp", "iterOutput", "fidif"}
        /\ pc' \in {"idle"} \cup EvolveStates
    BY <1>4, PollsAre, DoneTypes DEF UserDG
  <2>5. LocalTypes'
    BY <1>4, <2>2, <2>3 DEF UserDG, LocalTypes
  <2>6. ObjectTypes'
    BY <1>4, <2>1 DEF UserDG, ObjectTypes, options
  <2>7. ControlTypes'
    BY <1>4, <2>1, <2>4 DEF UserDG, ControlTypes
  <2> QED
    BY <2>5, <2>6, <2>7
<1>5. CASE UserHM
  <2>1. /\ requests' \subseteq Evaluations \cup {"callWorhp", "iterOutput", "fidif"}
        /\ pc' \in {"idle"} \cup EvolveStates
    BY <1>5, PollsAre, DoneTypes DEF UserHM
  <2>2. LocalTypes'
    BY <1>5 DEF UserHM, LocalTypes
  <2>3. ObjectTypes' /\ ControlTypes'
    BY <1>5, <2>1 DEF UserHM, ObjectTypes, ControlTypes, options, caches
  <2> QED
    BY <2>2, <2>3
<1> QED
  BY <1>3, <1>4, <1>5

LEMMA ReinsertTypes ==
  ASSUME IInv, Reinsert
  PROVE  TypeOK'
<1> USE DEF IInv, TypeOK
<1>1. opt.X \in Point /\ status \in Terminal
  BY DEF Reinsert, SolverHasPoint
<1>2. [x |-> opt.X, f |-> FinalFitness] \in Individuals
  BY <1>1, ConstantTypes DEF FinalFitness, LocalTypes, Individuals
<1>3. pop' \in Seq(Individuals)
  <2>1. CASE pop' = pop
    BY <2>1 DEF LocalTypes
  <2>2. ASSUME NEW i, pop' = [pop EXCEPT ![i] = [x |-> opt.X, f |-> FinalFitness]]
        PROVE  pop' \in Seq(Individuals)
    <3>1. pop \in Seq(Individuals)
      BY DEF LocalTypes
    <3> QED
      BY <1>2, <2>2, <3>1, ExceptIsSeq
  <2> QED
    BY <2>1, <2>2 DEF Reinsert
<1>4. ObjectTypes'
  BY <1>1 DEF Reinsert, ObjectTypes, options, caches
<1> QED
  BY <1>3, <1>4, LeaveTypes DEF Reinsert, LocalTypes

LEMMA TypeStep ==
  ASSUME IInv, [Next]_vars
  PROVE  TypeOK'
<1>1. CASE UNCHANGED vars
  BY <1>1 DEF IInv, TypeOK, ObjectTypes, LocalTypes, ControlTypes, vars, options,
              caches, solver
<1>2. CASE Caller
  BY <1>2, CallerTypes
<1>3. CASE Evolve
  BY <1>3, ThrowStepTypes, SetupTypes, SolverTypes, UserFTypes, UserGTypes,
     DerivativeTypes, ReinsertTypes DEF Evolve, IInv
<1> QED
  BY <1>1, <1>2, <1>3 DEF Next

-------------------------------------------------------------------------------
(* The caches *)

LEMMA CachesStep ==
  ASSUME IInv, [Next]_vars
  PROVE  CachesExact'
<1>1. CASE UNCHANGED caches
  BY <1>1 DEF caches, CachesExact, IInv
<1>2. CASE UpdateFitnessCache /\ UNCHANGED gcache
  BY <1>2 DEF UpdateFitnessCache, CachesExact, IInv
<1>3. CASE UpdateGradientCache /\ UNCHANGED fcache
  BY <1>3 DEF UpdateGradientCache, CachesExact, IInv
<1>4. \/ UNCHANGED caches
      \/ UpdateFitnessCache /\ UNCHANGED gcache
      \/ UpdateGradientCache /\ UNCHANGED fcache
  <2>1. CASE UNCHANGED vars
    BY <2>1 DEF vars, caches
  <2>2. CASE Caller
    BY <2>2 DEF Caller, SetVerbosity, SetPolicies, Call
  <2>3. CASE Evolve
    BY <2>3 DEF Evolve, RejectProblem, ReturnEmpty, LoadFails, SparsityFails, StartRun,
         OptionRejected, SelectionFails, SelectIndividual, NotRequested, Worhp,
         IterationOutput, UserF, UserG, UserDF, UserHM, UserDG, WorhpFidif, Perturb,
         FinishDifferences, EvaluationThrows, LoopExit, ReinsertThrows,
         ReplacementFails, Reinsert
  <2> QED
    BY <2>1, <2>2, <2>3 DEF Next
<1> QED
  BY <1>1, <1>2, <1>3, <1>4

-------------------------------------------------------------------------------
(* The population *)

LEMMA PopulationStep ==
  ASSUME IInv, [Next]_vars
  PROVE  PopulationConsistent'
<1>1. CASE UNCHANGED <<prob, pop>>
  BY <1>1 DEF PopulationConsistent, IInv
<1>2. CASE Call
  BY <1>2, PopulationsConsistent DEF Call, PopulationConsistent
<1>3. CASE Reinsert
  <2>1. opt.X \in Point /\ UNCHANGED prob /\ pop \in Seq(Individuals)
    BY <1>3 DEF Reinsert, IInv, SolverHasPoint, TypeOK, LocalTypes
  <2>2. CASE pop' = pop
    BY <2>1, <2>2 DEF PopulationConsistent, IInv
  <2>3. ASSUME NEW i \in 1..Len(pop),
               pop' = [pop EXCEPT ![i] = [x |-> opt.X, f |-> FinalFitness]]
        PROVE  PopulationConsistent'
    <3>1. Len(pop') = Len(pop)
      BY <2>1, <2>3
    <3>2. ASSUME NEW j \in 1..Len(pop)
          PROVE  Consistent(prob, pop'[j])
      BY <2>1, <2>3, <3>2 DEF Consistent, FinalFitness, PopulationConsistent, IInv
    <3> QED
      BY <2>1, <3>1, <3>2 DEF PopulationConsistent, Consistent
  <2> QED
    BY <1>3, <2>2, <2>3 DEF Reinsert, Candidates
<1>4. UNCHANGED <<prob, pop>> \/ Call \/ Reinsert
  <2>1. CASE UNCHANGED vars
    BY <2>1 DEF vars
  <2>2. CASE Caller
    BY <2>2 DEF Caller, SetVerbosity, SetPolicies, Call
  <2>3. CASE Evolve
    BY <2>3 DEF Evolve, RejectProblem, ReturnEmpty, LoadFails, SparsityFails, StartRun,
         Throw, OptionRejected, SelectionFails, SelectIndividual, NotRequested, Worhp,
         IterationOutput, UserF, UserG, UserDF, UserHM, UserDG, WorhpFidif, Perturb,
         FinishDifferences, EvaluationThrows, LoopExit, ReinsertThrows,
         ReplacementFails, Reinsert
  <2> QED
    BY <2>1, <2>2, <2>3 DEF Next
<1> QED
  BY <1>1, <1>2, <1>3, <1>4

-------------------------------------------------------------------------------
(* The solver's point and memory *)

(* Every step of the loop that is not an exception stays in the loop, with *)
(* a point and without freeing anything.                                   *)
LEMMA LoopStep ==
  ASSUME IInv,
         \/ NotRequested \/ Worhp \/ IterationOutput \/ UserF \/ UserG
         \/ UserDF \/ UserHM \/ UserDG \/ WorhpFidif
  PROVE  /\ pc \in Polls /\ pc' \in Polls
         /\ allocated' = allocated
         /\ opt'.X \in Point
         /\ status' \in Running \cup Terminal
<1>1. pc \in Polls
  BY PollsAre DEF NotRequested, Worhp, IterationOutput, UserF, UserG, UserDF, UserHM,
     UserDG, WorhpFidif, Perturb, FinishDifferences, Requested, Polling
<1>2. /\ opt.X \in Point /\ status \in Running \cup Terminal
      /\ base \in Point \cup {NoPoint}
      /\ opt \in [X : Point \cup {NoPoint}, F : Int, G : Seq(Int), Mu : Int]
  BY <1>1 DEF IInv, SolverHasPoint, TypeOK, LocalTypes, ControlTypes
<1>3. CASE NotRequested
  BY <1>1, <1>2, <1>3, PollsAre DEF NotRequested, solver
<1>4. CASE Worhp
  BY <1>1, <1>2, <1>4, PollsAre DEF Worhp, Running, Terminal
<1>5. CASE IterationOutput
  BY <1>1, <1>2, <1>5, PollsAre DEF IterationOutput, Done
<1>6. CASE UserF
  BY <1>1, <1>2, <1>6, PollsAre DEF UserF, Done
<1>7. CASE UserG
  BY <1>1, <1>2, <1>7, PollsAre DEF UserG, Done
<1>8. CASE UserDF \/ UserDG
  BY <1>1, <1>2, <1>8, PollsAre DEF UserDF, UserDG, Done
<1>9. CASE UserHM
  BY <1>1, <1>2, <1>9, PollsAre DEF UserHM, Done
<1>10. CASE Perturb
  BY <1>1, <1>2, <1>10, PollsAre DEF Perturb
<1>11. CASE FinishDifferences
  BY <1>1, <1>2, <1>11, PollsAre DEF FinishDifferences
<1> QED
  BY <1>3, <1>4, <1>5, <1>6, <1>7, <1>8, <1>9, <1>10, <1>11 DEF WorhpFidif

(* The steps of evolve() that leave it. *)
LEMMA LeaveStep ==
  ASSUME \/ RejectProblem \/ ReturnEmpty \/ LoadFails \/ SparsityFails
         \/ OptionRejected \/ SelectionFails \/ EvaluationThrows \/ ReinsertThrows
         \/ ReplacementFails \/ Reinsert
  PROVE  pc' = "idle" /\ allocated' = FALSE /\ nev' = 0
BY DEF RejectProblem, ReturnEmpty, LoadFails, SparsityFails, OptionRejected,
       SelectionFails, EvaluationThrows, ReinsertThrows, ReplacementFails, Reinsert,
       Throw, Leave

LEMMA PointStep ==
  ASSUME IInv, [Next]_vars
  PROVE  SolverHasPoint' /\ SolverMemoryBalanced'
<1> USE PollsAre DEF IInv
<1>1. CASE pc' = "idle" /\ allocated' = FALSE
  BY <1>1 DEF SolverHasPoint, SolverMemoryBalanced, SolverCalls
<1>2. CASE UNCHANGED vars
  BY <1>2 DEF SolverHasPoint, SolverMemoryBalanced, vars, solver
<1>3. CASE SetVerbosity \/ SetPolicies
  BY <1>3 DEF SolverHasPoint, SolverMemoryBalanced, SetVerbosity, SetPolicies, solver
<1>4. CASE Call
  BY <1>4 DEF SolverHasPoint, SolverMemoryBalanced, SolverCalls, Call, solver
<1>5. CASE StartRun
  BY <1>5 DEF SolverHasPoint, SolverMemoryBalanced, SolverCalls, StartRun
<1>6. CASE SelectIndividual
  <2>1. PICK i \in 1..Len(pop) :
          opt' = [X |-> pop[i].x, F |-> wsp.ScaleObj * pop[i].f[1],
                  G |-> Tail(pop[i].f), Mu |-> 0]
    BY <1>6 DEF SelectIndividual, Candidates
  <2>2. opt'.X \in Point
    BY <2>1 DEF PopulationConsistent, Consistent
  <2> QED
    BY <1>6, <2>2 DEF SelectIndividual, SolverHasPoint, SolverMemoryBalanced,
                      SolverCalls, Running, Terminal
<1>7. CASE LoopExit
  <2>1. pc = "callWorhp" /\ pc' = "reinsert" /\ UNCHANGED <<opt, solver>>
    BY <1>7 DEF LoopExit
  <2>2. status \in Terminal
    BY <1>7, <2>1 DEF LoopExit, SolverHasPoint
  <2> QED
    BY <2>1, <2>2 DEF SolverHasPoint, SolverMemoryBalanced, SolverCalls, solver
<1>8. CASE \/ NotRequested \/ Worhp \/ IterationOutput \/ UserF \/ UserG
           \/ UserDF \/ UserHM \/ UserDG \/ WorhpFidif
  <2>1. /\ pc \in Polls /\ pc' \in Polls /\ allocated' = allocated
        /\ opt'.X \in Point /\ status' \in Running \cup Terminal
    BY <1>8, LoopStep
  <2> QED
    BY <2>1 DEF SolverHasPoint, SolverMemoryBalanced, SolverCalls
<1> QED
  BY <1>1, <1>2, <1>3, <1>4, <1>5, <1>6, <1>7, <1>8, LeaveStep
     DEF Next, Caller, Evolve

-------------------------------------------------------------------------------
(* The theorems *)

LEMMA InvariantStep == IInv /\ [Next]_vars => IInv'
BY TypeStep, CachesStep, PopulationStep, PointStep DEF IInv

LEMMA SpecIInv == Spec => []IInv
BY InitIInv, InvariantStep, PTL DEF Spec

(* Every variable of the object, of evolve() and of the solver keeps its   *)
(* type: in particular what the loop hands to the solver is always numbers,*)
(* even where it is read past the end of a stale vector.                   *)
THEOREM TypeCorrect == Spec => []TypeOK
BY SpecIInv, PTL DEF IInv

(* However stale the caches, whatever the solver answers, and wherever the *)
(* problem throws, the population only ever holds true fitness values.     *)
THEOREM PopulationStaysConsistent == Spec => []PopulationConsistent
BY SpecIInv, PTL DEF IInv

(* The solver's memory is held exactly while the solver may be used, and   *)
(* never when evolve() has been left, by whatever exception (worhp_raii,   *)
(* worhp.cpp:89-107).                                                      *)
THEOREM MemoryStaysBalanced == Spec => []SolverMemoryBalanced
BY SpecIInv, PTL DEF IInv

-------------------------------------------------------------------------------
(* The reverse-communication protocol *)

LEMMA PollOrder ==
  /\ NextPoll["callWorhp"] = "iterOutput" /\ NextPoll["iterOutput"] = "evalF"
  /\ NextPoll["evalF"] = "evalG" /\ NextPoll["evalG"] = "evalDF"
  /\ NextPoll["evalDF"] = "evalHM" /\ NextPoll["evalHM"] = "evalDG"
  /\ NextPoll["evalDG"] = "fidif" /\ NextPoll["fidif"] = "callWorhp"
BY DEF NextPoll

LEMMA AfterIs ==
  /\ After["callWorhp"] = Evaluations /\ After["iterOutput"] = Evaluations
  /\ After["evalF"] = Evaluations
  /\ After["evalG"] = {"evalG", "evalDF", "evalHM", "evalDG"}
  /\ After["evalDF"] = {"evalDF", "evalHM", "evalDG"}
  /\ After["evalHM"] = {"evalHM", "evalDG"}
  /\ After["evalDG"] = {"evalDG"} /\ After["fidif"] = {}
BY DEF After

LEMMA OnlyElement ==
  ASSUME NEW S, NEW a \in S, \A e \in S : e = a
  PROVE  S = {a}
OBVIOUS

(* The poll of an action, requested or not, leaves the rest pending. *)
LEMMA PollPasses ==
  ASSUME NEW a \in Polls, pc = a, pc' = NextPoll[a], requests' = requests \ {a},
         a \notin {"callWorhp", "fidif"} \/ a \notin requests,
         requests \subseteq Evaluations \cup {"callWorhp", "iterOutput", "fidif"},
         PendingInv
  PROVE  PendingInv'
<1> USE PollsAre, PollOrder, AfterIs DEF PendingInv, Evaluations
<1>1. CASE a \in {"callWorhp", "iterOutput"}
  BY <1>1
<1>2. CASE a \in {"evalF", "evalG"}
  BY <1>2
<1>3. CASE a \in {"evalDF", "evalHM", "evalDG"}
  BY <1>3
<1>4. CASE a = "fidif"
  <2>0. pc \in Polls /\ pc = "fidif" /\ After[pc] = {}
    BY <1>4
  <2>1. requests \cap Evaluations \subseteq {} /\ "iterOutput" \notin requests
    BY <2>0
  <2>2. "fidif" \notin requests /\ "callWorhp" \in requests
    BY <1>4
  <2>3. \A e \in requests : e = "callWorhp"
    BY <2>1, <2>2
  <2>4. requests = {"callWorhp"}
    BY <2>2, <2>3, OnlyElement
  <2>5. requests' = {"callWorhp"} /\ pc' = "callWorhp"
    BY <1>4, <2>4
  <2> QED
    BY <2>5
<1> QED
  BY <1>1, <1>2, <1>3, <1>4

LEMMA PendingStep ==
  ASSUME IInv, PendingInv, [Next]_vars
  PROVE  PendingInv'
<1> USE PollsAre
<1>0. requests \subseteq Evaluations \cup {"callWorhp", "iterOutput", "fidif"}
  BY DEF IInv, TypeOK, ControlTypes
<1>1. CASE pc' \notin Polls
  BY <1>1 DEF PendingInv
<1>2. CASE UNCHANGED <<pc, requests>>
  BY <1>2 DEF PendingInv
<1>3. CASE SelectIndividual
  BY <1>3, AfterIs DEF SelectIndividual, PendingInv, Evaluations
<1>4. CASE NotRequested
  <2>1. PICK a \in Polls : pc = a /\ a \notin requests /\ pc' = NextPoll[a]
    BY <1>4 DEF NotRequested, Polling
  <2>2. requests' = requests \ {a}
    BY <1>4, <2>1 DEF NotRequested, solver
  <2> QED
    BY <1>0, <2>1, <2>2, PollPasses
<1>5. CASE Worhp
  <2>1. pc' = "iterOutput" /\ "callWorhp" \in requests'
    BY <1>5, PollOrder DEF Worhp
  <2> QED
    BY <2>1, AfterIs DEF PendingInv
<1>6. CASE \/ IterationOutput \/ UserF \/ UserG \/ UserDF \/ UserHM \/ UserDG
  <2>1. PICK a \in {"iterOutput", "evalF", "evalG", "evalDF", "evalHM", "evalDG"} :
          pc = a /\ Done(a)
    BY <1>6 DEF IterationOutput, UserF, UserG, UserDF, UserHM, UserDG, Requested, Polling
  <2> QED
    BY <1>0, <2>1, PollPasses DEF Done
<1>7. CASE Perturb
  <2>1. /\ pc' = "callWorhp" /\ "callWorhp" \notin requests'
        /\ "iterOutput" \notin requests' /\ "fidif" \in requests'
    BY <1>7, PollOrder DEF Perturb
  <2> QED
    BY <2>1, AfterIs DEF PendingInv
<1>8. CASE FinishDifferences
  <2>1. pc' = "callWorhp" /\ requests' = {"callWorhp"}
    BY <1>8, PollOrder DEF FinishDifferences
  <2> QED
    BY <2>1, AfterIs DEF PendingInv, Evaluations
<1>9. CASE UNCHANGED vars
  BY <1>9 DEF PendingInv, vars, solver
<1>10. CASE Caller
  <2>1. UNCHANGED requests /\ (pc' = pc \/ pc' = "preamble")
    BY <1>10 DEF Caller, SetVerbosity, SetPolicies, Call, solver
  <2> QED
    BY <1>1, <1>2, <2>1
<1>11. CASE StartRun \/ LoopExit
  BY <1>1, <1>11 DEF StartRun, LoopExit
<1> QED
  BY <1>1, <1>3, <1>4, <1>5, <1>6, <1>7, <1>8, <1>9, <1>10, <1>11, LeaveStep
     DEF Next, Evolve, WorhpFidif

LEMMA SpecPending == Spec => [](IInv /\ PendingInv)
<1>1. Init => PendingInv
  BY PollsAre DEF Init, PendingInv
<1> QED
  BY <1>1, InitIInv, InvariantStep, PendingStep, PTL DEF Spec

(* When Worhp() is called, whatever it asked for before has been polled and*)
(* reset: no request is lost and none is answered twice.                   *)
THEOREM RequestsAreServed == Spec => []AllRequestsServed
<1>1. IInv /\ PendingInv => AllRequestsServed
  BY PollsAre DEF PendingInv, AllRequestsServed, Requested, Polling, Evaluations
<1> QED
  BY <1>1, SpecPending, PTL

-------------------------------------------------------------------------------
(* What the solver is told *)

(* What the cached evaluations return is the value of the problem of this  *)
(* run, unless the entry is inherited.                                     *)
LEMMA OwnOrInherited ==
  ASSUME IInv, OwnInv, opt.X \in Point
  PROVE  /\ \/ FitnessWithCache = Fitness[prob][opt.X]
            \/ Inherited("evalF") /\ Inherited("evalG")
         /\ \/ GradientWithCache = Gradient[prob][opt.X]
            \/ Inherited("evalDF") /\ Inherited("evalDG")
<1>1. prob \in Problem /\ opt.X # NoPoint
  BY ConstantTypes DEF IInv, TypeOK, LocalTypes
<1>2. CachesExact
  BY DEF IInv
<1>3. ASSUME FitnessHit, Fitness[fcache.by] = Fitness[prob]
      PROVE  FitnessWithCache = Fitness[prob][opt.X]
  BY <1>1, <1>2, <1>3 DEF FitnessHit, FitnessWithCache, CachesExact
<1>4. ASSUME FitnessHit, Fitness[fcache.by] # Fitness[prob]
      PROVE  Inherited("evalF") /\ Inherited("evalG")
  BY <1>4 DEF FitnessHit, Inherited, OwnInv
<1>5. ASSUME GradientHit, Gradient[gcache.by] = Gradient[prob]
      PROVE  GradientWithCache = Gradient[prob][opt.X]
  BY <1>1, <1>2, <1>5 DEF GradientHit, GradientWithCache, CachesExact
<1>6. ASSUME GradientHit, Gradient[gcache.by] # Gradient[prob]
      PROVE  Inherited("evalDF") /\ Inherited("evalDG")
  BY <1>6 DEF GradientHit, Inherited
<1> QED
  BY <1>3, <1>4, <1>5, <1>6 DEF FitnessWithCache, GradientWithCache

(* An answer from an inherited entry stays one as long as the solver does  *)
(* not move: only a miss changes a cache, and there is none at the point   *)
(* of the entry.                                                           *)
LEMMA InheritanceKept ==
  ASSUME opt'.X = opt.X, prob' = prob,
         \/ UpdateFitnessCache /\ UNCHANGED gcache
         \/ UpdateGradientCache /\ UNCHANGED <<fcache, nev>>
         \/ UNCHANGED <<fcache, gcache, nev>>,
         NEW r, Inherited(r)
  PROVE  Inherited(r)'
BY DEF Inherited, UpdateFitnessCache, FitnessHit, UpdateGradientCache, GradientHit

(* A read that stays inside the vector returns that part of it. *)
LEMMA ReadExact ==
  ASSUME NEW v \in Seq(Int), NEW skip \in Nat, NEW n \in Nat, skip + n <= Len(v),
         NEW s \in Read(v, skip, n)
  PROVE  s = SubSeq(v, skip + 1, skip + n)
<1>1. s \in Seq(Int) /\ Len(s) = n
  BY ReadTypes
<1>2. \A i \in 1..n : s[i] = v[skip + i]
  BY DEF Read
<1> DEFINE t == SubSeq(v, skip + 1, skip + n)
<1>3. t \in Seq(Int) /\ Len(t) = n
  OBVIOUS
<1>4. \A i \in 1..n : t[i] = v[skip + i]
  OBVIOUS
<1> HIDE DEF t
<1>5. s = t
  BY <1>1, <1>2, <1>3, <1>4, SeqEqual
<1> QED
  BY <1>5 DEF t

LEMMA TailIs ==
  ASSUME NEW v \in Seq(Int), NEW n \in Nat, Len(v) = n + 1
  PROVE  Tail(v) = SubSeq(v, 1 + 1, 1 + n)
BY TailIsSubSeq

LEMMA OwnLengths ==
  ASSUME NEW p \in Problem, NEW x \in Point
  PROVE  /\ Len(Fitness[p][x]) = Nc(p) + 1
         /\ Len(Gradient[p][x]) = FNnz[p] + DGnnz(p)
<1> DEFINE y == CHOOSE z \in Point : TRUE
<1>1. y \in Point
  OBVIOUS
<1> HIDE DEF y
<1>2. Len(Fitness[p][x]) = Len(Fitness[p][y]) /\ Len(Fitness[p][y]) \in Nat
  BY <1>1, PagmoAssumption
<1>3. /\ Len(Gradient[p][x]) = Len(Gradient[p][y]) /\ Len(Gradient[p][y]) \in Nat
      /\ FNnz[p] \in Nat
  BY <1>1, WorhpAssumption
<1> USE DEF y
<1> QED
  BY <1>2, <1>3 DEF Nc, DGnnz

LEMMA OwnStep ==
  ASSUME IInv, OwnInv, [Next]_vars
  PROVE  OwnInv'
<1> USE PollsAre DEF OwnInv
<1>1. CASE UNCHANGED vars
  BY <1>1 DEF vars, caches
<1>2. CASE Caller
  <2>1. nev = 0 /\ nev' = nev
    BY <1>2 DEF Caller, SetVerbosity, SetPolicies, Call
  <2> QED
    BY <2>1
<1>3. CASE StartRun
  BY <1>3 DEF StartRun
<1>4. CASE UserF \/ UserG
  <2>1. UpdateFitnessCache /\ prob' = prob /\ pc' \in Polls
    BY <1>4, LoopStep DEF UserF, UserG
  <2> QED
    BY <2>1 DEF UpdateFitnessCache
<1>5. CASE \/ NotRequested \/ Worhp \/ IterationOutput \/ UserDF \/ UserHM \/ UserDG
           \/ WorhpFidif
  <2>1. UNCHANGED <<fcache, nev, prob>>
    BY <1>5 DEF NotRequested, Worhp, IterationOutput, UserDF, UserHM, UserDG,
                WorhpFidif, Perturb, FinishDifferences, caches
  <2>2. pc' \in Polls
    BY <1>5, LoopStep
  <2> QED
    BY <2>1, <2>2
<1>6. CASE SelectIndividual \/ LoopExit
  BY <1>6 DEF SelectIndividual, LoopExit, caches
<1>7. CASE pc' = "idle" /\ nev' = 0
  BY <1>7
<1> QED
  BY <1>1, <1>2, <1>3, <1>4, <1>5, <1>6, <1>7, LeaveStep DEF Next, Evolve

LEMMA AnswersStep ==
  ASSUME IInv, PendingInv, OwnInv, AnswersInv, [Next]_vars
  PROVE  AnswersInv'
<1>0. prob \in Problem
  BY DEF IInv, TypeOK, LocalTypes
<1>1. CASE pc' \notin Polls
  BY <1>1 DEF AnswersInv
<1>2. CASE UNCHANGED <<pc, requests, asked, opt, wsp, prob, nev, fcache, gcache>>
  BY <1>2 DEF AnswersInv, Fresh, Lagrangian, Inherited
<1>3. CASE SelectIndividual
  <2>1. PICK i \in 1..Len(pop) :
          opt' = [X |-> pop[i].x, F |-> wsp.ScaleObj * pop[i].f[1],
                  G |-> Tail(pop[i].f), Mu |-> 0]
    BY <1>3 DEF SelectIndividual, Candidates
  <2>2. pop[i].f = Fitness[prob][pop[i].x]
    BY DEF IInv, PopulationConsistent, Consistent
  <2>3. asked' = {"evalF", "evalG"} /\ wsp' = wsp /\ prob' = prob
    BY <1>3 DEF SelectIndividual
  <2>4. Fresh("evalF")' /\ Fresh("evalG")'
    BY <2>1, <2>2, <2>3 DEF Fresh
  <2> QED
    BY <2>3, <2>4 DEF AnswersInv
<1>4. CASE NotRequested
  <2>1. pc \in Polls
    BY <1>4 DEF NotRequested, Polling
  <2>2. UNCHANGED <<requests, asked, opt, wsp, prob, nev, fcache, gcache>>
    BY <1>4 DEF NotRequested, solver, caches
  <2> QED
    BY <2>1, <2>2 DEF AnswersInv, Fresh, Lagrangian, Inherited
<1>5. CASE Worhp \/ Perturb \/ FinishDifferences
  <2>1. \A r \in asked' : r \in requests'
    BY <1>5 DEF Worhp, Perturb, FinishDifferences
  <2> QED
    BY <2>1 DEF AnswersInv
<1>6. CASE IterationOutput
  <2>1. pc \in Polls /\ requests' = requests \ {"iterOutput"}
    BY <1>6, PollsAre DEF IterationOutput, Requested, Polling, Done
  <2>2. UNCHANGED <<asked, opt, wsp, prob, nev, fcache, gcache>>
    BY <1>6 DEF IterationOutput, caches
  <2>3. "iterOutput" \notin asked
    BY DEF IInv, TypeOK, ControlTypes, Evaluations
  <2> QED
    BY <2>1, <2>2, <2>3 DEF AnswersInv, Fresh, Lagrangian, Inherited
<1>7. CASE UserF
  <2>1. opt.X \in Point /\ pc \in Polls
    BY <1>7, PollsAre, RequestedFacts DEF UserF, IInv
  <2>2. /\ requests' = requests \ {"evalF"} /\ UNCHANGED <<asked, wsp, prob, gcache>>
        /\ opt' = [opt EXCEPT !.F = wsp.ScaleObj * FitnessWithCache[1]]
        /\ UpdateFitnessCache
    BY <1>7 DEF UserF, Done
  <2>3. /\ opt'.X = opt.X /\ opt'.G = opt.G /\ opt'.Mu = opt.Mu
        /\ opt'.F = wsp.ScaleObj * FitnessWithCache[1]
    BY <2>2 DEF IInv, TypeOK, LocalTypes
  <2>4. ASSUME NEW r, Inherited(r) PROVE Inherited(r)'
    BY <2>2, <2>3, <2>4, InheritanceKept
  <2>5. Fresh("evalF")' \/ Inherited("evalF")'
    <3>1. CASE FitnessWithCache = Fitness[prob][opt.X]
      BY <2>2, <2>3, <3>1 DEF Fresh
    <3>2. CASE Inherited("evalF")
      BY <2>4, <3>2
    <3> QED
      BY <2>1, <3>1, <3>2, OwnOrInherited
  <2>6. ASSUME NEW r \in asked, r # "evalF", Fresh(r) PROVE Fresh(r)'
    BY <2>2, <2>3, <2>6 DEF Fresh, Lagrangian, IInv, TypeOK, ControlTypes, Evaluations
  <2> QED
    BY <2>1, <2>2, <2>4, <2>5, <2>6 DEF AnswersInv
<1>8. CASE UserG
  <2>1. opt.X \in Point /\ pc \in Polls
    BY <1>8, PollsAre, RequestedFacts DEF UserG, IInv
  <2>2. PICK g \in Read(FitnessWithCache, 1, Nc(prob)) : opt' = [opt EXCEPT !.G = g]
    BY <1>8 DEF UserG
  <2>3. /\ requests' = requests \ {"evalG"} /\ UNCHANGED <<asked, wsp, prob, gcache>>
        /\ UpdateFitnessCache
    BY <1>8 DEF UserG, Done
  <2>4. opt'.X = opt.X /\ opt'.F = opt.F /\ opt'.Mu = opt.Mu /\ opt'.G = g
    BY <2>2 DEF IInv, TypeOK, LocalTypes
  <2>5. ASSUME NEW r, Inherited(r) PROVE Inherited(r)'
    BY <2>3, <2>4, <2>5, InheritanceKept
  <2>6. Fresh("evalG")' \/ Inherited("evalG")'
    <3>1. CASE FitnessWithCache = Fitness[prob][opt.X]
      <4>1. /\ Fitness[prob][opt.X] \in Seq(Int) /\ Nc(prob) \in Nat
            /\ Len(Fitness[prob][opt.X]) = Nc(prob) + 1
        BY <1>0, <2>1, ConstantTypes, OwnLengths, Lengths
      <4>2. g \in Read(Fitness[prob][opt.X], 1, Nc(prob))
        BY <2>2, <3>1
      <4>3. 1 + Nc(prob) <= Len(Fitness[prob][opt.X])
        BY <4>1
      <4>4. g = SubSeq(Fitness[prob][opt.X], 1 + 1, 1 + Nc(prob))
        BY <4>1, <4>2, <4>3, ReadExact
      <4>5. g = Tail(Fitness[prob][opt.X])
        BY <4>1, <4>4, TailIs
      <4> QED
        BY <2>3, <2>4, <4>5 DEF Fresh
    <3>2. CASE Inherited("evalG")
      BY <2>5, <3>2
    <3> QED
      BY <2>1, <3>1, <3>2, OwnOrInherited
  <2>7. ASSUME NEW r \in asked, r # "evalG", Fresh(r) PROVE Fresh(r)'
    BY <2>3, <2>4, <2>7 DEF Fresh, Lagrangian, IInv, TypeOK, ControlTypes, Evaluations
  <2> QED
    BY <2>1, <2>3, <2>5, <2>6, <2>7 DEF AnswersInv
<1>9. CASE UserDF
  <2>1. opt.X \in Point /\ pc \in Polls
    BY <1>9, PollsAre, RequestedFacts DEF UserDF, IInv
  <2>2. PICK d \in Read(GradientWithCache, 0, FNnz[prob]) : wsp' = [wsp EXCEPT !.DF = d]
    BY <1>9 DEF UserDF
  <2>3. /\ requests' = requests \ {"evalDF"}
        /\ UNCHANGED <<asked, opt, prob, fcache, nev>> /\ UpdateGradientCache
    BY <1>9 DEF UserDF, Done
  <2>4. /\ wsp'.DF = d /\ wsp'.ScaleObj = wsp.ScaleObj /\ wsp'.DG = wsp.DG
        /\ wsp'.HM = wsp.HM
    BY <2>2 DEF IInv, TypeOK, LocalTypes
  <2>5. ASSUME NEW r, Inherited(r) PROVE Inherited(r)'
    BY <2>3, <2>5, InheritanceKept
  <2>6. Fresh("evalDF")' \/ Inherited("evalDF")'
    <3>1. CASE GradientWithCache = Gradient[prob][opt.X]
      <4>1. /\ Gradient[prob][opt.X] \in Seq(Int) /\ FNnz[prob] \in Nat
            /\ DGnnz(prob) \in Nat
            /\ Len(Gradient[prob][opt.X]) = FNnz[prob] + DGnnz(prob)
        BY <1>0, <2>1, ConstantTypes, OwnLengths, Lengths
      <4>2. d \in Read(Gradient[prob][opt.X], 0, FNnz[prob])
        BY <2>2, <3>1
      <4>3. 0 + FNnz[prob] <= Len(Gradient[prob][opt.X])
        BY <4>1
      <4>4. d = SubSeq(Gradient[prob][opt.X], 0 + 1, 0 + FNnz[prob])
        BY <4>1, <4>2, <4>3, ReadExact
      <4>5. d = SubSeq(Gradient[prob][opt.X], 1, FNnz[prob])
        BY <4>1, <4>4
      <4> QED
        BY <2>3, <2>4, <4>5 DEF Fresh
    <3>2. CASE Inherited("evalDF")
      BY <2>5, <3>2
    <3> QED
      BY <2>1, <3>1, <3>2, OwnOrInherited
  <2>7. ASSUME NEW r \in asked, r # "evalDF", Fresh(r) PROVE Fresh(r)'
    BY <2>3, <2>4, <2>7 DEF Fresh, Lagrangian, IInv, TypeOK, ControlTypes, Evaluations
  <2> QED
    BY <2>1, <2>3, <2>5, <2>6, <2>7 DEF AnswersInv
<1>10. CASE UserDG
  <2>1. opt.X \in Point /\ pc \in Polls
    BY <1>10, PollsAre, RequestedFacts DEF UserDG, IInv
  <2>2. PICK d \in Read(GradientWithCache, FNnz[prob], DGnnz(prob)) :
          wsp' = [wsp EXCEPT !.DG = d]
    BY <1>10 DEF UserDG
  <2>3. /\ requests' = requests \ {"evalDG"}
        /\ UNCHANGED <<asked, opt, prob, fcache, nev>> /\ UpdateGradientCache
    BY <1>10 DEF UserDG, Done
  <2>4. /\ wsp'.DG = d /\ wsp'.ScaleObj = wsp.ScaleObj /\ wsp'.DF = wsp.DF
        /\ wsp'.HM = wsp.HM
    BY <2>2 DEF IInv, TypeOK, LocalTypes
  <2>5. ASSUME NEW r, Inherited(r) PROVE Inherited(r)'
    BY <2>3, <2>5, InheritanceKept
  <2>6. Fresh("evalDG")' \/ Inherited("evalDG")'
    <3>1. CASE GradientWithCache = Gradient[prob][opt.X]
      <4>1. /\ Gradient[prob][opt.X] \in Seq(Int) /\ FNnz[prob] \in Nat
            /\ DGnnz(prob) \in Nat
            /\ Len(Gradient[prob][opt.X]) = FNnz[prob] + DGnnz(prob)
        BY <1>0, <2>1, ConstantTypes, OwnLengths, Lengths
      <4>2. d \in Read(Gradient[prob][opt.X], FNnz[prob], DGnnz(prob))
        BY <2>2, <3>1
      <4>3. FNnz[prob] + DGnnz(prob) <= Len(Gradient[prob][opt.X])
        BY <4>1
      <4>4. d = SubSeq(Gradient[prob][opt.X], FNnz[prob] + 1, FNnz[prob] + DGnnz(prob))
        BY <4>1, <4>2, <4>3, ReadExact
      <4>5. d = SubSeq(Gradient[prob][opt.X], FNnz[prob] + 1,
                       Len(Gradient[prob][opt.X]))
        BY <4>1, <4>4
      <4> QED
        BY <2>3, <2>4, <4>5 DEF Fresh
    <3>2. CASE Inherited("evalDG")
      BY <2>5, <3>2
    <3> QED
      BY <2>1, <3>1, <3>2, OwnOrInherited
  <2>7. ASSUME NEW r \in asked, r # "evalDG", Fresh(r) PROVE Fresh(r)'
    BY <2>3, <2>4, <2>7 DEF Fresh, Lagrangian, IInv, TypeOK, ControlTypes, Evaluations
  <2> QED
    BY <2>1, <2>3, <2>5, <2>6, <2>7 DEF AnswersInv
<1>11. CASE UserHM
  <2>1. pc \in Polls
    BY <1>11, PollsAre DEF UserHM, Requested, Polling
  <2>2. /\ requests' = requests \ {"evalHM"} /\ UNCHANGED <<asked, opt, prob>>
        /\ wsp' = [wsp EXCEPT !.HM = Lagrangian(prob, opt, wsp)]
        /\ UNCHANGED <<fcache, gcache, nev>>
    BY <1>11 DEF UserHM, Done, caches
  <2>3. /\ wsp'.HM = Lagrangian(prob, opt, wsp) /\ wsp'.ScaleObj = wsp.ScaleObj
        /\ wsp'.DF = wsp.DF /\ wsp'.DG = wsp.DG
    BY <2>2 DEF IInv, TypeOK, LocalTypes
  <2>4. Fresh("evalHM")'
    BY <2>2, <2>3 DEF Fresh, Lagrangian
  <2>5. ASSUME NEW r \in asked, r # "evalHM", Fresh(r) PROVE Fresh(r)'
    BY <2>2, <2>3, <2>5 DEF Fresh, Lagrangian, IInv, TypeOK, ControlTypes, Evaluations
  <2>6. ASSUME NEW r, Inherited(r) PROVE Inherited(r)'
    BY <2>2, <2>6, InheritanceKept
  <2> QED
    BY <2>1, <2>2, <2>4, <2>5, <2>6 DEF AnswersInv
<1>12. CASE UNCHANGED vars
  BY <1>2, <1>12 DEF vars, solver, caches
<1>13. CASE Caller
  <2>1. \/ UNCHANGED <<pc, requests, asked, opt, wsp, prob, nev, fcache, gcache>>
        \/ pc' = "preamble"
    BY <1>13 DEF Caller, SetVerbosity, SetPolicies, Call, solver, caches
  <2> QED
    BY <1>1, <1>2, <2>1, PollsAre
<1>14. CASE StartRun \/ LoopExit
  BY <1>1, <1>14, PollsAre DEF StartRun, LoopExit
<1>15. CASE pc' = "idle"
  BY <1>1, <1>15, PollsAre
<1> QED
  BY <1>3, <1>4, <1>5, <1>6, <1>7, <1>8, <1>9, <1>10, <1>11, <1>12, <1>13, <1>14,
     <1>15, LeaveStep DEF Next, Evolve, WorhpFidif

(* Whatever problems an object is used with, a stale answer only comes from*)
(* an entry another function's problem left, at the solver's very point,   *)
(* and for the fitness only before the run's own first evaluation          *)
(* (worhp.cpp:1111-1133, where the caches are not reset between runs).     *)
THEOREM StaleAnswersAreInherited == Spec => []StaleOnlyIfInherited
<1>1. Init => OwnInv /\ AnswersInv
  BY PollsAre DEF Init, OwnInv, AnswersInv
<1>2. IInv /\ PendingInv /\ AnswersInv => StaleOnlyIfInherited
  <2> SUFFICES ASSUME IInv, PendingInv, AnswersInv, NEW r \in asked,
                      Requested("callWorhp") \/ Requested("fidif")
               PROVE  Fresh(r) \/ Inherited(r)
    BY DEF StaleOnlyIfInherited
  <2>1. pc \in Polls /\ r \in Evaluations
    BY PollsAre DEF Requested, Polling, IInv, TypeOK, ControlTypes
  <2>2. r \notin requests
    <3>1. CASE Requested("callWorhp")
      BY <2>1, <3>1 DEF Requested, Polling, PendingInv, Evaluations
    <3>2. CASE Requested("fidif")
      BY <2>1, <3>2, AfterIs DEF Requested, Polling, PendingInv
    <3> QED
      BY <3>1, <3>2
  <2> QED
    BY <2>1, <2>2 DEF AnswersInv
<1>3. IInv /\ OwnInv /\ [Next]_vars => OwnInv'
  BY OwnStep
<1>4. IInv /\ PendingInv /\ OwnInv /\ AnswersInv /\ [Next]_vars => AnswersInv'
  BY AnswersStep
<1> QED
  BY <1>1, <1>2, <1>3, <1>4, SpecPending, PTL DEF Spec

(* An object that only ever evolves populations of one function (the same  *)
(* problem, perhaps with or without its derivatives) inherits nothing.     *)
OneFunction ==
  \A p, q \in Problem : Fitness[p] = Fitness[q] /\ Gradient[p] = Gradient[q]

(* On one function, every value the solver asked for and is given is the   *)
(* function's own value at the point it asked about: the caches never lie, *)
(* across points, finite differences, exceptions and runs.  The assumption *)
(* is needed: run worhp_stale_cache shows what two functions do.           *)
THEOREM AnswersAreFresh ==
  ASSUME OneFunction
  PROVE  Spec => []SolverGetsFreshAnswers
<1>1. IInv /\ StaleOnlyIfInherited => SolverGetsFreshAnswers
  <2> SUFFICES ASSUME IInv, StaleOnlyIfInherited, NEW r \in asked,
                      Requested("callWorhp") \/ Requested("fidif")
               PROVE  Fresh(r)
    BY DEF SolverGetsFreshAnswers
  <2>1. prob \in Problem /\ fcache.by \in Problem /\ gcache.by \in Problem
    BY DEF IInv, TypeOK, ObjectTypes, LocalTypes, CacheEntries
  <2>2. ~Inherited(r)
    BY <2>1 DEF Inherited, OneFunction
  <2> QED
    BY <2>2 DEF StaleOnlyIfInherited
<1> QED
  BY <1>1, SpecIInv, StaleAnswersAreInherited, PTL

-------------------------------------------------------------------------------
(* evolve() keeps the contract *)

(* What each step does to the variables the contract is about. *)
LEMMA Effects ==
  ASSUME [Next]_vars
  PROVE  \/ UNCHANGED vars
         \/ Caller
         \/ /\ StartRun \/ NotRequested \/ Worhp \/ IterationOutput \/ UserF
               \/ UserG \/ UserDF \/ UserHM \/ UserDG \/ WorhpFidif \/ LoopExit
            /\ UNCHANGED <<select, replace, prob, pop, outcome, start>>
         \/ SelectIndividual
         \/ /\ pc # "idle" /\ Leave("threw")
            /\ UNCHANGED <<select, replace, prob, pop>>
         \/ ReturnEmpty
         \/ Reinsert
<1>1. ASSUME StartRun \/ NotRequested \/ Worhp \/ IterationOutput \/ UserF
               \/ UserG \/ UserDF \/ UserHM \/ UserDG \/ WorhpFidif \/ LoopExit
      PROVE  UNCHANGED <<select, replace, prob, pop, outcome, start>>
  BY <1>1 DEF StartRun, NotRequested, Worhp, IterationOutput, UserF, UserG, UserDF,
              UserHM, UserDG, WorhpFidif, Perturb, FinishDifferences, LoopExit, options
<1>2. ASSUME RejectProblem \/ LoadFails \/ SparsityFails \/ OptionRejected
               \/ SelectionFails \/ EvaluationThrows \/ ReinsertThrows
               \/ ReplacementFails
      PROVE  /\ pc # "idle" /\ Leave("threw")
             /\ UNCHANGED <<select, replace, prob, pop>>
  BY <1>2 DEF RejectProblem, LoadFails, SparsityFails, OptionRejected, SelectionFails,
              ReinsertThrows, EvaluationThrows, ReplacementFails, Requested, Polling,
              Throw, options
<1> QED
  BY <1>1, <1>2 DEF Next, Evolve

LEMMA StartStep ==
  ASSUME IInv, StartInv, [Next]_vars
  PROVE  StartInv'
<1> USE PollsAre
<1>1. CASE pc' \notin Polls \cup {"reinsert"}
  BY <1>1 DEF StartInv
<1>2. CASE UNCHANGED vars
  BY <1>2 DEF vars, options, StartInv
<1>3. CASE Caller
  BY <1>3 DEF Caller, SetVerbosity, SetPolicies, Call, StartInv, IInv
<1>4. CASE SelectIndividual
  <2>1. \E i \in Candidates(select, pop, Nec[prob]) : start' = pop[i]
    BY <1>4 DEF SelectIndividual
  <2>2. UNCHANGED <<select, pop, prob>>
    BY <1>4 DEF SelectIndividual, options
  <2> QED
    BY <2>1, <2>2 DEF StartInv
<1>5. CASE StartRun
  BY <1>1, <1>5 DEF StartRun
<1>6. CASE \/ NotRequested \/ Worhp \/ IterationOutput \/ UserF \/ UserG
           \/ UserDF \/ UserHM \/ UserDG \/ WorhpFidif \/ LoopExit
  <2>1. pc \in Polls
    BY <1>6, LoopStep DEF LoopExit
  <2>2. UNCHANGED <<select, prob, pop, start>>
    BY <1>6 DEF NotRequested, Worhp, IterationOutput, UserF, UserG, UserDF,
              UserHM, UserDG, WorhpFidif, Perturb, FinishDifferences, LoopExit, options
  <2> QED
    BY <2>1, <2>2 DEF StartInv
<1> QED
  BY <1>1, <1>2, <1>3, <1>4, <1>5, <1>6, LeaveStep DEF Next, Evolve

LEMMA EmptyPopulation ==
  ASSUME NEW p \in Problem
  PROVE  << >> \in Populations(p)
<1>1. 0 \in 0..MaxPop /\ << >> \in [1..0 -> {Individual(p, x) : x \in Point}]
  BY PagmoAssumption
<1> QED
  BY <1>1 DEF Populations

LEMMA ContractInit == Init => Contract!Init
BY EmptyPopulation DEF Init, Contract!Init, Policies

LEMMA ContractStep ==
  ASSUME IInv, StartInv, [Next]_vars
  PROVE  [Contract!Next]_(Contract!vars)
<1> USE PollsAre DEF Contract!vars, Contract!Next
<1>1. CASE UNCHANGED vars
  BY <1>1 DEF vars, options
<1>2. CASE SetVerbosity
  BY <1>2 DEF SetVerbosity
<1>3. CASE SetPolicies
  BY <1>3, EnvironmentTypes DEF SetPolicies, Contract!Configure
<1>4. CASE Call
  BY <1>4 DEF Call, Contract!Call, options
<1>5. CASE /\ pc # "idle" /\ Leave("threw")
           /\ UNCHANGED <<select, replace, prob, pop>>
  BY <1>5 DEF Leave, Contract!Throw
<1>6. CASE ReturnEmpty
  BY <1>6 DEF ReturnEmpty, Leave, Contract!Return, options
<1>7. CASE SelectIndividual
  BY <1>7 DEF SelectIndividual, options
<1>8. CASE StartRun
  BY <1>8 DEF StartRun, options
<1>9. CASE \/ NotRequested \/ Worhp \/ IterationOutput \/ UserF \/ UserG
           \/ UserDF \/ UserHM \/ UserDG \/ WorhpFidif \/ LoopExit
  <2>1. pc # "idle" /\ pc' # "idle"
    BY <1>9, LoopStep DEF LoopExit
  <2>2. UNCHANGED <<select, replace, prob, pop, outcome>>
    BY <1>9 DEF NotRequested, Worhp, IterationOutput, UserF, UserG, UserDF,
              UserHM, UserDG, WorhpFidif, Perturb, FinishDifferences, LoopExit, options
  <2> QED
    BY <2>1, <2>2
<1>10. CASE Reinsert
  <2>1. /\ pc = "reinsert" /\ pc' = "idle" /\ outcome' = "returned"
        /\ UNCHANGED <<select, replace, prob>> /\ opt.X \in Point
    BY <1>10 DEF Reinsert, Leave, options, IInv, SolverHasPoint
  <2>2. CASE pop' = pop
    BY <2>1, <2>2 DEF Contract!Return
  <2>3. CASE Improved /\ \E i \in Candidates(replace, pop, Nec[prob]) :
                pop' = [pop EXCEPT ![i] = [x |-> opt.X, f |-> FinalFitness]]
    <3>1. PICK s \in Candidates(select, pop, Nec[prob]) : start = pop[s]
      BY <2>1 DEF StartInv
    <3>2. Contract!Improvement(opt.X)
      BY <2>3, <3>1 DEF Improved, FinalFitness, Contract!Improvement
    <3>3. \E i \in Candidates(replace, pop, Nec[prob]) :
            pop' = [pop EXCEPT ![i] = Individual(prob, opt.X)]
      BY <2>3 DEF FinalFitness, Individual
    <3> QED
      BY <2>1, <3>2, <3>3 DEF Contract!Return
  <2> QED
    BY <1>10, <2>2, <2>3 DEF Reinsert
<1> QED
  BY <1>1, <1>2, <1>3, <1>4, <1>5, <1>6, <1>7, <1>8, <1>9, <1>10, Effects DEF Caller

LEMMA SpecStart == Spec => [](IInv /\ StartInv)
<1>1. Init => StartInv
  BY PollsAre DEF Init, StartInv
<1>2. IInv /\ StartInv /\ [Next]_vars => StartInv'
  BY StartStep
<1> QED
  BY <1>1, <1>2, InitIInv, InvariantStep, PTL DEF Spec

(* Every behaviour of evolve() is one EvolveContract allows: a call that   *)
(* throws leaves the population alone, and one that returns replaces at    *)
(* most one individual, by a true and strict improvement.                  *)
THEOREM Implementation == Spec => ImplementsContract
<1>1. IInv /\ StartInv /\ [Next]_vars => [Contract!Next]_(Contract!vars)
  BY ContractStep
<1> QED
  BY <1>1, SpecStart, ContractInit, PTL DEF Spec, ImplementsContract

-------------------------------------------------------------------------------
(* With the policies EvolveContract names, no call makes the champion      *)
(* worse, for populations of any size and whatever WORHP answers: every    *)
(* return is one of the contract, and the contract's returns are safe.     *)
THEOREM ChampionsAreKept == Spec => ChampionKept
<1>1. ASSUME IInv, StartInv, [Next]_vars, pc # "idle", ~(pc' # "idle"),
             outcome' = "returned", Contract!Protective, NEW k \in DOMAIN pop
      PROVE  \E j \in DOMAIN pop' : Contract!AtLeastAsGood(pop'[j], pop[k])
  <2>1. prob \in Problem /\ pop \in Seq(Individuals) /\ DOMAIN pop = 1..Len(pop)
        /\ Nec[prob] \in Nat
    <3>0. TypeOK
      BY <1>1 DEF IInv
    <3>1. prob \in Problem /\ pop \in Seq(Individuals)
      BY <3>0 DEF TypeOK, ObjectTypes, LocalTypes
    <3>2. Nec \in [Problem -> Nat]
      BY PagmoAssumption
    <3> QED
      BY <3>1, <3>2
  <2>2. \A i \in 1..Len(pop) : Consistent(prob, pop[i])
    BY <1>1 DEF IInv, PopulationConsistent
  <2>3. pop[k].f \in Seq(Int) /\ Len(pop[k].f) > 0
    BY <1>1, <2>1, <2>2, PagmoAssumption DEF Consistent
  <2>4. ~CompareFC(pop[k].f, pop[k].f, Nec[prob])
    BY <1>1, <2>1, <2>3, CompareOrder
  <2>5. Contract!Return
    BY <1>1, ContractStep
       DEF Contract!Next, Contract!vars, Contract!Configure, Contract!Call, Contract!Throw
  <2>6. CASE pop' = pop
    BY <1>1, <2>4, <2>6 DEF Contract!AtLeastAsGood
  <2>7. CASE \E x \in Point, i \in Candidates(replace, pop, Nec[prob]) :
               /\ Contract!Improvement(x)
               /\ pop' = [pop EXCEPT ![i] = Individual(prob, x)]
    <3>1. PICK x \in Point, i \in Candidates(replace, pop, Nec[prob]) :
            /\ Contract!Improvement(x)
            /\ pop' = [pop EXCEPT ![i] = Individual(prob, x)]
      BY <2>7
    <3>2. PICK s \in Candidates(select, pop, Nec[prob]) :
            CompareFC(Fitness[prob][x], pop[s].f, Nec[prob])
      BY <3>1 DEF Contract!Improvement
    <3>3. Protects(select, replace)
      BY <1>1 DEF Contract!Protective, Protects
    <3>4. ~CompareFC(pop[i].f, Fitness[prob][x], Nec[prob])
      BY <1>1, <2>1, <2>2, <3>2, <3>3, ProtectiveReplacement
    <3>5. DOMAIN pop' = DOMAIN pop
      BY <3>1
    <3>6. CASE k = i
      <4>1. pop'[k].f = Fitness[prob][x]
        BY <1>1, <3>1, <3>6 DEF Individual
      <4> QED
        BY <1>1, <3>4, <3>5, <3>6, <4>1 DEF Contract!AtLeastAsGood
    <3>7. CASE k # i
      <4>1. pop'[k] = pop[k]
        BY <1>1, <3>1, <3>7
      <4> QED
        BY <1>1, <2>4, <3>5, <4>1 DEF Contract!AtLeastAsGood
    <3> QED
      BY <3>6, <3>7
  <2> QED
    BY <2>5, <2>6, <2>7 DEF Contract!Return
<1> DEFINE Kept == pc # "idle" /\ ~(pc # "idle")' /\ outcome' = "returned"
                     /\ Contract!Protective
                   => \A i \in DOMAIN pop : \E j \in DOMAIN pop' :
                        Contract!AtLeastAsGood(pop'[j], pop[i])
<1>2. IInv /\ StartInv /\ [Next]_vars => [Kept]_(Contract!vars)
  BY <1>1
<1>3. ChampionKept <=> [][Kept]_(Contract!vars)
  BY DEF ChampionKept, Contract!ChampionKept
<1> HIDE DEF Kept
<1> QED
  BY <1>2, <1>3, SpecStart, PTL DEF Spec
==============================================================================
