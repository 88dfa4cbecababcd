---------------------------- MODULE WorhpLogProofs ----------------------------
(***************************************************************************)
(* Theorems about the evaluations a run of WorhpEvolve makes and the log   *)
(* it leaves, and their proofs, for every value of the constants.          *)
(*                                                                         *)
(* The solver stays at a point until it has control again, so that a point *)
(* whose fitness has been computed is the one the cache knows (CostInv).   *)
(* Hence a run makes at most one evaluation per iteration (BudgetInv); as  *)
(* long as the iterations fit in the unsigned that counts the evaluations, *)
(* the numbers in the log ascend (LogInv).                                 *)
(***************************************************************************)
EXTENDS WorhpEvolveProofs

(* Where evolve() has not handed a point to the solver. *)
Before == {"idle", "preamble", "configure"}

CostInv ==
  /\ spent.f <= 1 /\ spent.g <= 1
  /\ spent.f # 0 => fcache.x = opt.X
  /\ spent.g # 0 => gcache.x = opt.X
  /\ pc \in Before => spent = NoSpending

BudgetInv ==
  /\ pc \in Before => nev = 0 /\ requests = {}
  /\ nev <= iters
  /\ spent.f = 0 /\ requests \cap {"evalF", "evalG"} # {} => nev < iters

LogInv == LogChronological /\ (pc = "configure" => log = <<>>)

ScreenInv == screenOutput => verbosity = 0 /\ log = <<>>

-------------------------------------------------------------------------------
(* What the steps do to the evaluations, the log and the setters' members  *)

Leaving ==
  \/ RejectProblem \/ ReturnEmpty \/ LoadFails \/ SparsityFails \/ OptionRejected
  \/ SelectionFails \/ EvaluationThrows \/ ReinsertThrows \/ ReplacementFails
  \/ Reinsert

(* Steps at which nothing is evaluated and the solver's point stays.       *)
Still ==
  \/ UNCHANGED vars \/ SetVerbosity \/ SetPolicies \/ Call \/ StartRun
  \/ NotRequested \/ IterationOutput \/ UserHM \/ LoopExit

(* Steps after which the solver is at a new point, or at none.             *)
Moving == Worhp \/ Perturb \/ FinishDifferences

LEMMA Steps ==
  ASSUME [Next]_vars
  PROVE  \/ Leaving \/ Still \/ Moving \/ SelectIndividual
         \/ UserF \/ UserG \/ UserDF \/ UserDG
BY DEF Next, Caller, Evolve, WorhpFidif, Leaving, Still, Moving

LEMMA LeavingDoes ==
  ASSUME Leaving
  PROVE  /\ pc' = "idle" /\ spent' = NoSpending /\ nev' = 0 /\ requests' = {}
         /\ iters' = 0 /\ (log' = log \/ log' = <<>>)
         /\ UNCHANGED <<screenOutput, verbosity>>
BY DEF Leaving, RejectProblem, ReturnEmpty, LoadFails, SparsityFails, OptionRejected,
       SelectionFails, EvaluationThrows, ReinsertThrows, ReplacementFails, Reinsert,
       Throw, Leave, options

LEMMA StillDoes ==
  ASSUME Still
  PROVE  /\ UNCHANGED <<caches, opt, spent, nev, iters>>
         /\ requests' \subseteq requests
         /\ pc' \in Before => pc \in Before
         /\ log' = log \/ StartRun
         /\ pc' = "configure" => pc = "configure" \/ StartRun
         /\ pc' \in Polls => pc \in Polls
         /\ screenOutput' = screenOutput
         /\ verbosity' = verbosity \/ SetVerbosity
<1> USE PollsAre DEF Before, caches, solver, options
<1>1. CASE UNCHANGED vars
  BY <1>1 DEF vars
<1>2. CASE SetVerbosity \/ SetPolicies
  BY <1>2 DEF SetVerbosity, SetPolicies
<1>3. CASE Call \/ StartRun
  BY <1>3 DEF Call, StartRun
<1>4. CASE NotRequested
  <2>1. pc \in Polls /\ pc' \in Polls
    BY <1>4 DEF NotRequested, Polling
  <2> QED
    BY <1>4, <2>1 DEF NotRequested
<1>5. CASE IterationOutput
  BY <1>5 DEF IterationOutput, Done, Requested, Polling
<1>6. CASE UserHM
  BY <1>6 DEF UserHM, Done, Requested, Polling
<1>7. CASE LoopExit
  BY <1>7 DEF LoopExit
<1> QED
  BY <1>1, <1>2, <1>3, <1>4, <1>5, <1>6, <1>7 DEF Still

(* Every call of the solver and every perturbation costs an iteration.     *)
LEMMA MovingDoes ==
  ASSUME IInv, Moving
  PROVE  /\ pc \in Polls /\ pc' \in Polls
         /\ spent' = NoSpending /\ nev' = nev /\ log' = log
         /\ \/ iters' = iters + 1
            \/ iters' = iters /\ requests' \cap {"evalF", "evalG"} = {}
         /\ UNCHANGED <<screenOutput, verbosity>>
<1> USE PollsAre DEF options
<1>1. CASE Worhp
  BY <1>1 DEF Worhp, Requested, Polling
<1>2. CASE Perturb
  BY <1>2 DEF Perturb, Requested, Polling
<1>3. CASE FinishDifferences
  BY <1>3 DEF FinishDifferences, Requested, Polling
<1> QED
  BY <1>1, <1>2, <1>3 DEF Moving

LEMMA SelectionDoes ==
  ASSUME SelectIndividual
  PROVE  /\ pc = "configure" /\ pc' = "callWorhp" /\ requests' = {"callWorhp"}
         /\ UNCHANGED <<spent, nev, iters, log, screenOutput, verbosity>>
BY DEF SelectIndividual, options

(* The four callbacks keep the point, and go through one of the caches.    *)
LEMMA CallbackDoes ==
  ASSUME IInv, UserF \/ UserG \/ UserDF \/ UserDG
  PROVE  /\ pc \in Polls /\ pc' \in Polls
         /\ opt'.X = opt.X /\ iters' = iters /\ requests' \subseteq requests
         /\ \/ /\ UpdateFitnessCache /\ gcache' = gcache
               /\ requests \cap {"evalF", "evalG"} # {}
            \/ UpdateGradientCache /\ fcache' = fcache /\ nev' = nev
         /\ log' = log \/ UserF
         /\ UNCHANGED <<screenOutput, verbosity>>
<1> USE PollsAre DEF options, Done, Requested, Polling
<1>1. opt \in [X : Point \cup {NoPoint}, F : Int, G : Seq(Int), Mu : Int]
  BY DEF IInv, TypeOK, LocalTypes
<1>2. CASE UserF
  BY <1>1, <1>2 DEF UserF
<1>3. CASE UserG
  BY <1>1, <1>3 DEF UserG
<1>4. CASE UserDF
  BY <1>4 DEF UserDF
<1>5. CASE UserDG
  BY <1>5 DEF UserDG
<1> QED
  BY <1>2, <1>3, <1>4, <1>5

-------------------------------------------------------------------------------
(* The cost of a point, and of a run *)

LEMMA CostStep ==
  ASSUME IInv, CostInv, [Next]_vars
  PROVE  CostInv'
<1>0. spent \in [f : Nat, g : Nat]
  BY DEF IInv, TypeOK, ControlTypes
<1>1. CASE spent' = NoSpending
  BY <1>1 DEF CostInv, NoSpending
<1>2. CASE Still
  BY <1>2, StillDoes DEF CostInv, caches
<1>3. CASE SelectIndividual
  BY <1>1, <1>3, SelectionDoes DEF CostInv, Before
<1>4. CASE UserF \/ UserG \/ UserDF \/ UserDG
  <2>1. pc' \notin Before /\ opt'.X = opt.X
    BY <1>4, CallbackDoes, PollsAre DEF Before
  <2>2. CASE UpdateFitnessCache /\ gcache' = gcache
    BY <1>0, <2>1, <2>2 DEF CostInv, UpdateFitnessCache, FitnessHit
  <2>3. CASE UpdateGradientCache /\ fcache' = fcache
    BY <1>0, <2>1, <2>3 DEF CostInv, UpdateGradientCache, GradientHit
  <2> QED
    BY <1>4, <2>2, <2>3, CallbackDoes
<1> QED
  BY <1>1, <1>2, <1>3, <1>4, Steps, LeavingDoes, MovingDoes

LEMMA BudgetStep ==
  ASSUME IInv, CostInv, BudgetInv, [Next]_vars
  PROVE  BudgetInv'
<1>0. spent \in [f : Nat, g : Nat] /\ nev \in Nat /\ iters \in Nat
  BY EnvironmentTypes DEF IInv, TypeOK, ControlTypes, LocalTypes
<1>1. CASE Leaving
  BY <1>1, LeavingDoes DEF BudgetInv
<1>2. CASE Still
  BY <1>2, StillDoes DEF BudgetInv
<1>3. CASE SelectIndividual
  BY <1>0, <1>3, SelectionDoes DEF BudgetInv, Before
<1>4. CASE Moving
  BY <1>0, <1>4, MovingDoes, PollsAre DEF BudgetInv, Before
<1>5. CASE UserF \/ UserG \/ UserDF \/ UserDG
  <2>1. pc' \notin Before /\ iters' = iters /\ requests' \subseteq requests
    BY <1>5, CallbackDoes, PollsAre DEF Before
  <2>2. CASE UpdateFitnessCache /\ requests \cap {"evalF", "evalG"} # {}
    <3>1. CASE FitnessHit
      BY <2>1, <2>2, <3>1 DEF UpdateFitnessCache, BudgetInv
    <3>2. CASE ~FitnessHit
      <4>1. spent.f = 0
        BY <1>0, <3>2 DEF CostInv, FitnessHit
      <4>2. nev < iters /\ nev' = nev + 1 /\ spent'.f = 1
        BY <1>0, <2>2, <3>2, <4>1 DEF BudgetInv, UpdateFitnessCache
      <4> QED
        BY <1>0, <2>1, <4>2 DEF BudgetInv
    <3> QED
      BY <3>1, <3>2
  <2>3. CASE UpdateGradientCache /\ nev' = nev
    <3>1. spent'.f = spent.f
      BY <1>0, <2>3 DEF UpdateGradientCache
    <3> QED
      BY <2>1, <2>3, <3>1 DEF BudgetInv
  <2> QED
    BY <1>5, <2>2, <2>3, CallbackDoes
<1> QED
  BY <1>1, <1>2, <1>3, <1>4, <1>5, Steps

LEMMA SpecBudget == Spec => [](IInv /\ CostInv /\ BudgetInv)
<1>1. Init => CostInv /\ BudgetInv
  BY DEF Init, CostInv, BudgetInv, NoSpending
<1> QED
  BY <1>1, InitIInv, InvariantStep, CostStep, BudgetStep, PTL DEF Spec

(* While the solver stays at a point, its problem is asked at most once    *)
(* for the fitness and once for the gradient, in whatever order and        *)
(* combination they are requested ("We cache the last call to fitness as   *)
(* it will be repeated by worhp").                                         *)
THEOREM AtMostOneEvaluation == Spec => []OneEvaluationPerPoint
<1>1. CostInv => OneEvaluationPerPoint
  BY DEF CostInv, OneEvaluationPerPoint
<1> QED
  BY <1>1, SpecBudget, PTL

-------------------------------------------------------------------------------
(* The log *)

LEMMA SmallModulo ==
  ASSUME NEW m \in Nat \ {0}, NEW n \in Nat, n < m
  PROVE  n % m = n
OBVIOUS

LEMMA UserFLog ==
  ASSUME IInv, CostInv, BudgetInv, LogInv, UserF, BudgetInv', MaxIter < UIntModulus
  PROVE  LogInv'
<1>1. /\ pc = "evalF" /\ pc' \in Polls /\ pc' # "configure"
      /\ log \in Seq(LogLines) /\ nev \in Nat /\ iters \in 0..MaxIter /\ prob \in Problem
  BY CallbackDoes, PollsAre
     DEF UserF, Requested, Polling, IInv, TypeOK, ObjectTypes, LocalTypes, ControlTypes
<1>2. \A i \in 1..Len(log) : log[i].fevals \in Nat /\ log[i].fevals <= nev
  <2>1. pc \in Polls /\ \A i \in 1..Len(log) : log[i] \in LogLines
    BY <1>1, PollsAre
  <2> QED
    BY <2>1 DEF LogInv, LogChronological, LogLines
<1>3. nev' \in Nat /\ nev <= nev' /\ nev' <= iters
  <2>1. iters' = iters /\ nev' <= iters'
    BY DEF UserF, BudgetInv
  <2>2. nev' = nev \/ nev' = nev + 1
    BY DEF UserF, UpdateFitnessCache
  <2> QED
    BY <1>1, <2>1, <2>2
<1>4. nev' % UIntModulus = nev'
  <2>1. UIntModulus \in Nat \ {0} /\ MaxIter \in Nat
    BY EnvironmentTypes
  <2>2. nev' < UIntModulus
    BY <1>1, <1>3, <2>1
  <2> QED
    BY <1>3, <2>1, <2>2, SmallModulo
<1>5. CASE log' = log
  BY <1>1, <1>2, <1>3, <1>5 DEF LogInv, LogChronological
<1>6. CASE log' = Append(log, [fevals |-> nev', objval |-> FitnessWithCache[1]])
  <2>1. /\ Len(log') = Len(log) + 1 /\ log'[Len(log) + 1].fevals = nev'
        /\ \A i \in 1..Len(log) : log'[i] = log[i]
    BY <1>1, <1>6
  <2>2. \A i \in 1..Len(log') : log'[i].fevals <= nev'
    BY <1>1, <1>2, <1>3, <2>1
  <2>3. ASSUME NEW i \in 1..Len(log'), NEW j \in 1..Len(log'), i < j
        PROVE  log'[i].fevals <= log'[j].fevals
    <3>1. CASE j = Len(log) + 1
      BY <2>1, <2>2, <3>1
    <3>2. CASE j # Len(log) + 1
      <4>1. i \in 1..Len(log) /\ j \in 1..Len(log)
        BY <1>1, <2>1, <2>3, <3>2
      <4> QED
        BY <2>1, <2>3, <4>1 DEF LogInv, LogChronological
    <3> QED
      BY <3>1, <3>2
  <2> QED
    BY <1>1, <2>2, <2>3 DEF LogInv, LogChronological
<1> QED
  BY <1>4, <1>5, <1>6 DEF UserF, UpdateLog

LEMMA LogStep ==
  ASSUME IInv, CostInv, BudgetInv, BudgetInv', LogInv, [Next]_vars,
         MaxIter < UIntModulus
  PROVE  LogInv'
<1>0. nev \in Nat /\ log \in Seq(LogLines)
  BY DEF IInv, TypeOK, LocalTypes, ObjectTypes
<1>1. CASE Leaving
  BY <1>1, LeavingDoes, PollsAre DEF LogInv, LogChronological
<1>2. CASE log' = log /\ nev' = nev /\ pc \in Polls /\ pc' # "configure"
  BY <1>2 DEF LogInv, LogChronological
<1>3. CASE StartRun
  BY <1>3, PollsAre DEF StartRun, LogInv, LogChronological
<1>4. CASE Still
  <2>1. /\ nev' = nev /\ (log' = log \/ StartRun)
        /\ pc' = "configure" => pc = "configure" \/ StartRun
        /\ pc' \in Polls => pc \in Polls
    BY <1>4, StillDoes
  <2> QED
    BY <1>3, <2>1 DEF LogInv, LogChronological
<1>5. CASE SelectIndividual
  BY <1>5, SelectionDoes DEF LogInv, LogChronological
<1>6. CASE UserF
  BY <1>6, UserFLog
<1>7. CASE UserG \/ UserDF \/ UserDG
  <2>1. /\ pc \in Polls /\ pc' \in Polls /\ log' = log
        /\ nev' = nev \/ nev' = nev + 1
    BY <1>7, CallbackDoes
       DEF UserG, UserDF, UserDG, UpdateFitnessCache, UpdateGradientCache
  <2> QED
    <3>1. \A i \in 1..Len(log) : log[i].fevals \in Nat /\ log[i].fevals <= nev
      <4>1. \A i \in 1..Len(log) : log[i] \in LogLines
        BY <1>0
      <4> QED
        BY <2>1, <4>1 DEF LogInv, LogChronological, LogLines
    <3>2. \A i \in 1..Len(log) : log[i].fevals <= nev'
      BY <1>0, <2>1, <3>1
    <3> QED
      BY <2>1, <3>2, PollsAre DEF LogInv, LogChronological
<1> QED
  BY <1>1, <1>2, <1>4, <1>5, <1>6, <1>7, Steps, LeavingDoes, MovingDoes, PollsAre

(* The log is in chronological order, however many runs have written it    *)
(* and whichever of them threw, if a run has fewer iterations than the     *)
(* unsigned that numbers the lines can count (worhp.cpp:995): StartRun     *)
(* leaves no line in front of the new ones.                                *)
THEOREM LogStaysChronological ==
  ASSUME MaxIter < UIntModulus
  PROVE  Spec => []LogChronological
<1>1. Init => LogInv
  BY PollsAre DEF Init, LogInv, LogChronological
<1>2. IInv /\ CostInv /\ BudgetInv /\ BudgetInv' /\ LogInv /\ [Next]_vars => LogInv'
  BY LogStep
<1>3. LogInv => LogChronological
  BY DEF LogInv
<1> QED
  BY <1>1, <1>2, <1>3, SpecBudget, PTL DEF Spec

(* An object with the solver's screen output never has a line in its log,  *)
(* whatever order set_verbosity and evolve() are called in.                *)
THEOREM ScreenOutputStaysExclusive == Spec => []ScreenOutputExcludesLog
<1>1. Init => ScreenInv
  BY DEF Init, ScreenInv
<1>2. ASSUME ScreenInv, [Next]_vars
      PROVE  ScreenInv'
  <2>1. CASE SetVerbosity
    BY <1>2, <2>1 DEF ScreenInv, SetVerbosity, VerbosityAllowed
  <2>2. CASE StartRun
    BY <1>2, <2>2 DEF ScreenInv, StartRun, options
  <2>3. CASE UserF
    BY <1>2, <2>3 DEF ScreenInv, UserF, UpdateLog, LineDue, options
  <2>4. CASE UNCHANGED <<screenOutput, verbosity, log>>
    BY <1>2, <2>4 DEF ScreenInv
  <2>5. CASE Leaving
    BY <1>2, <2>5, LeavingDoes DEF ScreenInv
  <2>6. CASE Still
    BY <2>1, <2>2, <2>4, <2>6, StillDoes
  <2>7. CASE Moving \/ SelectIndividual \/ UserG \/ UserDF \/ UserDG
    BY <2>4, <2>7 DEF Moving, Worhp, Perturb, FinishDifferences, SelectIndividual,
                      UserG, UserDF, UserDG, options
  <2> QED
    BY <1>2, <2>3, <2>5, <2>6, <2>7, Steps
<1>3. ScreenInv => ScreenOutputExcludesLog
  BY DEF ScreenInv, ScreenOutputExcludesLog
<1> QED
  BY <1>1, <1>2, <1>3, PTL DEF Spec
==============================================================================
