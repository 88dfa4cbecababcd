# pagmo_plugins_nonfree in TLA+

TLA+ models of the two pagmo algorithms of this repository, `ppnf::worhp` and
`ppnf::snopt7`, the configurations that model-check them, and proofs checked by
TLAPS. File names below are relative to the repository; module names are the
files of this directory.

## 1. The system

The library has two *user-defined algorithms* for pagmo. Each opens a
commercial solver at run time and lets it optimise one individual of a
population:

| part | state it keeps | operations |
|---|---|---|
| `worhp` (`src/worhp.cpp`, `worhp.hpp`) | option maps, screen output flag, verbosity, selection and replacement policies, log, text of the last result, two one-entry caches (fitness, gradient) | `evolve`, setters and getters, `serialize` |
| `snopt7` (`src/snopt7.cpp`, `snopt7.hpp`) | the same without caches; the last result is a code | `evolve` (one template for two versions of the C interface), setters and getters, `get_extra_info`, `serialize` |
| loading of the libraries (both files) | one mutex per plugin, mapped library, WORHP's print hook: state of the process | `dlopen`, import of symbols, release |
| Python module (`pygmo_plugins_nonfree/`) | none | bindings, pickling |
| test libraries (`bogus_libs/`) | none worth naming | stand-ins for the solvers |
| pagmo | populations, problems | external |

How they interact:

* **WORHP, reverse communication.** `evolve()` keeps control. `Worhp()` returns
  with a set of requests (`evalF`, `evalG`, `evalDF`, `evalDG`, `evalHM`,
  `iterOutput`, `fidif`), and a loop polls each of them, calls one of the
  `User*` functions, and withdraws the request. Fitness and gradient go through
  the caches, because one evaluation of a pagmo problem answers several
  requests.
* **SNOPT, callback.** `solveA()` keeps control and calls
  `snopt_fitness_wrapper`, which finds its C++ data behind a pointer hidden in
  the solver's workspace. A C++ exception may not cross the solver's frames: the
  wrapper stores it, asks the solver to stop, and `evolve()` throws it later.
* **Threads.** An archipelago runs `evolve()` of different objects in different
  threads. They share what belongs to the process.

Hard to test: what survives from one `evolve()` to the next (caches, log, last
result) with exceptions in between; the order of the polls; which of two
exceptions wins; the solver's freedom (the real solvers are commercial, and the
test libraries never exercise scaling, finite differences, interruption or an
unusual return code); threads that load and unload the same library.
`PROJECT.json` lists the hazards line by line.

What makes each part correct:

* `worhp`: the solver gets, for every request, the value of *this* problem at
  *this* point, or it is known when not; the gradient belongs to the objective it is given with; no
  request is lost; the individual put into the population has its true fitness;
  memory is freed on all paths; the call ends; the log is the one of the run;
  the sparse matrices it fills are the derivatives, entry for entry.
* `snopt7`: the user's exception comes out; the individual put into the
  population has its true fitness; the log samples every n-th evaluation of one run.
* both: the contract of `algorithm::evolve`, stated in `EvolveContract`; a solve
  runs with the parameters its user and its problem call for; an archive does
  not change what an object does.
* process: loading is exclusive, no library disappears under a caller, nothing
  is left behind, and an object gets the screen output it was constructed for.

## 2. The modules

| module | models |
|---|---|
| `Pagmo` | what the plugins use of pagmo: a problem as a table of fitness vectors, `compare_fc`, the candidates of a selection or replacement policy, populations. External code. |
| `EvolveContract` | the abstract specification of `evolve()`: it returns with at most one individual changed, and only for an improvement on the selected one, or throws and changes nothing; and it ends. Also which pairs of policies keep the champion. |
| `WorhpEvolve` | one `worhp` object through any number of calls: preamble, library, options, selection, the reverse-communication loop with its five callbacks and finite differences, reinsertion. |
| `Snopt7Evolve` | one `snopt7` object likewise: `solveA`, the fitness wrapper with its `catch`, the report, reinsertion, storing of the log, rethrow. |
| `PluginHost` | several threads: mutexes, handles of the libraries, print hook, solver memory. |
| `Sparsity` | how `worhp` turns pagmo's sparse gradient and hessians into WORHP's matrices: the index maps `evolve()` makes once, the structures (written by `evolve()`, or by the library when a matrix is dense), the values at each iterate. |
| `AlgorithmObject` | a `worhp` or `snopt7` object between its calls: option maps, policies, parameters of a solve, what a run leaves behind, serialization at any moment. |
| `MC*` | values of the constants for TLC. |
| `WorhpEvolveProofs`, `WorhpLogProofs` | theorems about `WorhpEvolve` and their proofs; the second has those about evaluations and the log. |
| `PagmoProofs`, `Snopt7EvolveProofs`, `PluginHostProofs`, `AlgorithmObjectProofs`, `SparsityProofs` | theorems about the module they are named after; the first has the lemmas on `compare_fc` and the policies that the evolve modules share. |
| `SumProofs` | lemmas on sums over finite sets and on induction over the numbers, used by `PagmoProofs` and `SparsityProofs`. |

### Correspondence with the code

**Actions.** An action is a stretch of code in one thread between two points
where the environment (the solver, the problem, another thread) can act or
where a branch is taken. In `WorhpEvolve` each poll of the loop is an action of
its own (`NotRequested` if the answer is no), and each of `UserF`, `UserG`,
`UserDF`, `UserDG` and `UserHM` is one action with everything it calls: the
cache, the problem, the log, `DoneUserAction`. `Leave` is the end of scope of
`evolve()`: every path runs it, as the RAII objects of the code do. An
exception is an action (`RejectProblem`, `LoadFails`, `SparsityFails`, `OptionRejected`,
`SelectionFails`, `EvaluationThrows`, `ReinsertThrows`, `ReplacementFails`, and
their counterparts) that leaves the persistent members as they are at that
point. `EvaluationThrows` includes the line of the log: if a stale entry has the
length of another problem's fitness, `feasibility_f` refuses it (`LogRefuses`).

**Data.** A decision vector is a member of `Point`; equality of vectors is
equality of points. A fitness vector is a short sequence of integers, so
`compare_fc` is computed. The hessian of the Lagrangian is symbolic: the
problem, point and multipliers it was built with. A read past the end of a
cached vector (possible when the cache belongs to another problem) is any
member of `Garbage` or of the vector.

**The solvers** are environments, constrained only by their interface:
WORHP requests the constraints together with the objective if `FGtogether` is
set, derivatives only if the `UserD*` flags were set, and may change point,
scaling and multipliers at each call; its finite differences withdraw
`callWorhp`, move the point and put it back. SNOPT asks for functions first, then for functions, gradients or both,
stops calling after a negative status, returns code 71 in that case and any code of
`Codes` otherwise, and leaves a point it has evaluated (`ReturnsEarly` lets it
also return before it has evaluated one). Limits on iterations (`MaxIter`,
`MaxEval`) are the solvers' own.

**Sparse matrices.** A cell is a pair of indices and a pattern a set of cells;
pagmo's vector of a pattern is its enumeration row by row. `std::sort` on an
index map is `Sorted`, the enumeration of the positions in the order of the
cells they hold, and `std::set_union` of sorted vectors is the enumeration of
the union. The unordered map in which `UserHM` adds up the hessians is a function
of the cell that is 0 where no pattern has the cell. The properties compare with
the derivatives themselves, cell by cell, and know nothing of the maps.

**Parameters.** WORHP's `par` and SNOPT's options are functions from names to
values, and applying one option after another is `@@`, the later on the left. A run of
`AlgorithmObject` is one step with one of five endings, which are the places
where `evolve()` of the other modules can end; a refused option is an ending
before the solver runs. Two objects get the same calls, and one of them goes
through `serialize()` at any moment: what an archive loses would show as a
difference between the two.

**History variables** (`asked`, `spent`, `raised`, and the field `by` of a
cache entry) record what happened and are in no guard; `used` and `outcome` of
`AlgorithmObject` record a call for the properties.

**Slips.** Definitions introduced by "Slip:" are not used by the
specifications. Each is a plausible error in the definition that follows it;
`PROJECT.json` names, for every property, one that TLC refutes the property
with.

## 3. The runs

| run | shows | distinct states |
|---|---|---|
| `worhp_same_function` | two problems of one function (with and without derivatives), objective scaling 1 or 2, any verbosity: answers fresh, requests served, one evaluation per point while the solver stays there, log chronological and exclusive with screen output, termination | 887,696 |
| `worhp_two_problems` | different problems (unconstrained, with an equality, two-objective), both with gradients, verbosity 0 and 3, policies best, index 1 and worst with populations of 0 to 2 (so an index may be out of range): a stale answer is an inherited one, population consistent, memory balanced, contract, champion kept | 6,893,775 |
| `snopt7_contract` | exceptions in fitness or gradient, listed and unlisted codes, verbosity 0, 1 and 2, policies best, index 1, and worst: no exception lost, population consistent, log exact and of one run, memory balanced, contract, champion kept | 2,945,028 |
| `worhp_sparsity` | all 512 patterns of the gradient of a problem with 3 variables and 2 constraints, 512 combinations of hessian patterns, and the dense case: DF, DG and HM are the gradient, the jacobian and the hessian of the Lagrangian, in the format of WORHP | 30,750 |
| `algorithm_object` | objects of both kinds, any sequence of setters, runs, prints and pickles: the user's options are in effect, tolerance and derivatives are those of this problem, and a pickled object behaves as the original | 46,372 |
| `host_threads` | three threads with `worhp` (quiet, screen output, logging) and one with `snopt7`: exclusive loading, library mapped while in use, nothing left behind, a quiet thread stays quiet, no deadlock, every `evolve()` ends | 39,132 |
| `worhp_stale_cache` | **violated** `SolverGetsFreshAnswers`: the cache answers for another problem | |
| `worhp_gradient_scale` | **violated** `GradientOfTheObjective`: `UserDF` does not scale | |
| `worhp_log_lines` | **violated** `OneLinePerEvaluation`: a cached answer is logged again | |
| `snopt7_early_return` | **violated** `PopulationConsistent`: the placeholder in `F` is stored as a fitness | |
| `snopt7_lost_exception` | **violated** `UserExceptionRethrown`: `out_of_range` from the replacement takes the place of the user's exception | |
| `host_screen` | **violated** `ScreenOutputActive`: the print hook belongs to the process | |

The violated properties are what a comment or the documentation says;
`PROJECT.json` ("findings") quotes the line and the code that does otherwise.
`SolverGetsFreshAnswers` is thus checked twice: it holds as long as an object
sees problems of one function, and fails across two functions.
`StaleOnlyIfInherited` says how far: the solver must be at the one point the cache
knows, a problem of another function must have left it, and for the fitness the run
must not have called `fitness()` yet. The failing case
is harmless for the result, not for the search: `PopulationConsistent` and
`ImplementsContract` hold in `worhp_two_problems` with stale caches, because the
last evaluation bypasses them.

### Bounds, and why they are enough

* Two points: a cache hit and a miss, an improvement and none, a perturbed point
  and its base. A cache has one entry, so a third point adds no case.
* `MaxIter = 2`: one iteration can serve another one's leftovers, and finite
  differences can happen within it; the solver can leave the point of an inherited entry and
  come back. Verbosity 3 in `worhp_two_problems` is above the evaluations of a run: a line is due only
  when a stale entry answers before the first of them. `MaxEval = 3`: with verbosity 2 the log has
  a line, a gap and a line, and an exception can hit each of them; with verbosity 1 an
  earlier run's log is longer.
* Populations of up to two: empty, one (index 1 out of range), two.
* The number of calls of `evolve()` is not bounded in the evolve modules; state
  that survives is explored for every sequence of calls. `PluginHost` bounds the
  calls per thread (`MaxRuns`), as only what threads share is of interest.
* `UIntModulus = 16` stands for 2^32; the number of evaluations stays below it in these runs.
* `worhp_sparsity`: 3 variables are the fewest with two cells in a column of the
  strict lower triangle and two columns that have any, so that the orders of pagmo and
  WORHP differ; 2 constraints, so that rows and columns of the jacobian do. The
  derivatives at a point are all different, and there are two points, with different scaling
  and multipliers (one negative, one zero). The patterns of the hessians overlap, leave cells
  out of all functions, and leave a diagonal cell out of some or all.
* `algorithm_object`: a problem without constraints, one with two tolerances and one with a
  zero tolerance; a parameter file that sets a tolerance and denies derivatives;
  for each map, options that pagmo also sets, one with the wrong type, a misspelt one
  and the one snopt7 refuses; a code in the table and one that is not.
  The states are finite without a bound on the number of calls.
* In the evolve modules constraint tolerances are zero; `Scales = {1, 2}` distinguishes a scaled
  from an unscaled value.

### Fairness

`FairSpec` of `WorhpEvolve` has weak fairness of `Evolve`: the thread inside
`evolve()` goes on. That the loop ends then depends on WORHP's own limit on
iterations, which is in its interface (`MaxIter`), and on the loop, which is the
point. `Snopt7Evolve` has no fairness: its loop is inside the solver, and what follows
`solveA` is straight-line code. `PluginHost` has weak fairness of each thread and nothing about who gets
a mutex: with `MaxRuns` calls per thread the others eventually stop competing.
For threads that call `evolve()` without end a `std::mutex` promises no
more, and nothing is claimed.

## 4. The proofs

Every invariant that the proofs introduce was checked with TLC on the instances of section 3
before it was proved.

`WorhpEvolveProofs` proves, for every set of problems and points, every bound
and every set of requests allowed by `PagmoAssumption` and `WorhpAssumption`:

* `TypeCorrect`, `PopulationStaysConsistent`, `MemoryStaysBalanced`: `Spec => []Inv`
  for `TypeOK`, `PopulationConsistent` and `SolverMemoryBalanced`. They are not
  inductive alone. What the loop reads from a cache is a number only because the
  entry is some problem's value (`CachesExact`, a part of `IInv`). What `Reinsert` stores has the fitness of `opt.X`, which is a
  point only if the solver has been given one: `IInv` conjoins them with
  `SolverHasPoint`. The induction step has one lemma per action.
* `RequestsAreServed`: `AllRequestsServed` from `IInv` and `PendingInv`, which
  says for every place in the loop which requests may still be pending: those
  whose poll is still ahead.
* `StaleAnswersAreInherited`: `StaleOnlyIfInherited`, with no assumption on the
  problems. `AnswersInv` adds to `PendingInv` that what was asked is pending, answered
  with this problem's value, or answered by an inherited entry; `OwnInv` says that the
  entry of a run that has called `fitness()` is its own. `InheritanceKept` is the
  crucial step: between the answer and the solver's turn only a miss could change
  a cache, and at the point of the entry there is none.
* `AnswersAreFresh`: `SolverGetsFreshAnswers`, *if all problems have the
  same fitness and gradient* (`OneFunction`), when nothing is inherited;
  this is exactly the hypothesis `worhp_stale_cache` shows to be necessary.
* `Implementation`: `Spec => ImplementsContract`: initial states map to initial
  states and every step to a step of `EvolveContract` or a stutter. `StartInv`
  provides the link: the starting point is still an individual the selection
  policy designates.
* `ChampionsAreKept`: `ChampionKept`. `evolve()` compares with one individual and
  replaces another; that a return of the contract loses nothing is a fact about
  the policies (`ProtectiveReplacement`), and that every return is one of the contract is the
  refinement's.

`WorhpLogProofs` builds on `IInv`:

* `AtMostOneEvaluation`: `OneEvaluationPerPoint`. `CostInv` links the history to the
  cache: a point that has been paid for is the one the cache knows, and the solver
  cannot leave it without a new start of the count.
* `LogStaysChronological`: `LogChronological`, *if `MaxIter < UIntModulus`*: the
  numbers of the lines are cast to an unsigned (`worhp.cpp:995`), and start again
  at zero after 2^32 evaluations. `BudgetInv` bounds the evaluations of a run by its
  iterations, which is what makes the hypothesis enough; it rests on `CostInv`, as
  without the cache `UserF` and `UserG` would make two evaluations per iteration.
* `ScreenOutputStaysExclusive`: `ScreenOutputExcludesLog`.

`Snopt7EvolveProofs` proves the same kind of facts of `Snopt7Evolve` under
`PagmoAssumption` and `SnoptAssumption`:

* `TypeCorrect`, `MemoryStaysBalanced`, `ExceptionsAreNeverLost`, `LogIsSampled`,
  `OutputIsExclusive`: one inductive invariant `SafeInv`. `ControlInv` says where an exception of
  the problem is known while the solver is at work (the history, the `user_data` and the
  status, all three or none); `LogInv` ties the counter of the `user_data` to the
  evaluations that returned. The sampled log is as long as the quotient of that
  number by the verbosity, so its proof needs a few facts about division, which are lemmas.
* `LogIsOfOneRun`: `LogOfOneRun`, from `LogIsSampled` at the moment the log is stored. The
  run that stored it may be an earlier one, with a verbosity the object no longer has.
* `PopulationStaysConsistent` and `Implementation`, *if `~ReturnsEarly`*: the solver evaluates
  a point before it returns normally. `snopt7_early_return` shows the hypothesis necessary.
  `AnswerInv` adds to `SafeInv` what the solver may answer and what the copy of the population is
  at each step.
* `ChampionsAreKept`: `ChampionKept`, under the same hypothesis.

`PagmoProofs` has what both `ChampionsAreKept` rest on. `CompareOrder`: `compare_fc` is a
strict order on the fitness vectors of a problem. `ProtectiveReplacement`: with policies that protect
each other, a point that improves on a selected individual is no worse than any that may be replaced. Both
compare norms of the violations, so the norm must be a number: it is a sum over the constraints.

`SumProofs` has what is needed of sums. A sum is a fold, a fold is a recursive function the library
defines with `CHOOSE`, and that the function exists, is a number everywhere and is zero on zeros are
three inductions over the size of a set. The library's theorem of induction takes a predicate and
cannot be cited; so the induction is on the set of the numbers for which the claim holds
(`AllNumbers`), which has them all because a set of counterexamples would have a least element.

`SparsityProofs` proves all the properties of `Sparsity`, for every dimension, number of constraints and
pattern under `SparsityAssumption`, which is that cells are in their triangle or rectangle and that
derivatives are integers:

* *Enumerations.* `Ranks`: in a finite ordered set, "so many elements are before it" is a bijection onto
  `0..(n - 1)`, so `Sorted` finds an element for every position. `ListFacts` and `OneList`: a
  list has every element once and in the order, and is the only one that does; `OrderedIsList` is the converse.
  `MovedCells` puts them together for an index map: it sorts the cells it maps to.
* *The parts of the gradient.* `GradientSplit`: pagmo's gradient is the objective's part followed by the
  constraints', by the uniqueness of the list. This is what makes the offset `df.nnz` of `UserDG` right.
* *Dense matrices.* `ObjectiveRows`, `JacobianDense`, `HessianDense`: a matrix with as many
  non-zeros as cells has all the cells, so the structure the library fills in is the one `evolve()` would have
  written, again because there is only one list. The invariant therefore has one structure for both cases.
* *Values.* `ContributionIs` and `MergedIs`: what `UserHM` adds up is the Lagrangian's second derivative, and
  zero at a cell no function has, which is why leaving it out is right.
* `Inductive`: `IInv` says, phase by phase, which maps, sizes, structures and values there are.
  `TypeCorrect`, `GradientIsRight`, `JacobianIsRight`, `HessianIsRight` and `HessianHasFormat` follow from it:
  each needs that structure and values were written in the same order, which no property says alone.

`PluginHostProofs` proves the safety properties of `PluginHost` for any set of threads, any mix
of plugins and outputs and any number of calls under `HostAssumption`. Handles, mutexes and memory are functions of
where each thread is (`HandlesInv`, `MutexInv`, `MemoryInv`). The print hook is not, as it is
everybody's: `HookInv` says that it is in force only while a thread has WORHP
mapped, and in force while one that set it is in the library. `OthersKeepHook` is the crucial
step: a thread that lets go of its handles cannot be the last.

`AlgorithmObjectProofs` proves all the properties of `AlgorithmObject`:

* `PicklingIsTransparent`: `CopiesAgree`, with no assumption on the constants. `evolve()`
  depends on every member but the log (`SameRun`), so two objects that agree on those (`Agree`)
  run alike and agree afterwards.
* `UserOptionsAlwaysWin`, `ToleranceIsTheProblems`, `DerivativesAreTheProblems`: `UserOptionsWin`,
  `ToleranceOfThisProblem` and `DerivativesOfThisProblem`, under `ObjectAssumption` and
  `ParameterAssumption`: a parameter of a solver has one type, and those pagmo
  sets have theirs. `UsedInv` says that the parameters of the last run are
  those of the options the object still has, because every setter forgets the run; what
  remains is to see which layer of `WorhpParameters` or `SnoptParameters` a name comes from. A name
  is in at most one of the user's maps, or the run does not take place (`OneMap`); without
  that, a boolean option would hide a numeric one.
* `ObjectTypes`: `TypeOK`, with `MembersInv`. That an object with the solver's own output has no
  log rests on `VerbosityAllowed`, and that a run sets no parameter the solver does not
  have on `OptionsAccepted`.

Every safety property, action property and refinement that a run checks is stated by a theorem.
Model-checked only is liveness (`EvolveEnds`), which is outside what the prover can do: it rests
on fairness and `ENABLED`.

## 5. Not modelled, and the plan

Not modelled: printing (only who may print), the bounds handed to the solvers
and the structure of SNOPT's gradient (copies in pagmo's own order), a user option that overrides WORHP's `FGtogether` (one that overrides
`UserDF`, `UserDG` or `UserHM` is: it puts the problem in or out of `WithGradient` and `WithHessians`),
the contents of `param.xml`, the solvers' insides, pagmo's random generator in
an archive, the texts of the Python module, the build. `WorhpInit` is assumed to
succeed in allocating: the code does not look at its status before writing
through `opt.X`. The data race on WORHP's print hook itself is one more reason
not to rely on `ScreenOutputActive`. The stub of SNOPT used by the tests is not
the solver modelled here: it leaves `x` alone while the wrapper writes `F`, so
that with it `evolve()` stores the start with another point's fitness.

Two thirds of the lines of the repository cannot be modelled: 5,800 are the declarations of
WORHP's headers, of which the models use the statuses, the requests and the
matrix format, and 620 are Python docstrings. Of `worhp.cpp` and `snopt7.cpp`,
what no definition stands for is documentation, includes, getters and
printing, and the bounds named above.

What is left to do, in this order:

1. `worhp` with a `UIntModulus` that a run reaches, if the documentation ever says what the
   log is then.
2. The bounds and the structure of SNOPT's gradient, if they cease to be copies.
