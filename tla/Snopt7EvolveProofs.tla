-------------------------- MODULE Snopt7EvolveProofs --------------------------
(* Theorems about Snopt7Evolve, for every value of its constants. *)
EXTENDS Snopt7Evolve, PagmoProofs, SequenceTheorems, FiniteSetTheorems, TLAPS

Active == {"solveA", "solved", "deliver"}

(* Where an exception of the problem is known: in the history, in the      *)
(* user_data and in the solver's status; and what a call starts with.      *)
ControlInv ==
  /\ pc # "idle" => outcome = "none"
  /\ pc \notin Active => info = BlankInfo /\ stat = 0 /\ evaluated = <<>>
  /\ pc \in {"preamble", "configure"} => ~raised
  /\ pc \in Active => /\ raised <=> info.eptr
                      /\ stat = 0 <=> ~info.eptr
                      /\ sol \in Individuals

(* The counter of the user_data counts the evaluations that returned.      *)
LogInv == info.count = Len(evaluated) /\ LogSampled

ScreenInv == screenOutput => verbosity = 0 /\ log = <<>>

SafeInv ==
  /\ TypeOK /\ ControlInv /\ SolverMemoryBalanced /\ UserExceptionNeverLost
  /\ LogInv /\ ScreenInv

-------------------------------------------------------------------------------
LEMMA FitnessTypes ==
  ASSUME NEW p \in Problem, NEW x \in Point
  PROVE  /\ Fitness[p][x] \in Seq(Int) /\ Fitness[p][x][1] \in Int
         /\ Individual(p, x) \in Individuals
         /\ Individual(p, x).x = x /\ Individual(p, x).f = Fitness[p][x]
         /\ Consistent(p, Individual(p, x))
<1>1. Fitness[p][x] \in Seq(Int) /\ Len(Fitness[p][x]) > 0
  BY PagmoAssumption
<1> QED
  BY <1>1 DEF Individual, Individuals, Consistent

LEMMA EnvironmentTypes ==
  /\ Codes \subseteq Int
  /\ MaxEval \in Nat \ {0}
  /\ Verbosities \subseteq Nat
  /\ UserPolicies \subseteq Policies
BY SnoptAssumption

(* A population a caller builds is consistent. *)
LEMMA PopulationsConsistent ==
  ASSUME NEW p \in Problem, NEW s \in Populations(p)
  PROVE  /\ s \in Seq(Individuals)
         /\ \A i \in 1..Len(s) : Consistent(p, s[i])
<1>1. PICK k \in 0..MaxPop : s \in [1..k -> {Individual(p, x) : x \in Point}]
  BY DEF Populations
<1>2. k \in Nat
  BY <1>1, PagmoAssumption
<1>3. \A i \in 1..k : s[i] \in Individuals /\ Consistent(p, s[i])
  BY <1>1, FitnessTypes
<1>4. s \in Seq(Individuals) /\ Len(s) = k
  BY <1>1, <1>2, <1>3
<1> QED
  BY <1>3, <1>4

LEMMA AppendFacts ==
  ASSUME NEW S, NEW s \in Seq(S), NEW e \in S
  PROVE  /\ Append(s, e) \in Seq(S)
         /\ Len(Append(s, e)) = Len(s) + 1
         /\ Append(s, e)[Len(s) + 1] = e
         /\ \A k \in 1..Len(s) : Append(s, e)[k] = s[k]
OBVIOUS

LEMMA ExceptIsSeq ==
  ASSUME NEW S, NEW s \in Seq(S), NEW i, NEW e \in S
  PROVE  /\ [s EXCEPT ![i] = e] \in Seq(S)
         /\ Len([s EXCEPT ![i] = e]) = Len(s)
<1>1. Len(s) \in Nat /\ s \in [1..Len(s) -> S]
  OBVIOUS
<1>2. [s EXCEPT ![i] = e] \in [1..Len(s) -> S]
  BY <1>1
<1> QED
  BY <1>1, <1>2

LEMMA Monotone ==
  ASSUME NEW v \in Nat \ {0}, NEW a \in Int, NEW b \in Int, a < b
  PROVE  v * a + v <= v * b
<1>1. v > 0 /\ v \in Int /\ b - a >= 1
  OBVIOUS
<1>2. v * (b - a) >= v
  BY <1>1, Z3
<1>3. v * (b - a) = v * b - v * a
  BY <1>1, Z3
<1> QED
  BY <1>1, <1>2, <1>3, Z3

LEMMA DivisionUnique ==
  ASSUME NEW v \in Nat \ {0}, NEW a \in Int, NEW q \in Int,
         v * q <= a, a < v * q + v
  PROVE  a \div v = q
<1> DEFINE d == a \div v
<1>1. v > 0 /\ v \in Int
  OBVIOUS
<1>2. d \in Int /\ v * d <= a /\ a < v * d + v
  BY <1>1, Z3
<1> HIDE DEF d
<1>3. v * d \in Int /\ v * q \in Int
  BY <1>1, <1>2, Z3
<1>4. ~(d < q)
  BY <1>2, <1>3, Monotone
<1>5. ~(q < d)
  BY <1>2, <1>3, Monotone
<1>6. d = q
  BY <1>2, <1>4, <1>5
<1> QED
  BY <1>6 DEF d

(* The k-th line is that of evaluation 1 + (k - 1) * v: after n            *)
(* evaluations there are n divided by v, rounded up, of them.              *)
LEMMA Division ==
  ASSUME NEW n \in Nat, NEW v \in Nat \ {0}
  PROVE  /\ n % v = 0 =>
              /\ (n + 1 + v - 1) \div v = (n + v - 1) \div v + 1
              /\ ((n + v - 1) \div v) * v = n
         /\ n % v # 0 => (n + 1 + v - 1) \div v = (n + v - 1) \div v
         /\ (n + v - 1) \div v \in Nat
<1> DEFINE q == n \div v
           r == n % v
<1>1. v > 0 /\ v \in Int
  OBVIOUS
<1>2. /\ q \in Int /\ r \in 0..(v - 1) /\ n = v * q + r
  BY <1>1, Z3
<1> HIDE DEF q, r
<1>3. v * q \in Int /\ v * (q + 1) = v * q + v
  BY <1>1, <1>2, Z3
<1>4. q >= 0
  <2> SUFFICES ASSUME q < 0 PROVE FALSE
    BY <1>2
  <2>1. v * q + v <= v * 0
    BY <1>2, Monotone
  <2>2. v * 0 = 0
    BY <1>1
  <2> QED
    BY <1>1, <1>2, <1>3, <2>1, <2>2
<1>5. (n + 1 + v - 1) \div v = q + 1
  <2>1. v * (q + 1) <= n + 1 + v - 1 /\ n + 1 + v - 1 < v * (q + 1) + v
    BY <1>1, <1>2, <1>3
  <2> QED
    BY <1>1, <1>2, <2>1, DivisionUnique
<1>6. CASE r = 0
  <2>1. v * q <= n + v - 1 /\ n + v - 1 < v * q + v
    BY <1>1, <1>2, <1>3, <1>6
  <2>2. (n + v - 1) \div v = q
    BY <1>1, <1>2, <2>1, DivisionUnique
  <2>3. q * v = n
    BY <1>1, <1>2, <1>6, Z3
  <2> QED
    BY <1>2, <1>4, <1>5, <1>6, <2>2, <2>3 DEF r
<1>7. CASE r # 0
  <2>1. v * (q + 1) <= n + v - 1 /\ n + v - 1 < v * (q + 1) + v
    BY <1>1, <1>2, <1>3, <1>7
  <2>2. (n + v - 1) \div v = q + 1
    BY <1>1, <1>2, <2>1, DivisionUnique
  <2> QED
    BY <1>2, <1>4, <1>5, <1>7, <2>2 DEF r
<1> QED
  BY <1>6, <1>7

LEMMA NoLines ==
  ASSUME NEW v \in Nat
  PROVE  v > 0 => (0 + v - 1) \div v = 0
<1> SUFFICES ASSUME v > 0 PROVE (0 + v - 1) \div v = 0
  OBVIOUS
<1>1. v * 0 = 0 /\ v * 0 <= 0 + v - 1 /\ 0 + v - 1 < v * 0 + v
  OBVIOUS
<1> QED
  BY <1>1, DivisionUnique

-------------------------------------------------------------------------------
(* Types, control and the log *)

LEMMA InitSafe == Init => SafeInv
<1> SUFFICES ASSUME Init PROVE SafeInv
  OBVIOUS
<1> USE DEF Init
<1>1. BlankInfo \in [log : Seq(LogLines), count : Nat, eptr : BOOLEAN]
  BY DEF BlankInfo
<1>2. select \in Policies /\ replace \in Policies /\ calls \in 0..MaxEval
  BY EnvironmentTypes DEF Policies
<1>3. TypeOK
  <2>1. /\ screenOutput \in BOOLEAN /\ verbosity \in Nat /\ log \in Seq(LogLines)
        /\ lastRes \in Int /\ pc \in {"idle", "preamble"} \cup SolverCalls
        /\ prob \in Problem
    OBVIOUS
  <2>2. /\ pop \in Seq(Individuals) /\ work \in Seq(Individuals)
        /\ evaluated \in Seq(Individuals)
        /\ start \in Individuals \cup {NoInd} /\ sol \in Individuals \cup {NoInd}
    OBVIOUS
  <2>3. /\ stat \in {0, -100} /\ allocated \in BOOLEAN
        /\ outcome \in {"none", "returned", "refused", "rethrown"}
        /\ raised \in BOOLEAN
    OBVIOUS
  <2> QED
    BY <1>1, <1>2, <2>1, <2>2, <2>3 DEF TypeOK
<1>4. LogInv
  BY DEF LogInv, LogSampled, BlankInfo
<1> QED
  BY <1>3, <1>4 DEF SafeInv, ControlInv, SolverMemoryBalanced, SolverCalls, Active,
                    UserExceptionNeverLost, ScreenInv

(* Going back to the caller, whichever way. *)
LEMMA LeaveSafe ==
  ASSUME SafeInv, NEW how \in {"returned", "refused", "rethrown"}, Leave(how),
         UNCHANGED <<options, prob, raised>>,
         log' \in Seq(LogLines), lastRes' \in Int, pop' \in Seq(Individuals),
         raised => how # "returned",
         screenOutput => log' = <<>>
  PROVE  SafeInv'
<1> USE DEF SafeInv, Leave, options
<1>1. BlankInfo \in [log : Seq(LogLines), count : Nat, eptr : BOOLEAN]
  BY DEF BlankInfo
<1>2. TypeOK'
  <2>1. calls' \in 0..MaxEval
    BY EnvironmentTypes
  <2>2. /\ screenOutput' \in BOOLEAN /\ verbosity' \in Nat
        /\ select' \in Policies /\ replace' \in Policies
        /\ pc' \in {"idle", "preamble"} \cup SolverCalls /\ prob' \in Problem
        /\ raised' \in BOOLEAN
    BY DEF TypeOK
  <2>3. /\ work' \in Seq(Individuals) /\ evaluated' \in Seq(Individuals)
        /\ start' \in Individuals \cup {NoInd} /\ sol' \in Individuals \cup {NoInd}
    OBVIOUS
  <2>4. /\ stat' \in {0, -100} /\ allocated' \in BOOLEAN
        /\ outcome' \in {"none", "returned", "refused", "rethrown"}
        /\ info' \in [log : Seq(LogLines), count : Nat, eptr : BOOLEAN]
    BY <1>1
  <2> QED
    BY <2>1, <2>2, <2>3, <2>4 DEF TypeOK
<1>3. LogInv'
  <2>1. verbosity \in Nat /\ verbosity' = verbosity
    BY DEF TypeOK
  <2>2. info'.count = 0 /\ info'.log = <<>> /\ evaluated' = <<>>
    BY DEF BlankInfo
  <2>3. verbosity > 0 => (0 + verbosity - 1) \div verbosity = 0
    BY <2>1, NoLines
  <2> QED
    BY <2>1, <2>2, <2>3 DEF LogInv, LogSampled
<1>4. SolverMemoryBalanced' /\ UserExceptionNeverLost' /\ ScreenInv'
  BY DEF SolverMemoryBalanced, SolverCalls, UserExceptionNeverLost, ScreenInv
<1>5. ControlInv'
  BY DEF ControlInv, Active
<1> QED
  BY <1>2, <1>3, <1>4, <1>5

(* What a refused call, and one that returns an empty population, do.      *)
LEMMA EndsSafe ==
  ASSUME SafeInv,
         \/ RejectProblem \/ ReturnEmpty \/ LoadFails \/ OptionRejected
         \/ SelectionFails \/ ReportFails \/ ReplacementFails
         \/ Rethrow \/ Return
  PROVE  SafeInv'
<1>1. /\ log \in Seq(LogLines) /\ lastRes \in Int /\ pop \in Seq(Individuals)
      /\ work \in Seq(Individuals) /\ info.log \in Seq(LogLines)
      /\ screenOutput => log = <<>> /\ info.log = <<>>
  BY DEF SafeInv, TypeOK, ScreenInv, LogInv, LogSampled
<1>2. CASE \/ RejectProblem \/ LoadFails \/ OptionRejected
           \/ SelectionFails \/ ReportFails \/ ReplacementFails
  <2>1. Refuse
    BY <1>2 DEF RejectProblem, LoadFails, OptionRejected, SelectionFails, ReportFails,
                ReplacementFails
  <2> QED
    BY <1>1, <2>1, LeaveSafe DEF Refuse
<1>3. CASE ReturnEmpty
  <2>1. ~raised
    BY <1>3 DEF ReturnEmpty, SafeInv, ControlInv
  <2> QED
    BY <1>1, <1>3, <2>1, LeaveSafe DEF ReturnEmpty
<1>4. CASE Rethrow
  BY <1>1, <1>4, LeaveSafe DEF Rethrow, Published
<1>5. CASE Return
  <2>1. ~raised
    BY <1>5 DEF Return, SafeInv, ControlInv, Active
  <2> QED
    BY <1>1, <1>5, <2>1, LeaveSafe DEF Return, Published
<1> QED
  BY <1>2, <1>3, <1>4, <1>5

LEMMA CallerSafe ==
  ASSUME SafeInv, Caller
  PROVE  SafeInv'
<1> USE DEF SafeInv
<1>1. CASE SetVerbosity
  <2>1. /\ verbosity' \in Nat /\ (screenOutput => verbosity' = 0)
        /\ pc = "idle"
        /\ UNCHANGED <<screenOutput, select, replace, log, lastRes, pc, prob, pop, work,
                       start, sol, info, solver, outcome, raised>>
    BY <1>1, EnvironmentTypes DEF SetVerbosity, VerbosityAllowed
  <2>2. TypeOK'
    BY <2>1 DEF TypeOK, solver
  <2>3. LogInv'
    <3>1. info' = BlankInfo /\ evaluated' = <<>>
      BY <2>1 DEF ControlInv, Active, solver
    <3>2. verbosity' > 0 => (0 + verbosity' - 1) \div verbosity' = 0
      BY <2>1, NoLines
    <3>3. Len(info'.log) = 0 /\ DOMAIN info'.log = {} /\ info'.count = 0
      BY <3>1 DEF BlankInfo
    <3>4. info'.count = Len(evaluated')
      BY <3>1, <3>3
    <3>5. LogSampled'
      <4>1. info'.log = <<>> /\ verbosity' \in Nat
        BY <2>1, <3>1 DEF BlankInfo
      <4>2. verbosity' > 0 => (info'.count + verbosity' - 1) \div verbosity' = 0
        BY <3>2, <3>3
      <4> QED
        BY <3>3, <4>1, <4>2 DEF LogSampled
    <3> QED
      BY <3>4, <3>5 DEF LogInv
  <2>4. ControlInv' /\ SolverMemoryBalanced' /\ UserExceptionNeverLost' /\ ScreenInv'
    BY <2>1 DEF ControlInv, Active, SolverMemoryBalanced, SolverCalls,
                UserExceptionNeverLost, ScreenInv, solver
  <2> QED
    BY <2>2, <2>3, <2>4
<1>2. CASE SetPolicies
  <2>1. /\ select' \in Policies /\ replace' \in Policies
        /\ UNCHANGED <<screenOutput, verbosity, log, lastRes, pc, prob, pop, work,
                       start, sol, info, solver, outcome, raised>>
    BY <1>2, EnvironmentTypes DEF SetPolicies
  <2> QED
    BY <2>1 DEF TypeOK, ControlInv, Active, SolverMemoryBalanced, SolverCalls, LogInv,
                LogSampled, UserExceptionNeverLost, ScreenInv, solver
<1>3. CASE Call
  <2>1. prob' \in Problem /\ pop' \in Seq(Individuals) /\ work' = pop'
    BY <1>3, PopulationsConsistent DEF Call
  <2>2. /\ pc = "idle" /\ pc' = "preamble" /\ outcome' = "none" /\ raised' = FALSE
        /\ UNCHANGED <<options, log, lastRes, start, sol, info, solver>>
    BY <1>3 DEF Call
  <2>3. TypeOK'
    BY <2>1, <2>2 DEF TypeOK, options, solver
  <2>4. /\ ControlInv' /\ SolverMemoryBalanced' /\ UserExceptionNeverLost'
        /\ LogInv' /\ ScreenInv'
    BY <2>2 DEF ControlInv, Active, SolverMemoryBalanced, SolverCalls, LogInv,
                LogSampled, UserExceptionNeverLost, ScreenInv, options, solver
  <2> QED
    BY <2>3, <2>4
<1> QED
  BY <1>1, <1>2, <1>3 DEF Caller

(* The steps of evolve() in which the solver is not called back.           *)
LEMMA ProgressSafe ==
  ASSUME SafeInv, StartRun \/ SelectIndividual \/ SolveA \/ Reinsert
  PROVE  SafeInv'
<1> USE DEF SafeInv
<1>1. /\ pc # "idle" /\ pc' \in SolverCalls /\ allocated'
      /\ UNCHANGED <<options, log, prob, pop, info, stat, evaluated, calls, outcome,
                     raised>>
  <2>1. CASE StartRun
    BY <2>1 DEF StartRun, SolverCalls
  <2>2. CASE SelectIndividual \/ SolveA \/ Reinsert
    BY <2>2 DEF SelectIndividual, SolveA, Reinsert, SolverCalls, SolverMemoryBalanced,
                solver
  <2> QED
    BY <2>1, <2>2
<1>2. LogInv' /\ ScreenInv' /\ UserExceptionNeverLost' /\ SolverMemoryBalanced'
  BY <1>1 DEF LogInv, LogSampled, ScreenInv, UserExceptionNeverLost,
              SolverMemoryBalanced, SolverCalls, options
<1>3. \A i \in 1..Len(work) : work[i] \in Individuals
  BY DEF TypeOK
<1>4. /\ lastRes' \in Int /\ work' \in Seq(Individuals)
      /\ start' \in Individuals \cup {NoInd} /\ sol' \in Individuals \cup {NoInd}
      /\ pc' \in Active => sol' \in Individuals
  <2>1. CASE StartRun
    BY <2>1 DEF StartRun, TypeOK, Active
  <2>2. CASE SelectIndividual
    <3>1. PICK i \in Candidates(select, work, Nec[prob]) :
            /\ start' = work[i]
            /\ sol' = [x |-> work[i].x, f |-> InitialF(work[i].f)]
      BY <2>2 DEF SelectIndividual
    <3>2. i \in 1..Len(work)
      BY DEF Candidates
    <3>3. work[i] \in Individuals
      BY <1>3, <3>2
    <3>4. /\ work[i].x \in Point /\ work[i].f \in Seq(Int)
      BY <3>3 DEF Individuals
    <3>5. InitialF(work[i].f) \in Seq(Int)
      <4>1. /\ DOMAIN work[i].f = 1..Len(work[i].f) /\ Len(work[i].f) \in Nat
            /\ \A j \in DOMAIN work[i].f : work[i].f[j] \in Int
        BY <3>4
      <4>2. \A j \in DOMAIN work[i].f : work[i].f[1] \in Int
        BY <4>1
      <4>3. InitialF(work[i].f) \in [1..Len(work[i].f) -> Int]
        BY <4>1, <4>2 DEF InitialF
      <4> QED
        BY <4>1, <4>3
    <3>6. sol' \in Individuals
      BY <3>1, <3>4, <3>5 DEF Individuals
    <3> QED
      BY <2>2, <3>1, <3>3, <3>6 DEF SelectIndividual, TypeOK
  <2>3. CASE SolveA
    <3>1. sol' \in Range(evaluated) \cup {sol}
      BY <2>3 DEF SolveA, Answers
    <3>2. Range(evaluated) \subseteq Individuals
      BY DEF Range, TypeOK
    <3>3. sol \in Individuals
      BY <2>3 DEF SolveA, ControlInv, Active
    <3>4. lastRes' \in Int
      BY <2>3, EnvironmentTypes DEF SolveA, Interrupted
    <3> QED
      BY <2>3, <3>1, <3>2, <3>3, <3>4 DEF SolveA, TypeOK
  <2>4. CASE Reinsert
    <3>1. sol \in Individuals
      BY <2>4 DEF Reinsert, ControlInv, Active
    <3>2. work' \in Seq(Individuals)
      <4>1. \/ work' = work
            \/ \E i \in Candidates(replace, work, Nec[prob]) :
                 work' = [work EXCEPT ![i] = sol]
        BY <2>4 DEF Reinsert, Solution
      <4>2. work \in Seq(Individuals)
        BY DEF TypeOK
      <4> QED
        BY <3>1, <4>1, <4>2, ExceptIsSeq
    <3> QED
      BY <2>4, <3>1, <3>2 DEF Reinsert, TypeOK
  <2> QED
    BY <2>1, <2>2, <2>3, <2>4
<1>5. TypeOK'
  BY <1>1, <1>4 DEF TypeOK, options
<1>6. ControlInv'
  <2>1. CASE StartRun
    BY <2>1 DEF StartRun, ControlInv, Active
  <2>2. CASE SelectIndividual
    BY <1>4, <2>2 DEF SelectIndividual, ControlInv, Active, BlankInfo, solver
  <2>3. CASE SolveA \/ Reinsert
    BY <1>4, <2>3 DEF SolveA, Reinsert, ControlInv, Active, solver
  <2> QED
    BY <2>1, <2>2, <2>3
<1> QED
  BY <1>2, <1>5, <1>6

(* The line of evaluation 1 + (k - 1) * v.                                 *)
Line(e, v, k) == [fevals |-> 1 + (k - 1) * v, objval |-> e[1 + (k - 1) * v].f[1]]

(* The log samples the first n of the evaluations e, every v-th.           *)
Covers(lines, v, n, e) ==
  /\ Len(lines) = (n + v - 1) \div v
  /\ \A k \in DOMAIN lines : lines[k] = Line(e, v, k)

(* LogSampled of any user_data and evaluations.                            *)
Sampled(i, e) ==
  /\ verbosity = 0 => i.log = <<>>
  /\ verbosity > 0 => Covers(i.log, verbosity, i.count, e)

LEMMA SampledIs == LogSampled <=> Sampled(info, evaluated)
BY DEF LogSampled, Sampled, Covers, Line

(* A line of the log is about an evaluation that took place.               *)
LEMMA LineInRange ==
  ASSUME NEW n \in Nat, NEW v \in Nat \ {0}, NEW k \in Nat \ {0},
         k <= (n + v - 1) \div v
  PROVE  1 + (k - 1) * v \in 1..n
<1> DEFINE d == (n + v - 1) \div v
<1>1. v > 0 /\ v \in Int /\ k - 1 >= 0
  OBVIOUS
<1>2. d \in Int /\ v * d <= n + v - 1
  BY <1>1, Z3
<1> HIDE DEF d
<1>3. v * (k - 1) + v <= v * d
  <2>1. k - 1 \in Int /\ k - 1 < d
    BY <1>2 DEF d
  <2> QED
    BY <1>2, <2>1, Monotone
<1>4. v * (k - 1) >= 0 /\ v * (k - 1) = (k - 1) * v /\ (k - 1) * v \in Int
  BY <1>1, Z3
<1>5. v * d \in Int
  BY <1>1, <1>2, Z3
<1> QED
  BY <1>1, <1>2, <1>3, <1>4, <1>5

(* A log that samples n evaluations, and one more evaluation.              *)
LEMMA OneMore ==
  ASSUME NEW v \in Nat \ {0}, NEW n \in Nat,
         NEW lines \in Seq(LogLines), NEW e \in Seq(Individuals), n = Len(e),
         NEW ind \in Individuals,
         Covers(lines, v, n, e),
         NEW line \in LogLines, line = [fevals |-> n + 1, objval |-> ind.f[1]]
  PROVE  /\ n % v = 0 => Covers(Append(lines, line), v, n + 1, Append(e, ind))
         /\ n % v # 0 => Covers(lines, v, n + 1, Append(e, ind))
<1> DEFINE rows == Len(lines)
           d == Append(e, ind)
<1>0. d[n + 1] = ind /\ \A k \in 1..n : d[k] = e[k]
  BY AppendFacts
<1> HIDE DEF d
<1>1. /\ rows \in Nat /\ DOMAIN lines = 1..rows
      /\ n % v = 0 => (n + 1 + v - 1) \div v = rows + 1 /\ rows * v = n
      /\ n % v # 0 => (n + 1 + v - 1) \div v = rows
      /\ rows = (n + v - 1) \div v
  <2>1. rows \in Nat /\ DOMAIN lines = 1..rows
    OBVIOUS
  <2>2. rows = (n + v - 1) \div v
    BY DEF Covers
  <2> QED
    BY <2>1, <2>2, Division
<1>2. ASSUME NEW k \in 1..rows
      PROVE  lines[k] = Line(d, v, k)
  <2>1. k \in Nat \ {0} /\ k <= (n + v - 1) \div v
    BY <1>1
  <2>2. 1 + (k - 1) * v \in 1..n
    BY <2>1, LineInRange
  <2>3. d[1 + (k - 1) * v] = e[1 + (k - 1) * v]
    BY <1>0, <2>2
  <2>4. lines[k] = Line(e, v, k)
    BY <1>1 DEF Covers
  <2> QED
    BY <2>3, <2>4 DEF Line
<1>3. CASE n % v # 0
  BY <1>1, <1>2, <1>3 DEF Covers, d
<1>4. CASE n % v = 0
  <2> DEFINE new == Append(lines, line)
  <2>1. /\ new \in Seq(LogLines) /\ Len(new) = rows + 1 /\ new[rows + 1] = line
        /\ \A k \in 1..rows : new[k] = lines[k]
    BY AppendFacts
  <2>2. DOMAIN new = 1..(rows + 1)
    BY <2>1
  <2> HIDE DEF new
  <2>3. 1 + ((rows + 1) - 1) * v = n + 1
    <3>1. (rows + 1) - 1 = rows /\ rows * v = n
      BY <1>1, <1>4
    <3> QED
      BY <3>1
  <2>4. Line(d, v, rows + 1) = line
    BY <1>0, <2>3 DEF Line
  <2>5. Len(new) = (n + 1 + v - 1) \div v
    BY <1>1, <1>4, <2>1
  <2>6. ASSUME NEW k \in 1..(rows + 1) PROVE new[k] = Line(d, v, k)
    <3>1. CASE k = rows + 1
      BY <2>1, <2>4, <3>1
    <3>2. CASE k # rows + 1
      <4>1. k \in 1..rows
        BY <1>1, <3>2
      <4> QED
        BY <1>2, <2>1, <4>1
    <3> QED
      BY <3>1, <3>2
  <2>7. Covers(new, v, n + 1, d)
    BY <2>2, <2>5, <2>6 DEF Covers
  <2> QED
    BY <1>4, <2>7 DEF new, d
<1> QED
  BY <1>3, <1>4 DEF d

(* One more evaluation keeps the log sampled.                              *)
LEMMA CountedSafe ==
  ASSUME SafeInv, NEW x \in Point,
         NEW i, i = Counted(Fitness[prob][x]),
         NEW e, e = Append(evaluated, Individual(prob, x))
  PROVE  /\ i \in [log : Seq(LogLines), count : Nat, eptr : BOOLEAN]
         /\ i.eptr = info.eptr
         /\ e \in Seq(Individuals)
         /\ i.count = Len(e)
         /\ Sampled(i, e)
<1> DEFINE line == [fevals |-> info.count + 1, objval |-> Fitness[prob][x][1]]
           lines == IF LineDue THEN Append(info.log, line) ELSE info.log
<1>1. /\ prob \in Problem /\ verbosity \in Nat /\ info.count \in Nat
      /\ info.log \in Seq(LogLines)
      /\ info \in [log : Seq(LogLines), count : Nat, eptr : BOOLEAN]
      /\ evaluated \in Seq(Individuals)
  BY DEF SafeInv, TypeOK
<1>2. /\ Fitness[prob][x][1] \in Int /\ Individual(prob, x) \in Individuals
      /\ Individual(prob, x).f = Fitness[prob][x]
  BY <1>1, FitnessTypes
<1>3. info.count = Len(evaluated) /\ Sampled(info, evaluated)
  BY SampledIs DEF SafeInv, LogInv
<1>4. line \in LogLines
  BY <1>1, <1>2 DEF LogLines
<1>5. /\ i.count = info.count + 1 /\ i.eptr = info.eptr
      /\ i.log = lines
      /\ i = [log |-> lines, count |-> info.count + 1, eptr |-> info.eptr]
  BY <1>1 DEF Counted
<1>6. /\ e \in Seq(Individuals) /\ Len(e) = info.count + 1
      /\ e[info.count + 1] = Individual(prob, x)
      /\ \A k \in 1..info.count : e[k] = evaluated[k]
  BY <1>1, <1>2, <1>3, AppendFacts
<1>7. line = [fevals |-> info.count + 1, objval |-> Individual(prob, x).f[1]]
  BY <1>2
<1> HIDE DEF line, lines
<1>8. i.log \in Seq(LogLines) /\ Sampled(i, e)
  <2>1. CASE verbosity = 0
    <3>1. ~LineDue
      BY <2>1 DEF LineDue
    <3> QED
      BY <1>1, <1>3, <1>5, <2>1, <3>1 DEF Sampled, lines
  <2>2. CASE verbosity > 0
    <3>1. verbosity \in Nat \ {0}
      BY <1>1, <2>2
    <3>2. Covers(info.log, verbosity, info.count, evaluated)
      BY <1>3, <2>2 DEF Sampled
    <3>3. /\ info.count % verbosity = 0 =>
               Covers(Append(info.log, line), verbosity, info.count + 1, e)
          /\ info.count % verbosity # 0 =>
               Covers(info.log, verbosity, info.count + 1, e)
      BY <1>1, <1>2, <1>3, <1>4, <1>7, <3>1, <3>2, OneMore
    <3>4. i.log = IF info.count % verbosity = 0 THEN Append(info.log, line) ELSE info.log
      BY <1>5, <2>2 DEF LineDue, lines
    <3>5. Covers(i.log, verbosity, i.count, e)
      BY <1>5, <3>3, <3>4
    <3>6. i.log \in Seq(LogLines)
      BY <1>1, <1>4, <3>4, AppendFacts
    <3> QED
      BY <3>1, <3>5, <3>6 DEF Sampled
  <2> QED
    BY <1>1, <2>1, <2>2
<1>9. i \in [log : Seq(LogLines), count : Nat, eptr : BOOLEAN]
  BY <1>1, <1>5, <1>8
<1> QED
  BY <1>5, <1>6, <1>8, <1>9

(* A call of the wrapper, whether it returns or catches an exception.      *)
LEMMA CallbackSafe ==
  ASSUME SafeInv, Calling, OutsideUnchanged,
         info' \in [log : Seq(LogLines), count : Nat, eptr : BOOLEAN],
         evaluated' \in Seq(Individuals),
         info'.count = Len(evaluated'),
         Sampled(info', evaluated'),
         \/ UNCHANGED <<stat, raised>> /\ info'.eptr = info.eptr
         \/ stat' = -100 /\ raised' = TRUE /\ info'.eptr = TRUE
  PROVE  SafeInv'
<1> USE DEF SafeInv, OutsideUnchanged, options
<1>1. pc = "solveA" /\ calls' = calls + 1 /\ calls < MaxEval
  BY DEF Calling
<1>2. TypeOK'
  <2>1. calls' \in 0..MaxEval
    BY <1>1, EnvironmentTypes DEF TypeOK
  <2>2. stat' \in {0, -100} /\ raised' \in BOOLEAN
    BY DEF TypeOK
  <2> QED
    BY <2>1, <2>2 DEF TypeOK
<1>3. LogInv'
  BY DEF LogInv, LogSampled, Sampled, Covers, Line
<1>4. ControlInv'
  BY <1>1 DEF ControlInv, Active
<1>5. SolverMemoryBalanced' /\ UserExceptionNeverLost' /\ ScreenInv'
  BY <1>1 DEF SolverMemoryBalanced, UserExceptionNeverLost, ScreenInv, ControlInv
<1> QED
  BY <1>2, <1>3, <1>4, <1>5

LEMMA WrapperSafe ==
  ASSUME SafeInv, Wrapper \/ FitnessThrows \/ GradientThrows
  PROVE  SafeInv'
<1>1. /\ info \in [log : Seq(LogLines), count : Nat, eptr : BOOLEAN]
      /\ evaluated \in Seq(Individuals) /\ info.count = Len(evaluated)
      /\ Sampled(info, evaluated)
  BY SampledIs DEF SafeInv, TypeOK, LogInv
<1>2. ASSUME NEW i \in [log : Seq(LogLines), count : Nat, eptr : BOOLEAN], NEW e,
             i.count = Len(e), Sampled(i, e)
      PROVE  /\ [i EXCEPT !.eptr = TRUE] \in [log : Seq(LogLines), count : Nat, eptr : BOOLEAN]
             /\ [i EXCEPT !.eptr = TRUE].eptr = TRUE
             /\ [i EXCEPT !.eptr = TRUE].count = Len(e)
             /\ Sampled([i EXCEPT !.eptr = TRUE], e)
  <2>1. /\ [i EXCEPT !.eptr = TRUE].log = i.log
        /\ [i EXCEPT !.eptr = TRUE].count = i.count
    OBVIOUS
  <2> QED
    BY <1>2, <2>1 DEF Sampled
<1>3. CASE Wrapper
  <2>1. Calling /\ OutsideUnchanged /\ UNCHANGED <<stat, raised>>
    BY <1>3 DEF Wrapper
  <2>2. CASE UNCHANGED <<info, evaluated>>
    <3>1. Sampled(info', evaluated') <=> Sampled(info, evaluated)
      BY <2>2
    <3> QED
      BY <1>1, <2>1, <2>2, CallbackSafe
  <2>3. CASE \E x \in Point : /\ info' = Counted(Fitness[prob][x])
                              /\ evaluated' = Append(evaluated, Individual(prob, x))
    <3>1. PICK x \in Point : /\ info' = Counted(Fitness[prob][x])
                             /\ evaluated' = Append(evaluated, Individual(prob, x))
      BY <2>3
    <3>2. /\ info' \in [log : Seq(LogLines), count : Nat, eptr : BOOLEAN]
          /\ info'.eptr = info.eptr /\ evaluated' \in Seq(Individuals)
          /\ info'.count = Len(evaluated') /\ Sampled(info', evaluated')
      BY <3>1, CountedSafe
    <3> QED
      BY <2>1, <3>2, CallbackSafe
  <2> QED
    BY <1>3, <2>2, <2>3 DEF Wrapper
<1>4. CASE FitnessThrows \/ GradientThrows
  <2>1. Calling /\ OutsideUnchanged /\ stat' = -100 /\ raised' = TRUE
    BY <1>4 DEF FitnessThrows, GradientThrows, Caught
  <2>2. CASE Caught(info) /\ UNCHANGED evaluated
    <3>1. info' = [info EXCEPT !.eptr = TRUE] /\ evaluated' = evaluated
      BY <2>2 DEF Caught
    <3>2. /\ info' \in [log : Seq(LogLines), count : Nat, eptr : BOOLEAN]
          /\ info'.eptr = TRUE /\ evaluated' \in Seq(Individuals)
          /\ info'.count = Len(evaluated') /\ Sampled(info', evaluated')
      BY <1>1, <1>2, <3>1
    <3> QED
      BY <2>1, <3>2, CallbackSafe
  <2>3. CASE \E x \in Point : /\ Caught(Counted(Fitness[prob][x]))
                              /\ evaluated' = Append(evaluated, Individual(prob, x))
    <3>1. PICK x \in Point : /\ Caught(Counted(Fitness[prob][x]))
                             /\ evaluated' = Append(evaluated, Individual(prob, x))
      BY <2>3
    <3> DEFINE i == Counted(Fitness[prob][x])
    <3>2. /\ i \in [log : Seq(LogLines), count : Nat, eptr : BOOLEAN]
          /\ evaluated' \in Seq(Individuals)
          /\ i.count = Len(evaluated') /\ Sampled(i, evaluated')
      BY <3>1, CountedSafe
    <3>3. info' = [i EXCEPT !.eptr = TRUE]
      BY <3>1 DEF Caught
    <3> HIDE DEF i
    <3>4. /\ info' \in [log : Seq(LogLines), count : Nat, eptr : BOOLEAN]
          /\ info'.eptr = TRUE
          /\ info'.count = Len(evaluated') /\ Sampled(info', evaluated')
      BY <1>2, <3>2, <3>3
    <3> QED
      BY <2>1, <3>2, <3>4, CallbackSafe
  <2> QED
    BY <1>4, <2>2, <2>3 DEF FitnessThrows, GradientThrows
<1> QED
  BY <1>3, <1>4

LEMMA StutterSafe ==
  ASSUME SafeInv, UNCHANGED vars
  PROVE  SafeInv'
<1> USE DEF SafeInv, vars, options, solver
<1>1. TypeOK'
  BY DEF TypeOK
<1>2. ControlInv' /\ SolverMemoryBalanced' /\ UserExceptionNeverLost' /\ ScreenInv'
  BY DEF ControlInv, Active, SolverMemoryBalanced, UserExceptionNeverLost, ScreenInv
<1>3. LogInv'
  BY DEF LogInv, LogSampled
<1> QED
  BY <1>1, <1>2, <1>3

LEMMA SafeStep == SafeInv /\ [Next]_vars => SafeInv'
BY EndsSafe, CallerSafe, ProgressSafe, WrapperSafe, StutterSafe DEF Next, Evolve

LEMMA SpecSafe == Spec => []SafeInv
BY InitSafe, SafeStep, PTL DEF Spec

-------------------------------------------------------------------------------
(* Type correctness, for every set of problems, codes and verbosities.     *)
THEOREM TypeCorrect == Spec => []TypeOK
<1>1. SafeInv => TypeOK
  BY DEF SafeInv
<1> QED
  BY <1>1, SpecSafe, PTL

(* No exception of the problem is swallowed, whenever it is thrown and     *)
(* whatever else goes wrong on the way out of evolve().                    *)
THEOREM ExceptionsAreNeverLost == Spec => []UserExceptionNeverLost
<1>1. SafeInv => UserExceptionNeverLost
  BY DEF SafeInv
<1> QED
  BY <1>1, SpecSafe, PTL

(* deleteSNOPT balances snInit on every path.                              *)
THEOREM MemoryStaysBalanced == Spec => []SolverMemoryBalanced
<1>1. SafeInv => SolverMemoryBalanced
  BY DEF SafeInv
<1> QED
  BY <1>1, SpecSafe, PTL

(* The log is the sequence of the first of every n evaluations, for every  *)
(* verbosity and any number of evaluations.                                *)
THEOREM LogIsSampled == Spec => []LogSampled
<1>1. SafeInv => LogSampled
  BY DEF SafeInv, LogInv
<1> QED
  BY <1>1, SpecSafe, PTL

VerbosityInv == verbosity \in Verbosities \cup {0}

(* The numbers of the lines l are those of a run of verbosity n.           *)
NumberedBy(l, n) == \A k \in DOMAIN l : l[k].fevals = 1 + (k - 1) * n

LEMMA OneRunIs ==
  LogOfOneRun <=> log = <<>> \/ \E n \in Verbosities \ {0} : NumberedBy(log, n)
BY DEF LogOfOneRun, NumberedBy

LEMMA SampledNumbers ==
  ASSUME LogSampled, verbosity > 0
  PROVE  NumberedBy(info.log, verbosity)
<1> SUFFICES ASSUME NEW k \in DOMAIN info.log
             PROVE  info.log[k].fevals = 1 + (k - 1) * verbosity
  BY DEF NumberedBy
<1> DEFINE number == 1 + (k - 1) * verbosity
<1>1. info.log[k] = [fevals |-> number, objval |-> evaluated[number].f[1]]
  BY DEF LogSampled
<1> HIDE DEF number
<1>2. info.log[k].fevals = number
  BY <1>1
<1> QED
  BY <1>2 DEF number

LEMMA OneRunStep ==
  ASSUME SafeInv, VerbosityInv, LogOfOneRun, [Next]_vars
  PROVE  VerbosityInv' /\ LogOfOneRun'
<1>1. VerbosityInv'
  <2>1. verbosity' \in Verbosities \/ verbosity' = verbosity
    BY DEF Next, Caller, SetVerbosity, SetPolicies, Call, Evolve, RejectProblem,
           ReturnEmpty, LoadFails, StartRun, OptionRejected, SelectionFails,
           SelectIndividual, Wrapper, FitnessThrows, GradientThrows, SolveA,
           ReportFails, ReplacementFails, Reinsert, Rethrow, Return, Refuse,
           OutsideUnchanged, options, vars
  <2> QED
    BY <2>1 DEF VerbosityInv
<1>2. log' = log \/ Rethrow \/ Return
  BY DEF Next, Caller, SetVerbosity, SetPolicies, Call, Evolve, RejectProblem,
         ReturnEmpty, LoadFails, StartRun, OptionRejected, SelectionFails,
         SelectIndividual, Wrapper, FitnessThrows, GradientThrows, SolveA,
         ReportFails, ReplacementFails, Reinsert, Refuse, OutsideUnchanged, vars
<1>3. LogOfOneRun' <=>
        log' = <<>> \/ \E n \in Verbosities \ {0} : NumberedBy(log', n)
  BY DEF LogOfOneRun, NumberedBy
<1>4. CASE log' = log
  BY <1>1, <1>3, <1>4, OneRunIs
<1>5. CASE Rethrow \/ Return
  <2>1. log' = info.log
    BY <1>5 DEF Rethrow, Return, Published
  <2>2. LogSampled /\ verbosity \in Nat
    BY DEF SafeInv, LogInv, TypeOK
  <2>3. CASE verbosity = 0
    <3>1. info.log = <<>>
      BY <2>2, <2>3 DEF LogSampled
    <3> QED
      BY <1>1, <1>3, <2>1, <3>1
  <2>4. CASE verbosity # 0
    <3>1. NumberedBy(log', verbosity)
      BY <2>1, <2>2, <2>4, SampledNumbers
    <3>2. verbosity \in Verbosities \ {0}
      BY <2>4 DEF VerbosityInv
    <3> QED
      BY <1>1, <1>3, <3>1, <3>2
  <2> QED
    BY <2>3, <2>4
<1> QED
  BY <1>2, <1>4, <1>5

(* The log an object shows samples one run with one verbosity, whichever   *)
(* runs came before it, with which verbosity, and wherever they threw.     *)
THEOREM LogIsOfOneRun == Spec => []LogOfOneRun
<1>1. Init => VerbosityInv /\ LogOfOneRun
  BY DEF Init, VerbosityInv, LogOfOneRun
<1>2. SafeInv /\ VerbosityInv /\ LogOfOneRun /\ [Next]_vars
        => VerbosityInv' /\ LogOfOneRun'
  BY OneRunStep
<1> QED
  BY <1>1, <1>2, SpecSafe, PTL DEF Spec

(* The log and the solver's own output are never both on.                  *)
THEOREM OutputIsExclusive == Spec => []ScreenOutputExcludesLog
<1>1. SafeInv => ScreenOutputExcludesLog
  BY DEF SafeInv, LogInv, LogSampled, ScreenInv, ScreenOutputExcludesLog
<1> QED
  BY <1>1, SpecSafe, PTL

-------------------------------------------------------------------------------
(* The population, when the solver evaluates something before it returns.  *)

Replaced ==
  \E x \in Point, i \in Candidates(replace, pop, Nec[prob]) :
    /\ Contract!Improvement(x)
    /\ work = [pop EXCEPT ![i] = Individual(prob, x)]

(* What evolve() works with at each place: the start is an individual the  *)
(* policy designates, the solver's answer is one it evaluated unless it    *)
(* was interrupted, and the copy is the caller's population until the      *)
(* reinsertion.                                                            *)
AnswerInv ==
  /\ pc \in Active => \E s \in Candidates(select, pop, Nec[prob]) : start = pop[s]
  /\ \A k \in 1..Len(evaluated) : Consistent(prob, evaluated[k])
  /\ pc = "solved" /\ ~info.eptr => Consistent(prob, sol)
  /\ pc \in {"preamble", "configure", "solveA", "solved"} => work = pop
  /\ pc = "deliver" /\ ~info.eptr => work = pop \/ Replaced

PopInv == SafeInv /\ AnswerInv /\ PopulationConsistent

LEMMA InitPop == Init => AnswerInv /\ PopulationConsistent
BY DEF Init, AnswerInv, PopulationConsistent, Active

(* A call that ends changes the caller's population to the copy, or not.   *)
LEMMA EndsPop ==
  ASSUME PopInv,
         \/ RejectProblem \/ ReturnEmpty \/ LoadFails \/ OptionRejected
         \/ SelectionFails \/ ReportFails \/ ReplacementFails
         \/ Rethrow \/ Return
  PROVE  AnswerInv' /\ PopulationConsistent'
<1>1. pc' = "idle" /\ evaluated' = <<>> /\ UNCHANGED prob
  BY DEF RejectProblem, ReturnEmpty, LoadFails, OptionRejected, SelectionFails,
         ReportFails, ReplacementFails, Rethrow, Return, Refuse, Leave
<1>2. AnswerInv'
  BY <1>1 DEF AnswerInv, Active
<1>3. CASE pop' = pop
  BY <1>1, <1>2, <1>3 DEF PopInv, PopulationConsistent
<1>4. CASE pop' # pop
  <2>1. Return /\ pop' = work
    BY <1>4 DEF RejectProblem, ReturnEmpty, LoadFails, OptionRejected, SelectionFails,
                ReportFails, ReplacementFails, Rethrow, Return, Refuse
  <2>2. pop' = pop \/ Replaced
    BY <2>1 DEF Return, PopInv, AnswerInv
  <2>3. PICK x \in Point, i \in Candidates(replace, pop, Nec[prob]) :
          pop' = [pop EXCEPT ![i] = Individual(prob, x)]
    BY <1>4, <2>1, <2>2 DEF Replaced
  <2>4. prob \in Problem /\ pop \in Seq(Individuals)
    BY DEF PopInv, SafeInv, TypeOK
  <2>5. /\ Individual(prob, x) \in Individuals
        /\ Consistent(prob, Individual(prob, x))
    BY <2>4, FitnessTypes
  <2>6. Len(pop') = Len(pop)
    BY <2>3, <2>4, <2>5, ExceptIsSeq
  <2>7. ASSUME NEW k \in 1..Len(pop) PROVE Consistent(prob, pop'[k])
    <3>1. CASE k = i
      BY <2>3, <2>4, <2>5, <3>1
    <3>2. CASE k # i
      BY <2>3, <2>4, <3>2 DEF PopInv, PopulationConsistent
    <3> QED
      BY <3>1, <3>2
  <2> QED
    BY <1>1, <1>2, <2>6, <2>7 DEF PopulationConsistent
<1> QED
  BY <1>3, <1>4

LEMMA CallerPop ==
  ASSUME PopInv, Caller
  PROVE  AnswerInv' /\ PopulationConsistent'
<1> USE DEF PopInv
<1>1. CASE SetVerbosity
  BY <1>1 DEF SetVerbosity, AnswerInv, Active, PopulationConsistent, solver
<1>2. CASE SetPolicies
  BY <1>2 DEF SetPolicies, AnswerInv, Active, PopulationConsistent, solver
<1>3. CASE Call
  <2>1. \A i \in 1..Len(pop') : Consistent(prob', pop'[i])
    BY <1>3, PopulationsConsistent DEF Call
  <2>2. /\ pc = "idle" /\ pc' = "preamble" /\ work' = pop' /\ evaluated' = evaluated
    BY <1>3 DEF Call, solver
  <2>3. evaluated = <<>>
    BY <2>2 DEF SafeInv, ControlInv, Active
  <2> QED
    BY <2>1, <2>2, <2>3 DEF AnswerInv, PopulationConsistent, Active
<1> QED
  BY <1>1, <1>2, <1>3 DEF Caller

LEMMA ProgressPop ==
  ASSUME ~ReturnsEarly, PopInv, StartRun \/ SelectIndividual \/ SolveA \/ Reinsert
  PROVE  AnswerInv' /\ PopulationConsistent'
<1> USE DEF PopInv
<1>1. UNCHANGED <<select, replace, prob, pop, info, evaluated>>
  BY DEF StartRun, SelectIndividual, SolveA, Reinsert, options, solver
<1>2. PopulationConsistent' /\ \A k \in 1..Len(evaluated') : Consistent(prob', evaluated'[k])
  BY <1>1 DEF PopulationConsistent, AnswerInv
<1>3. CASE StartRun
  BY <1>1, <1>2, <1>3 DEF StartRun, AnswerInv, Active
<1>4. CASE SelectIndividual
  BY <1>1, <1>2, <1>4 DEF SelectIndividual, AnswerInv, Active
<1>5. CASE SolveA
  <2>1. /\ pc = "solveA" /\ pc' = "solved" /\ UNCHANGED <<work, start>>
        /\ sol' \in Answers
    BY <1>5 DEF SolveA
  <2>2. ~info.eptr => Consistent(prob, sol')
    <3> SUFFICES ASSUME ~info.eptr PROVE Consistent(prob, sol')
      OBVIOUS
    <3>1. stat = 0
      BY <2>1 DEF SafeInv, ControlInv, Active
    <3>2. sol' \in Range(evaluated)
      BY <2>1, <3>1 DEF Answers
    <3>3. evaluated \in Seq(Individuals)
      BY DEF SafeInv, TypeOK
    <3>4. \E k \in 1..Len(evaluated) : sol' = evaluated[k]
      BY <3>2, <3>3 DEF Range
    <3> QED
      BY <3>4 DEF AnswerInv
  <2> QED
    BY <1>1, <1>2, <2>1, <2>2 DEF AnswerInv, Active
<1>6. CASE Reinsert
  <2>1. /\ pc = "solved" /\ pc' = "deliver" /\ UNCHANGED <<start, sol>> /\ work = pop
        /\ \/ work' = work
           \/ Improved /\ \E i \in Candidates(replace, work, Nec[prob]) :
                            work' = [work EXCEPT ![i] = sol]
    BY <1>6 DEF Reinsert, AnswerInv, Solution
  <2>2. PICK s \in Candidates(select, pop, Nec[prob]) : start = pop[s]
    BY <2>1 DEF AnswerInv, Active
  <2>3. ASSUME ~info.eptr, work' # pop PROVE Replaced'
    <3>1. PICK i \in Candidates(replace, pop, Nec[prob]) :
            Improved /\ work' = [pop EXCEPT ![i] = sol]
      BY <2>1, <2>3
    <3>2. sol \in Individuals /\ Consistent(prob, sol)
      BY <2>1, <2>3 DEF AnswerInv, SafeInv, ControlInv, Active
    <3>3. sol.x \in Point /\ sol = Individual(prob, sol.x) /\ sol.f = Fitness[prob][sol.x]
      BY <3>2 DEF Individuals, Consistent, Individual
    <3>4. PICK x \in Point : x = sol.x
      BY <3>3
    <3>5. Contract!Improvement(x)
      BY <2>2, <3>1, <3>3, <3>4 DEF Improved, Contract!Improvement
    <3>6. Contract!Improvement(x)'
      BY <1>1, <3>5 DEF Contract!Improvement
    <3>7. work' = [pop' EXCEPT ![i] = Individual(prob', x)]
      BY <1>1, <3>1, <3>3, <3>4
    <3>8. i \in Candidates(replace', pop', Nec[prob'])
      BY <1>1
    <3> QED
      BY <3>6, <3>7, <3>8 DEF Replaced
  <2> QED
    BY <1>1, <1>2, <2>1, <2>2, <2>3 DEF AnswerInv, Active
<1> QED
  BY <1>3, <1>4, <1>5, <1>6

LEMMA WrapperPop ==
  ASSUME PopInv, Wrapper \/ FitnessThrows \/ GradientThrows
  PROVE  AnswerInv' /\ PopulationConsistent'
<1> USE DEF PopInv
<1>1. /\ pc = "solveA" /\ pc' = "solveA"
      /\ UNCHANGED <<select, replace, prob, pop, work, start>>
  BY DEF Wrapper, FitnessThrows, GradientThrows, Calling, OutsideUnchanged, options
<1>2. prob \in Problem /\ evaluated \in Seq(Individuals)
  BY DEF SafeInv, TypeOK
<1>3. \/ evaluated' = evaluated
      \/ \E x \in Point : evaluated' = Append(evaluated, Individual(prob, x))
  BY DEF Wrapper, FitnessThrows, GradientThrows
<1>4. \A k \in 1..Len(evaluated') : Consistent(prob, evaluated'[k])
  <2>1. CASE evaluated' = evaluated
    BY <2>1 DEF AnswerInv
  <2>2. ASSUME NEW x \in Point, evaluated' = Append(evaluated, Individual(prob, x))
        PROVE  \A k \in 1..Len(evaluated') : Consistent(prob, evaluated'[k])
    <3>1. /\ Individual(prob, x) \in Individuals
          /\ Consistent(prob, Individual(prob, x))
      BY <1>2, FitnessTypes
    <3>2. /\ Len(evaluated') = Len(evaluated) + 1
          /\ evaluated'[Len(evaluated) + 1] = Individual(prob, x)
          /\ \A k \in 1..Len(evaluated) : evaluated'[k] = evaluated[k]
      BY <1>2, <2>2, <3>1, AppendFacts
    <3>3. Len(evaluated) \in Nat
      BY <1>2
    <3> QED
      BY <3>1, <3>2, <3>3 DEF AnswerInv
  <2> QED
    BY <1>3, <2>1, <2>2
<1> QED
  BY <1>1, <1>4 DEF AnswerInv, Active, PopulationConsistent

LEMMA StutterPop ==
  ASSUME PopInv, UNCHANGED vars
  PROVE  AnswerInv' /\ PopulationConsistent'
BY DEF PopInv, vars, options, solver, AnswerInv, Active, Replaced, Contract!Improvement,
       PopulationConsistent

LEMMA PopStep ==
  ASSUME ~ReturnsEarly
  PROVE  PopInv /\ [Next]_vars => PopInv'
<1>1. PopInv /\ [Next]_vars => AnswerInv' /\ PopulationConsistent'
  BY EndsPop, CallerPop, ProgressPop, WrapperPop, StutterPop DEF Next, Evolve
<1> QED
  BY <1>1, SafeStep DEF PopInv

LEMMA SpecPop ==
  ASSUME ~ReturnsEarly
  PROVE  Spec => []PopInv
<1>1. Init => PopInv
  BY InitPop, InitSafe DEF PopInv
<1>2. PopInv /\ [Next]_vars => PopInv'
  BY PopStep
<1> QED
  BY <1>1, <1>2, PTL DEF Spec

(* Every individual the caller holds has the true fitness of its point,    *)
(* although evolve() stores what the solver left in F.  The assumption is  *)
(* needed: run snopt7_early_return shows what an early return does.        *)
THEOREM PopulationStaysConsistent ==
  ASSUME ~ReturnsEarly
  PROVE  Spec => []PopulationConsistent
<1>1. PopInv => PopulationConsistent
  BY DEF PopInv
<1> QED
  BY <1>1, SpecPop, PTL

-------------------------------------------------------------------------------
(* evolve() keeps the contract *)

LEMMA EmptyPopulation ==
  ASSUME NEW p \in Problem
  PROVE  << >> \in Populations(p)
<1>1. 0 \in 0..MaxPop /\ << >> \in [1..0 -> {Individual(p, x) : x \in Point}]
  BY PagmoAssumption
<1> QED
  BY <1>1 DEF Populations

LEMMA ContractInit == Init => Contract!Init
BY EmptyPopulation DEF Init, Contract!Init, Policies

LEMMA ContractStep ==
  ASSUME PopInv, [Next]_vars
  PROVE  [Contract!Next]_(Contract!vars)
<1> USE DEF Contract!vars, Contract!Next
<1>1. CASE UNCHANGED vars
  BY <1>1 DEF vars, options
<1>2. CASE SetVerbosity
  BY <1>2 DEF SetVerbosity
<1>3. CASE SetPolicies
  BY <1>3, EnvironmentTypes DEF SetPolicies, Contract!Configure
<1>4. CASE Call
  BY <1>4 DEF Call, Contract!Call, options
<1>5. CASE \/ RejectProblem \/ LoadFails \/ OptionRejected
           \/ SelectionFails \/ ReportFails \/ ReplacementFails
  <2>1. pc # "idle" /\ Refuse
    BY <1>5 DEF RejectProblem, LoadFails, OptionRejected, SelectionFails, ReportFails,
                ReplacementFails
  <2> QED
    BY <2>1 DEF Refuse, Leave, Contract!Throw, options
<1>6. CASE ReturnEmpty
  BY <1>6 DEF ReturnEmpty, Leave, Contract!Return, options
<1>7. CASE Rethrow
  BY <1>7 DEF Rethrow, Leave, Contract!Throw, options
<1>8. CASE \/ StartRun \/ SelectIndividual \/ Wrapper \/ FitnessThrows
           \/ GradientThrows \/ SolveA \/ Reinsert
  <2>1. pc # "idle" /\ pc' # "idle"
    BY <1>8 DEF StartRun, SelectIndividual, Wrapper, FitnessThrows, GradientThrows,
                SolveA, Reinsert, Calling, OutsideUnchanged
  <2>2. UNCHANGED <<select, replace, prob, pop, outcome>>
    BY <1>8 DEF StartRun, SelectIndividual, Wrapper, FitnessThrows, GradientThrows,
                SolveA, Reinsert, OutsideUnchanged, options
  <2> QED
    BY <2>1, <2>2
<1>9. CASE Return
  <2>1. /\ pc = "deliver" /\ pc' = "idle" /\ outcome' = "returned" /\ pop' = work
        /\ UNCHANGED <<select, replace, prob>>
    BY <1>9 DEF Return, Leave, options
  <2>2. work = pop \/ Replaced
    BY <1>9 DEF Return, PopInv, AnswerInv
  <2> QED
    BY <2>1, <2>2 DEF Contract!Return, Replaced
<1> QED
  BY <1>1, <1>2, <1>3, <1>4, <1>5, <1>6, <1>7, <1>8, <1>9 DEF Next, Evolve, Caller

(* Every behaviour of evolve() is one EvolveContract allows, if the solver *)
(* evaluates something before it returns: a call that throws, also after   *)
(* it has reinserted, leaves the caller's population alone, and one that   *)
(* returns replaces at most one individual, by a true and strict           *)
(* improvement.                                                            *)
THEOREM Implementation ==
  ASSUME ~ReturnsEarly
  PROVE  Spec => ImplementsContract
<1>1. PopInv /\ [Next]_vars => [Contract!Next]_(Contract!vars)
  BY ContractStep
<1> QED
  BY <1>1, SpecPop, ContractInit, PTL DEF Spec, ImplementsContract

-------------------------------------------------------------------------------
(* The champion *)

(* The individual that is replaced is not better than the one that         *)
(* replaces it.                                                            *)
LEMMA NothingBetterLost ==
  ASSUME PopInv, Contract!Protective,
         NEW x \in Point, NEW i \in Candidates(replace, pop, Nec[prob]),
         Contract!Improvement(x)
  PROVE  ~CompareFC(pop[i].f, Individual(prob, x).f, Nec[prob])
<1>1. prob \in Problem /\ pop \in Seq(Individuals)
      /\ \A k \in 1..Len(pop) : Consistent(prob, pop[k])
  BY DEF PopInv, SafeInv, TypeOK, PopulationConsistent
<1>2. PICK s \in Candidates(select, pop, Nec[prob]) :
        CompareFC(Fitness[prob][x], pop[s].f, Nec[prob])
  BY DEF Contract!Improvement
<1> QED
  BY <1>1, <1>2, ProtectiveReplacement DEF Contract!Protective, Protects, Individual

(* With the policies EvolveContract names, no call makes the champion      *)
(* worse, for populations of any size and whatever the solver answers.     *)
THEOREM ChampionsAreKept ==
  ASSUME ~ReturnsEarly
  PROVE  Spec => ChampionKept
<1>1. ASSUME PopInv, [Next]_vars, pc # "idle", ~(pc' # "idle"), outcome' = "returned",
             Contract!Protective, NEW k \in DOMAIN pop
      PROVE  \E j \in DOMAIN pop' : Contract!AtLeastAsGood(pop'[j], pop[k])
  <2>1. prob \in Problem /\ pop \in Seq(Individuals) /\ DOMAIN pop = 1..Len(pop)
        /\ Nec[prob] \in Nat
    BY <1>1, PagmoAssumption DEF PopInv, SafeInv, TypeOK
  <2>2. pop[k].f \in Seq(Int) /\ Len(pop[k].f) > 0
    <3>1. pop[k].x \in Point /\ pop[k].f = Fitness[prob][pop[k].x]
      BY <1>1, <2>1 DEF PopInv, PopulationConsistent, Consistent
    <3> QED
      BY <2>1, <3>1, PagmoAssumption
  <2>3. ~CompareFC(pop[k].f, pop[k].f, Nec[prob])
    BY <1>1, <2>1, <2>2, CompareOrder
  <2>4. pop' = pop \/ (pop' = work /\ Replaced)
    BY <1>1 DEF Next, Caller, Evolve, SetVerbosity, SetPolicies, Call, RejectProblem,
                ReturnEmpty, LoadFails, StartRun, OptionRejected, SelectionFails,
                SelectIndividual, Wrapper, FitnessThrows, GradientThrows, SolveA,
                ReportFails, ReplacementFails, Reinsert, Rethrow, Return, Refuse,
                OutsideUnchanged, vars, PopInv, AnswerInv
  <2>5. CASE pop' = pop
    BY <1>1, <2>3, <2>5 DEF Contract!AtLeastAsGood
  <2>6. CASE pop' = work /\ Replaced
    <3>1. PICK x \in Point, i \in Candidates(replace, pop, Nec[prob]) :
            /\ Contract!Improvement(x)
            /\ pop' = [pop EXCEPT ![i] = Individual(prob, x)]
      BY <2>6 DEF Replaced
    <3>2. DOMAIN pop' = DOMAIN pop
      BY <3>1
    <3>3. CASE k = i
      <4>1. pop'[k] = Individual(prob, x)
        BY <1>1, <3>1, <3>3
      <4>2. ~CompareFC(pop[k].f, Individual(prob, x).f, Nec[prob])
        BY <1>1, <3>1, <3>3, NothingBetterLost
      <4> QED
        BY <1>1, <3>2, <4>1, <4>2 DEF Contract!AtLeastAsGood
    <3>4. CASE k # i
      <4>1. pop'[k] = pop[k]
        BY <1>1, <3>1, <3>4
      <4> QED
        BY <1>1, <2>3, <3>2, <4>1 DEF Contract!AtLeastAsGood
    <3> QED
      BY <3>3, <3>4
  <2> QED
    BY <2>4, <2>5, <2>6
<1> DEFINE Kept == pc # "idle" /\ ~(pc # "idle")'
                     /\ (IF outcome \in {"refused", "rethrown"} THEN "threw"
                         ELSE outcome)' = "returned"
                     /\ Contract!Protective
                   => \A i \in DOMAIN pop : \E j \in DOMAIN pop' :
                        Contract!AtLeastAsGood(pop'[j], pop[i])
<1>2. PopInv /\ [Next]_vars => [Kept]_(Contract!vars)
  BY <1>1
<1>3. ChampionKept <=> [][Kept]_(Contract!vars)
  BY DEF ChampionKept, Contract!ChampionKept
<1> HIDE DEF Kept
<1> QED
  BY <1>2, <1>3, SpecPop, PTL DEF Spec
===============================================================================
