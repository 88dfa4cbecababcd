--------------------------- MODULE AlgorithmObject ---------------------------
(***************************************************************************)
(* A worhp or snopt7 object as its user keeps it: the options set on it,   *)
(* the parameters a solve runs with, what a run leaves in the object, and  *)
(* what survives serialization.                                            *)
(*                                                                         *)
(* Two objects, "here" and "there", get the same calls.  The first never   *)
(* leaves its process.  The second is pickled and restored at any moment,  *)
(* as an archipelago does that evolves its islands in other processes.     *)
(* Modules WorhpEvolve and Snopt7Evolve have the steps of evolve(); here a *)
(* call is one step and ends in one of a few ways.                         *)
(***************************************************************************)
EXTENDS Integers, Sequences, FiniteSetsExt

CONSTANTS
  Problem,      \* the problems that are evolved
  HasGradient,  \* those that provide a gradient,
  HasHessians,  \* and hessians
  CTol,         \* CTol[p]: the tolerances of the constraints of p
  Param,        \* Param[k].num, .int, .bool: names solver k has a parameter for
  Default,      \* Default[k]: the solver's own value of each parameter
  File,         \* contents the parameter file may have when WORHP reads it
  NumOptions, IntOptions, BoolOptions, \* [name, value] a user may set, per solver
  Verbosities,  \* arguments of set_verbosity
  UserPolicies, \* arguments of set_selection and set_replacement
  Codes,        \* results of a solve
  Results,      \* those the table of snopt7.cpp has a text for
  None

(* Functions put together, the left one first: the operators of module     *)
(* TLC, which has them without a definition the prover could expand.       *)
d :> e == [x \in {d} |-> e]

f @@ g ==
  [x \in DOMAIN f \cup DOMAIN g |-> IF x \in DOMAIN f THEN f[x] ELSE g[x]]

Solvers == {"worhp", "snopt7"}
Objects == {"here", "there"}

ASSUME ObjectAssumption ==
  /\ HasGradient \subseteq Problem /\ HasHessians \subseteq Problem
  /\ CTol \in [Problem -> Seq(Nat)]
  /\ \A k \in Solvers :
       /\ DOMAIN Default[k] = Param[k].num \cup Param[k].int \cup Param[k].bool
       /\ NumOptions[k] \cup IntOptions[k] \subseteq [name : STRING, value : Int]
       /\ BoolOptions[k] \subseteq [name : STRING, value : BOOLEAN]
  /\ BoolOptions.snopt7 = {}
  /\ 71 \in Results

(* A parameter has one type, and those pagmo sets have theirs.             *)
ASSUME ParameterAssumption ==
  /\ \A k \in Solvers :
       /\ Param[k].num \cap Param[k].int = {}
       /\ Param[k].num \cap Param[k].bool = {}
       /\ Param[k].int \cap Param[k].bool = {}
  /\ {"TolFeas", "AcceptTolFeas"} \subseteq Param.worhp.num
  /\ {"UserDF", "UserDG", "UserHM", "FGtogether"} \subseteq Param.worhp.bool
  /\ "Major feasibility tolerance" \in Param.snopt7.num
  /\ "Derivative option" \in Param.snopt7.int
  /\ \A contents \in File : DOMAIN contents \subseteq DOMAIN Default.worhp
  /\ Verbosities \subseteq Nat

VARIABLES
  kind,     \* the solver of both objects
  obj,      \* obj[o]: the members of object o
  used,     \* used[o]: problem, file and parameters of o's last solve, until
            \* the next call
  outcome   \* outcome[o]: how the last call to o ended

vars == <<kind, obj, used, outcome>>

NoOptions == [n \in {} |-> 0]
Best == [kind |-> "best", idx |-> 0]

(* lastRes is None in a new object: snopt7 has a 0 there, worhp a text.    *)
Init ==
  /\ kind \in Solvers
  /\ \E screen \in BOOLEAN :
       obj = [o \in Objects |->
                [screen |-> screen, verbosity |-> 0,
                 select |-> Best, replace |-> Best,
                 nums |-> NoOptions, ints |-> NoOptions, bools |-> NoOptions,
                 lastRes |-> None, log |-> <<>>, cache |-> None]]
  /\ used = [o \in Objects |-> None]
  /\ outcome = [o \in Objects |-> "none"]

(***************************************************************************)
(* The setters.                                                            *)
(***************************************************************************)
(* Each object takes the call in its own state.                            *)
Set(Members(_)) ==
  /\ obj' = [o \in Objects |-> Members(obj[o])]
  /\ used' = [o \in Objects |-> None]
  /\ outcome' = [o \in Objects |-> "returned"]
  /\ UNCHANGED kind

(* map[name] = value; set_*_options repeats it.                            *)
Put(options, option) == (option.name :> option.value) @@ options

SetNumericOption ==
  \E option \in NumOptions[kind] :
    Set(LAMBDA m : [m EXCEPT !.nums = Put(@, option)])

SetIntegerOption ==
  \E option \in IntOptions[kind] :
    Set(LAMBDA m : [m EXCEPT !.ints = Put(@, option)])

SetBoolOption ==
  \E option \in BoolOptions[kind] :
    Set(LAMBDA m : [m EXCEPT !.bools = Put(@, option)])

ResetOptions ==
  \/ Set(LAMBDA m : [m EXCEPT !.nums = NoOptions])
  \/ Set(LAMBDA m : [m EXCEPT !.ints = NoOptions])
  \/ kind = "worhp" /\ Set(LAMBDA m : [m EXCEPT !.bools = NoOptions])

(* Slip: any verbosity. *)
AnyVerbosity(m, n) == TRUE

(* set_verbosity throws when the solver was given the screen.              *)
VerbosityAllowed(m, n) == ~(m.screen /\ n # 0)

SetVerbosity ==
  \E n \in Verbosities :
    /\ obj' = [o \in Objects |-> IF VerbosityAllowed(obj[o], n)
                                  THEN [obj[o] EXCEPT !.verbosity = n] ELSE obj[o]]
    /\ outcome' = [o \in Objects |->
                      IF VerbosityAllowed(obj[o], n) THEN "returned" ELSE "threw"]
    /\ used' = [o \in Objects |-> None]
    /\ UNCHANGED kind

(* The properties of the Python class.  A string is tried first, then an   *)
(* index; what is neither, or names no policy, throws.                     *)
Policies == [kind : {"best", "worst", "random"}, idx : {0}]
              \cup [kind : {"index"}, idx : Nat]

SetPolicy ==
  \E policy \in UserPolicies :
    IF policy \in Policies
      THEN \/ Set(LAMBDA m : [m EXCEPT !.select = policy])
           \/ Set(LAMBDA m : [m EXCEPT !.replace = policy])
      ELSE /\ outcome' = [o \in Objects |-> "threw"]
           /\ UNCHANGED <<kind, obj, used>>

(***************************************************************************)
(* The parameters of a solve.  Later layers win; f @@ g takes f first.     *)
(***************************************************************************)
PositiveMinimum(p) == CTol[p] # <<>> /\ Min({CTol[p][i] : i \in DOMAIN CTol[p]}) > 0

(* Slip: the loosest tolerance. *)
LoosestTolerance(p) == Max({CTol[p][i] : i \in DOMAIN CTol[p]})

Tightest(p) == Min({CTol[p][i] : i \in DOMAIN CTol[p]})

TolFeas == [worhp |-> "TolFeas", snopt7 |-> "Major feasibility tolerance"]

(* The tolerance of the problem's constraints, if the user has not given   *)
(* one and none of them is zero.                                           *)
WorhpTolerance(m, p) ==
  IF TolFeas.worhp \notin DOMAIN m.nums /\ PositiveMinimum(p)
    THEN "TolFeas" :> Tightest(p) @@ "AcceptTolFeas" :> Tightest(p) \div 2
    ELSE NoOptions

SnoptTolerance(m, p) ==
  IF TolFeas.snopt7 \notin DOMAIN m.nums /\ PositiveMinimum(p)
    THEN TolFeas.snopt7 :> Tightest(p)
    ELSE NoOptions

(* FGtogether is set only for constrained problems.                        *)
Together(p) == IF CTol[p] # <<>> THEN "FGtogether" :> TRUE ELSE NoOptions

(* Slip: say so when the problem has derivatives, and nothing else.        *)
OnlyWhatExists(p) ==
  LET gradient == IF p \in HasGradient
                    THEN "UserDF" :> TRUE @@ "UserDG" :> TRUE ELSE NoOptions
      hessians == IF p \in HasHessians THEN "UserHM" :> TRUE ELSE NoOptions
  IN  gradient @@ hessians

(* UserDF, UserDG and UserHM say which derivatives WORHP may ask for.      *)
UserDerivatives(p) ==
  "UserDF" :> (p \in HasGradient) @@ "UserDG" :> (p \in HasGradient)
    @@ "UserHM" :> (p \in HasHessians)

(* Slip: the user's options first, and what pagmo knows over them.         *)
WorhpParametersFirst(m, p, file) ==
  WorhpTolerance(m, p) @@ UserDerivatives(p) @@ Together(p)
    @@ m.bools @@ m.ints @@ m.nums @@ file @@ Default.worhp

(* WORHP: its file, then what pagmo knows of the problem, then the user.   *)
WorhpParameters(m, p, file) ==
  m.bools @@ m.ints @@ m.nums
    @@ WorhpTolerance(m, p) @@ UserDerivatives(p) @@ Together(p)
    @@ file @@ Default.worhp

(* SNOPT: the tolerance, the user, and the derivative option last.         *)
SnoptParameters(m, p, file) ==
  "Derivative option" :> (IF p \in HasGradient THEN 3 ELSE 0)
    @@ m.ints @@ m.nums @@ SnoptTolerance(m, p) @@ Default.snopt7

Parameters(m, p, file) ==
  IF kind = "worhp" THEN WorhpParameters(m, p, file) ELSE SnoptParameters(m, p, file)

(* A setter of the solver refuses a name that is not of its type.          *)
NamesKnown(m) ==
  /\ DOMAIN m.nums \subseteq Param[kind].num
  /\ DOMAIN m.ints \subseteq Param[kind].int
  /\ DOMAIN m.bools \subseteq Param[kind].bool

(* The derivative option of SNOPT is pagmo's to set.                       *)
OptionsAccepted(m) ==
  /\ NamesKnown(m)
  /\ kind = "snopt7" => "Derivative option" \notin DOMAIN m.ints

(***************************************************************************)
(* evolve(): what it leaves in the object.  It ends                        *)
(*   "unavailable"  before the solver is configured (no library, ...),     *)
(*   "unselected"   before it runs (a selection index past the end),       *)
(*   "interrupted"  by an exception of the problem while it runs,          *)
(*   "undelivered"  by an exception after it ran (replacement, ...),       *)
(*   "completed".                                                          *)
(***************************************************************************)
Endings == {"unavailable", "unselected", "interrupted", "undelivered", "completed"}
Ran == {"interrupted", "undelivered", "completed"}

Lines(m, p) == IF m.verbosity > 0 THEN <<p>> ELSE <<>>

(* m_log is cleared before the options are read; StatusMsgString is the    *)
(* last step.  The caches stay, with points of this problem.               *)
WorhpMembers(m, p, ending, code) ==
  IF ending = "unavailable" THEN m
  ELSE [m EXCEPT
          !.log = IF OptionsAccepted(m) /\ ending \in Ran THEN Lines(m, p) ELSE <<>>,
          !.cache = IF OptionsAccepted(m) /\ ending \in Ran THEN p ELSE @,
          !.lastRes = IF OptionsAccepted(m) /\ ending = "completed" THEN code ELSE @]

(* The code is stored as soon as solveA returns (71: interrupted), and is  *)
(* looked up at once when verbose; the log is stored after the             *)
(* reinsertion.                                                            *)
Reportable(m, code) == m.verbosity > 0 => code \in Results

SnoptMembers(m, p, ending, code) ==
  IF OptionsAccepted(m) /\ ending \in Ran
    THEN LET res == IF ending = "interrupted" THEN 71 ELSE code
         IN  [m EXCEPT
                !.lastRes = res,
                !.log = IF Reportable(m, res) /\ ending # "undelivered"
                          THEN Lines(m, p) ELSE @]
    ELSE m

MembersAfter(m, p, ending, code) ==
  IF kind = "worhp" THEN WorhpMembers(m, p, ending, code)
                    ELSE SnoptMembers(m, p, ending, code)

Completes(m, ending, code) ==
  /\ ending = "completed"
  /\ OptionsAccepted(m)
  /\ kind = "snopt7" => Reportable(m, code)

Evolve ==
  \E p \in Problem, file \in File, ending \in Endings, code \in Codes :
    /\ obj' = [o \in Objects |-> MembersAfter(obj[o], p, ending, code)]
    /\ used' = [o \in Objects |->
                  IF ending \in Ran /\ OptionsAccepted(obj[o])
                    THEN [prob |-> p, file |-> file,
                          params |-> Parameters(obj[o], p, file)]
                    ELSE None]
    /\ outcome' = [o \in Objects |->
                     IF Completes(obj[o], ending, code) THEN "returned" ELSE "threw"]
    /\ UNCHANGED kind

(* Printing the object: get_extra_info() of snopt7 looks the last result   *)
(* up in the table, as results.at().                                       *)
Describe ==
  /\ outcome' = [o \in Objects |->
       IF kind = "snopt7" /\ obj[o].lastRes \notin Results \cup {None}
         THEN "threw" ELSE "returned"]
  /\ UNCHANGED <<kind, obj, used>>

(***************************************************************************)
(* serialize(), there and back.  worhp archives everything but the log;    *)
(* snopt7, which has neither bool options nor caches, everything.          *)
(***************************************************************************)
(* Slip: the bool options are left out. *)
RestoredWithoutBools(m) ==
  IF kind = "worhp" THEN [m EXCEPT !.log = <<>>, !.bools = NoOptions] ELSE m

Restored(m) == IF kind = "worhp" THEN [m EXCEPT !.log = <<>>] ELSE m

RoundTrip ==
  /\ obj' = [obj EXCEPT !["there"] = Restored(@)]
  /\ UNCHANGED <<kind, used, outcome>>

Next ==
  \/ SetNumericOption \/ SetIntegerOption \/ SetBoolOption \/ ResetOptions
  \/ SetVerbosity \/ SetPolicy
  \/ Evolve \/ Describe \/ RoundTrip

Spec == Init /\ [][Next]_vars

(***************************************************************************)
(* Properties.                                                             *)
(***************************************************************************)
OptionMap(f, values) == DOMAIN f \subseteq STRING /\ \A n \in DOMAIN f : f[n] \in values

(* The members of the objects (worhp.hpp:246-265, snopt7.hpp:266-279), and *)
(* a solver's output and the log never both on.                            *)
TypeOK ==
  /\ kind \in Solvers
  /\ \A o \in Objects :
       LET m == obj[o]
       IN  /\ m.screen \in BOOLEAN /\ m.verbosity \in Nat
           /\ m.select \in Policies /\ m.replace \in Policies
           /\ OptionMap(m.nums, Int) /\ OptionMap(m.ints, Int)
           /\ OptionMap(m.bools, BOOLEAN)
           /\ m.log \in Seq(Problem) /\ m.cache \in Problem \cup {None}
           /\ m.screen => m.verbosity = 0 /\ m.log = <<>>
           /\ used[o] # None => DOMAIN used[o].params = DOMAIN Default[kind]
           /\ outcome[o] \in {"none", "returned", "threw"}

(* No run ignores an option: every option of the user, of whichever map,   *)
(* is in effect with the value it was given, over the file and over what   *)
(* pagmo sets from the problem; otherwise there was no run.                *)
UserOptionsWin ==
  \A o \in Objects : used[o] # None =>
    \A f \in {obj[o].nums, obj[o].ints, obj[o].bools} :
      \A n \in DOMAIN f : used[o].params[n] = f[n]

(* "if the user provides the TolFeas option, use that unconditionally.     *)
(* Otherwise, compute the minimum tolerance" (worhp.cpp:449-453,           *)
(* snopt7.cpp:617-621): the solver never works with a looser tolerance     *)
(* than this problem's tightest, nor with another problem's.               *)
ToleranceOfThisProblem ==
  \A o \in Objects : used[o] # None =>
    LET name == TolFeas[kind]
        ctol == CTol[used[o].prob]
    IN  name \notin DOMAIN obj[o].nums =>
          IF \E i \in DOMAIN ctol : ctol[i] = 0
            THEN used[o].params[name] \in
                   {Default[kind][name]} \cup
                     {f[name] : f \in {g \in File : kind = "worhp" /\ name \in DOMAIN g}}
            ELSE \A i \in DOMAIN ctol : used[o].params[name] <= ctol[i]

(* The solver is told that a problem has derivatives only when it has, or  *)
(* when the user insists: neither a parameter file written for another     *)
(* problem nor an earlier run says so, and for SNOPT not even the user     *)
(* can ("In pagmo that is not allowed", snopt7.cpp:634-640).               *)
DerivativesOfThisProblem ==
  \A o \in Objects : used[o] # None =>
    LET p == used[o].prob
        params == used[o].params
    IN  IF kind = "snopt7"
          THEN params["Derivative option"] = 3 <=> p \in HasGradient
          ELSE \A n \in {"UserDF", "UserDG", "UserHM"} \ DOMAIN obj[o].bools :
                 params[n] <=> p \in (IF n = "UserHM" THEN HasHessians ELSE HasGradient)

(* An object that was pickled any number of times is the one that was not: *)
(* same members, but for the log of a worhp, which is the same or empty,   *)
(* same parameters in every run, same ending of every call.                *)
CopiesAgree ==
  /\ used["here"] = used["there"]
  /\ outcome["here"] = outcome["there"]
  /\ [obj["here"] EXCEPT !.log = <<>>] = [obj["there"] EXCEPT !.log = <<>>]
  /\ \/ obj["there"].log = obj["here"].log
     \/ kind = "worhp" /\ obj["there"].log = <<>>
===============================================================================
