------------------------- MODULE AlgorithmObjectProofs -------------------------
(***************************************************************************)
(* Theorems about AlgorithmObject, for any solver, problems, options and   *)
(* any sequence of calls and archives.                                     *)
(*                                                                         *)
(* CopyInv: what evolve() does, and whether it throws, depends on every    *)
(* member but the log, which a worhp's archive leaves out (Agree).  So two *)
(* objects that agree run with the same parameters and agree afterwards;   *)
(* their logs are the same unless one was restored since.                  *)
(*                                                                         *)
(* UsedInv: the parameters of the last run are those of the options the    *)
(* object still has, so what a run used is a question about Parameters     *)
(* alone.  MembersInv: the types of the members.                           *)
(*                                                                         *)
(* PicklingIsTransparent assumes nothing of the constants, the others      *)
(* ObjectAssumption and ParameterAssumption.                               *)
(***************************************************************************)
EXTENDS AlgorithmObject, SequenceTheorems, WellFoundedInduction, TLAPS

Fields == {"screen", "verbosity", "select", "replace", "nums", "ints", "bools",
           "lastRes", "log", "cache"}

IsMembers(m) == DOMAIN m = Fields /\ m = [f \in Fields |-> m[f]]

(* m and n are the same but for the log. *)
Agree(m, n) ==
  /\ m.screen = n.screen /\ m.verbosity = n.verbosity
  /\ m.select = n.select /\ m.replace = n.replace
  /\ m.nums = n.nums /\ m.ints = n.ints /\ m.bools = n.bools
  /\ m.lastRes = n.lastRes /\ m.cache = n.cache

LogsAgree(m, n) == m.log = n.log \/ (kind = "worhp" /\ n.log = <<>>)

CopyInv ==
  /\ kind \in Solvers
  /\ DOMAIN obj = Objects /\ obj = [o \in Objects |-> obj[o]]
  /\ \A o \in Objects : IsMembers(obj[o])
  /\ Agree(obj["here"], obj["there"])
  /\ LogsAgree(obj["here"], obj["there"])
  /\ used["here"] = used["there"]
  /\ outcome["here"] = outcome["there"]

-------------------------------------------------------------------------------
LEMMA AgreeingMembers ==
  ASSUME NEW m, NEW n, IsMembers(m), IsMembers(n), Agree(m, n)
  PROVE  [m EXCEPT !.log = <<>>] = [n EXCEPT !.log = <<>>]
<1>1. \A f \in Fields \ {"log"} : m[f] = n[f]
  BY DEF Agree, Fields
<1>2. /\ [m EXCEPT !.log = <<>>] = [f \in Fields |-> IF f = "log" THEN <<>> ELSE m[f]]
      /\ [n EXCEPT !.log = <<>>] = [f \in Fields |-> IF f = "log" THEN <<>> ELSE n[f]]
  BY DEF IsMembers, Fields
<1>3. [f \in Fields |-> IF f = "log" THEN <<>> ELSE m[f]]
        = [f \in Fields |-> IF f = "log" THEN <<>> ELSE n[f]]
  BY <1>1
<1> QED
  BY <1>2, <1>3

(* A call that takes both objects to members that agree.                   *)
LEMMA SameCall ==
  ASSUME kind \in Solvers, NEW h, NEW t, IsMembers(h), IsMembers(t), Agree(h, t), LogsAgree(h, t),
         kind' = kind,
         obj' = [o \in Objects |-> IF o = "here" THEN h ELSE t],
         used'["here"] = used'["there"], outcome'["here"] = outcome'["there"]
  PROVE  CopyInv'
<1>1. obj'["here"] = h /\ obj'["there"] = t
  BY DEF Objects
<1>2. DOMAIN obj' = Objects /\ obj' = [o \in Objects |-> obj'[o]]
  OBVIOUS
<1>3. \A o \in Objects : obj'[o] = h \/ obj'[o] = t
  BY <1>1 DEF Objects
<1>4. (\A o \in Objects : IsMembers(obj[o]))'
  BY <1>3 DEF IsMembers
<1>5. Agree(obj["here"], obj["there"])'
  BY <1>1 DEF Agree
<1>6. LogsAgree(obj["here"], obj["there"])'
  BY <1>1 DEF LogsAgree
<1> QED
  BY <1>2, <1>4, <1>5, <1>6 DEF CopyInv

(* A setter gives one member, which is not the log, the same value in both *)
(* objects.                                                                *)
LEMMA SetOne ==
  ASSUME CopyInv, NEW field \in Fields \ {"log"}, NEW new,
         obj' = [o \in Objects |-> [obj[o] EXCEPT ![field] = new]],
         kind' = kind,
         used'["here"] = used'["there"], outcome'["here"] = outcome'["there"]
  PROVE  CopyInv'
<1> DEFINE h == [obj["here"] EXCEPT ![field] = new]
           t == [obj["there"] EXCEPT ![field] = new]
<1>1. IsMembers(h) /\ IsMembers(t)
  BY DEF CopyInv, IsMembers, Objects
<1>2. Agree(h, t)
  BY DEF CopyInv, IsMembers, Objects, Agree, Fields
<1>3. LogsAgree(h, t)
  BY DEF CopyInv, IsMembers, Objects, LogsAgree, Fields
<1>4. obj' = [o \in Objects |-> IF o = "here" THEN h ELSE t]
  BY DEF Objects
<1> HIDE DEF h, t
<1> QED
  BY <1>1, <1>2, <1>3, <1>4, SameCall DEF CopyInv

LEMMA SettersCopy ==
  ASSUME CopyInv,
         \/ SetNumericOption \/ SetIntegerOption \/ SetBoolOption \/ ResetOptions
         \/ SetVerbosity \/ SetPolicy
  PROVE  CopyInv'
<1>0. \A o \in Objects : obj[o].nums = obj["here"].nums /\ obj[o].ints = obj["here"].ints
                           /\ obj[o].bools = obj["here"].bools
                           /\ obj[o].screen = obj["here"].screen
  BY DEF CopyInv, Agree, Objects
<1>1. CASE SetNumericOption
  <2>1. PICK option \in NumOptions[kind] :
          Set(LAMBDA m : [m EXCEPT !.nums = Put(@, option)])
    BY <1>1 DEF SetNumericOption
  <2>2. obj' = [o \in Objects |->
                  [obj[o] EXCEPT !["nums"] = Put(obj["here"].nums, option)]]
    BY <1>0, <2>1 DEF Set
  <2> QED
    BY <2>1, <2>2, SetOne DEF Set, Fields, Objects
<1>2. CASE SetIntegerOption
  <2>1. PICK option \in IntOptions[kind] :
          Set(LAMBDA m : [m EXCEPT !.ints = Put(@, option)])
    BY <1>2 DEF SetIntegerOption
  <2>2. obj' = [o \in Objects |->
                  [obj[o] EXCEPT !["ints"] = Put(obj["here"].ints, option)]]
    BY <1>0, <2>1 DEF Set
  <2> QED
    BY <2>1, <2>2, SetOne DEF Set, Fields, Objects
<1>3. CASE SetBoolOption
  <2>1. PICK option \in BoolOptions[kind] :
          Set(LAMBDA m : [m EXCEPT !.bools = Put(@, option)])
    BY <1>3 DEF SetBoolOption
  <2>2. obj' = [o \in Objects |->
                  [obj[o] EXCEPT !["bools"] = Put(obj["here"].bools, option)]]
    BY <1>0, <2>1 DEF Set
  <2> QED
    BY <2>1, <2>2, SetOne DEF Set, Fields, Objects
<1>4. CASE ResetOptions
  <2>1. PICK field \in {"nums", "ints", "bools"} :
          obj' = [o \in Objects |-> [obj[o] EXCEPT ![field] = NoOptions]]
    BY <1>4 DEF ResetOptions, Set
  <2> QED
    BY <1>4, <2>1, SetOne DEF ResetOptions, Set, Fields, Objects
<1>5. CASE SetVerbosity
  <2>1. PICK n \in Verbosities :
          /\ obj' = [o \in Objects |-> IF VerbosityAllowed(obj[o], n)
                                        THEN [obj[o] EXCEPT !.verbosity = n] ELSE obj[o]]
          /\ outcome' = [o \in Objects |->
                            IF VerbosityAllowed(obj[o], n) THEN "returned" ELSE "threw"]
          /\ used' = [o \in Objects |-> None]
          /\ kind' = kind
    BY <1>5 DEF SetVerbosity
  <2>2. \A o \in Objects : VerbosityAllowed(obj[o], n) <=> VerbosityAllowed(obj["here"], n)
    BY <1>0 DEF VerbosityAllowed
  <2>3. used'["here"] = used'["there"] /\ outcome'["here"] = outcome'["there"]
    BY <2>1, <2>2 DEF Objects
  <2>4. CASE VerbosityAllowed(obj["here"], n)
    <3>1. obj' = [o \in Objects |-> [obj[o] EXCEPT !["verbosity"] = n]]
      BY <2>1, <2>2, <2>4
    <3>2. "verbosity" \in Fields \ {"log"} /\ kind' = kind
      BY <2>1 DEF Fields
    <3> QED
      BY <2>3, <3>1, <3>2, SetOne
  <2>5. CASE ~VerbosityAllowed(obj["here"], n)
    <3>1. obj' = obj
      BY <2>1, <2>2, <2>5 DEF CopyInv
    <3> QED
      BY <2>1, <2>3, <3>1 DEF CopyInv, LogsAgree
  <2> QED
    BY <2>4, <2>5
<1>6. CASE SetPolicy
  <2>1. CASE UNCHANGED <<kind, obj, used>> /\ outcome' = [o \in Objects |-> "threw"]
    BY <2>1 DEF CopyInv, LogsAgree, Objects
  <2>2. CASE \E policy \in UserPolicies :
               \/ Set(LAMBDA m : [m EXCEPT !.select = policy])
               \/ Set(LAMBDA m : [m EXCEPT !.replace = policy])
    <3>1. PICK policy \in UserPolicies, field \in {"select", "replace"} :
            obj' = [o \in Objects |-> [obj[o] EXCEPT ![field] = policy]]
      BY <2>2 DEF Set
    <3> QED
      BY <2>2, <3>1, SetOne DEF Set, Fields, Objects
  <2> QED
    BY <1>6, <2>1, <2>2 DEF SetPolicy
<1> QED
  BY <1>1, <1>2, <1>3, <1>4, <1>5, <1>6

-------------------------------------------------------------------------------
(* evolve() *)

(* What a run needs of an object is in the members that agree.             *)
LEMMA SameRun ==
  ASSUME NEW m, NEW n, Agree(m, n), NEW p
  PROVE  /\ OptionsAccepted(m) <=> OptionsAccepted(n)
         /\ Lines(m, p) = Lines(n, p)
         /\ \A code : Reportable(m, code) <=> Reportable(n, code)
         /\ \A file : Parameters(m, p, file) = Parameters(n, p, file)
         /\ \A ending, code : Completes(m, ending, code) <=> Completes(n, ending, code)
<1>1. OptionsAccepted(m) <=> OptionsAccepted(n)
  BY DEF Agree, OptionsAccepted, NamesKnown
<1>2. Lines(m, p) = Lines(n, p)
  BY DEF Agree, Lines
<1>3. \A code : Reportable(m, code) <=> Reportable(n, code)
  BY DEF Agree, Reportable
<1>4. \A file : Parameters(m, p, file) = Parameters(n, p, file)
  BY DEF Agree, Parameters, WorhpParameters, SnoptParameters, WorhpTolerance,
         SnoptTolerance
<1>5. \A ending, code : Completes(m, ending, code) <=> Completes(n, ending, code)
  BY <1>1, <1>3 DEF Completes
<1> QED
  BY <1>1, <1>2, <1>3, <1>4, <1>5

LEMMA SameMembersAfter ==
  ASSUME NEW m, NEW n, IsMembers(m), IsMembers(n), Agree(m, n), LogsAgree(m, n),
         kind \in Solvers, NEW p, NEW ending, NEW code
  PROVE  LET h == MembersAfter(m, p, ending, code)
             t == MembersAfter(n, p, ending, code)
         IN  IsMembers(h) /\ IsMembers(t) /\ Agree(h, t) /\ LogsAgree(h, t)
<1>1. CASE kind = "worhp"
  <2>1. CASE ending = "unavailable"
    BY <1>1, <2>1 DEF MembersAfter, WorhpMembers
  <2>2. CASE ending # "unavailable"
    <3> DEFINE ran == OptionsAccepted(m) /\ ending \in Ran
               l == IF ran THEN Lines(m, p) ELSE <<>>
               c == IF ran THEN p ELSE m.cache
               r == IF OptionsAccepted(m) /\ ending = "completed" THEN code
                    ELSE m.lastRes
    <3>1. WorhpMembers(m, p, ending, code)
            = [m EXCEPT !.log = l, !.cache = c, !.lastRes = r]
      BY <2>2 DEF WorhpMembers
    <3>2. WorhpMembers(n, p, ending, code)
            = [n EXCEPT !.log = l, !.cache = c, !.lastRes = r]
      <4>1. /\ OptionsAccepted(m) <=> OptionsAccepted(n)
            /\ Lines(m, p) = Lines(n, p) /\ m.cache = n.cache /\ m.lastRes = n.lastRes
        BY SameRun DEF Agree
      <4> QED
        BY <2>2, <4>1 DEF WorhpMembers
    <3> HIDE DEF ran, l, c, r
    <3> QED
      BY <1>1, <3>1, <3>2 DEF MembersAfter, IsMembers, Agree, LogsAgree, Fields
  <2> QED
    BY <2>1, <2>2
<1>2. CASE kind = "snopt7"
  <2>1. m.log = n.log
    BY <1>2 DEF LogsAgree
  <2>2. CASE ~(OptionsAccepted(m) /\ ending \in Ran)
    BY <1>2, <2>2, SameRun DEF MembersAfter, SnoptMembers
  <2>3. CASE OptionsAccepted(m) /\ ending \in Ran
    <3>1. PICK l, r :
            /\ SnoptMembers(m, p, ending, code) = [m EXCEPT !.lastRes = r, !.log = l]
            /\ SnoptMembers(n, p, ending, code) = [n EXCEPT !.lastRes = r, !.log = l]
      BY <2>1, <2>3, SameRun DEF SnoptMembers
    <3> QED
      BY <1>2, <3>1 DEF MembersAfter, IsMembers, Agree, LogsAgree, Fields
  <2> QED
    BY <2>2, <2>3
<1> QED
  BY <1>1, <1>2 DEF Solvers

LEMMA EvolveCopy ==
  ASSUME CopyInv, Evolve
  PROVE  CopyInv'
<1>1. PICK p \in Problem, file \in File, ending \in Endings, code \in Codes :
        /\ obj' = [o \in Objects |-> MembersAfter(obj[o], p, ending, code)]
        /\ used' = [o \in Objects |->
                      IF ending \in Ran /\ OptionsAccepted(obj[o])
                        THEN [prob |-> p, file |-> file,
                              params |-> Parameters(obj[o], p, file)]
                        ELSE None]
        /\ outcome' = [o \in Objects |->
                         IF Completes(obj[o], ending, code) THEN "returned" ELSE "threw"]
        /\ kind' = kind
  BY DEF Evolve
<1>2. /\ kind \in Solvers /\ IsMembers(obj["here"]) /\ IsMembers(obj["there"])
      /\ Agree(obj["here"], obj["there"]) /\ LogsAgree(obj["here"], obj["there"])
  BY DEF CopyInv, Objects
<1>3. used'["here"] = used'["there"] /\ outcome'["here"] = outcome'["there"]
  BY <1>1, <1>2, SameRun DEF Objects
<1> DEFINE h == MembersAfter(obj["here"], p, ending, code)
           t == MembersAfter(obj["there"], p, ending, code)
<1>4. IsMembers(h) /\ IsMembers(t) /\ Agree(h, t) /\ LogsAgree(h, t)
  BY <1>2, SameMembersAfter
<1>5. obj' = [o \in Objects |-> IF o = "here" THEN h ELSE t]
  BY <1>1 DEF Objects
<1> HIDE DEF h, t
<1> QED
  BY <1>1, <1>2, <1>3, <1>4, <1>5, SameCall

LEMMA RoundTripCopy ==
  ASSUME CopyInv, RoundTrip
  PROVE  CopyInv'
<1> DEFINE t == Restored(obj["there"])
<1>1. /\ IsMembers(obj["here"]) /\ IsMembers(obj["there"])
      /\ Agree(obj["here"], obj["there"]) /\ LogsAgree(obj["here"], obj["there"])
  BY DEF CopyInv, Objects
<1>2. IsMembers(t) /\ Agree(obj["here"], t) /\ LogsAgree(obj["here"], t)
  BY <1>1 DEF Restored, IsMembers, Agree, LogsAgree, Fields
<1>3. obj' = [o \in Objects |-> IF o = "here" THEN obj["here"] ELSE t]
  BY DEF RoundTrip, CopyInv, Objects
<1> HIDE DEF t
<1> QED
  BY <1>1, <1>2, <1>3, SameCall DEF RoundTrip, CopyInv

LEMMA InitCopy == Init => CopyInv
BY DEF Init, CopyInv, IsMembers, Agree, LogsAgree, Fields, Objects

LEMMA CopyStep ==
  ASSUME CopyInv, [Next]_vars
  PROVE  CopyInv'
<1>1. CASE UNCHANGED vars
  BY <1>1 DEF vars, CopyInv, LogsAgree
<1>2. CASE Describe
  <2>1. obj["here"].lastRes = obj["there"].lastRes
    BY DEF CopyInv, Agree
  <2>2. outcome'["here"] = outcome'["there"]
    BY <1>2, <2>1 DEF Describe, Objects
  <2> QED
    BY <1>2, <2>2 DEF Describe, CopyInv, LogsAgree
<1> QED
  BY <1>1, <1>2, SettersCopy, EvolveCopy, RoundTripCopy DEF Next

(* Pickling is transparent: an object that went through an archive any     *)
(* number of times, at any moments, is the one that did not, runs with the *)
(* same parameters and ends every call in the same way; only the log of a  *)
(* worhp may be missing (worhp.hpp:205).                                   *)
THEOREM PicklingIsTransparent == Spec => []CopiesAgree
<1>1. CopyInv => CopiesAgree
  <2>1. SUFFICES ASSUME CopyInv
                 PROVE  CopiesAgree
    OBVIOUS
  <2>2. [obj["here"] EXCEPT !.log = <<>>] = [obj["there"] EXCEPT !.log = <<>>]
    BY <2>1, AgreeingMembers DEF CopyInv, Objects
  <2> QED
    BY <2>1, <2>2 DEF CopyInv, LogsAgree, CopiesAgree
<1> QED
  BY <1>1, InitCopy, CopyStep, PTL DEF Spec

-------------------------------------------------------------------------------
(* The parameters of a run *)

SameOptions(m, n) == m.nums = n.nums /\ m.ints = n.ints /\ m.bools = n.bools

(* The last call to o was a run on p with this file, and o's options are   *)
(* still those it ran with.                                                *)
RunOf(o, p, file) ==
  /\ used[o] = [prob |-> p, file |-> file, params |-> Parameters(obj[o], p, file)]
  /\ OptionsAccepted(obj[o])

UsedInv ==
  \A o \in Objects :
    /\ used[o] # None => \E p \in Problem, file \in File : RunOf(o, p, file)
    /\ kind = "snopt7" => obj[o].bools = NoOptions

LEMMA OptionsDecide ==
  ASSUME NEW m, NEW n, SameOptions(m, n)
  PROVE  /\ OptionsAccepted(m) <=> OptionsAccepted(n)
         /\ \A p, file : Parameters(m, p, file) = Parameters(n, p, file)
<1>1. OptionsAccepted(m) <=> OptionsAccepted(n)
  BY DEF SameOptions, OptionsAccepted, NamesKnown
<1>2. \A p, file : Parameters(m, p, file) = Parameters(n, p, file)
  BY DEF SameOptions, Parameters, WorhpParameters, SnoptParameters, WorhpTolerance,
         SnoptTolerance
<1> QED
  BY <1>1, <1>2

LEMMA RunKeepsOptions ==
  ASSUME NEW m, IsMembers(m), kind \in Solvers, NEW p, NEW ending, NEW code
  PROVE  SameOptions(MembersAfter(m, p, ending, code), m)
BY DEF IsMembers, SameOptions, MembersAfter, WorhpMembers, SnoptMembers, Fields, Solvers

(* A call after which o's options, its last run and the solver are what    *)
(* they were.                                                              *)
LEMMA RunStands ==
  ASSUME UsedInv, NEW o \in Objects, kind' = kind, used'[o] = used[o],
         SameOptions(obj'[o], obj[o])
  PROVE  /\ used'[o] # None => \E p \in Problem, file \in File : RunOf(o, p, file)'
         /\ kind' = "snopt7" => obj'[o].bools = NoOptions
<1>1. ASSUME used'[o] # None
      PROVE  \E p \in Problem, file \in File : RunOf(o, p, file)'
  <2>1. PICK p \in Problem, file \in File : RunOf(o, p, file)
    BY <1>1 DEF UsedInv
  <2>2. /\ OptionsAccepted(obj'[o]) <=> OptionsAccepted(obj[o])
        /\ Parameters(obj'[o], p, file) = Parameters(obj[o], p, file)
    BY OptionsDecide
  <2>3. RunOf(o, p, file)'
    BY <2>1, <2>2 DEF RunOf, OptionsAccepted, NamesKnown, Parameters
  <2> QED
    BY <2>3
<1> QED
  BY <1>1 DEF UsedInv, SameOptions

(* Setting a member leaves the others alone.                               *)
LEMMA OtherMember ==
  ASSUME NEW m, IsMembers(m), NEW f \in Fields, NEW g \in Fields, f # g, NEW v
  PROVE  [m EXCEPT ![g] = v][f] = m[f]
BY DEF IsMembers

LEMMA UsedStep ==
  ASSUME CopyInv, UsedInv, [Next]_vars
  PROVE  UsedInv'
<1>0. \A o \in Objects : IsMembers(obj[o])
  BY DEF CopyInv
<1>1. CASE UNCHANGED <<kind, obj, used>>
  <2>1. \A o \in Objects : kind' = kind /\ used'[o] = used[o] /\ SameOptions(obj'[o], obj[o])
    BY <1>1 DEF SameOptions
  <2> QED
    BY <2>1, RunStands DEF UsedInv
<1>2. CASE RoundTrip
  <2>1. \A o \in Objects : kind' = kind /\ used'[o] = used[o] /\ SameOptions(obj'[o], obj[o])
    BY <1>0, <1>2
       DEF RoundTrip, Restored, SameOptions, CopyInv, IsMembers, Fields, Objects
  <2> QED
    BY <2>1, RunStands DEF UsedInv
<1>3. CASE Evolve
  <2>1. PICK p \in Problem, file \in File, ending \in Endings, code \in Codes :
          /\ obj' = [o \in Objects |-> MembersAfter(obj[o], p, ending, code)]
          /\ used' = [o \in Objects |->
                        IF ending \in Ran /\ OptionsAccepted(obj[o])
                          THEN [prob |-> p, file |-> file,
                                params |-> Parameters(obj[o], p, file)]
                          ELSE None]
          /\ kind' = kind
    BY <1>3 DEF Evolve
  <2>2. ASSUME NEW o \in Objects
        PROVE  /\ used'[o] # None => RunOf(o, p, file)'
               /\ kind' = "snopt7" => obj'[o].bools = NoOptions
    <3>1. SameOptions(obj'[o], obj[o])
      BY <1>0, <2>1, RunKeepsOptions DEF CopyInv
    <3>2. /\ OptionsAccepted(obj'[o]) <=> OptionsAccepted(obj[o])
          /\ Parameters(obj'[o], p, file) = Parameters(obj[o], p, file)
      BY <3>1, OptionsDecide
    <3>3. used'[o] # None => RunOf(o, p, file)'
      BY <2>1, <3>2 DEF RunOf, OptionsAccepted, NamesKnown, Parameters
    <3> QED
      BY <2>1, <3>1, <3>3 DEF UsedInv, SameOptions
  <2> QED
    BY <2>2 DEF UsedInv
<1>4. CASE \/ SetNumericOption \/ SetIntegerOption \/ SetBoolOption \/ ResetOptions
           \/ SetVerbosity \/ (SetPolicy /\ used' # used)
  <2>1. used' = [o \in Objects |-> None] /\ kind' = kind
    BY <1>4 DEF SetNumericOption, SetIntegerOption, SetBoolOption, ResetOptions, Set,
                SetVerbosity, SetPolicy
  <2>2. ASSUME kind = "snopt7", NEW o \in Objects
        PROVE  obj'[o].bools = obj[o].bools
    <3>1. CASE SetNumericOption
      <4>1. PICK option \in NumOptions[kind] :
              obj' = [x \in Objects |-> [obj[x] EXCEPT !["nums"] = Put(@, option)]]
        BY <3>1 DEF SetNumericOption, Set
      <4>2. obj'[o] = [obj[o] EXCEPT !["nums"] = Put(obj[o]["nums"], option)]
        BY <4>1
      <4> QED
        BY <1>0, <4>2, OtherMember DEF Fields
    <3>2. CASE SetIntegerOption
      <4>1. PICK option \in IntOptions[kind] :
              obj' = [x \in Objects |-> [obj[x] EXCEPT !["ints"] = Put(@, option)]]
        BY <3>2 DEF SetIntegerOption, Set
      <4>2. obj'[o] = [obj[o] EXCEPT !["ints"] = Put(obj[o]["ints"], option)]
        BY <4>1
      <4> QED
        BY <1>0, <4>2, OtherMember DEF Fields
    <3>3. CASE SetBoolOption
      BY <2>2, <3>3, ObjectAssumption DEF SetBoolOption
    <3>4. CASE ResetOptions
      <4>1. PICK g \in {"nums", "ints"} :
              obj' = [x \in Objects |-> [obj[x] EXCEPT ![g] = NoOptions]]
        BY <2>2, <3>4 DEF ResetOptions, Set
      <4> QED
        BY <1>0, <4>1, OtherMember DEF Fields
    <3>5. CASE SetVerbosity
      <4>1. PICK n \in Verbosities :
              obj'[o] = obj[o] \/ obj'[o] = [obj[o] EXCEPT !["verbosity"] = n]
        BY <3>5 DEF SetVerbosity
      <4>2. [obj[o] EXCEPT !["verbosity"] = n]["bools"] = obj[o]["bools"]
        BY <1>0, OtherMember DEF Fields
      <4> QED
        BY <4>1, <4>2
    <3>6. CASE SetPolicy /\ used' # used
      <4>1. PICK policy \in UserPolicies, g \in {"select", "replace"} :
              obj' = [x \in Objects |-> [obj[x] EXCEPT ![g] = policy]]
        BY <3>6 DEF SetPolicy, Set
      <4> QED
        BY <1>0, <4>1, OtherMember DEF Fields
    <3> QED
      BY <1>4, <3>1, <3>2, <3>3, <3>4, <3>5, <3>6
  <2> QED
    BY <2>1, <2>2 DEF UsedInv
<1>5. CASE SetPolicy /\ used' = used
  <2>1. kind' = kind
    BY <1>5 DEF SetPolicy, Set
  <2>2. \A o \in Objects : SameOptions(obj'[o], obj[o])
    <3>1. CASE obj' = obj
      BY <3>1 DEF SameOptions
    <3>2. CASE obj' # obj
      <4>1. PICK policy \in UserPolicies, g \in {"select", "replace"} :
              obj' = [x \in Objects |-> [obj[x] EXCEPT ![g] = policy]]
        BY <1>5, <3>2 DEF SetPolicy, Set
      <4>2. \A o \in Objects, f \in {"nums", "ints", "bools"} : obj'[o][f] = obj[o][f]
        BY <1>0, <4>1, OtherMember DEF Fields
      <4> QED
        BY <4>2 DEF SameOptions
    <3> QED
      BY <3>1, <3>2
  <2> QED
    BY <1>5, <2>1, <2>2, RunStands DEF UsedInv
<1> QED
  BY <1>1, <1>2, <1>3, <1>4, <1>5 DEF Next, Describe, vars

LEMMA SpecUsed == Spec => [](CopyInv /\ UsedInv)
<1>1. Init => UsedInv
  BY DEF Init, UsedInv
<1> QED
  BY <1>1, InitCopy, CopyStep, UsedStep, PTL DEF Spec

(* A name is in at most one of the user's maps, if all are accepted.       *)
LEMMA OneMap ==
  ASSUME kind \in Solvers, NEW m, OptionsAccepted(m)
  PROVE  /\ DOMAIN m.nums \cap DOMAIN m.ints = {}
         /\ DOMAIN m.nums \cap DOMAIN m.bools = {}
         /\ DOMAIN m.ints \cap DOMAIN m.bools = {}
BY ParameterAssumption DEF OptionsAccepted, NamesKnown

(* Every option of the user is in effect: over the file, over what pagmo   *)
(* knows of the problem, whichever maps hold it; and a run that would      *)
(* ignore one does not take place.                                         *)
THEOREM UserOptionsAlwaysWin == Spec => []UserOptionsWin
<1>1. ASSUME CopyInv, UsedInv, NEW o \in Objects, used[o] # None,
             NEW f \in {obj[o].nums, obj[o].ints, obj[o].bools}, NEW n \in DOMAIN f
      PROVE  used[o].params[n] = f[n]
  <2>1. PICK p \in Problem, file \in File : RunOf(o, p, file)
    BY <1>1 DEF UsedInv
  <2> DEFINE m == obj[o]
  <2>2. used[o].params = Parameters(m, p, file) /\ OptionsAccepted(m)
    BY <2>1 DEF RunOf
  <2>3. kind \in Solvers /\ f \in {m.nums, m.ints, m.bools}
    BY <1>1 DEF CopyInv
  <2>4. kind = "snopt7" => DOMAIN m.bools = {}
    BY <1>1 DEF UsedInv, NoOptions
  <2> HIDE DEF m
  <2>5. CASE kind = "worhp"
    <3>1. WorhpParameters(m, p, file)[n] = f[n]
      BY <1>1, <2>2, <2>3, OneMap DEF WorhpParameters, @@
    <3> QED
      BY <2>2, <2>5, <3>1 DEF Parameters
  <2>6. CASE kind = "snopt7"
    <3>1. n # "Derivative option"
      BY <1>1, <2>2, <2>3, <2>4, <2>6, ParameterAssumption
         DEF OptionsAccepted, NamesKnown
    <3>2. SnoptParameters(m, p, file)[n] = f[n]
      BY <1>1, <2>2, <2>3, <2>4, <2>6, <3>1, OneMap DEF SnoptParameters, @@, :>
    <3> QED
      BY <2>2, <2>6, <3>2 DEF Parameters
  <2> QED
    BY <2>3, <2>5, <2>6 DEF Solvers
<1>2. CopyInv /\ UsedInv => UserOptionsWin
  BY <1>1 DEF UserOptionsWin
<1> QED
  BY <1>2, SpecUsed, PTL

(* WORHP is told that it may ask for derivatives exactly if the problem    *)
(* has them or the user says so, whatever the parameter file says; SNOPT   *)
(* exactly if the problem has a gradient.                                  *)
THEOREM DerivativesAreTheProblems == Spec => []DerivativesOfThisProblem
<1>1. ASSUME CopyInv, UsedInv, NEW o \in Objects, used[o] # None
      PROVE  LET p == used[o].prob
                 params == used[o].params
             IN  IF kind = "snopt7"
                   THEN params["Derivative option"] = 3 <=> p \in HasGradient
                   ELSE \A n \in {"UserDF", "UserDG", "UserHM"} \ DOMAIN obj[o].bools :
                          params[n] <=> p \in (IF n = "UserHM" THEN HasHessians
                                                               ELSE HasGradient)
  <2>1. PICK p \in Problem, file \in File : RunOf(o, p, file)
    BY <1>1 DEF UsedInv
  <2> DEFINE m == obj[o]
  <2>2. /\ used[o].params = Parameters(m, p, file) /\ used[o].prob = p
        /\ OptionsAccepted(m) /\ kind \in Solvers
    BY <1>1, <2>1 DEF RunOf, CopyInv
  <2> HIDE DEF m
  <2>3. CASE kind = "snopt7"
    <3>1. SnoptParameters(m, p, file)["Derivative option"]
            = IF p \in HasGradient THEN 3 ELSE 0
      BY DEF SnoptParameters, @@, :>
    <3>2. used[o].params = SnoptParameters(m, p, file)
      BY <2>2, <2>3 DEF Parameters
    <3>3. used[o].params["Derivative option"] = 3 <=> used[o].prob \in HasGradient
      <4>1. CASE p \in HasGradient
        BY <2>2, <3>1, <3>2, <4>1
      <4>2. CASE p \notin HasGradient
        <5>1. used[o].params["Derivative option"] = 0
          BY <3>1, <3>2, <4>2, Zenon
        <5>2. used[o].prob \notin HasGradient
          BY <2>2, <4>2
        <5>3. 0 # 3
          OBVIOUS
        <5> QED
          BY <5>1, <5>2, <5>3, Zenon
      <4> QED
        BY <4>1, <4>2
    <3> QED
      BY <2>3, <3>3
  <2>4. ASSUME kind = "worhp",
               NEW n \in {"UserDF", "UserDG", "UserHM"}, n \notin DOMAIN m.bools
        PROVE  used[o].params[n]
                 = (p \in (IF n = "UserHM" THEN HasHessians ELSE HasGradient))
    <3>1. n \notin DOMAIN m.nums /\ n \notin DOMAIN m.ints
      BY <2>2, <2>4, ParameterAssumption DEF OptionsAccepted, NamesKnown, Solvers
    <3>2. n \notin DOMAIN WorhpTolerance(m, p)
      BY <2>4 DEF WorhpTolerance, NoOptions, @@, :>
    <3>3. n \in DOMAIN UserDerivatives(p)
          /\ UserDerivatives(p)[n]
               = (p \in (IF n = "UserHM" THEN HasHessians ELSE HasGradient))
      BY <2>4 DEF UserDerivatives, @@, :>
    <3>4. WorhpParameters(m, p, file)[n] = UserDerivatives(p)[n]
      BY <2>4, <3>1, <3>2, <3>3 DEF WorhpParameters, @@
    <3> QED
      BY <2>2, <2>4, <3>3, <3>4 DEF Parameters
  <2> QED
    BY <2>2, <2>3, <2>4 DEF Solvers, m
<1>2. CopyInv /\ UsedInv => DerivativesOfThisProblem
  BY <1>1 DEF DerivativesOfThisProblem
<1> QED
  BY <1>2, SpecUsed, PTL
-------------------------------------------------------------------------------
LEMMA Least ==
  ASSUME NEW T, T \subseteq Nat, T # {}
  PROVE  Min(T) \in T /\ \A y \in T : Min(T) <= y
<1>1. PICK x \in T : \A y \in T : ~ (<<y, x>> \in OpToRel(<, Nat))
  BY NatLessThanWellFounded, WFMin, Zenon
<1>2. ASSUME NEW y \in T
      PROVE  x <= y
  <2>1. <<y, x>> \in OpToRel(<, Nat) <=> y < x
    BY DEF OpToRel
  <2>2. ~(y < x)
    BY <1>1, <2>1, Zenon
  <2> QED
    BY <2>2
<1> QED
  BY <1>2 DEF Min

LEMMA TightestBounds ==
  ASSUME NEW p \in Problem, CTol[p] # <<>>
  PROVE  /\ \A i \in DOMAIN CTol[p] : Tightest(p) <= CTol[p][i]
         /\ PositiveMinimum(p) <=> ~ \E i \in DOMAIN CTol[p] : CTol[p][i] = 0
<1> DEFINE T == {CTol[p][i] : i \in DOMAIN CTol[p]}
<1>1. CTol[p] \in Seq(Nat)
  BY ObjectAssumption
<1>2. T \subseteq Nat /\ T # {}
  <2>1. DOMAIN CTol[p] # {}
    <3>1. Len(CTol[p]) \in Nat \ {0}
      BY <1>1, EmptySeq
    <3>2. DOMAIN CTol[p] = 1..Len(CTol[p])
      BY <1>1
    <3>3. 1 \in 1..Len(CTol[p])
      BY <3>1
    <3> QED
      BY <3>2, <3>3
  <2>2. \A i \in DOMAIN CTol[p] : CTol[p][i] \in Nat
    BY <1>1
  <2> QED
    BY <2>1, <2>2
<1>3. Min(T) \in T /\ \A y \in T : Min(T) <= y
  BY <1>2, Least
<1>4. PositiveMinimum(p) <=> Min(T) > 0
  BY DEF PositiveMinimum
<1>5. Tightest(p) = Min(T)
  BY DEF Tightest
<1>6. Min(T) > 0 <=> \A y \in T : y # 0
  <2> HIDE DEF T
  <2>1. Min(T) \in Nat
    BY <1>2, <1>3
  <2> QED
    BY <1>2, <1>3, <2>1
<1> QED
  BY <1>3, <1>4, <1>5, <1>6

(* The tolerance of the constraints is the problem's tightest, unless the  *)
(* user gave one; a problem with a zero among its tolerances leaves it to  *)
(* the file and the solver.                                                *)
THEOREM ToleranceIsTheProblems == Spec => []ToleranceOfThisProblem
<1>1. ASSUME CopyInv, UsedInv, NEW o \in Objects, used[o] # None,
             TolFeas[kind] \notin DOMAIN obj[o].nums
      PROVE  LET name == TolFeas[kind]
                 ctol == CTol[used[o].prob]
             IN  IF \E i \in DOMAIN ctol : ctol[i] = 0
                   THEN used[o].params[name] \in
                          {Default[kind][name]} \cup
                            {f[name] : f \in {g \in File : kind = "worhp" /\ name \in DOMAIN g}}
                   ELSE \A i \in DOMAIN ctol : used[o].params[name] <= ctol[i]
  <2>1. PICK p \in Problem, file \in File : RunOf(o, p, file)
    BY <1>1 DEF UsedInv
  <2> DEFINE m == obj[o]
  <2>2. /\ used[o].params = Parameters(m, p, file) /\ used[o].prob = p
        /\ OptionsAccepted(m) /\ kind \in Solvers
        /\ kind = "snopt7" => m.bools = NoOptions
    BY <1>1, <2>1 DEF RunOf, CopyInv, UsedInv
  <2>3. TolFeas[kind] \notin DOMAIN m.nums
    BY <1>1
  <2> HIDE DEF m
  <2>4. TolFeas[kind] \notin DOMAIN m.ints /\ TolFeas[kind] \notin DOMAIN m.bools
    <3>1. TolFeas[kind] \in Param[kind].num
      <4>1. CASE kind = "worhp"
        BY <4>1, ParameterAssumption DEF TolFeas
      <4>2. CASE kind = "snopt7"
        BY <4>2, ParameterAssumption DEF TolFeas
      <4> QED
        BY <2>2, <4>1, <4>2 DEF Solvers
    <3> QED
      BY <2>2, <3>1, ParameterAssumption DEF OptionsAccepted, NamesKnown
  <2>5. CTol[p] # <<>> /\ PositiveMinimum(p)
          => used[o].params[TolFeas[kind]] = Tightest(p)
    <3>1. ASSUME kind = "worhp", PositiveMinimum(p)
          PROVE  WorhpParameters(m, p, file)["TolFeas"] = Tightest(p)
      <4>1. /\ "TolFeas" \in DOMAIN WorhpTolerance(m, p)
            /\ WorhpTolerance(m, p)["TolFeas"] = Tightest(p)
        BY <2>3, <3>1 DEF WorhpTolerance, TolFeas, @@, :>
      <4> QED
        BY <2>3, <2>4, <3>1, <4>1 DEF WorhpParameters, TolFeas, @@
    <3>2. ASSUME kind = "snopt7", PositiveMinimum(p)
          PROVE  SnoptParameters(m, p, file)["Major feasibility tolerance"] = Tightest(p)
      <4>1. /\ TolFeas.snopt7 \in DOMAIN SnoptTolerance(m, p)
            /\ SnoptTolerance(m, p)[TolFeas.snopt7] = Tightest(p)
        BY <2>3, <3>2 DEF SnoptTolerance, TolFeas, @@, :>
      <4> QED
        BY <2>3, <2>4, <3>2, <4>1 DEF SnoptParameters, TolFeas, @@, :>
    <3>3. CASE kind = "worhp"
      BY <2>2, <3>1, <3>3 DEF Parameters, TolFeas
    <3>4. CASE kind = "snopt7"
      BY <2>2, <3>2, <3>4 DEF Parameters, TolFeas
    <3> QED
      BY <2>2, <3>3, <3>4 DEF Solvers
  <2>6. ASSUME ~PositiveMinimum(p)
        PROVE  used[o].params[TolFeas[kind]] \in
                 {Default[kind][TolFeas[kind]]} \cup
                   {f[TolFeas[kind]] : f \in {g \in File : kind = "worhp" /\ TolFeas[kind] \in DOMAIN g}}
    <3>1. ASSUME kind = "worhp"
          PROVE  WorhpParameters(m, p, file)["TolFeas"]
                   = IF "TolFeas" \in DOMAIN file THEN file["TolFeas"]
                                                  ELSE Default.worhp["TolFeas"]
      <4>1. WorhpTolerance(m, p) = NoOptions
        BY <2>6 DEF WorhpTolerance
      <4>2. "TolFeas" \notin DOMAIN UserDerivatives(p) \cup DOMAIN Together(p)
        BY DEF UserDerivatives, Together, NoOptions, @@, :>
      <4>3. "TolFeas" \in DOMAIN Default.worhp
        BY ObjectAssumption, ParameterAssumption DEF Solvers
      <4> QED
        BY <2>3, <2>4, <3>1, <4>1, <4>2, <4>3 DEF WorhpParameters, TolFeas, NoOptions, @@
    <3>2. ASSUME kind = "snopt7"
          PROVE  SnoptParameters(m, p, file)["Major feasibility tolerance"]
                   = Default.snopt7["Major feasibility tolerance"]
      <4>1. SnoptTolerance(m, p) = NoOptions
        BY <2>6 DEF SnoptTolerance
      <4>2. "Major feasibility tolerance" \in DOMAIN Default.snopt7
        BY ObjectAssumption, ParameterAssumption DEF Solvers
      <4> QED
        BY <2>3, <2>4, <3>2, <4>1, <4>2 DEF SnoptParameters, TolFeas, NoOptions, @@, :>
    <3>3. CASE kind = "worhp"
      <4>1. used[o].params["TolFeas"] = IF "TolFeas" \in DOMAIN file THEN file["TolFeas"]
                                                  ELSE Default.worhp["TolFeas"]
        BY <2>2, <3>1, <3>3 DEF Parameters
      <4> QED
        BY <3>3, <4>1 DEF TolFeas
    <3>4. CASE kind = "snopt7"
      <4>1. used[o].params[TolFeas[kind]] = Default[kind][TolFeas[kind]]
        BY <2>2, <3>2, <3>4 DEF Parameters, TolFeas
      <4> QED
        BY <4>1
    <3> QED
      BY <2>2, <3>3, <3>4 DEF Solvers
  <2>7. CASE CTol[p] = <<>>
    BY <2>2, <2>7
  <2>8. CASE CTol[p] # <<>>
    BY <2>2, <2>5, <2>6, <2>8, TightestBounds
  <2> QED
    BY <2>7, <2>8
<1>2. CopyInv /\ UsedInv => ToleranceOfThisProblem
  BY <1>1 DEF ToleranceOfThisProblem
<1> QED
  BY <1>2, SpecUsed, PTL
-------------------------------------------------------------------------------
(* Types *)

MemberOK(m) ==
  /\ m.screen \in BOOLEAN /\ m.verbosity \in Nat
  /\ m.select \in Policies /\ m.replace \in Policies
  /\ OptionMap(m.nums, Int) /\ OptionMap(m.ints, Int)
  /\ OptionMap(m.bools, BOOLEAN)
  /\ m.log \in Seq(Problem) /\ m.cache \in Problem \cup {None}
  /\ m.screen => m.verbosity = 0 /\ m.log = <<>>

Outcomes == {"none", "returned", "threw"}

MembersInv == \A o \in Objects : MemberOK(obj[o]) /\ outcome[o] \in Outcomes

LEMMA PutMap ==
  ASSUME NEW f, NEW values, OptionMap(f, values),
         NEW option \in [name : STRING, value : values]
  PROVE  OptionMap(Put(f, option), values)
<1>1. DOMAIN Put(f, option) = DOMAIN f \cup {option.name}
  BY DEF Put, @@, :>
<1>2. \A n \in DOMAIN Put(f, option) :
        Put(f, option)[n] = IF n = option.name THEN option.value ELSE f[n]
  BY DEF Put, @@, :>
<1>3. option.name \in STRING /\ option.value \in values
  OBVIOUS
<1> QED
  BY <1>1, <1>2, <1>3, Zenon DEF OptionMap

(* One member set to a value of its type.                                  *)
LEMMA SetMember ==
  ASSUME NEW m, IsMembers(m), MemberOK(m), NEW v, NEW g,
         \/ g \in {"select", "replace"} /\ v \in Policies
         \/ g \in {"nums", "ints"} /\ OptionMap(v, Int)
         \/ g = "bools" /\ OptionMap(v, BOOLEAN)
         \/ g = "verbosity" /\ v \in Nat /\ (m.screen => v = 0)
  PROVE  MemberOK([m EXCEPT ![g] = v])
<1>1. \A f \in Fields : [m EXCEPT ![g] = v][f] = IF f = g THEN v ELSE m[f]
  BY DEF IsMembers
<1> DEFINE n == [m EXCEPT ![g] = v]
<1>2. \A f \in Fields \ {g} : n[f] = m[f]
  BY <1>1
<1>3. g \in Fields /\ n[g] = v
  BY <1>1 DEF Fields
<1> HIDE DEF n
<1>4. CASE g \in {"select", "replace"} /\ v \in Policies
  BY <1>2, <1>3, <1>4 DEF MemberOK, Fields
<1>5. CASE g \in {"nums", "ints"} /\ OptionMap(v, Int)
  BY <1>2, <1>3, <1>5 DEF MemberOK, Fields
<1>6. CASE g = "bools" /\ OptionMap(v, BOOLEAN)
  BY <1>2, <1>3, <1>6 DEF MemberOK, Fields
<1>7. CASE g = "verbosity" /\ v \in Nat /\ (m.screen => v = 0)
  BY <1>2, <1>3, <1>7 DEF MemberOK, Fields
<1> QED
  BY <1>4, <1>5, <1>6, <1>7 DEF n

(* What a run leaves in the object: a log only when it writes one.         *)
LEMMA RunMembers ==
  ASSUME NEW m, IsMembers(m), MemberOK(m), kind \in Solvers,
         NEW p \in Problem, NEW ending, NEW code
  PROVE  MemberOK(MembersAfter(m, p, ending, code))
<1>1. Lines(m, p) \in Seq(Problem) /\ (m.screen => Lines(m, p) = <<>>)
  BY DEF Lines, MemberOK
<1>2. ASSUME NEW l \in {<<>>, m.log, Lines(m, p)}, NEW c \in {p, m.cache}, NEW r, NEW x,
             \/ x = [m EXCEPT !.log = l, !.cache = c, !.lastRes = r]
             \/ x = [m EXCEPT !.lastRes = r, !.log = l]
      PROVE  MemberOK(x)
  <2>1. l \in Seq(Problem) /\ (m.screen => l = <<>>) /\ c \in Problem \cup {None}
    <3>1. m.log \in Seq(Problem) /\ (m.screen => m.log = <<>>)
          /\ m.cache \in Problem \cup {None}
      BY DEF MemberOK
    <3>2. <<>> \in Seq(Problem)
      BY EmptySeq
    <3> QED
      BY <1>1, <1>2, <3>1, <3>2, Zenon
  <2> DEFINE n == [m EXCEPT !.log = l, !.cache = c, !.lastRes = r]
             k == [m EXCEPT !.lastRes = r, !.log = l]
  <2>2. /\ \A f \in Fields \ {"log", "cache", "lastRes"} : n[f] = m[f]
        /\ n.log = l /\ n.cache = c
    BY DEF IsMembers, Fields
  <2>3. /\ \A f \in Fields \ {"log", "lastRes"} : k[f] = m[f]
        /\ k.log = l
    BY DEF IsMembers, Fields
  <2> HIDE DEF n, k
  <2>4. MemberOK(n)
    BY <2>1, <2>2 DEF MemberOK, Fields
  <2>5. MemberOK(k)
    BY <2>1, <2>3 DEF MemberOK, Fields
  <2> QED
    BY <1>2, <2>4, <2>5 DEF n, k
<1>3. CASE kind = "worhp" /\ ending = "unavailable"
  BY <1>3 DEF MembersAfter, WorhpMembers
<1>4. CASE kind = "worhp" /\ ending # "unavailable"
  <2>1. PICK l, c, r :
          /\ l \in {<<>>, m.log, Lines(m, p)} /\ c \in {p, m.cache}
          /\ WorhpMembers(m, p, ending, code)
               = [m EXCEPT !.log = l, !.cache = c, !.lastRes = r]
    BY <1>4 DEF WorhpMembers
  <2>2. MemberOK(WorhpMembers(m, p, ending, code))
    BY <1>2, <2>1
  <2> QED
    BY <1>4, <2>2 DEF MembersAfter
<1>5. CASE kind = "snopt7" /\ OptionsAccepted(m) /\ ending \in Ran
  <2>1. PICK r : \E l \in {<<>>, m.log, Lines(m, p)} :
          SnoptMembers(m, p, ending, code) = [m EXCEPT !.lastRes = r, !.log = l]
    BY <1>5 DEF SnoptMembers
  <2>2. MemberOK(SnoptMembers(m, p, ending, code))
    BY <1>2, <2>1
  <2> QED
    BY <1>5, <2>2 DEF MembersAfter
<1>6. CASE kind = "snopt7" /\ ~(OptionsAccepted(m) /\ ending \in Ran)
  BY <1>6 DEF MembersAfter, SnoptMembers
<1> QED
  BY <1>3, <1>4, <1>5, <1>6 DEF Solvers

LEMMA ResultsOfCalls ==
  ASSUME MembersInv, [Next]_vars
  PROVE  \A o \in Objects : outcome'[o] \in Outcomes
<1>1. CASE SetVerbosity \/ SetPolicy \/ Evolve \/ Describe
  BY <1>1 DEF SetVerbosity, SetPolicy, Set, Evolve, Describe, Outcomes
<1>2. CASE SetNumericOption \/ SetIntegerOption \/ SetBoolOption \/ ResetOptions
  BY <1>2 DEF SetNumericOption, SetIntegerOption, SetBoolOption, ResetOptions, Set,
              Outcomes
<1>3. CASE RoundTrip \/ UNCHANGED vars
  BY <1>3 DEF RoundTrip, vars, MembersInv
<1> QED
  BY <1>1, <1>2, <1>3 DEF Next

LEMMA MembersStep ==
  ASSUME CopyInv, MembersInv, [Next]_vars
  PROVE  MembersInv'
<1>1. SUFFICES ASSUME NEW o \in Objects
               PROVE  MemberOK(obj'[o])
  BY ResultsOfCalls DEF MembersInv, MemberOK
<1>2. IsMembers(obj[o]) /\ MemberOK(obj[o]) /\ kind \in Solvers
  BY DEF CopyInv, MembersInv
<1>3. OptionMap(NoOptions, Int) /\ OptionMap(NoOptions, BOOLEAN)
  BY DEF OptionMap, NoOptions
<1>4. CASE SetNumericOption
  <2>1. PICK option \in NumOptions[kind] :
          obj'[o] = [obj[o] EXCEPT !["nums"] = Put(obj[o].nums, option)]
    BY <1>4 DEF SetNumericOption, Set
  <2>2. option \in [name : STRING, value : Int]
    BY <1>2, ObjectAssumption
  <2> DEFINE v == Put(obj[o].nums, option)
  <2>3. OptionMap(v, Int)
    BY <1>2, <2>2, PutMap DEF MemberOK
  <2> HIDE DEF v
  <2>4. MemberOK([obj[o] EXCEPT !["nums"] = v])
    BY <1>2, <2>3, SetMember
  <2> QED
    BY <2>1, <2>4, Zenon DEF v
<1>5. CASE SetIntegerOption
  <2>1. PICK option \in IntOptions[kind] :
          obj'[o] = [obj[o] EXCEPT !["ints"] = Put(obj[o].ints, option)]
    BY <1>5 DEF SetIntegerOption, Set
  <2>2. option \in [name : STRING, value : Int]
    BY <1>2, ObjectAssumption
  <2> DEFINE v == Put(obj[o].ints, option)
  <2>3. OptionMap(v, Int)
    BY <1>2, <2>2, PutMap DEF MemberOK
  <2> HIDE DEF v
  <2>4. MemberOK([obj[o] EXCEPT !["ints"] = v])
    BY <1>2, <2>3, SetMember
  <2> QED
    BY <2>1, <2>4, Zenon DEF v
<1>6. CASE SetBoolOption
  <2>1. PICK option \in BoolOptions[kind] :
          obj'[o] = [obj[o] EXCEPT !["bools"] = Put(obj[o].bools, option)]
    BY <1>6 DEF SetBoolOption, Set
  <2>2. option \in [name : STRING, value : BOOLEAN]
    BY <1>2, ObjectAssumption
  <2> DEFINE v == Put(obj[o].bools, option)
  <2>3. OptionMap(v, BOOLEAN)
    BY <1>2, <2>2, PutMap DEF MemberOK
  <2> HIDE DEF v
  <2>4. MemberOK([obj[o] EXCEPT !["bools"] = v])
    BY <1>2, <2>3, SetMember
  <2> QED
    BY <2>1, <2>4, Zenon DEF v
<1>7. CASE ResetOptions
  <2>1. PICK g \in {"nums", "ints", "bools"} :
          obj'[o] = [obj[o] EXCEPT ![g] = NoOptions]
    BY <1>7 DEF ResetOptions, Set
  <2> QED
    BY <1>2, <1>3, <2>1, SetMember
<1>8. CASE SetVerbosity
  <2>1. PICK n \in Verbosities :
          obj'[o] = obj[o] \/ ( /\ VerbosityAllowed(obj[o], n)
                                /\ obj'[o] = [obj[o] EXCEPT !["verbosity"] = n])
    BY <1>8 DEF SetVerbosity
  <2>2. n \in Nat
    BY ParameterAssumption
  <2>3. VerbosityAllowed(obj[o], n) => (obj[o].screen => n = 0)
    BY DEF VerbosityAllowed
  <2>4. VerbosityAllowed(obj[o], n) => MemberOK([obj[o] EXCEPT !["verbosity"] = n])
    BY <1>2, <2>2, <2>3, SetMember
  <2> QED
    BY <1>2, <2>1, <2>4
<1>9. CASE SetPolicy
  <2>1. CASE obj' = obj
    BY <1>2, <2>1
  <2>2. CASE obj' # obj
    <3>1. PICK policy \in Policies, g \in {"select", "replace"} :
            obj'[o] = [obj[o] EXCEPT ![g] = policy]
      BY <1>9, <2>2 DEF SetPolicy, Set
    <3> QED
      BY <1>2, <3>1, SetMember
  <2> QED
    BY <2>1, <2>2
<1>10. CASE Evolve
  BY <1>2, <1>10, RunMembers DEF Evolve
<1>11. CASE RoundTrip
  <2>1. obj'[o] = obj[o] \/ obj'[o] = [obj[o] EXCEPT !["log"] = <<>>]
    BY <1>11 DEF RoundTrip, Restored, CopyInv
  <2> DEFINE n == [obj[o] EXCEPT !["log"] = <<>>]
  <2>2. n.log = <<>> /\ \A f \in Fields \ {"log"} : n[f] = obj[o][f]
    BY <1>2, OtherMember DEF IsMembers, Fields
  <2> HIDE DEF n
  <2>3. MemberOK(n)
    BY <1>2, <2>2 DEF MemberOK, Fields
  <2> QED
    BY <1>2, <2>1, <2>3 DEF n
<1>12. CASE Describe \/ UNCHANGED vars
  BY <1>2, <1>12 DEF Describe, vars
<1> QED
  BY <1>4, <1>5, <1>6, <1>7, <1>8, <1>9, <1>10, <1>11, <1>12 DEF Next

(* The objects are what their declarations say at any moment, an object    *)
(* that gave the screen to its solver has neither verbosity nor log, and a *)
(* run has a value for every parameter of its solver and for no other.     *)
THEOREM ObjectTypes == Spec => []TypeOK
<1>1. Init => MembersInv
  <2>1. SUFFICES ASSUME Init, NEW o \in Objects
                 PROVE  MemberOK(obj[o]) /\ outcome[o] \in Outcomes
    BY DEF MembersInv
  <2>2. PICK screen \in BOOLEAN :
          obj = [x \in Objects |->
                   [screen |-> screen, verbosity |-> 0,
                    select |-> Best, replace |-> Best,
                    nums |-> NoOptions, ints |-> NoOptions, bools |-> NoOptions,
                    lastRes |-> None, log |-> <<>>, cache |-> None]]
    BY <2>1 DEF Init
  <2>3. Best \in Policies
    BY DEF Best, Policies
  <2>4. OptionMap(NoOptions, Int) /\ OptionMap(NoOptions, BOOLEAN)
    BY DEF OptionMap, NoOptions
  <2>5. /\ obj[o].screen = screen /\ obj[o].verbosity = 0
        /\ obj[o].select = Best /\ obj[o].replace = Best
        /\ obj[o].nums = NoOptions /\ obj[o].ints = NoOptions /\ obj[o].bools = NoOptions
        /\ obj[o].log = <<>> /\ obj[o].cache = None
    BY <2>1, <2>2
  <2>6. <<>> \in Seq(Problem) /\ 0 \in Nat
    BY EmptySeq
  <2>7. MemberOK(obj[o])
    BY <2>3, <2>4, <2>5, <2>6 DEF MemberOK
  <2> QED
    BY <2>1, <2>7 DEF Init, Outcomes
<1>2. ASSUME CopyInv, UsedInv, NEW o \in Objects, used[o] # None
      PROVE  DOMAIN used[o].params = DOMAIN Default[kind]
  <2>1. PICK p \in Problem, file \in File : RunOf(o, p, file)
    BY <1>2 DEF UsedInv
  <2> DEFINE m == obj[o]
  <2>2. /\ used[o].params = Parameters(m, p, file) /\ OptionsAccepted(m)
        /\ kind \in Solvers
    BY <1>2, <2>1 DEF RunOf, CopyInv
  <2> HIDE DEF m
  <2>3. DOMAIN Default[kind] = Param[kind].num \cup Param[kind].int \cup Param[kind].bool
    BY <2>2, ObjectAssumption
  <2>4. CASE kind = "worhp"
    <3>1. /\ DOMAIN WorhpTolerance(m, p) \subseteq {"TolFeas", "AcceptTolFeas"}
          /\ DOMAIN UserDerivatives(p) = {"UserDF", "UserDG", "UserHM"}
          /\ DOMAIN Together(p) \subseteq {"FGtogether"}
      BY DEF WorhpTolerance, UserDerivatives, Together, NoOptions, @@, :>
    <3>2. DOMAIN file \subseteq DOMAIN Default[kind]
      BY <2>4, ParameterAssumption
    <3>3. {"TolFeas", "AcceptTolFeas", "UserDF", "UserDG", "UserHM", "FGtogether"}
            \subseteq DOMAIN Default[kind]
      BY <2>3, <2>4, ParameterAssumption
    <3>4. DOMAIN Parameters(m, p, file)
            = DOMAIN m.bools \cup DOMAIN m.ints \cup DOMAIN m.nums
                \cup DOMAIN WorhpTolerance(m, p) \cup DOMAIN UserDerivatives(p)
                \cup DOMAIN Together(p) \cup DOMAIN file \cup DOMAIN Default[kind]
      BY <2>4 DEF Parameters, WorhpParameters, @@
    <3> QED
      BY <2>2, <2>3, <3>1, <3>2, <3>3, <3>4 DEF OptionsAccepted, NamesKnown
  <2>5. CASE kind = "snopt7"
    <3>1. DOMAIN SnoptTolerance(m, p) \subseteq {"Major feasibility tolerance"}
      BY DEF SnoptTolerance, TolFeas, NoOptions, :>
    <3>2. {"Derivative option", "Major feasibility tolerance"} \subseteq DOMAIN Default[kind]
      BY <2>3, <2>5, ParameterAssumption
    <3>3. DOMAIN Parameters(m, p, file)
            = {"Derivative option"} \cup DOMAIN m.ints \cup DOMAIN m.nums
                \cup DOMAIN SnoptTolerance(m, p) \cup DOMAIN Default[kind]
      BY <2>5 DEF Parameters, SnoptParameters, @@, :>
    <3> QED
      BY <2>2, <2>3, <3>1, <3>2, <3>3 DEF OptionsAccepted, NamesKnown
  <2> QED
    BY <2>2, <2>4, <2>5 DEF Solvers
<1>3. CopyInv /\ UsedInv /\ MembersInv => TypeOK
  BY <1>2 DEF TypeOK, CopyInv, MembersInv, MemberOK, Outcomes
<1> QED
  BY <1>1, <1>3, SpecUsed, MembersStep, PTL DEF Spec
===============================================================================
