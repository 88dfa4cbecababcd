--------------------------- MODULE PluginHostProofs ---------------------------
(***************************************************************************)
(* Theorems about PluginHost and their proofs: for any set of threads,     *)
(* whatever plugin and output each has, and any number of calls.           *)
(*                                                                         *)
(* What keeps a library mapped, who has a mutex and whose memory is        *)
(* allocated are functions of where each thread is; HandlesInv, MutexInv   *)
(* and MemoryInv say which.  The print hook belongs to all threads: it is  *)
(* in force only while somebody has WORHP mapped, and stays in force as    *)
(* long as a thread that set it is in the library (HookInv).               *)
(***************************************************************************)
EXTENDS PluginHost, TLAPS

HandlesInv ==
  \A t \in Thread :
    /\ pc[t] \in {"idle", "lock", "open"} => handles[t] = {}
    /\ pc[t] = "import" => handles[t] = {"shared_library"}
    /\ pc[t] = "loaded" => handles[t] = {"shared_library", "functions"}
    /\ pc[t] \in UsingLibrary => handles[t] = {"functions"}
    /\ pc[t] = "leave" => "shared_library" \notin handles[t]

MutexInv ==
  /\ \A t \in Thread : mutex[Uses[t]] = t <=> pc[t] \in Loading
  /\ \A p \in Plugin : mutex[p] # Nobody => Uses[mutex[p]] = p

MemoryInv ==
  \A t \in Thread : t \in allocated <=> pc[t] \in {"params", "solve", "free"}

(* Thread t has set the print hook in the evolve() it is in. *)
HasHook(t) ==
  /\ Uses[t] = "worhp"
  /\ \/ Output[t] # "screen" /\ pc[t] \in {"init", "params", "solve", "free"}
     \/ Output[t] = "quiet" /\ pc[t] = "read"

HookInv ==
  /\ silenced => Mapped("worhp")
  /\ \A t \in Thread : HasHook(t) => silenced
  /\ \A t \in Thread : pc[t] \in {"version", "hook", "read"} => Uses[t] = "worhp"

IInv == TypeOK /\ HandlesInv /\ MutexInv /\ MemoryInv /\ HookInv

-------------------------------------------------------------------------------
LEMMA InitIInv == Init => IInv
<1> SUFFICES ASSUME Init PROVE IInv
  OBVIOUS
<1>1. TypeOK
  <2>1. /\ \A t \in Thread : pc[t] = "idle"
        /\ pc \in [Thread -> {"idle", "lock",
           "leave"} \cup Loading \cup UsingLibrary]
    BY DEF Init
  <2>2. /\ mutex \in [Plugin -> Thread \cup {Nobody}]
        /\ handles \in [Thread -> SUBSET {"shared_library", "functions"}]
        /\ silenced \in BOOLEAN
        /\ allocated \subseteq Thread
    BY DEF Init
  <2>3. runs \in [Thread -> 0..MaxRuns]
    BY HostAssumption DEF Init
  <2> QED
    BY <2>1, <2>2, <2>3 DEF TypeOK
<1>2. HandlesInv /\ MemoryInv
  BY DEF Init, HandlesInv, MemoryInv, UsingLibrary
<1>3. MutexInv
  BY HostAssumption DEF Init, MutexInv, Loading
<1>4. HookInv
  BY DEF Init, HookInv, HasHook
<1> QED
  BY <1>1, <1>2, <1>3, <1>4 DEF IInv

(* A thread that is done with loading and releases its mutex holds none.   *)
LEMMA ReleaseMutex ==
  ASSUME TypeOK, MutexInv, NEW t \in Thread, pc[t] \in Loading, Release(t),
         NEW there, GoTo(t, there), there \notin Loading
  PROVE  MutexInv'
<1>1. Uses[t] \in Plugin /\ mutex[Uses[t]] = t /\ \A u \in Thread : Uses[u] \in Plugin
  BY HostAssumption DEF MutexInv
<1>2. \A p \in Plugin : mutex'[p] = IF p = Uses[t] THEN Nobody ELSE mutex[p]
  BY DEF Release, TypeOK
<1>3. \A u \in Thread : pc'[u] = IF u = t THEN there ELSE pc[u]
  BY DEF GoTo, TypeOK
<1>4. \A u \in Thread : mutex'[Uses[u]] = u <=> pc'[u] \in Loading
  BY <1>1, <1>2, <1>3, HostAssumption DEF MutexInv
<1>5. \A p \in Plugin : mutex'[p] # Nobody => Uses[mutex'[p]] = p
  BY <1>2 DEF MutexInv
<1> QED
  BY <1>4, <1>5 DEF MutexInv

(* Who has set the print hook keeps it while another thread lets go.       *)
LEMMA OthersKeepHook ==
  ASSUME IInv, NEW t \in Thread, NEW what, Drop(t, what),
         NEW u \in Thread, u # t, HasHook(u)
  PROVE  silenced'
<1>1. silenced /\ Uses[u] = "worhp" /\ handles[u] # {}
  BY DEF IInv, HookInv, HasHook, HandlesInv, UsingLibrary
<1>2. handles'[u] = handles[u]
  BY DEF Drop, IInv, TypeOK
<1> QED
  BY <1>1, <1>2 DEF Drop, Mapped

LEMMA EnterIInv ==
  ASSUME IInv, NEW t \in Thread, Enter(t)
  PROVE  IInv'
<1>1. TypeOK'
  BY HostAssumption DEF IInv, TypeOK, Enter, GoTo, Loading, UsingLibrary
<1>2. HandlesInv'
  BY HostAssumption DEF IInv, TypeOK, HandlesInv, Enter, GoTo, UsingLibrary
<1>3. MutexInv'
  BY HostAssumption DEF IInv, TypeOK, MutexInv, Enter, GoTo, Loading
<1>4. MemoryInv'
  BY HostAssumption DEF IInv, TypeOK, MemoryInv, Enter, GoTo
<1>5. HookInv'
  BY HostAssumption DEF IInv, TypeOK, HookInv, HasHook, HandlesInv, Mapped,
     Enter, GoTo
<1> QED
  BY <1>1, <1>2, <1>3, <1>4, <1>5 DEF IInv

LEMMA LockIInv ==
  ASSUME IInv, NEW t \in Thread, Lock(t)
  PROVE  IInv'
<1>1. TypeOK'
  BY HostAssumption DEF IInv, TypeOK, Lock, Free, GoTo, Loading, UsingLibrary
<1>2. HandlesInv'
  BY HostAssumption DEF IInv, TypeOK, HandlesInv, Lock, Free, GoTo, UsingLibrary
<1>3. MutexInv'
  <2>1. Uses[t] \in Plugin /\ mutex[Uses[t]] = Nobody
        /\ \A u \in Thread : Uses[u] \in Plugin /\ u # Nobody
    BY HostAssumption DEF Lock, Free
  <2>2. \A p \in Plugin : mutex'[p] = IF p = Uses[t] THEN t ELSE mutex[p]
    BY DEF Lock, IInv, TypeOK
  <2>3. \A u \in Thread : pc'[u] = IF u = t THEN "open" ELSE pc[u]
    BY DEF Lock, GoTo, IInv, TypeOK
  <2>4. \A u \in Thread : mutex'[Uses[u]] = u <=> pc'[u] \in Loading
    BY <2>1, <2>2, <2>3 DEF IInv, MutexInv, Loading
  <2>5. \A p \in Plugin : mutex'[p] # Nobody => Uses[mutex'[p]] = p
    BY <2>2 DEF IInv, MutexInv
  <2> QED
    BY <2>4, <2>5 DEF MutexInv
<1>4. MemoryInv'
  BY HostAssumption DEF IInv, TypeOK, MemoryInv, Lock, Free, GoTo
<1>5. HookInv'
  BY HostAssumption DEF IInv, TypeOK, HookInv, HasHook, HandlesInv, Mapped, Lock,
     Free, GoTo
<1> QED
  BY <1>1, <1>2, <1>3, <1>4, <1>5 DEF IInv

LEMMA OpenIInv ==
  ASSUME IInv, NEW t \in Thread, Open(t)
  PROVE  IInv'
<1>1. TypeOK'
  BY HostAssumption DEF IInv, TypeOK, Open, GoTo, Loading, UsingLibrary
<1>2. HandlesInv'
  BY HostAssumption DEF IInv, TypeOK, HandlesInv, Open, GoTo, UsingLibrary
<1>3. MutexInv'
  BY HostAssumption DEF IInv, TypeOK, MutexInv, Open, GoTo, Loading
<1>4. MemoryInv'
  BY HostAssumption DEF IInv, TypeOK, MemoryInv, Open, GoTo
<1>5. HookInv'
  BY HostAssumption DEF IInv, TypeOK, HookInv, HasHook, HandlesInv, Mapped, Open,
     GoTo
<1> QED
  BY <1>1, <1>2, <1>3, <1>4, <1>5 DEF IInv

LEMMA ImportIInv ==
  ASSUME IInv, NEW t \in Thread, Import(t)
  PROVE  IInv'
<1>1. TypeOK'
  BY HostAssumption DEF IInv, TypeOK, Import, Imports, GoTo, Loading, UsingLibrary
<1>2. HandlesInv'
  BY HostAssumption DEF IInv, TypeOK, HandlesInv, Import, Imports, GoTo,
     UsingLibrary
<1>3. MutexInv'
  BY HostAssumption DEF IInv, TypeOK, MutexInv, Import, Imports, GoTo, Loading
<1>4. MemoryInv'
  BY HostAssumption DEF IInv, TypeOK, MemoryInv, Import, Imports, GoTo
<1>5. HookInv'
  BY HostAssumption DEF IInv, TypeOK, HookInv, HasHook, HandlesInv, Mapped,
     Import, Imports, GoTo
<1> QED
  BY <1>1, <1>2, <1>3, <1>4, <1>5 DEF IInv

LEMMA EndOfBlockIInv ==
  ASSUME IInv, NEW t \in Thread, EndOfBlock(t)
  PROVE  IInv'
<1>1. TypeOK'
  BY HostAssumption DEF IInv, TypeOK, EndOfBlock, Drop, Release, GoTo, Loading,
     UsingLibrary
<1>2. HandlesInv'
  BY HostAssumption DEF IInv, TypeOK, HandlesInv, EndOfBlock, Drop, Release,
     GoTo, UsingLibrary
<1>3. MutexInv'
  BY ReleaseMutex DEF IInv, EndOfBlock, Loading
<1>4. MemoryInv'
  BY HostAssumption DEF IInv, TypeOK, MemoryInv, EndOfBlock, Drop, Release, GoTo
<1>5. HookInv'
  BY HostAssumption, OthersKeepHook DEF IInv, TypeOK, HookInv, HasHook,
     HandlesInv, Mapped, EndOfBlock, Drop, Release, GoTo
<1> QED
  BY <1>1, <1>2, <1>3, <1>4, <1>5 DEF IInv

LEMMA LoadFailsIInv ==
  ASSUME IInv, NEW t \in Thread, LoadFails(t)
  PROVE  IInv'
<1>1. TypeOK'
  BY HostAssumption DEF IInv, TypeOK, LoadFails, Drop, Release, GoTo, Loading,
     UsingLibrary
<1>2. HandlesInv'
  BY HostAssumption DEF IInv, TypeOK, HandlesInv, LoadFails, Drop, Release, GoTo,
     UsingLibrary
<1>3. MutexInv'
  BY ReleaseMutex DEF IInv, LoadFails, Loading
<1>4. MemoryInv'
  BY HostAssumption DEF IInv, TypeOK, MemoryInv, LoadFails, Drop, Release, GoTo
<1>5. HookInv'
  <2>1. silenced' => Mapped("worhp")'
    BY DEF LoadFails, Drop
  <2>2. \A u \in Thread : pc'[u] = IF u = t THEN pc'[t] ELSE pc[u]
    BY DEF LoadFails, GoTo, IInv, TypeOK
  <2>3. pc'[t] \notin {"init", "params", "solve", "free", "version", "hook", "read"}
    BY DEF LoadFails, GoTo, IInv, TypeOK
  <2>4. \A u \in Thread : HasHook(u)' => HasHook(u) /\ u # t
    BY <2>2, <2>3 DEF HasHook
  <2>5. \A u \in Thread : HasHook(u)' => silenced'
    BY <2>4, OthersKeepHook DEF LoadFails
  <2>6. \A u \in Thread : pc'[u] \in {"version", "hook",
     "read"} => Uses[u] = "worhp"
    BY <2>2, <2>3 DEF IInv, HookInv
  <2> QED
    BY <2>1, <2>5, <2>6 DEF HookInv
<1> QED
  BY <1>1, <1>2, <1>3, <1>4, <1>5 DEF IInv

LEMMA ImportFailsIInv ==
  ASSUME IInv, NEW t \in Thread, ImportFails(t)
  PROVE  IInv'
<1>1. TypeOK'
  BY HostAssumption DEF IInv, TypeOK, ImportFails, Imports, Release, GoTo,
     Loading, UsingLibrary
<1>2. HandlesInv'
  BY HostAssumption DEF IInv, TypeOK, HandlesInv, ImportFails, Imports, Release,
     GoTo, UsingLibrary
<1>3. MutexInv'
  BY ReleaseMutex DEF IInv, ImportFails, Loading
<1>4. MemoryInv'
  BY HostAssumption DEF IInv, TypeOK, MemoryInv, ImportFails, Imports, Release, GoTo
<1>5. HookInv'
  BY HostAssumption DEF IInv, TypeOK, HookInv, HasHook, HandlesInv, Mapped,
     ImportFails, Imports, Release, GoTo
<1> QED
  BY <1>1, <1>2, <1>3, <1>4, <1>5 DEF IInv

LEMMA CheckVersionIInv ==
  ASSUME IInv, NEW t \in Thread, CheckVersion(t)
  PROVE  IInv'
<1>1. TypeOK'
  BY HostAssumption DEF IInv, TypeOK, CheckVersion, GoTo, Loading, UsingLibrary
<1>2. HandlesInv'
  BY HostAssumption DEF IInv, TypeOK, HandlesInv, CheckVersion, GoTo, UsingLibrary
<1>3. MutexInv'
  BY HostAssumption DEF IInv, TypeOK, MutexInv, CheckVersion, GoTo, Loading
<1>4. MemoryInv'
  BY HostAssumption DEF IInv, TypeOK, MemoryInv, CheckVersion, GoTo
<1>5. HookInv'
  BY HostAssumption DEF IInv, TypeOK, HookInv, HasHook, HandlesInv, Mapped,
     CheckVersion, GoTo
<1> QED
  BY <1>1, <1>2, <1>3, <1>4, <1>5 DEF IInv

LEMMA SetWorhpPrintIInv ==
  ASSUME IInv, NEW t \in Thread, SetWorhpPrint(t)
  PROVE  IInv'
<1>1. TypeOK'
  BY HostAssumption DEF IInv, TypeOK, SetWorhpPrint, GoTo, Loading, UsingLibrary
<1>2. HandlesInv'
  BY HostAssumption DEF IInv, TypeOK, HandlesInv, SetWorhpPrint, GoTo, UsingLibrary
<1>3. MutexInv'
  BY HostAssumption DEF IInv, TypeOK, MutexInv, SetWorhpPrint, GoTo, Loading
<1>4. MemoryInv'
  BY HostAssumption DEF IInv, TypeOK, MemoryInv, SetWorhpPrint, GoTo
<1>5. HookInv'
  <2>1. silenced' /\ handles' = handles
    BY DEF SetWorhpPrint
  <2>2. Uses[t] = "worhp" /\ handles[t] # {}
    BY DEF SetWorhpPrint, IInv, HookInv, HandlesInv, UsingLibrary
  <2>3. Mapped("worhp")'
    BY <2>1, <2>2 DEF Mapped
  <2>4. \A u \in Thread : pc'[u] \in {"version", "hook",
     "read"} => Uses[u] = "worhp"
    BY <2>2 DEF SetWorhpPrint, GoTo, IInv, TypeOK, HookInv
  <2> QED
    BY <2>1, <2>3, <2>4 DEF HookInv
<1> QED
  BY <1>1, <1>2, <1>3, <1>4, <1>5 DEF IInv

LEMMA ReadParamsIInv ==
  ASSUME IInv, NEW t \in Thread, ReadParams(t)
  PROVE  IInv'
<1>1. TypeOK'
  BY HostAssumption DEF IInv, TypeOK, ReadParams, GoTo, Loading, UsingLibrary
<1>2. HandlesInv'
  BY HostAssumption DEF IInv, TypeOK, HandlesInv, ReadParams, GoTo, UsingLibrary
<1>3. MutexInv'
  BY HostAssumption DEF IInv, TypeOK, MutexInv, ReadParams, GoTo, Loading
<1>4. MemoryInv'
  BY HostAssumption DEF IInv, TypeOK, MemoryInv, ReadParams, GoTo
<1>5. HookInv'
  BY HostAssumption DEF IInv, TypeOK, HookInv, HasHook, HandlesInv, Mapped,
     ReadParams, GoTo
<1> QED
  BY <1>1, <1>2, <1>3, <1>4, <1>5 DEF IInv

LEMMA InitSolverIInv ==
  ASSUME IInv, NEW t \in Thread, InitSolver(t)
  PROVE  IInv'
<1>1. TypeOK'
  BY HostAssumption DEF IInv, TypeOK, InitSolver, GoTo, Loading, UsingLibrary
<1>2. HandlesInv'
  BY HostAssumption DEF IInv, TypeOK, HandlesInv, InitSolver, GoTo, UsingLibrary
<1>3. MutexInv'
  BY HostAssumption DEF IInv, TypeOK, MutexInv, InitSolver, GoTo, Loading
<1>4. MemoryInv'
  BY HostAssumption DEF IInv, TypeOK, MemoryInv, InitSolver, GoTo
<1>5. HookInv'
  BY HostAssumption DEF IInv, TypeOK, HookInv, HasHook, HandlesInv, Mapped,
     InitSolver, GoTo
<1> QED
  BY <1>1, <1>2, <1>3, <1>4, <1>5 DEF IInv

LEMMA SetParamsIInv ==
  ASSUME IInv, NEW t \in Thread, SetParams(t)
  PROVE  IInv'
<1>1. TypeOK'
  BY HostAssumption DEF IInv, TypeOK, SetParams, GoTo, Loading, UsingLibrary
<1>2. HandlesInv'
  BY HostAssumption DEF IInv, TypeOK, HandlesInv, SetParams, GoTo, UsingLibrary
<1>3. MutexInv'
  BY HostAssumption DEF IInv, TypeOK, MutexInv, SetParams, GoTo, Loading
<1>4. MemoryInv'
  BY HostAssumption DEF IInv, TypeOK, MemoryInv, SetParams, GoTo
<1>5. HookInv'
  BY HostAssumption DEF IInv, TypeOK, HookInv, HasHook, HandlesInv, Mapped,
     SetParams, GoTo
<1> QED
  BY <1>1, <1>2, <1>3, <1>4, <1>5 DEF IInv

LEMMA SolveIInv ==
  ASSUME IInv, NEW t \in Thread, Solve(t)
  PROVE  IInv'
<1>1. TypeOK'
  BY HostAssumption DEF IInv, TypeOK, Solve, GoTo, Loading, UsingLibrary
<1>2. HandlesInv'
  BY HostAssumption DEF IInv, TypeOK, HandlesInv, Solve, GoTo, UsingLibrary
<1>3. MutexInv'
  BY HostAssumption DEF IInv, TypeOK, MutexInv, Solve, GoTo, Loading
<1>4. MemoryInv'
  BY HostAssumption DEF IInv, TypeOK, MemoryInv, Solve, GoTo
<1>5. HookInv'
  BY HostAssumption DEF IInv, TypeOK, HookInv, HasHook, HandlesInv, Mapped,
     Solve, GoTo
<1> QED
  BY <1>1, <1>2, <1>3, <1>4, <1>5 DEF IInv

LEMMA FreeSolverIInv ==
  ASSUME IInv, NEW t \in Thread, FreeSolver(t)
  PROVE  IInv'
<1>1. TypeOK'
  BY HostAssumption DEF IInv, TypeOK, FreeSolver, GoTo, Loading, UsingLibrary
<1>2. HandlesInv'
  BY HostAssumption DEF IInv, TypeOK, HandlesInv, FreeSolver, GoTo, UsingLibrary
<1>3. MutexInv'
  BY HostAssumption DEF IInv, TypeOK, MutexInv, FreeSolver, GoTo, Loading
<1>4. MemoryInv'
  BY HostAssumption DEF IInv, TypeOK, MemoryInv, FreeSolver, GoTo
<1>5. HookInv'
  BY HostAssumption DEF IInv, TypeOK, HookInv, HasHook, HandlesInv, Mapped,
     FreeSolver, GoTo
<1> QED
  BY <1>1, <1>2, <1>3, <1>4, <1>5 DEF IInv

LEMMA LeaveIInv ==
  ASSUME IInv, NEW t \in Thread, Leave(t)
  PROVE  IInv'
<1>1. TypeOK'
  BY HostAssumption DEF IInv, TypeOK, Leave, Drop, GoTo, Loading, UsingLibrary
<1>2. HandlesInv'
  BY HostAssumption DEF IInv, TypeOK, HandlesInv, Leave, Drop, GoTo, UsingLibrary
<1>3. MutexInv'
  BY HostAssumption DEF IInv, TypeOK, MutexInv, Leave, Drop, GoTo, Loading
<1>4. MemoryInv'
  BY HostAssumption DEF IInv, TypeOK, MemoryInv, Leave, Drop, GoTo
<1>5. HookInv'
  <2>1. silenced' => Mapped("worhp")'
    BY DEF Leave, Drop
  <2>2. \A u \in Thread : pc'[u] = IF u = t THEN pc'[t] ELSE pc[u]
    BY DEF Leave, GoTo, IInv, TypeOK
  <2>3. pc'[t] \notin {"init", "params", "solve", "free", "version", "hook", "read"}
    BY DEF Leave, GoTo, IInv, TypeOK
  <2>4. \A u \in Thread : HasHook(u)' => HasHook(u) /\ u # t
    BY <2>2, <2>3 DEF HasHook
  <2>5. \A u \in Thread : HasHook(u)' => silenced'
    BY <2>4, OthersKeepHook DEF Leave
  <2>6. \A u \in Thread : pc'[u] \in {"version", "hook",
     "read"} => Uses[u] = "worhp"
    BY <2>2, <2>3 DEF IInv, HookInv
  <2> QED
    BY <2>1, <2>5, <2>6 DEF HookInv
<1> QED
  BY <1>1, <1>2, <1>3, <1>4, <1>5 DEF IInv

LEMMA NextIInv == IInv /\ [Next]_vars => IInv'
<1> SUFFICES ASSUME IInv, [Next]_vars PROVE IInv'
  OBVIOUS
<1>1. CASE UNCHANGED vars
  BY <1>1 DEF vars, IInv, TypeOK, HandlesInv, MutexInv, MemoryInv, HookInv, HasHook,
              Mapped
<1>2. CASE AllDone
  BY <1>1, <1>2 DEF AllDone
<1>3. ASSUME NEW t \in Thread, Enter(t) \/ Step(t)
      PROVE  IInv'
  BY <1>3, EnterIInv, LockIInv, OpenIInv, ImportIInv, EndOfBlockIInv,
     LoadFailsIInv, ImportFailsIInv, CheckVersionIInv, SetWorhpPrintIInv,
        ReadParamsIInv, InitSolverIInv, SetParamsIInv, SolveIInv, FreeSolverIInv,
           LeaveIInv DEF Step
<1> QED
  BY <1>1, <1>2, <1>3 DEF Next

LEMMA SpecIInv == Spec => []IInv
BY InitIInv, NextIInv, PTL DEF Spec

(* The type of the threads' program counters and of what they share. *)
THEOREM TypeCorrect == Spec => []TypeOK
<1>1. IInv => TypeOK
  BY DEF IInv
<1> QED
  BY <1>1, SpecIInv, PTL

(* Two threads never import from one library at once, and no thread has the
   mutex while it runs the solver (worhp.cpp:203, snopt7.cpp:553). *)
THEOREM LoadingIsExclusive == Spec => []LoadExclusive
<1>1. IInv => LoadExclusive
  BY DEF IInv, MutexInv, LoadExclusive
<1> QED
  BY <1>1, SpecIInv, PTL

(* No function is called of a library that may be unmapped. *)
THEOREM LibrariesStayMapped == Spec => []LibraryStaysMapped
<1>1. IInv => LibraryStaysMapped
  BY DEF IInv, HandlesInv, LibraryStaysMapped
<1> QED
  BY <1>1, SpecIInv, PTL

(* When no thread is in evolve(), nothing is mapped, held or allocated. *)
THEOREM NothingIsLeftBehind == Spec => []NothingLeftBehind
<1>1. ASSUME IInv, \A t \in Thread : pc[t] = "idle"
      PROVE  /\ \A p \in Plugin : ~Mapped(p) /\ mutex[p] = Nobody
             /\ allocated = {}
             /\ ~silenced
  <2>1. \A p \in Plugin : ~Mapped(p)
    BY <1>1 DEF IInv, HandlesInv, Mapped
  <2>2. ASSUME NEW p \in Plugin
        PROVE  mutex[p] = Nobody
    BY <1>1, <2>2 DEF IInv, TypeOK, MutexInv, Loading
  <2>3. allocated = {}
    BY <1>1 DEF IInv, TypeOK, MemoryInv
  <2>4. ~silenced
    BY <1>1, <2>1 DEF IInv, HookInv, Plugin
  <2> QED
    BY <2>1, <2>2, <2>3, <2>4
<1>2. IInv => NothingLeftBehind
  BY <1>1 DEF NothingLeftBehind
<1> QED
  BY <1>2, SpecIInv, PTL

(* A thread without screen output has WORHP silenced while the solver works. *)
THEOREM QuietThreadsStayQuiet == Spec => []QuietStaysQuiet
<1>1. IInv => QuietStaysQuiet
  BY DEF IInv, HookInv, HasHook, QuietStaysQuiet
<1> QED
  BY <1>1, SpecIInv, PTL
==============================================================================
