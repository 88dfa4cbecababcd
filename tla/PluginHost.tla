------------------------------ MODULE PluginHost ------------------------------
(***************************************************************************)
(* Several threads of one process evolve with the two plugins at the same  *)
(* time, as the islands of an archipelago do.  Each has an algorithm       *)
(* object of its own; what they share is in the process: one mutex per     *)
(* plugin (worhp.cpp:113, snopt7.cpp:226), the mapped library with its     *)
(* count of handles, and the print hook inside the WORHP library.          *)
(*                                                                         *)
(* An evolve() opens the library and imports its symbols under the mutex.  *)
(* The shared_library object dies with the block; the imported functions   *)
(* keep the library mapped until they go out of scope when evolve() is     *)
(* left, which is not under the mutex.  A library nobody maps any more     *)
(* loses its state: the next one to map it finds the default print hook.   *)
(***************************************************************************)
EXTENDS Naturals

CONSTANTS
  Thread,
  Uses,     \* Uses[t]: the plugin of thread t's algorithm
  Output,   \* Output[t]: "screen" (screen_output), "log" (verbosity > 0),
            \* or "quiet"
  MaxRuns,  \* calls of evolve() a thread makes
  Nobody    \* the owner of a free mutex

Plugin == {"worhp", "snopt7"}

ASSUME HostAssumption ==
  /\ Uses \in [Thread -> Plugin]
  /\ Output \in [Thread -> {"screen", "log", "quiet"}]
  /\ MaxRuns \in Nat
  /\ Nobody \notin Thread

VARIABLES
  pc,         \* pc[t]: where thread t is
  mutex,      \* mutex[p]: the thread that holds library_load_mutex of p
  handles,    \* handles[t]: what keeps t's library mapped
  silenced,   \* SetWorhpPrint(no_screen_output) is in force in WORHP
  allocated,  \* threads whose solver memory is allocated
  runs        \* runs[t]: calls of evolve() thread t has made

vars == <<pc, mutex, handles, silenced, allocated, runs>>

Init ==
  /\ pc = [t \in Thread |-> "idle"]
  /\ mutex = [p \in Plugin |-> Nobody]
  /\ handles = [t \in Thread |-> {}]
  /\ silenced = FALSE
  /\ allocated = {}
  /\ runs = [t \in Thread |-> 0]

GoTo(t, there) == pc' = [pc EXCEPT ![t] = there]

(* The library of p is mapped in the process. *)
Mapped(p) == \E t \in Thread : Uses[t] = p /\ handles[t] # {}

(* Slip: leaving evolve() restores the default print hook. *)
DropAndRestore(t, what) ==
  /\ handles' = [handles EXCEPT ![t] = @ \ what]
  /\ silenced' = (silenced /\ "functions" \notin what)

(* Thread t lets go of handles; with the last of them the library goes,    *)
(* and its print hook with it.                                             *)
Drop(t, what) ==
  /\ handles' = [handles EXCEPT ![t] = @ \ what]
  /\ silenced' = (silenced /\ Mapped("worhp")')

-------------------------------------------------------------------------------
(* Loading *)

(* evolve() after its preamble. *)
Enter(t) ==
  /\ pc[t] = "idle"
  /\ runs[t] < MaxRuns
  /\ runs' = [runs EXCEPT ![t] = @ + 1]
  /\ GoTo(t, "lock")
  /\ UNCHANGED <<mutex, handles, silenced, allocated>>

(* Slip: there is no mutex. *)
AlwaysFree(p) == TRUE

Free(p) == mutex[p] = Nobody

Lock(t) ==
  /\ pc[t] = "lock"
  /\ Free(Uses[t])
  /\ mutex' = [mutex EXCEPT ![Uses[t]] = t]
  /\ GoTo(t, "open")
  /\ UNCHANGED <<handles, silenced, allocated, runs>>

Open(t) ==
  /\ pc[t] = "open"
  /\ handles' = [handles EXCEPT ![t] = @ \cup {"shared_library"}]
  /\ GoTo(t, "import")
  /\ UNCHANGED <<mutex, silenced, allocated, runs>>

(* Slip: shared_library::get, whose result does not keep the library.      *)
PlainSymbols == {}

(* import_symbol: each function holds a reference of its own. *)
Imports == {"functions"}

Import(t) ==
  /\ pc[t] = "import"
  /\ handles' = [handles EXCEPT ![t] = @ \cup Imports]
  /\ GoTo(t, "loaded")
  /\ UNCHANGED <<mutex, silenced, allocated, runs>>

(* Slip: lock() without the lock_guard. *)
NeverRelease(t) == UNCHANGED mutex

Release(t) == mutex' = [mutex EXCEPT ![Uses[t]] = Nobody]

(* The end of the try block: the shared_library object, then the lock.     *)
EndOfBlock(t) ==
  /\ pc[t] = "loaded"
  /\ Drop(t, {"shared_library"})
  /\ Release(t)
  /\ GoTo(t, IF Uses[t] = "worhp" THEN "version" ELSE "init")
  /\ UNCHANGED <<allocated, runs>>

(* Slip: a library that cannot be loaded is tried again. *)
RetryLoad(t) ==
  /\ pc[t] \in {"open", "import"}
  /\ Drop(t, {"shared_library"})
  /\ Release(t)
  /\ GoTo(t, "lock")
  /\ UNCHANGED <<allocated, runs>>

(* Not a file, not a library, or a symbol is missing; in that case some    *)
(* functions have been imported.  The exception leaves the block, and then *)
(* evolve().                                                               *)
LoadFails(t) ==
  /\ pc[t] \in {"open", "import"}
  /\ Drop(t, {"shared_library"})
  /\ Release(t)
  /\ GoTo(t, "leave")
  /\ UNCHANGED <<allocated, runs>>

ImportFails(t) ==
  /\ pc[t] = "import"
  /\ handles' = [handles EXCEPT ![t] = Imports]
  /\ Release(t)
  /\ GoTo(t, "leave")
  /\ UNCHANGED <<silenced, allocated, runs>>

-------------------------------------------------------------------------------
(* Using the library *)

(* Slip: SetWorhpPrint is called whatever the output. *)
CheckVersionThenHook(t) ==
  /\ pc[t] = "version"
  /\ \/ GoTo(t, "leave")
     \/ GoTo(t, "hook")
  /\ UNCHANGED <<mutex, handles, silenced, allocated, runs>>

(* WorhpVersion; a mismatch leaves evolve(). *)
CheckVersion(t) ==
  /\ pc[t] = "version"
  /\ \/ GoTo(t, "leave")
     \/ GoTo(t, IF Output[t] = "quiet" THEN "hook" ELSE "read")
  /\ UNCHANGED <<mutex, handles, silenced, allocated, runs>>

(* SetWorhpPrint comes before ReadParams for a quiet object, after it for  *)
(* one that logs, and is not called for one with the solver's output.      *)
SetWorhpPrint(t) ==
  /\ pc[t] = "hook"
  /\ silenced' = TRUE
  /\ GoTo(t, IF Output[t] = "quiet" THEN "read" ELSE "init")
  /\ UNCHANGED <<mutex, handles, allocated, runs>>

ReadParams(t) ==
  /\ pc[t] = "read"
  /\ GoTo(t, IF Output[t] = "log" THEN "hook" ELSE "init")
  /\ UNCHANGED <<mutex, handles, silenced, allocated, runs>>

(* WorhpInit or snInit, in the constructor of the RAII object. *)
InitSolver(t) ==
  /\ pc[t] = "init"
  /\ allocated' = allocated \cup {t}
  /\ GoTo(t, "params")
  /\ UNCHANGED <<mutex, handles, silenced, runs>>

(* The setters of the options, then the solver; either may throw. *)
SetParams(t) ==
  /\ pc[t] = "params"
  /\ \/ GoTo(t, "solve") \/ GoTo(t, "free")
  /\ UNCHANGED <<mutex, handles, silenced, allocated, runs>>

Solve(t) ==
  /\ pc[t] = "solve"
  /\ GoTo(t, "free")
  /\ UNCHANGED <<mutex, handles, silenced, allocated, runs>>

(* The RAII object is destroyed before the functions it was declared after.*)
FreeSolver(t) ==
  /\ pc[t] = "free"
  /\ allocated' = allocated \ {t}
  /\ GoTo(t, "leave")
  /\ UNCHANGED <<mutex, handles, silenced, runs>>

Leave(t) ==
  /\ pc[t] = "leave"
  /\ Drop(t, {"functions"})
  /\ GoTo(t, "idle")
  /\ UNCHANGED <<mutex, allocated, runs>>

-------------------------------------------------------------------------------
Step(t) ==
  \/ Lock(t) \/ Open(t) \/ Import(t) \/ EndOfBlock(t)
  \/ LoadFails(t) \/ ImportFails(t)
  \/ CheckVersion(t) \/ SetWorhpPrint(t) \/ ReadParams(t)
  \/ InitSolver(t) \/ SetParams(t) \/ Solve(t) \/ FreeSolver(t) \/ Leave(t)

(* Every thread has made its MaxRuns calls.  Without this disjunct TLC     *)
(* would take the bound for a deadlock.                                    *)
AllDone ==
  /\ \A t \in Thread : pc[t] = "idle" /\ runs[t] = MaxRuns
  /\ UNCHANGED vars

Next == (\E t \in Thread : Enter(t) \/ Step(t)) \/ AllDone

Spec == Init /\ [][Next]_vars

(* Every thread is scheduled; nothing is assumed of who gets the mutex.    *)
FairSpec == Spec /\ \A t \in Thread : WF_vars(Step(t))

-------------------------------------------------------------------------------
(* Properties *)

Loading == {"open", "import", "loaded"}
UsingLibrary ==
  {"version", "hook", "read", "init", "params", "solve", "free"}

(* The type of the threads' program counters and of what they share, and   *)
(* who may be at the call of SetWorhpPrint (worhp.cpp:344-353).            *)
TypeOK ==
  /\ \A t \in Thread : pc[t] = "hook" => Output[t] # "screen"
  /\ pc \in [Thread -> {"idle", "lock", "leave"} \cup Loading \cup UsingLibrary]
  /\ mutex \in [Plugin -> Thread \cup {Nobody}]
  /\ handles \in [Thread -> SUBSET {"shared_library", "functions"}]
  /\ silenced \in BOOLEAN
  /\ allocated \subseteq Thread
  /\ runs \in [Thread -> 0..MaxRuns]

(* "protect the whole try block with a mutex" (worhp.cpp:203): two threads *)
(* never import from the same library at once, and no thread keeps the     *)
(* mutex when it runs the solver and, with it, the user's problem.         *)
LoadExclusive ==
  /\ \A t, u \in Thread :
       pc[t] \in Loading /\ pc[u] \in Loading /\ Uses[t] = Uses[u] => t = u
  /\ \A t \in Thread : mutex[Uses[t]] = t => pc[t] \in Loading

(* No function of a library is called when it may be unmapped: whatever    *)
(* the other threads unload meanwhile, and although the shared_library     *)
(* object is gone, the caller's own handles keep it.                       *)
LibraryStaysMapped ==
  \A t \in Thread : pc[t] \in UsingLibrary => handles[t] # {}

(* Nothing is left behind, by a call that succeeds or fails at any step:   *)
(* when no thread is in evolve() no library is mapped, no mutex is held    *)
(* and no solver memory is allocated.                                      *)
NothingLeftBehind ==
  (\A t \in Thread : pc[t] = "idle") =>
    /\ \A p \in Plugin : ~Mapped(p) /\ mutex[p] = Nobody
    /\ allocated = {}
    /\ ~silenced

(* A thread that did not choose WORHP's screen output is not bothered by   *)
(* it while the solver works, whatever the other threads chose ("Used to   *)
(* suppress screen output from worhp", worhp.cpp:110).                     *)
QuietStaysQuiet ==
  \A t \in Thread :
    /\ Uses[t] = "worhp" /\ Output[t] # "screen"
    /\ pc[t] \in {"init", "params", "solve", "free"}
    => silenced

(* "screen_output when true will activate the screen output from the WORHP *)
(* library" (worhp.hpp:169).                                               *)
ScreenOutputActive ==
  \A t \in Thread :
    Uses[t] = "worhp" /\ Output[t] = "screen" /\ pc[t] = "solve" => ~silenced

(* Every evolve() that has begun ends, waiting for the mutex included.     *)
EvolveEnds == \A t \in Thread : pc[t] = "lock" ~> pc[t] = "idle"
==============================================================================
