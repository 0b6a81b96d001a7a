--------------------------- MODULE PlatformEngine ---------------------------
(***************************************************************************)
(* serving::system::Engine: the life of the modules of every instance      *)
(* (src/platform/include/system/engine.hpp).  The deployer starts and      *)
(* stops the other instances by remote calls; an instance executes a call  *)
(* only where it listens.  terminate() is called by the main thread        *)
(* between run() and await(), as in examples/system/engine, or by a thread *)
(* that a module of the deployer starts in its run().                      *)
(***************************************************************************)
EXTENDS Integers, Sequences, FiniteSets

CONSTANTS
  NumInstances,  \* instance 1 is the deployer
  NumModules     \* modules of every instance, in the order of the map _modules

ASSUME InstancesAssumption == NumInstances \in Nat \ {0} /\ NumModules \in Nat \ {0}

Instance == 1..NumInstances
Deployer == 1
Module == 1..NumModules
Phase == {"added", "initialized", "running", "terminated", "awaited", "finalized"}

VARIABLES
  isRunning,  \* instance -> _isRunning
  main,       \* instance -> position of the main thread
  mod,        \* instance -> module -> the last lifecycle call it got
  rpcs,       \* instance -> calls requested and not yet executed
  todo,       \* thread of the deployer -> instances it has still to call
  stopper,    \* position of the module's thread that calls terminate()
  caller      \* which thread calls terminate()

evars == <<isRunning, main, mod, rpcs, todo, stopper, caller>>

Others == Instance \ {Deployer}
Callers == {"main", "module"}

EInit ==
  /\ isRunning = [i \in Instance |-> FALSE]
  /\ main = [i \in Instance |-> "initialize"]
  /\ mod = [i \in Instance |-> [m \in Module |-> "added"]]
  /\ rpcs = [i \in Instance |-> <<>>]
  /\ todo = [c \in Callers |-> {}]
  /\ stopper = "off"
  /\ caller \in Callers

Goto(i, place) == main' = [main EXCEPT ![i] = place]

(* One pass of a loop over _modules: the next module gets the call. *)
InOrder(i, from, to, m) ==
  /\ mod[i][m] = from
  /\ \A n \in 1..(m - 1) : mod[i][n] # from
  /\ mod' = [mod EXCEPT ![i][m] = to]

All(i, phase) == \A m \in Module : mod[i][m] = phase

InitializeModule(i, m) ==
  /\ main[i] = "initialize"
  /\ InOrder(i, "added", "initialized", m)
  /\ UNCHANGED <<isRunning, main, rpcs, todo, stopper, caller>>

(* A worker that looks for its start call once and does not wait for it. *)
RunNoWait(i) ==
  /\ main[i] = "initialize"
  /\ All(i, "initialized")
  /\ Goto(i, IF i = Deployer THEN "request" ELSE "await")
  /\ todo' = IF i = Deployer THEN [todo EXCEPT !["main"] = Others] ELSE todo
  /\ UNCHANGED <<isRunning, mod, rpcs, stopper, caller>>

(* run(): the deployer requests the start of the others, one by one, and   *)
(* starts itself; a worker listens.                                        *)
Run(i) ==
  /\ main[i] = "initialize"
  /\ All(i, "initialized")
  /\ Goto(i, IF i = Deployer THEN "request" ELSE "listen")
  /\ todo' = IF i = Deployer THEN [todo EXCEPT !["main"] = Others] ELSE todo
  /\ UNCHANGED <<isRunning, mod, rpcs, stopper, caller>>

Request(c, name) ==
  \E i \in todo[c] :
     /\ rpcs' = [rpcs EXCEPT ![i] = Append(@, name)]
     /\ todo' = [todo EXCEPT ![c] = @ \ {i}]

RequestStart ==
  /\ main[Deployer] = "request"
  /\ Request("main", "start")
  /\ UNCHANGED <<isRunning, main, mod, stopper, caller>>

(* start(): the flag is set before the first module runs. *)
StartSelf ==
  /\ main[Deployer] = "request"
  /\ todo["main"] = {}
  /\ isRunning' = [isRunning EXCEPT ![Deployer] = TRUE]
  /\ Goto(Deployer, "start")
  /\ UNCHANGED <<mod, rpcs, todo, stopper, caller>>

RunModule(i, m) ==
  /\ main[i] = "start"
  /\ InOrder(i, "initialized", "running", m)
  /\ stopper' = IF i = Deployer /\ caller = "module" /\ stopper = "off" THEN "terminate"
                ELSE stopper
  /\ UNCHANGED <<isRunning, main, rpcs, todo, caller>>

(* A start() that sets the flag after the modules run. *)
StartedFlagLast(i) ==
  /\ main[i] = "start"
  /\ All(i, "running")
  /\ isRunning' = [isRunning EXCEPT ![i] = TRUE]
  /\ Goto(i, IF i = Deployer /\ caller = "main" THEN "terminate" ELSE "await")
  /\ todo' = IF i = Deployer /\ caller = "main" THEN [todo EXCEPT !["main"] = Others]
             ELSE todo
  /\ UNCHANGED <<mod, rpcs, stopper, caller>>

(* start() returns; a worker is then past listen() and its terminate() is  *)
(* empty, the deployer's main thread terminates or awaits.                 *)
Started(i) ==
  /\ main[i] = "start"
  /\ All(i, "running")
  /\ Goto(i, IF i = Deployer /\ caller = "main" THEN "terminate" ELSE "await")
  /\ todo' = IF i = Deployer /\ caller = "main" THEN [todo EXCEPT !["main"] = Others]
             ELSE todo
  /\ UNCHANGED <<isRunning, mod, rpcs, stopper, caller>>

(* What the two RPC targets do; stop() on an engine that does not run, and *)
(* start() on one that does, return at once.                               *)
Execute(i, name, back) ==
  IF name = "start" /\ ~isRunning[i]
  THEN isRunning' = [isRunning EXCEPT ![i] = TRUE] /\ Goto(i, "start")
  ELSE /\ isRunning' = IF name = "stop" THEN [isRunning EXCEPT ![i] = FALSE] ELSE isRunning
       /\ Goto(i, back)

(* listen() blocks for one call and executes it. *)
Listen(i) ==
  /\ main[i] = "listen"
  /\ rpcs[i] # <<>>
  /\ Execute(i, Head(rpcs[i]), "await")
  /\ rpcs' = [rpcs EXCEPT ![i] = Tail(@)]
  /\ UNCHANGED <<mod, todo, stopper, caller>>

(* await() polls while the engine runs. *)
AwaitPoll(i) ==
  /\ main[i] = "await"
  /\ isRunning[i]
  /\ rpcs[i] # <<>>
  /\ Execute(i, Head(rpcs[i]), "await")
  /\ rpcs' = [rpcs EXCEPT ![i] = Tail(@)]
  /\ UNCHANGED <<mod, todo, stopper, caller>>

AwaitStopped(i) ==
  /\ main[i] = "await"
  /\ ~isRunning[i]
  /\ Goto(i, "terminateModules")
  /\ UNCHANGED <<isRunning, mod, rpcs, todo, stopper, caller>>

(* Then all modules are terminated, all awaited, all finalized. *)
LastPhase(from) == CASE from = "terminateModules" -> "terminated"
                     [] from = "awaitModules" -> "awaited"
                     [] from = "finalizeModules" -> "finalized"

NextLoop(from) == CASE from = "terminateModules" -> "awaitModules"
                    [] from = "awaitModules" -> "finalizeModules"
                    [] from = "finalizeModules" -> "done"

Loops == {"terminateModules", "awaitModules", "finalizeModules"}

WindDown(i, m) ==
  /\ main[i] \in Loops
  /\ mod[i][m] # LastPhase(main[i])
  /\ \A n \in 1..(m - 1) : mod[i][n] = LastPhase(main[i])
  /\ mod' = [mod EXCEPT ![i][m] = LastPhase(main[i])]
  /\ UNCHANGED <<isRunning, main, rpcs, todo, stopper, caller>>

WoundDown(i) ==
  /\ main[i] \in Loops
  /\ All(i, LastPhase(main[i]))
  /\ Goto(i, NextLoop(main[i]))
  /\ UNCHANGED <<isRunning, mod, rpcs, todo, stopper, caller>>

(* terminate() on the deployer, by its main thread: stop the others, then  *)
(* itself.                                                                 *)
RequestStop ==
  /\ main[Deployer] = "terminate"
  /\ Request("main", "stop")
  /\ UNCHANGED <<isRunning, main, mod, stopper, caller>>

StopSelf ==
  /\ main[Deployer] = "terminate"
  /\ todo["main"] = {}
  /\ isRunning' = [isRunning EXCEPT ![Deployer] = FALSE]
  /\ Goto(Deployer, "await")
  /\ UNCHANGED <<mod, rpcs, todo, stopper, caller>>

(* The same by a module's thread, at any time after the module ran. *)
StopperEnters ==
  /\ stopper = "terminate"
  /\ stopper' = "request"
  /\ todo' = [todo EXCEPT !["module"] = Others]
  /\ UNCHANGED <<isRunning, main, mod, rpcs, caller>>

StopperRequests ==
  /\ stopper = "request"
  /\ Request("module", "stop")
  /\ UNCHANGED <<isRunning, main, mod, stopper, caller>>

StopperStops ==
  /\ stopper = "request"
  /\ todo["module"] = {}
  /\ isRunning' = [isRunning EXCEPT ![Deployer] = FALSE]
  /\ stopper' = "done"
  /\ UNCHANGED <<main, mod, rpcs, todo, caller>>

Main(i) ==
  \/ \E m \in Module : InitializeModule(i, m) \/ RunModule(i, m) \/ WindDown(i, m)
  \/ Run(i) \/ Started(i) \/ Listen(i) \/ AwaitPoll(i) \/ AwaitStopped(i) \/ WoundDown(i)
  \/ i = Deployer /\ (RequestStart \/ StartSelf \/ RequestStop \/ StopSelf)

Stopper == StopperEnters \/ StopperRequests \/ StopperStops

ENext == Stopper \/ \E i \in Instance : Main(i)

EFairness == WF_evars(Stopper) /\ \A i \in Instance : WF_evars(Main(i))

-----------------------------------------------------------------------------
(* A module is never terminated before it ran, awaited before every module *)
(* of its instance was told to terminate, nor finalized before every one   *)
(* was awaited.                                                            *)
LifecycleOrder ==
  [][\A i \in Instance, m \in Module :
        mod'[i][m] # mod[i][m] =>
          /\ mod'[i][m] = "terminated" => mod[i][m] = "running"
          /\ mod'[i][m] = "awaited" =>
               \A n \in Module : mod[i][n] \in {"terminated", "awaited"}
          /\ mod'[i][m] = "finalized" =>
               \A n \in Module : mod[i][n] \in {"awaited", "finalized"}]_mod

(* A call is executed on every instance it was requested of: no instance   *)
(* stops before it was started, and none is left waiting for a call.       *)
EveryInstanceFinalizes == <>(\A i \in Instance : main[i] = "done" /\ All(i, "finalized"))

-----------------------------------------------------------------------------
(* The inductive invariant behind LifecycleOrder.  The phases in which the *)
(* modules of an instance may be depend on where its main thread is.       *)
Places == {"initialize", "request", "listen", "start", "terminate", "await",
           "terminateModules", "awaitModules", "finalizeModules", "done"}

EngineTypeOK ==
  /\ isRunning \in [Instance -> BOOLEAN]
  /\ main \in [Instance -> Places]
  /\ mod \in [Instance -> [Module -> Phase]]
  /\ rpcs \in [Instance -> Seq({"start", "stop"})]
  /\ todo \in [Callers -> SUBSET Others]
  /\ stopper \in {"off", "terminate", "request", "done"}
  /\ caller \in Callers

PhasesAt(place) ==
  CASE place = "initialize" -> {"added", "initialized"}
    [] place \in {"request", "listen"} -> {"initialized"}
    [] place = "start" -> {"initialized", "running"}
    [] place \in {"terminate", "await"} -> {"running"}
    [] place = "terminateModules" -> {"running", "terminated"}
    [] place = "awaitModules" -> {"terminated", "awaited"}
    [] place = "finalizeModules" -> {"awaited", "finalized"}
    [] place = "done" -> {"finalized"}

ModulesFollowMain == \A i \in Instance, m \in Module : mod[i][m] \in PhasesAt(main[i])

(* Only the deployer requests; a module's thread exists once it runs.      *)
Roles ==
  /\ main[Deployer] # "listen"
  /\ \A i \in Others : main[i] \notin {"request", "terminate"}
  /\ stopper # "off" => main[Deployer] \notin {"initialize", "request"}

BeforeStart(i) == main[i] \in {"initialize", "listen"}

(* The deployer has requested the start of instance i. *)
StartRequested(i) ==
  \/ main[Deployer] \notin {"initialize", "request"}
  \/ main[Deployer] = "request" /\ i \notin todo["main"]

(* Until a worker executes its first call it is not running, the first     *)
(* call that waits for it is its start, and that call is there as soon as  *)
(* any stop can be requested.                                              *)
StartComesFirst ==
  \A i \in Others : BeforeStart(i) =>
     /\ ~isRunning[i]
     /\ rpcs[i] # <<>> => Head(rpcs[i]) = "start"
     /\ StartRequested(i) => rpcs[i] # <<>>

EngineInv == EngineTypeOK /\ ModulesFollowMain /\ Roles /\ StartComesFirst
=============================================================================
