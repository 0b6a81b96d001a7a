-------------------------- MODULE Platform_proofs --------------------------
(***************************************************************************)
(* Proofs about the platform: the order of the modules' lifecycle calls on *)
(* every instance, and what an edge delivers.                              *)
(***************************************************************************)
EXTENDS MCPlatform, FiniteSetTheorems, SequenceTheorems, TLAPS

-----------------------------------------------------------------------------
(***************************************************************************)
(* Engines: EngineInv is inductive.                                        *)
(***************************************************************************)
LEMMA EngineInitially == EInit => EngineInv
<1> SUFFICES ASSUME EInit PROVE EngineInv
  OBVIOUS
<1> USE DEF EInit
<1>1. Deployer \in Instance
  BY InstancesAssumption DEF Deployer, Instance
<1>2. EngineTypeOK
  BY DEF EngineTypeOK, Places, Phase, Callers
<1>3. ModulesFollowMain
  BY DEF ModulesFollowMain, PhasesAt
<1>4. Roles
  BY <1>1 DEF Roles, Others
<1>5. StartComesFirst
  BY <1>1 DEF StartComesFirst, StartRequested, Others
<1> QED
  BY <1>2, <1>3, <1>4, <1>5 DEF EngineInv

\* A call of one module leaves the other modules, and every thread, alone.
LEMMA ModuleCall ==
  ASSUME EngineInv, NEW i \in Instance, NEW m \in Module, NEW to \in PhasesAt(main[i]),
         to \in Phase,
         mod' = [mod EXCEPT ![i][m] = to],
         UNCHANGED <<isRunning, main, rpcs, todo, caller>>,
         \/ UNCHANGED stopper
         \/ stopper' = "terminate" /\ main[Deployer] = "start"
  PROVE  EngineInv'
<1> USE DEF EngineInv
<1>1. EngineTypeOK'
  BY DEF EngineTypeOK
<1>2. ModulesFollowMain'
  BY DEF ModulesFollowMain, EngineTypeOK
<1>3. Roles'
  BY DEF Roles
<1>4. StartComesFirst'
  BY DEF StartComesFirst, BeforeStart, StartRequested
<1> QED
  BY <1>1, <1>2, <1>3, <1>4

LEMMA InitializeModuleKeeps ==
  ASSUME EngineInv, NEW i \in Instance, NEW m \in Module, InitializeModule(i, m)
  PROVE  EngineInv'
<1>1. "initialized" \in PhasesAt(main[i]) /\ "initialized" \in Phase
  BY DEF InitializeModule, PhasesAt, Phase
<1> QED
  BY <1>1, ModuleCall DEF InitializeModule, InOrder

LEMMA RunModuleKeeps ==
  ASSUME EngineInv, NEW i \in Instance, NEW m \in Module, RunModule(i, m)
  PROVE  EngineInv'
<1>1. "running" \in PhasesAt(main[i]) /\ "running" \in Phase
  BY DEF RunModule, PhasesAt, Phase
<1>2. stopper' = stopper \/ (stopper' = "terminate" /\ main[Deployer] = "start")
  BY DEF RunModule
<1> QED
  BY <1>1, <1>2, ModuleCall DEF RunModule, InOrder

LEMMA WindDownKeeps ==
  ASSUME EngineInv, NEW i \in Instance, NEW m \in Module, WindDown(i, m)
  PROVE  EngineInv'
<1>1. LastPhase(main[i]) \in PhasesAt(main[i]) /\ LastPhase(main[i]) \in Phase
  BY DEF WindDown, Loops, LastPhase, PhasesAt, Phase
<1> QED
  BY <1>1, ModuleCall DEF WindDown

LEMMA RunKeeps ==
  ASSUME EngineInv, NEW i \in Instance, Run(i)
  PROVE  EngineInv'
<1> USE DEF EngineInv
<1>1. Deployer \in Instance
  BY InstancesAssumption DEF Deployer, Instance
<1>2. main' = [main EXCEPT ![i] = IF i = Deployer THEN "request" ELSE "listen"]
  BY DEF Run, Goto
<1>3. EngineTypeOK'
  <2>1. main' \in [Instance -> Places]
    BY <1>2 DEF EngineTypeOK, Places
  <2>2. todo' \in [Callers -> SUBSET Others]
    BY DEF EngineTypeOK, Run, Callers
  <2> QED
    BY <2>1, <2>2 DEF EngineTypeOK, Run
<1>4. ModulesFollowMain'
  <2> SUFFICES ASSUME NEW j \in Instance, NEW m \in Module PROVE mod'[j][m] \in PhasesAt(main'[j])
    BY DEF ModulesFollowMain
  <2>1. CASE j = i
    BY <2>1, <1>2 DEF ModulesFollowMain, EngineTypeOK, Run, All, PhasesAt
  <2>2. CASE j # i
    BY <2>2, <1>2 DEF ModulesFollowMain, EngineTypeOK, Run
  <2> QED
    BY <2>1, <2>2
<1>5. Roles'
  BY <1>1, <1>2 DEF Roles, EngineTypeOK, Run, Others
<1>6. StartComesFirst'
  <2> SUFFICES ASSUME NEW j \in Others, BeforeStart(j)'
               PROVE  /\ ~isRunning'[j]
                      /\ rpcs'[j] # <<>> => Head(rpcs'[j]) = "start"
                      /\ StartRequested(j)' => rpcs'[j] # <<>>
    BY DEF StartComesFirst
  <2>1. BeforeStart(j)
    BY <1>2 DEF BeforeStart, Run, EngineTypeOK, Others
  <2>2. StartRequested(j)' => StartRequested(j)
    BY <1>1, <1>2 DEF StartRequested, Run, EngineTypeOK, Others, Callers
  <2> QED
    BY <2>1, <2>2 DEF StartComesFirst, Run
<1> QED
  BY <1>3, <1>4, <1>5, <1>6

\* A call is appended for one instance of the caller's list.
LEMMA RequestKeeps ==
  ASSUME EngineInv, NEW c \in Callers, NEW name \in {"start", "stop"}, Request(c, name),
         UNCHANGED <<isRunning, main, mod, stopper, caller>>,
         \/ name = "start" /\ c = "main" /\ main[Deployer] = "request"
         \/ name = "stop" /\ main[Deployer] \notin {"initialize", "request"}
  PROVE  EngineInv'
<1> USE DEF EngineInv
<1>1. PICK i \in todo[c] : /\ rpcs' = [rpcs EXCEPT ![i] = Append(@, name)]
                           /\ todo' = [todo EXCEPT ![c] = @ \ {i}]
  BY DEF Request
<1>2. i \in Others /\ i \in Instance
  BY DEF EngineTypeOK, Others
<1>3. EngineTypeOK'
  <2>1. Append(rpcs[i], name) \in Seq({"start", "stop"})
    BY <1>2, AppendProperties DEF EngineTypeOK
  <2>2. rpcs' \in [Instance -> Seq({"start", "stop"})]
    BY <1>1, <1>2, <2>1 DEF EngineTypeOK
  <2>3. todo' \in [Callers -> SUBSET Others]
    BY <1>1 DEF EngineTypeOK
  <2> QED
    BY <2>2, <2>3 DEF EngineTypeOK
<1>4. ModulesFollowMain'
  BY DEF ModulesFollowMain
<1>5. Roles'
  BY DEF Roles
<1>6. StartComesFirst'
  <2> SUFFICES ASSUME NEW j \in Others, BeforeStart(j)'
               PROVE  /\ ~isRunning'[j]
                      /\ rpcs'[j] # <<>> => Head(rpcs'[j]) = "start"
                      /\ StartRequested(j)' => rpcs'[j] # <<>>
    BY DEF StartComesFirst
  <2>1. /\ BeforeStart(j) /\ ~isRunning[j]
        /\ rpcs[j] # <<>> => Head(rpcs[j]) = "start"
        /\ StartRequested(j) => rpcs[j] # <<>>
    BY DEF BeforeStart, StartComesFirst
  <2>2. CASE j # i
    <3>1. rpcs'[j] = rpcs[j]
      BY <1>1, <2>2 DEF EngineTypeOK, Others
    <3>2. StartRequested(j)' => StartRequested(j)
      BY <1>1, <2>2 DEF StartRequested, EngineTypeOK, Callers
    <3> QED
      BY <2>1, <3>1, <3>2
  <2>3. CASE j = i
    <3>1. rpcs'[j] = Append(rpcs[j], name) /\ rpcs[j] \in Seq({"start", "stop"})
      BY <1>1, <1>2, <2>3 DEF EngineTypeOK
    <3>2. rpcs'[j] # <<>>
      BY <3>1, AppendProperties
    <3>3. Head(rpcs'[j]) = IF rpcs[j] = <<>> THEN name ELSE Head(rpcs[j])
      BY <3>1
    <3>4. rpcs[j] = <<>> => name = "start"
      BY <2>1 DEF StartRequested
    <3> QED
      BY <2>1, <3>2, <3>3, <3>4
  <2> QED
    BY <2>2, <2>3
<1> QED
  BY <1>3, <1>4, <1>5, <1>6

LEMMA StartSelfKeeps ==
  ASSUME EngineInv, StartSelf
  PROVE  EngineInv'
<1> USE DEF EngineInv
<1>1. Deployer \in Instance
  BY InstancesAssumption DEF Deployer, Instance
<1>2. main' = [main EXCEPT ![Deployer] = "start"]
  BY DEF StartSelf, Goto
<1>3. EngineTypeOK'
  BY <1>1, <1>2 DEF EngineTypeOK, StartSelf, Places
<1>4. ModulesFollowMain'
  <2> SUFFICES ASSUME NEW j \in Instance, NEW m \in Module PROVE mod'[j][m] \in PhasesAt(main'[j])
    BY DEF ModulesFollowMain
  <2>1. CASE j = Deployer
    BY <2>1, <1>1, <1>2, SMTT(40) DEF ModulesFollowMain, EngineTypeOK, StartSelf, PhasesAt
  <2>2. CASE j # Deployer
    BY <2>2, <1>2 DEF ModulesFollowMain, EngineTypeOK, StartSelf
  <2> QED
    BY <2>1, <2>2
<1>5. Roles'
  BY <1>1, <1>2 DEF Roles, EngineTypeOK, StartSelf, Others
<1>6. StartComesFirst'
  BY <1>1, <1>2 DEF StartComesFirst, BeforeStart, StartRequested, EngineTypeOK, StartSelf, Others
<1> QED
  BY <1>3, <1>4, <1>5, <1>6

LEMMA StartedKeeps ==
  ASSUME EngineInv, NEW i \in Instance, Started(i)
  PROVE  EngineInv'
<1> USE DEF EngineInv
<1>1. Deployer \in Instance
  BY InstancesAssumption DEF Deployer, Instance
<1>2. main' = [main EXCEPT ![i] = IF i = Deployer /\ caller = "main" THEN "terminate" ELSE "await"]
  BY DEF Started, Goto
<1>3. EngineTypeOK'
  <2>1. main' \in [Instance -> Places]
    BY <1>2 DEF EngineTypeOK, Places
  <2>2. todo' \in [Callers -> SUBSET Others]
    BY DEF EngineTypeOK, Started, Callers
  <2> QED
    BY <2>1, <2>2 DEF EngineTypeOK, Started
<1>4. ModulesFollowMain'
  BY <1>2, ZenonT(40) DEF ModulesFollowMain, EngineTypeOK, Started, All, PhasesAt
<1>5. Roles'
  BY <1>1, <1>2 DEF Roles, EngineTypeOK, Started, Others
<1>6. StartComesFirst'
  <2> SUFFICES ASSUME NEW j \in Others, BeforeStart(j)'
               PROVE  /\ ~isRunning'[j]
                      /\ rpcs'[j] # <<>> => Head(rpcs'[j]) = "start"
                      /\ StartRequested(j)' => rpcs'[j] # <<>>
    BY DEF StartComesFirst
  <2>1. BeforeStart(j)
    BY <1>2 DEF BeforeStart, Started, EngineTypeOK, Others
  <2>2. StartRequested(j)' => StartRequested(j)
    BY <1>1, <1>2 DEF StartRequested, Started, EngineTypeOK, Others, Callers
  <2> QED
    BY <2>1, <2>2 DEF StartComesFirst, Started
<1> QED
  BY <1>3, <1>4, <1>5, <1>6

\* A worker's first call is its start, so listen() goes to start().
LEMMA ListenKeeps ==
  ASSUME EngineInv, NEW i \in Instance, Listen(i)
  PROVE  EngineInv'
<1> USE DEF EngineInv
<1>1. Deployer \in Instance
  BY InstancesAssumption DEF Deployer, Instance
<1>2. i \in Others /\ BeforeStart(i)
  BY DEF Listen, Roles, Others, BeforeStart
<1>3. /\ main' = [main EXCEPT ![i] = "start"]
      /\ isRunning' = [isRunning EXCEPT ![i] = TRUE]
      /\ rpcs' = [rpcs EXCEPT ![i] = Tail(@)]
      /\ UNCHANGED <<mod, todo, stopper, caller>>
  BY <1>2 DEF Listen, Execute, StartComesFirst, Goto
<1>4. EngineTypeOK'
  <2>1. Tail(rpcs[i]) \in Seq({"start", "stop"})
    BY HeadTailProperties DEF EngineTypeOK, Listen
  <2>2. main' \in [Instance -> Places]
    BY <1>3 DEF EngineTypeOK, Places
  <2> QED
    BY <1>3, <2>1, <2>2 DEF EngineTypeOK
<1>5. ModulesFollowMain'
  <2> SUFFICES ASSUME NEW j \in Instance, NEW m \in Module PROVE mod'[j][m] \in PhasesAt(main'[j])
    BY DEF ModulesFollowMain
  <2>1. CASE j = i
    <3>1. main[i] = "listen" /\ main'[i] = "start" /\ mod' = mod
      BY <1>3 DEF EngineTypeOK, Listen
    <3>2. mod[i][m] \in PhasesAt("listen")
      BY <3>1 DEF ModulesFollowMain
    <3> QED
      BY <2>1, <3>1, <3>2 DEF PhasesAt
  <2>2. CASE j # i
    BY <2>2, <1>3 DEF ModulesFollowMain, EngineTypeOK
  <2> QED
    BY <2>1, <2>2
<1>6. Roles'
  BY <1>1, <1>2, <1>3 DEF Roles, EngineTypeOK, Others
<1>7. StartComesFirst'
  <2> SUFFICES ASSUME NEW j \in Others, BeforeStart(j)'
               PROVE  /\ ~isRunning'[j]
                      /\ rpcs'[j] # <<>> => Head(rpcs'[j]) = "start"
                      /\ StartRequested(j)' => rpcs'[j] # <<>>
    BY DEF StartComesFirst
  <2>1. j # i /\ BeforeStart(j)
    BY <1>2, <1>3 DEF BeforeStart, EngineTypeOK, Others
  <2>2. isRunning'[j] = isRunning[j] /\ rpcs'[j] = rpcs[j]
    BY <1>3, <2>1 DEF EngineTypeOK, Others
  <2>3. StartRequested(j)' => StartRequested(j)
    BY <1>1, <1>2, <1>3 DEF StartRequested, EngineTypeOK, Others
  <2> QED
    BY <2>1, <2>2, <2>3 DEF StartComesFirst
<1> QED
  BY <1>4, <1>5, <1>6, <1>7

\* A thread moves between places that are past start(), or are both the
\* deployer's; the calls that wait for an instance that has not started stay.
LEMMA LaterKeeps ==
  ASSUME EngineInv, NEW i \in Instance, NEW place \in Places,
         place \notin {"initialize", "request", "listen", "start", "terminate"},
         main[i] \notin {"initialize", "request", "listen"},
         main' = [main EXCEPT ![i] = place],
         \A m \in Module : mod[i][m] \in PhasesAt(place),
         isRunning' \in [Instance -> BOOLEAN],
         \A j \in Instance \ {i} : isRunning'[j] = isRunning[j] /\ rpcs'[j] = rpcs[j],
         rpcs' \in [Instance -> Seq({"start", "stop"})],
         UNCHANGED <<mod, todo, stopper, caller>>
  PROVE  EngineInv'
<1> USE DEF EngineInv
<1>1. Deployer \in Instance
  BY InstancesAssumption DEF Deployer, Instance
<1>2. EngineTypeOK'
  BY DEF EngineTypeOK
<1>3. ModulesFollowMain'
  BY DEF ModulesFollowMain, EngineTypeOK
<1>4. Roles'
  BY <1>1 DEF Roles, EngineTypeOK, Others
<1>5. StartComesFirst'
  <2> SUFFICES ASSUME NEW j \in Others, BeforeStart(j)'
               PROVE  /\ ~isRunning'[j]
                      /\ rpcs'[j] # <<>> => Head(rpcs'[j]) = "start"
                      /\ StartRequested(j)' => rpcs'[j] # <<>>
    BY DEF StartComesFirst
  <2>1. j # i /\ BeforeStart(j)
    BY DEF BeforeStart, EngineTypeOK, Others
  <2>2. isRunning'[j] = isRunning[j] /\ rpcs'[j] = rpcs[j]
    BY <2>1 DEF Others
  <2>3. StartRequested(j)' => StartRequested(j)
    BY <1>1 DEF StartRequested, EngineTypeOK
  <2> QED
    BY <2>1, <2>2, <2>3 DEF StartComesFirst
<1> QED
  BY <1>2, <1>3, <1>4, <1>5

LEMMA AwaitPollKeeps ==
  ASSUME EngineInv, NEW i \in Instance, AwaitPoll(i)
  PROVE  EngineInv'
<1> USE DEF EngineInv
<1>1. /\ main' = [main EXCEPT ![i] = "await"]
      /\ rpcs' = [rpcs EXCEPT ![i] = Tail(@)]
      /\ isRunning' = isRunning \/ isRunning' = [isRunning EXCEPT ![i] = FALSE]
      /\ main[i] = "await"
      /\ UNCHANGED <<mod, todo, stopper, caller>>
  BY DEF AwaitPoll, Execute, Goto
<1>2. Tail(rpcs[i]) \in Seq({"start", "stop"})
  BY HeadTailProperties DEF EngineTypeOK, AwaitPoll
<1>3. rpcs' \in [Instance -> Seq({"start", "stop"})]
  BY <1>1, <1>2 DEF EngineTypeOK
<1>4. isRunning' \in [Instance -> BOOLEAN]
  BY <1>1 DEF EngineTypeOK
<1>5. \A m \in Module : mod[i][m] \in PhasesAt("await")
  BY <1>1 DEF ModulesFollowMain
<1>6. \A j \in Instance \ {i} : isRunning'[j] = isRunning[j] /\ rpcs'[j] = rpcs[j]
  BY <1>1 DEF EngineTypeOK
<1>7. "await" \in Places
  BY DEF Places
<1> HIDE DEF EngineInv
<1> QED
  BY <1>1, <1>3, <1>4, <1>5, <1>6, <1>7, LaterKeeps

LEMMA AwaitStoppedKeeps ==
  ASSUME EngineInv, NEW i \in Instance, AwaitStopped(i)
  PROVE  EngineInv'
<1>1. \A m \in Module : mod[i][m] \in PhasesAt("terminateModules")
  BY DEF EngineInv, ModulesFollowMain, AwaitStopped, PhasesAt
<1>2. "terminateModules" \in Places
  BY DEF Places
<1>3. isRunning \in [Instance -> BOOLEAN] /\ rpcs \in [Instance -> Seq({"start", "stop"})]
  BY DEF EngineInv, EngineTypeOK
<1> QED
  BY <1>1, <1>2, <1>3, LaterKeeps DEF AwaitStopped, Goto

LEMMA WoundDownKeeps ==
  ASSUME EngineInv, NEW i \in Instance, WoundDown(i)
  PROVE  EngineInv'
<1>1. \A m \in Module : mod[i][m] \in PhasesAt(NextLoop(main[i]))
  BY DEF WoundDown, All, LastPhase, NextLoop, Loops, PhasesAt
<1>2. /\ NextLoop(main[i]) \in Places
      /\ NextLoop(main[i]) \notin {"initialize", "request", "listen", "start", "terminate"}
      /\ main[i] \notin {"initialize", "request", "listen"}
  BY DEF WoundDown, NextLoop, Loops, Places
<1>3. isRunning \in [Instance -> BOOLEAN] /\ rpcs \in [Instance -> Seq({"start", "stop"})]
  BY DEF EngineInv, EngineTypeOK
<1>4. /\ main' = [main EXCEPT ![i] = NextLoop(main[i])]
      /\ UNCHANGED <<isRunning, mod, rpcs, todo, stopper, caller>>
  BY DEF WoundDown, Goto
<1> QED
  BY <1>1, <1>2, <1>3, <1>4, LaterKeeps

LEMMA StopSelfKeeps ==
  ASSUME EngineInv, StopSelf
  PROVE  EngineInv'
<1>1. Deployer \in Instance
  BY InstancesAssumption DEF Deployer, Instance
<1>2. \A m \in Module : mod[Deployer][m] \in PhasesAt("await")
  BY <1>1 DEF EngineInv, ModulesFollowMain, StopSelf, PhasesAt
<1>3. /\ isRunning' \in [Instance -> BOOLEAN]
      /\ rpcs' \in [Instance -> Seq({"start", "stop"})]
      /\ \A j \in Instance \ {Deployer} : isRunning'[j] = isRunning[j] /\ rpcs'[j] = rpcs[j]
  BY <1>1 DEF EngineInv, EngineTypeOK, StopSelf
<1>4. "await" \in Places
  BY DEF Places
<1> QED
  BY <1>1, <1>2, <1>3, <1>4, LaterKeeps DEF StopSelf, Goto

LEMMA StopperKeeps ==
  ASSUME EngineInv, StopperEnters \/ StopperStops
  PROVE  EngineInv'
<1> USE DEF EngineInv
<1>1. /\ UNCHANGED <<main, mod, rpcs, caller>>
      /\ stopper' \in {"request", "done"} /\ stopper # "off"
      /\ todo' = [todo EXCEPT !["module"] = Others] \/ todo' = todo
      /\ isRunning' = [isRunning EXCEPT ![Deployer] = FALSE] \/ isRunning' = isRunning
  BY DEF StopperEnters, StopperStops
<1>2. EngineTypeOK'
  BY <1>1 DEF EngineTypeOK, Callers
<1>3. ModulesFollowMain'
  BY <1>1 DEF ModulesFollowMain
<1>4. Roles'
  BY <1>1 DEF Roles
<1>5. StartComesFirst'
  BY <1>1 DEF StartComesFirst, BeforeStart, StartRequested, EngineTypeOK, Others, Callers, Roles
<1> QED
  BY <1>2, <1>3, <1>4, <1>5

LEMMA EngineStepKeeps ==
  ASSUME EngineInv, ENext
  PROVE  EngineInv'
<1>1. CASE Stopper
  <2>1. CASE StopperRequests
    <3>1. main[Deployer] \notin {"initialize", "request"} /\ "module" \in Callers
      BY <2>1 DEF EngineInv, Roles, StopperRequests, Callers
    <3> QED
      BY <2>1, <3>1, RequestKeeps DEF StopperRequests
  <2> QED
    BY <1>1, <2>1, StopperKeeps DEF Stopper
<1>2. ASSUME NEW i \in Instance, Main(i) PROVE EngineInv'
  <2>1. CASE \E m \in Module : InitializeModule(i, m) \/ RunModule(i, m) \/ WindDown(i, m)
    BY <2>1, InitializeModuleKeeps, RunModuleKeeps, WindDownKeeps
  <2>2. "main" \in Callers
    BY DEF Callers
  <2>3. CASE RequestStart
    BY <2>2, <2>3, RequestKeeps DEF RequestStart
  <2>4. CASE RequestStop
    BY <2>2, <2>4, RequestKeeps DEF RequestStop
  <2> QED
    BY <1>2, <2>1, <2>3, <2>4, RunKeeps, StartedKeeps, ListenKeeps, AwaitPollKeeps,
       AwaitStoppedKeeps, WoundDownKeeps, StartSelfKeeps, StopSelfKeeps DEF Main
<1> QED
  BY <1>1, <1>2 DEF ENext

\* The order of one step: a module is told to wind down only from the phase
\* before, and only when every module of its instance has reached it.
LifecycleStep ==
  \A i \in Instance, m \in Module :
     mod'[i][m] # mod[i][m] =>
       /\ mod'[i][m] = "terminated" => mod[i][m] = "running"
       /\ mod'[i][m] = "awaited" =>
            \A n \in Module : mod[i][n] \in {"terminated", "awaited"}
       /\ mod'[i][m] = "finalized" =>
            \A n \in Module : mod[i][n] \in {"awaited", "finalized"}

LEMMA LifecycleOfStep ==
  ASSUME EngineInv, ENext
  PROVE  LifecycleStep
<1> SUFFICES ASSUME NEW i \in Instance, NEW m \in Module, mod'[i][m] # mod[i][m]
             PROVE  /\ mod'[i][m] = "terminated" => mod[i][m] = "running"
                    /\ mod'[i][m] = "awaited" =>
                         \A n \in Module : mod[i][n] \in {"terminated", "awaited"}
                    /\ mod'[i][m] = "finalized" =>
                         \A n \in Module : mod[i][n] \in {"awaited", "finalized"}
  BY DEF LifecycleStep
<1>1. PICK j \in Instance, k \in Module :
        InitializeModule(j, k) \/ RunModule(j, k) \/ WindDown(j, k)
  BY DEF ENext, Stopper, StopperEnters, StopperRequests, StopperStops, Main, Run, Started,
         Listen, AwaitPoll, AwaitStopped, WoundDown, RequestStart, StartSelf, RequestStop, StopSelf
<1>2. mod \in [Instance -> [Module -> Phase]]
  BY DEF EngineInv, EngineTypeOK
<1>3. CASE InitializeModule(j, k)
  BY <1>2, <1>3 DEF InitializeModule, InOrder
<1>4. CASE RunModule(j, k)
  BY <1>2, <1>4 DEF RunModule, InOrder
<1>5. CASE WindDown(j, k)
  <2>1. /\ i = j /\ m = k /\ mod'[i][m] = LastPhase(main[i]) /\ main[i] \in Loops
    BY <1>2, <1>5 DEF WindDown
  <2>2. \A n \in Module : mod[i][n] \in PhasesAt(main[i])
    BY DEF EngineInv, ModulesFollowMain
  <2> QED
    BY <2>1, <2>2 DEF Loops, LastPhase, PhasesAt
<1> QED
  BY <1>1, <1>3, <1>4, <1>5

\* On every instance, with any number of instances and modules, and whoever
\* calls terminate() and however late a remote call is executed: a module is
\* terminated only after it ran, awaited only after every module of its
\* instance was terminated, and finalized only after every one was awaited
\* (engine.hpp, run, start, terminate, await and finalize).
THEOREM LifecycleOrdered == PlatformSpec => LifecycleOrder
<1>1. PlatformInit => EngineInv
  BY EngineInitially DEF PlatformInit
<1>2. EngineInv /\ [PlatformNext]_allVars => EngineInv'
  <2> SUFFICES ASSUME EngineInv, [PlatformNext]_allVars PROVE EngineInv'
    OBVIOUS
  <2>1. CASE ENext
    BY <2>1, EngineStepKeeps
  <2>2. CASE UNCHANGED evars
    BY <2>2 DEF evars, EngineInv, EngineTypeOK, ModulesFollowMain, Roles, StartComesFirst,
                BeforeStart, StartRequested
  <2> QED
    BY <2>1, <2>2 DEF PlatformNext, allVars
<1>3. EngineInv /\ [PlatformNext]_allVars => [LifecycleStep]_mod
  <2> SUFFICES ASSUME EngineInv, [PlatformNext]_allVars PROVE [LifecycleStep]_mod
    OBVIOUS
  <2>1. CASE ENext
    BY <2>1, LifecycleOfStep
  <2>2. CASE UNCHANGED evars
    BY <2>2 DEF evars
  <2> QED
    BY <2>1, <2>2 DEF PlatformNext, allVars
<1>4. LifecycleOrder <=> [][LifecycleStep]_mod
  BY DEF LifecycleOrder, LifecycleStep
<1> QED
  BY <1>1, <1>2, <1>3, <1>4, PTL DEF PlatformSpec

-----------------------------------------------------------------------------
(***************************************************************************)
(* Arithmetic of the ring and of the message ids.                          *)
(***************************************************************************)
LEMMA Monotone ==
  ASSUME NEW n \in Nat, NEW x \in Int, NEW y \in Int, x <= y
  PROVE  n * x <= n * y
OBVIOUS

LEMMA Spread ==
  ASSUME NEW n \in Nat, NEW x \in Int, NEW y \in Int, x < y
  PROVE  n * x + n <= n * y
<1>1. n * (x + 1) <= n * y
  BY Monotone
<1>2. n * (x + 1) = n * x + n
  OBVIOUS
<1> QED
  BY <1>1, <1>2

LEMMA Division ==
  ASSUME NEW n \in Nat \ {0}, NEW p \in Nat
  PROVE  p = n * (p \div n) + (p % n) /\ p \div n \in Int /\ p % n \in 0 .. n - 1
OBVIOUS

LEMMA SmallRemainder ==
  ASSUME NEW n \in Nat \ {0}, NEW p \in 0 .. n - 1
  PROVE  p % n = p
<1>1. p = n * (p \div n) + (p % n)
  BY Division
<1>2. p \div n = 0
  OBVIOUS
<1> QED
  BY <1>1, <1>2

\* Positions less than one turn of the ring apart are different bytes of it.
LEMMA RingDistinct ==
  ASSUME NEW n \in Nat \ {0}, NEW p \in Nat, NEW q \in Nat, p < q, q < p + n
  PROVE  p % n # q % n
<1> SUFFICES ASSUME p % n = q % n PROVE FALSE
  OBVIOUS
<1> DEFINE x == p \div n
           y == q \div n
<1>1. /\ p = n * x + (p % n) /\ x \in Int
      /\ q = n * y + (q % n) /\ y \in Int
      /\ p % n \in Int
  BY Division
<1> HIDE DEF x, y
<1>2. n * x < n * y /\ n * y < n * x + n
  <2>1. n * x \in Int /\ n * y \in Int
    BY <1>1
  <2> QED
    BY <1>1, <2>1
<1>3. CASE y <= x
  BY <1>1, <1>2, <1>3, Monotone
<1>4. CASE x < y
  BY <1>1, <1>2, <1>4, Spread
<1> QED
  BY <1>1, <1>3, <1>4

\* Fields packed side by side do not overlap.
LEMMA Digits ==
  ASSUME NEW n \in Nat, NEW a \in Nat, NEW b \in Nat, NEW x \in 0 .. n - 1, NEW y \in 0 .. n - 1,
         a * n + x = b * n + y
  PROVE  a = b /\ x = y
<1>1. a * n = n * a /\ b * n = n * b /\ n * a \in Nat /\ n * b \in Nat
  OBVIOUS
<1>2. ~ (a < b)
  BY <1>1, Spread
<1>3. ~ (b < a)
  BY <1>1, Spread
<1> QED
  BY <1>2, <1>3

-----------------------------------------------------------------------------
(***************************************************************************)
(* The edge: EdgeInv is inductive.                                         *)
(***************************************************************************)
LEMMA EdgeInitially == Init => EdgeInv
<1> SUFFICES ASSUME Init PROVE EdgeInv
  OBVIOUS
<1> USE DEF Init
<1>1. /\ delivered = <<>> /\ meta = <<>> /\ data = <<>> /\ head = 0 /\ tail = 0
      /\ reader = "poll" /\ Len(delivered) = 0 /\ Len(meta) = 0 /\ Len(data) = 0
      /\ \A t \in Thread : pc[t] = "idle" /\ sent[t] = 0
  OBVIOUS
<1>2. EdgeTypeOK
  <2>1. TypeOK
    <3>1. \A t \in Thread : sent[t] \in 0..Len(Sizes[t])
      BY SizesAssumption, <1>1
    <3> QED
      BY <1>1, <3>1, CapacityAssumption DEF TypeOK, Bytes, Side
  <2>2. bytes = [p \in 0..(BufferSize - 1) |-> bytes[p]]
    OBVIOUS
  <2> QED
    BY <2>1, <2>2, <1>1 DEF EdgeTypeOK, HashFunctions
<1>3. SetUpInv
  BY <1>1 DEF SetUpInv, Side
<1>4. ProducerInv
  BY <1>1 DEF ProducerInv
<1>5. ReaderInv /\ RingInv
  BY <1>1, CapacityAssumption DEF ReaderInv, RingInv
<1>6. QueueInv
  BY <1>1 DEF QueueInv, Popped, Pushing
<1>7. LogInv
  <2>1. LogLen = 0
    BY <1>1 DEF LogLen, Handled
  <2> QED
    BY <1>1, <2>1 DEF LogInv
<1>8. DeliveredIntact /\ NoBug
  BY <1>1 DEF DeliveredIntact, NoBug
<1> QED
  BY <1>2, <1>3, <1>4, <1>5, <1>6, <1>7, <1>8 DEF EdgeInv

\* Once the slots are exchanged both registries are complete, and types stand
\* for one name each.
LEMMA SetUpDone ==
  ASSUME EdgeInv, SlotKeys \subseteq published
  PROVE  /\ \A s \in Side : Registered(s) /\ registry[s] = [n \in Range(Names) |-> fnv1a[n]]
         /\ \A t, u \in Thread : fnv1a[Names[t]] = fnv1a[Names[u]] => t = u
         /\ \A t \in Thread : Names[t] \in Range(Names)
<1> USE DEF EdgeInv
<1>1. "dataConsumerSizes" \in GetMemorySlotsToExchange("input") \cap published
  BY DEF SlotKeys, GetMemorySlotsToExchange, InputSlots
<1>2. "metadataProducerCoordination" \in GetMemorySlotsToExchange("output") \cap published
  BY DEF SlotKeys, GetMemorySlotsToExchange, OutputSlots
<1>3. \A s \in Side : Registered(s)
  BY <1>1, <1>2 DEF SetUpInv, Side
<1>4. \A s \in Side : registry[s] = [n \in Range(Names) |-> fnv1a[n]]
  BY <1>3 DEF SetUpInv, Registered
<1>5. \A m, n \in Range(Names) : fnv1a[m] = fnv1a[n] => m = n
  BY <1>3 DEF SetUpInv, Registered, Side
<1>6. \A t \in Thread : Names[t] \in Range(Names)
  BY NamesAssumption DEF Range
<1> QED
  BY <1>3, <1>4, <1>5, <1>6, NamesAssumption

\* The metadata that a sender builds is the one the hash function gives.
LEMMA MetadataHashed ==
  ASSUME EdgeInv, SlotKeys \subseteq published, NEW t \in Thread, NEW k
  PROVE  Metadata(t, k) = MessageOf(t, k)
<1>1. registry["output"] = [n \in Range(Names) |-> fnv1a[n]] /\ Names[t] \in Range(Names)
  BY SetUpDone DEF Side
<1> QED
  BY <1>1 DEF Metadata, MessageOf

LEMMA MessageType ==
  ASSUME EdgeInv, NEW t \in Thread, NEW k \in Nat \ {0}
  PROVE  /\ MessageOf(t, k) \in MetadataSet /\ MessageOf(t, k).type = fnv1a[Names[t]]
         /\ MessageOf(t, k).sequenceId = k - 1
         /\ MessageOf(t, k).groupId \in 0 .. GroupIds - 1
         /\ fnv1a[Names[t]] \in 0 .. TypeIds - 1
<1>1. fnv1a \in [Range(Names) -> 0..(TypeIds - 1)] /\ Names[t] \in Range(Names)
  BY NamesAssumption DEF EdgeInv, EdgeTypeOK, Range
<1>2. fnv1a[Names[t]] \in 0 .. TypeIds - 1 /\ fnv1a[Names[t]] \in Nat
  BY <1>1, IdsAssumption
<1>3. (k - 1) % GroupIds \in 0 .. GroupIds - 1 /\ k - 1 \in Nat
  BY IdsAssumption, Division
<1> QED
  BY <1>2, <1>3, IdsAssumption DEF MessageOf, MetadataSet

\* The log stays when each of its entries does.
LEMMA LogFrame ==
  ASSUME LogInv, UNCHANGED <<fnv1a, sent>>, LogLen' = LogLen,
         \A k \in 1 .. LogLen : Log'[k] = Log[k]
  PROVE  LogInv'
<1>1. \A t, j : MessageOf(t, j)' = MessageOf(t, j)
  BY DEF MessageOf
<1> QED
  BY <1>1 DEF LogInv

\* The set-up leaves the channels and their users alone.
LEMMA SetUpFrame ==
  ASSUME EdgeInv, UNCHANGED <<fnv1a, producers, channel, consumer, bug>>,
         DOMAIN registry' = Side, published' \subseteq SlotKeys, ready' \in [Side -> BOOLEAN],
         SetUpInv'
  PROVE  EdgeInv'
<1> USE DEF EdgeInv, producers, channel, consumer
<1>1. EdgeTypeOK'
  BY DEF EdgeTypeOK, TypeOK, Bytes
<1>2. ProducerInv'
  BY DEF ProducerInv, MetaFull, DataFull, Bytes, NextSize
<1>3. ReaderInv' /\ RingInv'
  BY DEF ReaderInv, RingInv, End
<1>4. QueueInv'
  BY DEF QueueInv, Popped, Pushing, MessageOf
<1>5. LogInv'
  BY LogFrame DEF LogLen, Log, Handled
<1>6. DeliveredIntact' /\ NoBug'
  BY DEF DeliveredIntact, NoBug
<1> QED
  BY <1>1, <1>2, <1>3, <1>4, <1>5, <1>6

LEMMA RegisterKeeps ==
  ASSUME EdgeInv, NEW side \in Side, Register(side)
  PROVE  EdgeInv'
<1> USE DEF EdgeInv
<1>1. PICK n \in Range(Names) :
        /\ n \notin DOMAIN registry[side]
        /\ TypeToName(side, fnv1a[n]) = {}
        /\ registry' = [registry EXCEPT ![side] =
             [m \in DOMAIN registry[side] \cup {n} |-> IF m = n THEN fnv1a[n] ELSE registry[side][m]]]
  BY DEF Register, RegisterType
<1>2. UNCHANGED <<fnv1a, published, ready, producers, channel, consumer, bug>>
  BY DEF Register
<1>3. DOMAIN registry' = Side /\ DOMAIN registry = Side
  BY <1>1 DEF EdgeTypeOK
<1>4. SetUpInv'
  <2>1. ASSUME NEW s \in Side
        PROVE  /\ DOMAIN registry'[s] \subseteq Range(Names)
               /\ registry'[s] = [m \in DOMAIN registry'[s] |-> fnv1a[m]]
               /\ \A l, m \in DOMAIN registry'[s] : fnv1a[l] = fnv1a[m] => l = m
               /\ (GetMemorySlotsToExchange(s) \cap published # {} => DOMAIN registry'[s] = Range(Names))
               /\ ready[s] => SlotKeys \subseteq published
    <3>1. CASE s # side
      <4>1. registry'[s] = registry[s]
        BY <1>1, <1>3, <3>1
      <4> QED
        BY <4>1 DEF SetUpInv, Registered
    <3>2. CASE s = side
      <4>1. registry'[s] = [m \in DOMAIN registry[s] \cup {n} |->
                              IF m = n THEN fnv1a[n] ELSE registry[s][m]]
        BY <1>1, <1>3, <3>2
      <4>2. \A m \in DOMAIN registry[s] : registry[s][m] = fnv1a[m]
        <5>1. ASSUME NEW f, NEW g, NEW S, f = [m \in S |-> g[m]] PROVE \A m \in S : f[m] = g[m]
          BY <5>1
        <5>2. registry[s] = [m \in DOMAIN registry[s] |-> fnv1a[m]]
          BY Zenon DEF SetUpInv
        <5> QED
          BY <5>1, <5>2, Zenon
      <4>3. registry'[s] = [m \in DOMAIN registry[s] \cup {n} |-> fnv1a[m]]
        BY <4>1, <4>2
      <4>4. \A m \in DOMAIN registry[s] : fnv1a[m] # fnv1a[n]
        BY <1>1, <3>2, <4>2 DEF TypeToName
      <4>5. ~ Registered(s)
        BY <1>1, <3>2 DEF Registered
      <4> QED
        BY <4>3, <4>4, <4>5, ZenonT(40) DEF SetUpInv
    <3> QED
      BY <3>1, <3>2
  <2> QED
    BY <1>2, <2>1 DEF SetUpInv, Registered, producers, consumer
<1>5. published' \subseteq SlotKeys /\ ready' \in [Side -> BOOLEAN]
  BY <1>2 DEF EdgeTypeOK, TypeOK
<1> HIDE DEF EdgeInv
<1> QED
  BY <1>2, <1>3, <1>4, <1>5, SetUpFrame

LEMMA ExchangeKeeps ==
  ASSUME EdgeInv, NEW side \in Side, Exchange(side)
  PROVE  EdgeInv'
<1> USE DEF EdgeInv
<1>1. /\ published' = published \cup GetMemorySlotsToExchange(side) /\ Registered(side)
      /\ UNCHANGED <<fnv1a, registry, ready, producers, channel, consumer, bug>>
  BY DEF Exchange
<1>2. GetMemorySlotsToExchange("input") \cap GetMemorySlotsToExchange("output") = {}
  BY DEF GetMemorySlotsToExchange, InputSlots, OutputSlots
<1>3. SetUpInv'
  <2>1. ASSUME NEW s \in Side, GetMemorySlotsToExchange(s) \cap published' # {}
        PROVE  Registered(s)
    BY <1>1, <1>2, <2>1 DEF SetUpInv, Side
  <2> QED
    BY <1>1, <2>1 DEF SetUpInv, producers, consumer, Registered
<1>4. published' \subseteq SlotKeys
  BY <1>1 DEF EdgeTypeOK, TypeOK, SlotKeys, GetMemorySlotsToExchange, InputSlots, OutputSlots
<1>5. DOMAIN registry' = Side /\ ready' \in [Side -> BOOLEAN]
  BY <1>1 DEF EdgeTypeOK, TypeOK
<1> HIDE DEF EdgeInv
<1> QED
  BY <1>1, <1>3, <1>4, <1>5, SetUpFrame

LEMMA InitializeKeeps ==
  ASSUME EdgeInv, NEW side \in Side, Initialize(side)
  PROVE  EdgeInv'
<1> USE DEF EdgeInv
<1>1. /\ SlotKeys \subseteq published /\ ready' = [ready EXCEPT ![side] = TRUE]
      /\ UNCHANGED <<fnv1a, registry, published, producers, channel, consumer, bug>>
  BY DEF Initialize
<1>2. DOMAIN registry' = Side /\ published' \subseteq SlotKeys /\ ready' \in [Side -> BOOLEAN]
  BY <1>1 DEF EdgeTypeOK, TypeOK
<1>3. SetUpInv'
  BY <1>1 DEF SetUpInv, producers, consumer, Registered
<1> HIDE DEF EdgeInv
<1> QED
  BY <1>1, <1>2, <1>3, SetUpFrame

\* A step of one thread that touches only the mutex and its position.
LEMMA PositionFrame ==
  ASSUME EdgeInv, NEW t \in Thread,
         NEW place \in {"idle", "isFull", "isFullData", "unlock", "push"},
         pc[t] # "pushMeta", pc' = [pc EXCEPT ![t] = place],
         lock' \in Thread \cup {None}, SlotKeys \subseteq published, ProducerInv',
         UNCHANGED <<setup, sent, channel, consumer, bug>>
  PROVE  EdgeInv'
<1> USE DEF EdgeInv, setup, channel, consumer
<1>1. pc \in [Thread -> {"idle", "isFull", "isFullData", "unlock", "push", "pushMeta"}]
  BY DEF EdgeTypeOK, TypeOK
<1>2. EdgeTypeOK'
  BY <1>1 DEF EdgeTypeOK, TypeOK, Bytes
<1>3. SetUpInv'
  BY DEF SetUpInv, Registered
<1>4. ReaderInv' /\ RingInv'
  BY DEF ReaderInv, RingInv, End
<1>5. \A u \in Thread : pc[u] = "pushMeta" <=> pc'[u] = "pushMeta"
  BY <1>1
<1>6. Pushing' = Pushing /\ Popped' = Popped
  BY <1>5 DEF Pushing, Popped
<1>7. \A u, j : MessageOf(u, j)' = MessageOf(u, j)
  BY DEF MessageOf
<1>8. QueueInv'
  BY <1>5, <1>6, <1>7 DEF QueueInv
<1>9. LogInv'
  BY LogFrame DEF LogLen, Log, Handled
<1>10. DeliveredIntact' /\ NoBug'
  BY DEF DeliveredIntact, NoBug
<1> QED
  BY <1>2, <1>3, <1>4, <1>8, <1>9, <1>10

LEMMA LockOutputKeeps ==
  ASSUME EdgeInv, NEW t \in Thread, LockOutput(t)
  PROVE  EdgeInv'
<1>1. SlotKeys \subseteq published
  BY DEF LockOutput, EdgeInv, SetUpInv, Side
<1>2. ProducerInv'
  BY SizesAssumption DEF LockOutput, EdgeInv, EdgeTypeOK, TypeOK, ProducerInv, MetaFull, DataFull, Bytes, NextSize,
     channel
<1> QED
  BY <1>1, <1>2, PositionFrame DEF LockOutput

LEMMA IsFullKeeps ==
  ASSUME EdgeInv, NEW t \in Thread, IsFullMeta(t) \/ IsFullData(t)
  PROVE  EdgeInv'
<1> USE DEF IsFullMeta, IsFullData
<1>1. SlotKeys \subseteq published
  BY DEF EdgeInv, SetUpInv
<1>2. PICK place \in {"unlock", "isFullData", "push"} :
        /\ pc' = [pc EXCEPT ![t] = place]
        /\ place = "isFullData" => ~ MetaFull
        /\ place = "push" => ~ DataFull(NextSize(t)) /\ pc[t] = "isFullData"
  OBVIOUS
<1>3. ProducerInv'
  <2>1. \A u \in Thread : u # t => pc'[u] = pc[u]
    BY <1>2 DEF EdgeInv, EdgeTypeOK, TypeOK
  <2>2. pc'[t] = place
    BY <1>2 DEF EdgeInv, EdgeTypeOK, TypeOK
  <2> QED
    BY <1>2, <2>1, <2>2 DEF EdgeInv, ProducerInv, MetaFull, DataFull, Bytes, NextSize, channel
<1>4. lock' \in Thread \cup {None} /\ pc[t] # "pushMeta"
  BY DEF EdgeInv, EdgeTypeOK, TypeOK
<1> QED
  BY <1>1, <1>2, <1>3, <1>4, PositionFrame

LEMMA UnlockKeeps ==
  ASSUME EdgeInv, NEW t \in Thread, Unlock(t)
  PROVE  EdgeInv'
<1>1. SlotKeys \subseteq published
  BY DEF Unlock, EdgeInv, SetUpInv
<1>2. ProducerInv'
  BY DEF Unlock, EdgeInv, EdgeTypeOK, TypeOK, ProducerInv, MetaFull, DataFull, Bytes, NextSize,
     channel
<1>3. lock' \in Thread \cup {None}
  BY DEF Unlock, EdgeInv, EdgeTypeOK, TypeOK
<1> QED
  BY <1>1, <1>2, <1>3, PositionFrame DEF Unlock

\* Bytes of the ring that a payload of z bytes at position h takes, and bytes
\* less than a turn behind it that it leaves alone.
LEMMA SpanBytes ==
  ASSUME NEW h \in Nat, NEW z \in 1 .. BufferSize
  PROVE  /\ \A q \in h .. (h + z - 1) : q % BufferSize \in Span(h, z)
         /\ \A q \in Nat : q < h /\ h + z <= q + BufferSize => q % BufferSize \notin Span(h, z)
         /\ \A p \in Span(h, z) : \E q \in h .. (h + z - 1) : p = q % BufferSize
         /\ \A q \in Nat : q % BufferSize \in 0 .. (BufferSize - 1)
<1>1. ASSUME NEW q \in h .. (h + z - 1) PROVE q % BufferSize \in Span(h, z)
  <2>1. q - h \in 0 .. (z - 1) /\ h + (q - h) = q
    OBVIOUS
  <2> QED
    BY <2>1 DEF Span
<1>2. ASSUME NEW q \in Nat, q < h, h + z <= q + BufferSize PROVE q % BufferSize \notin Span(h, z)
  <2> SUFFICES ASSUME NEW k \in 0 .. (z - 1) PROVE q % BufferSize # (h + k) % BufferSize
    BY DEF Span
  <2>1. h + k \in Nat /\ q < h + k /\ h + k < q + BufferSize
    BY <1>2, CapacityAssumption
  <2> QED
    BY <2>1, CapacityAssumption, RingDistinct
<1>3. ASSUME NEW p \in Span(h, z) PROVE \E q \in h .. (h + z - 1) : p = q % BufferSize
  <2>1. PICK k \in 0 .. (z - 1) : p = (h + k) % BufferSize
    BY DEF Span
  <2>2. h + k \in h .. (h + z - 1)
    OBVIOUS
  <2> QED
    BY <2>1, <2>2
<1>4. \A q \in Nat : q % BufferSize \in 0 .. (BufferSize - 1)
  BY CapacityAssumption, Division
<1> QED
  BY <1>1, <1>2, <1>3, <1>4

\* The types of what a thread sends, and what EdgeInv says of the queues.
LEMMA EdgeFacts ==
  ASSUME EdgeInv
  PROVE  /\ Len(data) \in Nat /\ Len(meta) \in Nat /\ Len(delivered) \in Nat
         /\ DOMAIN data = 1 .. Len(data) /\ DOMAIN meta = 1 .. Len(meta)
         /\ DOMAIN delivered = 1 .. Len(delivered)
         /\ \A k \in 1 .. Len(data) : data[k] \in [pos : Nat, size : 1..BufferSize]
                                      /\ data[k].pos \in Nat /\ data[k].size \in 1..BufferSize
         /\ \A k \in 1 .. Len(meta) : meta[k] \in MetadataSet
         /\ \A t \in Thread : /\ sent[t] \in Nat /\ Len(Sizes[t]) \in Nat
                              /\ DOMAIN Sizes[t] = 1 .. Len(Sizes[t])
                              /\ \A j \in 1 .. Len(Sizes[t]) : Sizes[t][j] \in 1 .. BufferSize
         /\ BufferSize \in Nat \ {0} /\ BufferCapacity \in Nat \ {0}
<1> USE DEF EdgeInv
<1>1. /\ data \in Seq([pos : Nat, size : 1..BufferSize]) /\ meta \in Seq(MetadataSet)
      /\ delivered \in Seq([payload : SUBSET (Thread \X Nat), size : Nat,
                            metadata : MetadataSet, name : SUBSET Range(Names)])
      /\ sent \in [Thread -> Nat]
  BY DEF EdgeTypeOK
<1>2. ASSUME NEW t \in Thread
      PROVE  /\ sent[t] \in Nat /\ Len(Sizes[t]) \in Nat
             /\ DOMAIN Sizes[t] = 1 .. Len(Sizes[t])
             /\ \A j \in 1 .. Len(Sizes[t]) : Sizes[t][j] \in 1 .. BufferSize
  <2>1. Sizes[t] \in Seq(1 .. BufferSize) /\ sent[t] \in Nat
    BY <1>1, SizesAssumption
  <2>2. Len(Sizes[t]) \in Nat /\ DOMAIN Sizes[t] = 1 .. Len(Sizes[t])
    BY <2>1
  <2> QED
    BY <2>1, <2>2, ElementOfSeq
<1>3. /\ Len(data) \in Nat /\ Len(meta) \in Nat /\ Len(delivered) \in Nat
      /\ DOMAIN data = 1 .. Len(data) /\ DOMAIN meta = 1 .. Len(meta)
      /\ DOMAIN delivered = 1 .. Len(delivered)
  BY <1>1
<1>4. \A k \in 1 .. Len(data) : data[k] \in [pos : Nat, size : 1..BufferSize]
  BY <1>1, <1>3, ElementOfSeq
<1>5. \A k \in 1 .. Len(data) : data[k].pos \in Nat /\ data[k].size \in 1..BufferSize
  BY <1>4
<1>6. \A k \in 1 .. Len(meta) : meta[k] \in MetadataSet
  BY <1>1, <1>3, ElementOfSeq
<1> QED
  BY <1>2, <1>3, <1>4, <1>5, <1>6, CapacityAssumption

\* The payload goes behind the others and over none that is still queued.
LEMMA PushDataKeeps ==
  ASSUME EdgeInv, NEW t \in Thread, PushData(t)
  PROVE  EdgeInv'
<1> DEFINE z == NextSize(t)
           j == sent[t] + 1
           n == Len(data)
           token == [pos |-> head, size |-> z]
<1>1. /\ pc[t] = "push" /\ lock = t /\ sent[t] < Len(Sizes[t])
      /\ ~ MetaFull /\ ~ DataFull(z)
  BY DEF EdgeInv, ProducerInv, PushData
<1>2. /\ j \in DOMAIN Sizes[t] /\ z = Sizes[t][j] /\ z \in 1 .. BufferSize
      /\ z \in Nat \ {0} /\ BufferSize \in Nat \ {0} /\ BufferCapacity \in Nat
      /\ n \in Nat /\ head \in Nat /\ tail \in Nat /\ n < BufferCapacity
      /\ head - tail + z <= BufferSize /\ tail <= head
  <2>1. /\ sent[t] \in Nat /\ Len(Sizes[t]) \in Nat /\ DOMAIN Sizes[t] = 1 .. Len(Sizes[t])
        /\ \A k \in 1 .. Len(Sizes[t]) : Sizes[t][k] \in 1 .. BufferSize
        /\ BufferSize \in Nat \ {0} /\ BufferCapacity \in Nat \ {0} /\ n \in Nat
    BY EdgeFacts
  <2>2. j \in 1 .. Len(Sizes[t]) /\ z = Sizes[t][j]
    BY <1>1, <2>1 DEF NextSize
  <2>3. z \in 1 .. BufferSize
    BY <2>1, <2>2
  <2>4. head \in Nat /\ tail \in Nat /\ n <= BufferCapacity /\ head - tail \in 0 .. BufferSize
    BY DEF EdgeInv, EdgeTypeOK, TypeOK, Bytes
  <2>5. n # BufferCapacity /\ ~ (head - tail + z > BufferSize)
    BY <1>1 DEF DataFull, Bytes
  <2> HIDE DEF n, j, z
  <2> QED
    BY <2>1, <2>2, <2>3, <2>4, <2>5, SMTT(30)
<1>3. /\ pc' = [pc EXCEPT ![t] = "pushMeta"]
      /\ data' = Append(data, token) /\ head' = head + z
      /\ bytes' = [p \in DOMAIN bytes |-> IF p \in Span(head, z) THEN <<t, j>> ELSE bytes[p]]
      /\ UNCHANGED <<setup, lock, sent, tail, meta, consumer, bug>>
  BY <1>1 DEF PushData
<1> HIDE DEF z, j
<1>4. /\ data' \in Seq([pos : Nat, size : 1..BufferSize]) /\ Len(data') = n + 1
      /\ DOMAIN data' = 1 .. n + 1 /\ data'[n + 1] = token
      /\ \A k \in 1 .. n : data'[k] = data[k]
  BY <1>2, <1>3, AppendProperties DEF EdgeInv, EdgeTypeOK
<1>5. /\ pc'[t] = "pushMeta" /\ \A u \in Thread : u # t => pc'[u] = "idle" /\ pc[u] = "idle"
      /\ pc' \in [Thread -> {"idle", "isFull", "isFullData", "unlock", "push", "pushMeta"}]
  BY <1>1, <1>3 DEF EdgeInv, EdgeTypeOK, TypeOK, ProducerInv
<1>6. /\ head' = head + z /\ tail' = tail /\ Len(data') = n + 1
      /\ data'[n + 1].pos = head /\ data'[n + 1].size = z
  BY <1>3, <1>4
<1>7. EdgeTypeOK'
  <2>1. head' \in Nat /\ head' - tail' \in 0 .. BufferSize /\ Len(data') <= BufferCapacity
    <3> HIDE DEF n
    <3> QED
      BY <1>2, <1>6, SMTT(30)
  <2>2. DOMAIN bytes' = 0..(BufferSize - 1) /\ bytes' = [p \in 0..(BufferSize - 1) |-> bytes'[p]]
    BY <1>3 DEF EdgeInv, EdgeTypeOK
  <2> QED
    BY <1>3, <1>4, <1>5, <2>1, <2>2 DEF EdgeInv, EdgeTypeOK, TypeOK, Bytes, setup, consumer
<1>8. SetUpInv'
  <2>1. SlotKeys \subseteq published
    BY <1>1 DEF EdgeInv, SetUpInv
  <2>2. UNCHANGED <<fnv1a, registry, published, ready>>
    BY <1>3 DEF setup
  <2> QED
    BY <2>1, <2>2 DEF EdgeInv, SetUpInv, Registered
<1>9. ProducerInv'
  BY <1>1, <1>3, <1>5 DEF EdgeInv, ProducerInv, MetaFull
<1>10. ReaderInv'
  <2>1. data # <<>> => data' # <<>> /\ data'[1] = data[1]
    BY <1>4, EdgeFacts
  <2> QED
    BY <1>3, <2>1 DEF EdgeInv, ReaderInv, consumer
<1>11. ASSUME NEW k \in 1 .. n
       PROVE  /\ tail <= data[k].pos /\ data[k].pos + data[k].size <= head
              /\ data'[k] = data[k] /\ data[k].pos \in Nat /\ data[k].size \in Nat \ {0}
              /\ k # n => data[k + 1].pos = data[k].pos + data[k].size
              /\ k = n => data[k].pos + data[k].size = head
  <2>1. k \in DOMAIN data /\ data # <<>>
    BY EdgeFacts
  <2>2. data[k].pos \in Nat /\ data[k].size \in Nat \ {0}
    BY <1>2, EdgeFacts, SMTT(30)
  <2> QED
    BY <1>4, <2>1, <2>2 DEF EdgeInv, RingInv, End
<1>12. RingInv'
  <2>1. head' - tail' \in 0 .. BufferSize /\ data' # <<>>
    <3>1. data' # <<>>
      BY <1>2, <1>4
    <3> HIDE DEF n
    <3> QED
      BY <1>2, <1>6, <3>1, SMTT(30)
  <2>2. data'[1].pos = tail'
    <3>1. CASE n = 0
      BY <1>6, <3>1, EdgeFacts DEF EdgeInv, RingInv
    <3>2. CASE n # 0
      <4>1. 1 \in 1 .. n /\ data # <<>>
        BY <1>2, <3>2
      <4> QED
        BY <1>4, <1>6, <4>1 DEF EdgeInv, RingInv
    <3> QED
      BY <3>1, <3>2
  <2> HIDE DEF n
  <2>3. ASSUME NEW k \in 1 .. n + 1
        PROVE  /\ tail' <= data'[k].pos /\ data'[k].pos + data'[k].size <= head'
               /\ k # n + 1 => data'[k + 1].pos = data'[k].pos + data'[k].size
    <3>1. CASE k = n + 1
      BY <1>2, <1>6, <3>1
    <3>2. CASE k # n + 1
      <4>1. k \in 1 .. n
        BY <1>2, <3>2
      <4>2. tail' <= data'[k].pos /\ data'[k].pos + data'[k].size <= head'
        <5>1. /\ tail <= data[k].pos /\ data[k].pos + data[k].size <= head
              /\ data'[k] = data[k] /\ data[k].pos \in Nat /\ data[k].size \in Nat
          BY <1>11, <4>1
        <5> QED
          <6>1. data'[k].pos = data[k].pos /\ data'[k].size = data[k].size
            BY <5>1
          <6>2. \A x, y, h, c \in Nat : x + y <= h => x + y <= h + c
            OBVIOUS
          <6>3. head \in Nat /\ z \in Nat /\ head' = head + z /\ tail' = tail
            BY <1>2, <1>6
          <6> QED
            BY <5>1, <6>1, <6>2, <6>3
      <4>3. data'[k + 1].pos = data'[k].pos + data'[k].size
        <5>1. CASE k = n
          BY <1>6, <1>11, <4>1, <5>1
        <5>2. CASE k # n
          <6>1. k + 1 \in 1 .. n
            BY <1>2, <4>1, <5>2
          <6> QED
            BY <1>11, <4>1, <5>2, <6>1
        <5> QED
          BY <5>1, <5>2
      <4> QED
        BY <4>2, <4>3
    <3> QED
      BY <3>1, <3>2
  <2>4. data'[n + 1].pos + data'[n + 1].size = head'
    BY <1>6
  <2>5. ASSUME NEW i \in 1 .. n + 1, NEW k \in 1 .. n + 1, i < k
        PROVE  data'[i].pos + data'[i].size <= data'[k].pos
    <3>1. i \in 1 .. n
      BY <1>2, <2>5
    <3>2. CASE k = n + 1
      BY <1>6, <1>11, <3>1, <3>2
    <3>3. CASE k # n + 1
      <4>1. k \in 1 .. n
        BY <1>2, <3>3
      <4>2. data'[i] = data[i] /\ data'[k] = data[k]
        BY <1>11, <3>1, <4>1
      <4>3. i \in DOMAIN data /\ k \in DOMAIN data
        BY <3>1, <4>1, EdgeFacts DEF n
      <4>4. data[i].pos + data[i].size <= data[k].pos
        BY <2>5, <4>3 DEF EdgeInv, RingInv, End
      <4> QED
        BY <4>2, <4>4
    <3> QED
      BY <3>2, <3>3
  <2> QED
    BY <1>4, <1>6, <2>1, <2>2, <2>3, <2>4, <2>5 DEF RingInv, End
<1>13. QueueInv'
  <2>1. Pushing = 0 /\ Pushing' = 1 /\ Popped' = Popped /\ Popped \in {0, 1}
    BY <1>1, <1>3, <1>5 DEF Pushing, Popped, consumer
  <2>2. Len(meta) = n + Popped /\ DOMAIN meta = 1 .. Len(meta)
    BY <1>2, <2>1, EdgeFacts DEF EdgeInv, QueueInv
  <2>3. \A u, i : MessageOf(u, i)' = MessageOf(u, i)
    BY <1>3 DEF MessageOf, setup
  <2>4. ASSUME NEW k \in 1 .. n
        PROVE  \E u \in Thread : \E i \in DOMAIN Sizes[u] :
                  /\ Occupies(data'[k], bytes', u, i)
                  /\ k + Popped \in DOMAIN meta /\ meta[k + Popped] = MessageOf(u, i)
    <3>1. k + Popped \in DOMAIN meta /\ k \in DOMAIN data
      BY <1>2, <2>1, <2>2, EdgeFacts, SMTT(30)
    <3>2. PICK u \in Thread : \E i \in DOMAIN Sizes[u] :
                 Occupies(data[k], bytes, u, i) /\ meta[k + Popped] = MessageOf(u, i)
      BY <3>1 DEF EdgeInv, QueueInv
    <3>3. PICK i \in DOMAIN Sizes[u] : Occupies(data[k], bytes, u, i) /\ meta[k + Popped] = MessageOf(u, i)
      BY <3>2
    <3>4. data'[k] = data[k] /\ data[k].pos \in Nat /\ data[k].size \in Nat
      BY <1>11
    <3>5. ASSUME NEW q \in data[k].pos .. (data[k].pos + data[k].size - 1)
          PROVE  bytes'[q % BufferSize] = bytes[q % BufferSize]
      <4>1. q \in Nat /\ q < head /\ head + z <= q + BufferSize
        <5>1. tail <= data[k].pos /\ data[k].pos + data[k].size <= head
          BY <1>11
        <5> HIDE DEF n
        <5> QED
          BY <1>2, <3>4, <5>1
      <4>2. q % BufferSize \notin Span(head, z) /\ q % BufferSize \in 0 .. (BufferSize - 1)
        BY <1>2, <4>1, SpanBytes
      <4> QED
        BY <1>3, <4>2 DEF EdgeInv, EdgeTypeOK
    <3>6. Occupies(data[k], bytes', u, i)
      BY <3>3, <3>5 DEF Occupies
    <3> QED
      BY <3>1, <3>3, <3>4, <3>6
  <2>5. Occupies(data'[n + 1], bytes', t, j)
    <3>1. data'[n + 1].size = Sizes[t][j] /\ data'[n + 1].pos = head /\ data'[n + 1].size = z
      BY <1>2, <1>6
    <3>2. ASSUME NEW q \in head .. (head + z - 1) PROVE bytes'[q % BufferSize] = <<t, j>>
      <4>1. q \in Nat /\ q % BufferSize \in Span(head, z) /\ q % BufferSize \in 0 .. (BufferSize - 1)
        <5>1. q \in Nat
          BY <1>2
        <5> QED
          BY <1>2, <5>1, SpanBytes
      <4> QED
        BY <1>3, <4>1 DEF EdgeInv, EdgeTypeOK
    <3> QED
      BY <3>1, <3>2 DEF Occupies
  <2>6. n + 1 + Popped \notin DOMAIN meta /\ pc'[t] = "pushMeta" /\ j = sent'[t] + 1
    <3>1. n + 1 + Popped \notin DOMAIN meta
      BY <1>2, <2>1, <2>2
    <3> QED
      BY <1>3, <1>5, <3>1 DEF j
  <2>7. Len(meta') + Pushing' = Len(data') + Popped'
    <3>1. meta' = meta /\ Popped \in Nat
      BY <1>3, <2>1
    <3> HIDE DEF n
    <3> QED
      BY <1>2, <1>6, <2>1, <2>2, <3>1
  <2>8. ASSUME NEW k \in DOMAIN data'
        PROVE  \E u \in Thread : \E i \in DOMAIN Sizes[u] :
                 /\ Occupies(data'[k], bytes', u, i)
                 /\ IF k + Popped \in DOMAIN meta THEN meta[k + Popped] = MessageOf(u, i)
                    ELSE pc'[u] = "pushMeta" /\ i = sent'[u] + 1
    <3>1. CASE k \in 1 .. n
      BY <2>4, <3>1
    <3>2. CASE k = n + 1
      BY <1>2, <2>5, <2>6, <3>2
    <3> QED
      BY <1>2, <1>4, <3>1, <3>2
  <2>9. meta' = meta
    BY <1>3
  <2> QED
    BY <2>1, <2>3, <2>7, <2>8, <2>9 DEF QueueInv
<1>14. LogInv'
  BY <1>3, LogFrame DEF EdgeInv, LogLen, Log, Handled, setup, consumer
<1>15. DeliveredIntact' /\ NoBug'
  BY <1>3 DEF EdgeInv, DeliveredIntact, NoBug, consumer
<1> QED
  BY <1>7, <1>8, <1>9, <1>10, <1>12, <1>13, <1>14, <1>15 DEF EdgeInv

\* The metadata follows its payload, and the thread's count grows.
LEMMA PushMetaKeeps ==
  ASSUME EdgeInv, NEW t \in Thread, PushMeta(t)
  PROVE  EdgeInv'
<1> DEFINE j == sent[t] + 1
           n == Len(meta)
<1>1. pc[t] = "pushMeta" /\ lock = t /\ sent[t] < Len(Sizes[t]) /\ ~ MetaFull
  BY DEF EdgeInv, ProducerInv, PushMeta
<1>2. SlotKeys \subseteq published
  BY <1>1 DEF EdgeInv, SetUpInv
<1>3. /\ meta' = Append(meta, MessageOf(t, j)) /\ sent' = [sent EXCEPT ![t] = j]
      /\ pc' = [pc EXCEPT ![t] = "unlock"]
      /\ UNCHANGED <<setup, lock, data, head, tail, bytes, consumer, bug>>
  BY <1>2, MetadataHashed DEF PushMeta
<1>4. /\ j \in 1 .. Len(Sizes[t]) /\ j \in Nat \ {0} /\ n \in Nat /\ n < BufferCapacity
      /\ sent' \in [Thread -> Nat] /\ sent'[t] = j
      /\ \A u \in Thread : u # t => sent'[u] = sent[u]
  <2>1. /\ sent[t] \in Nat /\ Len(Sizes[t]) \in Nat /\ BufferCapacity \in Nat /\ n \in Nat
        /\ sent \in [Thread -> Nat]
    BY EdgeFacts DEF EdgeInv, EdgeTypeOK
  <2>2. n <= BufferCapacity /\ n # BufferCapacity
    BY <1>1 DEF MetaFull, EdgeInv, EdgeTypeOK, TypeOK
  <2>3. sent' \in [Thread -> Nat] /\ sent'[t] = j /\ \A u \in Thread : u # t => sent'[u] = sent[u]
    BY <1>3, <2>1
  <2> HIDE DEF n
  <2> QED
    BY <1>1, <2>1, <2>2, <2>3
<1> HIDE DEF j
<1>5. /\ meta' \in Seq(MetadataSet) /\ Len(meta') = n + 1 /\ DOMAIN meta' = 1 .. n + 1
      /\ meta'[n + 1] = MessageOf(t, j) /\ \A k \in 1 .. n : meta'[k] = meta[k]
  BY <1>3, <1>4, MessageType, AppendProperties DEF EdgeInv, EdgeTypeOK
<1>6. /\ pc'[t] = "unlock" /\ \A u \in Thread : u # t => pc'[u] = "idle" /\ pc[u] = "idle"
      /\ pc' \in [Thread -> {"idle", "isFull", "isFullData", "unlock", "push", "pushMeta"}]
  BY <1>1, <1>3 DEF EdgeInv, EdgeTypeOK, TypeOK, ProducerInv
<1>7. EdgeTypeOK'
  <2>1. \A u \in Thread : sent'[u] \in 0 .. Len(Sizes[u])
    <3>1. \A u \in Thread : sent[u] \in 0 .. Len(Sizes[u]) /\ Len(Sizes[u]) \in Nat
      BY EdgeFacts DEF EdgeInv, EdgeTypeOK, TypeOK
    <3>2. j \in 0 .. Len(Sizes[t])
      BY <1>4, <3>1
    <3> QED
      BY <1>4, <3>1, <3>2
  <2> QED
    BY <1>3, <1>4, <1>5, <1>6, <2>1, CapacityAssumption, SMTT(30) DEF EdgeInv, EdgeTypeOK, TypeOK, Bytes, setup, consumer
<1>8. SetUpInv'
  BY <1>2, <1>3 DEF EdgeInv, SetUpInv, Registered, setup, consumer
<1>9. ProducerInv'
  BY <1>1, <1>3, <1>6 DEF EdgeInv, ProducerInv
<1>10. ReaderInv'
  <2>1. meta # <<>> => meta' # <<>> /\ meta'[1] = meta[1]
    BY <1>5, EdgeFacts
  <2> QED
    BY <1>3, <2>1 DEF EdgeInv, ReaderInv, consumer
<1>11. RingInv'
  BY <1>3 DEF EdgeInv, RingInv, End
<1>12. QueueInv'
  <2>1. Pushing = 1 /\ Pushing' = 0 /\ Popped' = Popped /\ Popped \in {0, 1}
    BY <1>1, <1>3, <1>6 DEF Pushing, Popped, consumer
  <2>2. n + 1 = Len(data) + Popped /\ DOMAIN meta = 1 .. n
    BY <2>1, EdgeFacts DEF EdgeInv, QueueInv
  <2>3. \A u, i : MessageOf(u, i)' = MessageOf(u, i)
    BY <1>3 DEF MessageOf, setup
  <2>4. ASSUME NEW k \in DOMAIN data
        PROVE  \E u \in Thread : \E i \in DOMAIN Sizes[u] :
                 /\ Occupies(data[k], bytes, u, i)
                 /\ k + Popped \in DOMAIN meta' /\ meta'[k + Popped] = MessageOf(u, i)
    <3>1. PICK u \in Thread : \E i \in DOMAIN Sizes[u] :
            /\ Occupies(data[k], bytes, u, i)
            /\ IF k + Popped \in DOMAIN meta THEN meta[k + Popped] = MessageOf(u, i)
               ELSE pc[u] = "pushMeta" /\ i = sent[u] + 1
      BY DEF EdgeInv, QueueInv
    <3>2. PICK i \in DOMAIN Sizes[u] :
            /\ Occupies(data[k], bytes, u, i)
            /\ IF k + Popped \in DOMAIN meta THEN meta[k + Popped] = MessageOf(u, i)
               ELSE pc[u] = "pushMeta" /\ i = sent[u] + 1
      BY <3>1
    <3>3. k + Popped \in 1 .. n + 1
      BY <2>1, <2>2, EdgeFacts
    <3>4. meta'[k + Popped] = MessageOf(u, i)
      <4>1. CASE k + Popped \in DOMAIN meta
        BY <1>5, <2>2, <3>2, <4>1
      <4>2. CASE k + Popped \notin DOMAIN meta
        <5>1. pc[u] = "pushMeta" /\ i = sent[u] + 1 /\ k + Popped = n + 1
          BY <1>4, <2>2, <3>2, <3>3, <4>2
        <5> QED
          BY <1>5, <1>6, <5>1 DEF j
      <4> QED
        BY <4>1, <4>2
    <3> QED
      BY <1>5, <3>2, <3>3, <3>4
  <2>5. data' = data /\ bytes' = bytes /\ Len(meta') + Pushing' = Len(data') + Popped'
    BY <1>3, <1>4, <1>5, <2>1, <2>2, EdgeFacts
  <2> QED
    BY <2>1, <2>3, <2>4, <2>5 DEF QueueInv
<1>13. LogInv'
  <2> DEFINE len == LogLen
             d == Len(delivered)
  <2>1. /\ Handled' = Handled /\ Handled \in {0, 1} /\ n - Handled \in Nat /\ d \in Nat
        /\ Len(delivered') = d
    BY <1>3, EdgeFacts DEF Handled, consumer, EdgeInv, ReaderInv
  <2>2. len \in Nat /\ LogLen' = len + 1 /\ d <= len /\ len - d + Handled = n
    BY <1>4, <1>5, <2>1 DEF LogLen
  <2>3. ASSUME NEW k \in 1 .. len PROVE Log'[k] = Log[k]
    <3>1. Log[k] = IF k <= d THEN delivered[k].metadata ELSE meta[k - d + Handled]
      BY DEF Log
    <3>2. k \in 1 .. LogLen' /\ delivered' = delivered
      BY <1>3, <2>2 DEF consumer
    <3>3. Log'[k] = IF k <= d THEN delivered[k].metadata ELSE meta'[k - d + Handled]
      BY <2>1, <3>2 DEF Log
    <3>4. ~ (k <= d) => k - d + Handled \in 1 .. n
      BY <1>4, <2>1, <2>2
    <3> QED
      BY <1>5, <3>1, <3>3, <3>4
  <2>4. Log'[len + 1] = MessageOf(t, j)
    <3>1. ~ (len + 1 <= d) /\ len + 1 - d + Handled = n + 1 /\ len + 1 \in 1 .. LogLen'
      BY <1>4, <2>1, <2>2
    <3>2. PICK w : w = len + 1
      OBVIOUS
    <3>3. w \in 1 .. LogLen' /\ ~ (w <= Len(delivered')) /\ w - Len(delivered') + Handled' = n + 1
      <4> HIDE DEF len, d
      <4>1. w \in 1 .. LogLen'
        BY <3>1, <3>2
      <4>2. ~ (w <= Len(delivered'))
        BY <2>1, <3>1, <3>2
      <4>3. w - d + Handled = n + 1
        BY <1>4, <2>1, <2>2, <3>2
      <4>4. Len(delivered') = d /\ Handled' = Handled
        BY <2>1
      <4> QED
        BY <4>1, <4>2, <4>3, <4>4
    <3>4. Log'[w] = meta'[w - Len(delivered') + Handled']
      BY <3>3 DEF Log
    <3> QED
      BY <1>5, <3>2, <3>3, <3>4
  <2>5. \A u, i : MessageOf(u, i)' = MessageOf(u, i)
    BY <1>3 DEF MessageOf, setup
  <2> HIDE DEF len, d
  <2>6. /\ \A k \in 1..len : \E u \in Thread : \E i \in 1..sent[u] : Log[k] = MessageOf(u, i)
        /\ \A u \in Thread : \A i \in 1..sent[u] : \E k \in 1..len : Log[k] = MessageOf(u, i)
        /\ \A k, l \in 1..len :
             k < l /\ Log[k].type = Log[l].type => Log[k].sequenceId < Log[l].sequenceId
    BY DEF EdgeInv, LogInv, len
  <2>7. \A u \in Thread : sent[u] \in Nat /\ \A i \in 1 .. sent[u] : i \in 1 .. sent'[u] /\ i \in Nat \ {0}
    <3>1. \A u \in Thread : sent[u] \in Nat
      BY EdgeFacts
    <3>2. sent'[t] = sent[t] + 1
      BY <1>4 DEF j
    <3>3. \A m \in Nat : \A i \in 1 .. m : i \in 1 .. m + 1 /\ i \in Nat \ {0}
      OBVIOUS
    <3> QED
      BY <1>4, <3>1, <3>2, <3>3
  <2>8. ASSUME NEW k \in 1 .. len + 1
        PROVE  \E u \in Thread : \E i \in 1 .. sent'[u] : Log'[k] = MessageOf(u, i)
    <3>1. CASE k \in 1 .. len
      BY <2>3, <2>6, <2>7, <3>1, SMTT(30)
    <3>2. CASE k = len + 1
      <4>1. j \in 1 .. sent'[t]
        BY <1>4
      <4> QED
        BY <2>4, <3>2, <4>1
    <3> QED
      BY <2>2, <3>1, <3>2
  <2>9. ASSUME NEW u \in Thread, NEW i \in 1 .. sent'[u]
        PROVE  \E k \in 1 .. len + 1 : Log'[k] = MessageOf(u, i)
    <3>1. CASE i \in 1 .. sent[u]
      <4>1. PICK k \in 1 .. len : Log[k] = MessageOf(u, i)
        BY <2>6, <3>1
      <4>2. k \in 1 .. len + 1
        BY <2>2
      <4> QED
        BY <2>3, <4>1, <4>2
    <3>2. CASE i \notin 1 .. sent[u]
      <4>1. u = t /\ i = j /\ len + 1 \in 1 .. len + 1
        BY <1>4, <2>2, <2>7, <3>2 DEF j
      <4> QED
        BY <2>4, <4>1
    <3> QED
      BY <3>1, <3>2
  <2>10. ASSUME NEW k \in 1 .. len + 1, NEW l \in 1 .. len + 1, k < l, Log'[k].type = Log'[l].type
         PROVE  Log'[k].sequenceId < Log'[l].sequenceId
    <3>1. k \in 1 .. len
      BY <2>2, <2>10
    <3>2. CASE l \in 1 .. len
      BY <2>3, <2>6, <2>10, <3>1, <3>2
    <3>3. CASE l = len + 1
      <4>1. PICK u \in Thread : \E i \in 1 .. sent[u] : Log[k] = MessageOf(u, i)
        BY <2>6, <3>1
      <4>2. PICK i \in 1 .. sent[u] : Log[k] = MessageOf(u, i)
        BY <4>1
      <4>3. /\ Log'[k].type = fnv1a[Names[u]] /\ Log'[l].type = fnv1a[Names[t]]
            /\ Log'[k].sequenceId = i - 1 /\ Log'[l].sequenceId = j - 1
        <5>1. i \in Nat \ {0} /\ Log'[k] = MessageOf(u, i) /\ Log'[l] = MessageOf(t, j)
          BY <2>3, <2>4, <2>7, <3>1, <3>3, <4>2
        <5> QED
          BY <1>4, <5>1, MessageType
      <4>4. u = t
        BY <1>2, <2>10, <4>3, SetUpDone
      <4> QED
        BY <2>7, <4>2, <4>3, <4>4 DEF j
    <3> QED
      BY <2>2, <3>2, <3>3
  <2> QED
    BY <2>2, <2>5, <2>8, <2>9, <2>10 DEF LogInv
<1>14. DeliveredIntact' /\ NoBug'
  BY <1>3 DEF EdgeInv, DeliveredIntact, NoBug, consumer
<1> QED
  BY <1>7, <1>8, <1>9, <1>10, <1>11, <1>12, <1>13, <1>14 DEF EdgeInv

LEMMA GetMessageKeeps ==
  ASSUME EdgeInv, GetMessage
  PROVE  EdgeInv'
<1>1. /\ reader = "poll" /\ reader' = "handle" /\ meta # <<>> /\ data # <<>>
      /\ view' = [pos |-> data[1].pos, size |-> data[1].size, metadata |-> meta[1]]
      /\ UNCHANGED <<setup, producers, channel, delivered, bug>>
  BY DEF GetMessage, HasMessage
<1>2. /\ UNCHANGED <<fnv1a, registry, published, ready, lock, pc, sent>>
      /\ UNCHANGED <<data, head, tail, bytes, meta>>
  BY <1>1 DEF setup, producers, channel
<1>3. Popped' = Popped /\ Handled' = Handled /\ Pushing' = Pushing
  BY <1>1, <1>2 DEF Popped, Handled, Pushing
<1>4. EdgeTypeOK'
  BY <1>1, <1>2 DEF EdgeInv, EdgeTypeOK, TypeOK, Bytes
<1>5. SetUpInv'
  <2>1. SlotKeys \subseteq published
    BY DEF GetMessage, EdgeInv, SetUpInv, Side
  <2> QED
    BY <1>2, <2>1 DEF EdgeInv, SetUpInv, Registered
<1>6. ProducerInv'
  BY <1>2 DEF EdgeInv, ProducerInv, MetaFull, DataFull, Bytes, NextSize
<1>7. ReaderInv'
  BY <1>1, <1>2 DEF ReaderInv
<1>8. RingInv'
  BY <1>2 DEF EdgeInv, RingInv, End
<1>9. QueueInv'
  BY <1>2, <1>3 DEF EdgeInv, QueueInv, MessageOf
<1>10. LogInv'
  <2>1. LogLen' = LogLen /\ Log' = Log
    BY <1>1, <1>2, <1>3 DEF LogLen, Log
  <2> QED
    BY <1>2, <2>1, LogFrame DEF EdgeInv
<1>11. DeliveredIntact' /\ NoBug'
  BY <1>1 DEF EdgeInv, DeliveredIntact, NoBug
<1> QED
  BY <1>4, <1>5, <1>6, <1>7, <1>8, <1>9, <1>10, <1>11 DEF EdgeInv

\* What the handler reads through the pointer is one message, the first.
LEMMA HandledMessage ==
  ASSUME EdgeInv, reader = "handle"
  PROVE  \E t \in Thread : \E j \in DOMAIN Sizes[t] :
           /\ {bytes[p] : p \in Span(view.pos, view.size)} = {<<t, j>>}
           /\ view.size = Sizes[t][j]
           /\ view.metadata = MessageOf(t, j)
           /\ TypeToName("input", view.metadata.type) = {Names[t]}
           /\ <<t, j>> \in Thread \X Nat
<1>1. /\ data # <<>> /\ meta # <<>>
      /\ view.pos = data[1].pos /\ view.size = data[1].size /\ view.metadata = meta[1]
      /\ SlotKeys \subseteq published
  BY DEF EdgeInv, ReaderInv, SetUpInv
<1>2. 1 \in DOMAIN data /\ 1 \in DOMAIN meta /\ Popped = 0
  BY <1>1, EdgeFacts DEF Popped
<1>3. PICK t \in Thread : \E j \in DOMAIN Sizes[t] :
        Occupies(data[1], bytes, t, j) /\ meta[1] = MessageOf(t, j)
  BY <1>2 DEF EdgeInv, QueueInv
<1>4. PICK j \in DOMAIN Sizes[t] : Occupies(data[1], bytes, t, j) /\ meta[1] = MessageOf(t, j)
  BY <1>3
<1>5. j \in Nat \ {0} /\ data[1].pos \in Nat /\ data[1].size \in 1 .. BufferSize
  BY <1>2, EdgeFacts
<1>6. {bytes[p] : p \in Span(view.pos, view.size)} = {<<t, j>>}
  <2>1. ASSUME NEW p \in Span(data[1].pos, data[1].size) PROVE bytes[p] = <<t, j>>
    <3>1. PICK q \in data[1].pos .. (data[1].pos + data[1].size - 1) : p = q % BufferSize
      BY <1>5, SpanBytes
    <3> QED
      BY <1>4, <3>1 DEF Occupies
  <2>2. data[1].pos % BufferSize \in Span(data[1].pos, data[1].size)
    <3>1. data[1].pos \in data[1].pos .. (data[1].pos + data[1].size - 1)
      BY <1>5, CapacityAssumption
    <3> QED
      BY <1>5, <3>1, SpanBytes
  <2> QED
    BY <1>1, <2>1, <2>2
<1>7. TypeToName("input", view.metadata.type) = {Names[t]}
  <2>1. view.metadata.type = fnv1a[Names[t]]
    BY <1>1, <1>4, <1>5, MessageType
  <2>2. /\ registry["input"] = [n \in Range(Names) |-> fnv1a[n]] /\ Names[t] \in Range(Names)
        /\ \A u \in Thread : fnv1a[Names[u]] = fnv1a[Names[t]] => u = t
    BY <1>1, SetUpDone DEF Side
  <2>3. \A n \in Range(Names) : \E u \in Thread : n = Names[u]
    BY NamesAssumption DEF Range
  <2> QED
    BY <2>1, <2>2, <2>3 DEF TypeToName
<1>8. view.size = Sizes[t][j]
  BY <1>1, <1>4 DEF Occupies
<1> QED
  BY <1>1, <1>4, <1>5, <1>6, <1>7, <1>8

LEMMA HandleKeeps ==
  ASSUME EdgeInv, Handle
  PROVE  EdgeInv'
<1> DEFINE item == [payload |-> {bytes[p] : p \in Span(view.pos, view.size)},
                    size |-> view.size, metadata |-> view.metadata,
                    name |-> TypeToName("input", view.metadata.type)]
           n == Len(delivered)
<1>1. /\ reader = "handle" /\ reader' = "pop" /\ delivered' = Append(delivered, item)
      /\ UNCHANGED <<setup, producers, channel, view, bug>>
  BY DEF Handle
<1>2. /\ UNCHANGED <<fnv1a, registry, published, ready, lock, pc, sent>>
      /\ UNCHANGED <<data, head, tail, bytes, meta>>
  BY <1>1 DEF setup, producers, channel
<1>3. PICK t \in Thread : \E j \in DOMAIN Sizes[t] :
        /\ item.payload = {<<t, j>>} /\ item.size = Sizes[t][j]
        /\ item.metadata = MessageOf(t, j) /\ item.name = {Names[t]}
        /\ <<t, j>> \in Thread \X Nat
  BY <1>1, HandledMessage
<1>4. PICK j \in DOMAIN Sizes[t] :
        /\ item.payload = {<<t, j>>} /\ item.size = Sizes[t][j]
        /\ item.metadata = MessageOf(t, j) /\ item.name = {Names[t]}
        /\ <<t, j>> \in Thread \X Nat
  BY <1>3
<1>5. item.metadata = view.metadata /\ view.metadata = meta[1] /\ meta # <<>>
  BY <1>1 DEF EdgeInv, ReaderInv
<1>6. /\ j \in Nat \ {0} /\ Sizes[t][j] \in Nat /\ n \in Nat /\ Len(meta) \in Nat \ {0}
      /\ Names[t] \in Range(Names)
  <2>1. Len(meta) # 0
    BY <1>5 DEF EdgeInv, EdgeTypeOK
  <2> QED
    <3>1. n \in Nat /\ Len(meta) \in Nat /\ Len(Sizes[t]) \in Nat /\ BufferSize \in Nat
          /\ DOMAIN Sizes[t] = 1 .. Len(Sizes[t])
          /\ \A i \in 1 .. Len(Sizes[t]) : Sizes[t][i] \in 1 .. BufferSize
      BY EdgeFacts
    <3>2. Names[t] \in Range(Names)
      BY NamesAssumption DEF Range
    <3> QED
      BY <2>1, <3>1, <3>2
<1>7. item = [payload |-> item.payload, size |-> item.size, metadata |-> item.metadata, name |-> item.name]
  OBVIOUS
<1> HIDE DEF item
<1>8. item \in [payload : SUBSET (Thread \X Nat), size : Nat, metadata : MetadataSet,
                name : SUBSET Range(Names)]
  BY <1>4, <1>6, <1>7, MessageType
<1>9. /\ delivered' \in Seq([payload : SUBSET (Thread \X Nat), size : Nat, metadata : MetadataSet,
                             name : SUBSET Range(Names)])
      /\ Len(delivered') = n + 1 /\ DOMAIN delivered' = 1 .. n + 1
      /\ delivered'[n + 1] = item /\ \A k \in 1 .. n : delivered'[k] = delivered[k]
  BY <1>1, <1>6, <1>8, AppendProperties DEF EdgeInv, EdgeTypeOK
<1>10. Popped' = Popped /\ Handled = 0 /\ Handled' = 1 /\ Pushing' = Pushing
  BY <1>1, <1>2 DEF Popped, Handled, Pushing
<1>11. EdgeTypeOK'
  BY <1>1, <1>2, <1>9 DEF EdgeInv, EdgeTypeOK, TypeOK, Bytes
<1>12. SetUpInv'
  BY <1>1, <1>2 DEF EdgeInv, SetUpInv, Registered
<1>13. ProducerInv'
  BY <1>2 DEF EdgeInv, ProducerInv, MetaFull, DataFull, Bytes, NextSize
<1>14. ReaderInv' /\ RingInv'
  BY <1>1, <1>2 DEF EdgeInv, ReaderInv, RingInv, End
<1>15. QueueInv'
  BY <1>2, <1>10 DEF EdgeInv, QueueInv, MessageOf
<1>16. LogInv'
  <2>1. LogLen' = LogLen /\ LogLen \in Nat /\ LogLen = n + Len(meta)
    BY <1>2, <1>6, <1>9, <1>10 DEF LogLen
  <2>2. ASSUME NEW k \in 1 .. LogLen PROVE Log'[k] = Log[k]
    <3>1. Log[k] = IF k <= n THEN delivered[k].metadata ELSE meta[k - n + 0]
      BY <1>10 DEF Log
    <3>2. Log'[k] = IF k <= n + 1 THEN delivered'[k].metadata ELSE meta[k - (n + 1) + 1]
      BY <1>2, <1>9, <1>10, <2>1 DEF Log
    <3>3. CASE k <= n
      BY <1>6, <1>9, <3>1, <3>2, <3>3
    <3>4. CASE k = n + 1
      <4>1. ~ (k <= n) /\ k - n + 0 = 1 /\ k <= n + 1
        BY <1>6, <3>4
      <4> QED
        BY <1>5, <1>9, <3>1, <3>2, <3>4, <4>1
    <3>5. CASE k > n + 1
      <4>1. ~ (k <= n) /\ ~ (k <= n + 1) /\ k - n + 0 = k - (n + 1) + 1
        BY <1>6, <3>5
      <4> QED
        BY <3>1, <3>2, <4>1
    <3> QED
      BY <1>6, <3>3, <3>4, <3>5
  <2> QED
    BY <1>2, <2>1, <2>2, LogFrame DEF EdgeInv
<1>17. DeliveredIntact'
  <2> SUFFICES ASSUME NEW k \in 1 .. n + 1
               PROVE  \E u \in Thread : \E i \in DOMAIN Sizes[u] :
                         /\ delivered'[k].payload = {<<u, i>>} /\ delivered'[k].size = Sizes[u][i]
                         /\ delivered'[k].metadata.sequenceId = i - 1
                         /\ delivered'[k].name = {Names[u]}
    BY <1>9 DEF DeliveredIntact
  <2>1. CASE k \in 1 .. n
    <3>1. k \in DOMAIN delivered /\ delivered'[k] = delivered[k]
      BY <1>9, <2>1, EdgeFacts
    <3> QED
      BY <3>1 DEF EdgeInv, DeliveredIntact
  <2>2. CASE k = n + 1
    <3>1. delivered'[k] = item /\ item.metadata.sequenceId = j - 1
      BY <1>4, <1>6, <1>9, <2>2, MessageType
    <3> QED
      BY <1>4, <3>1
  <2> QED
    BY <1>6, <2>1, <2>2
<1>18. NoBug'
  BY <1>1 DEF EdgeInv, NoBug
<1> QED
  BY <1>11, <1>12, <1>13, <1>14, <1>15, <1>16, <1>17, <1>18 DEF EdgeInv

LEMMA RoomGrows ==
  ASSUME NEW h \in Nat, NEW t \in Nat, NEW u \in Nat, NEW x \in Nat, NEW b \in Nat,
         t <= u, ~ (h - t + x > b)
  PROVE  ~ (h - u + x > b)
OBVIOUS

\* The room of the first payload is given back; its metadata stays for a while.
LEMMA PopDataKeeps ==
  ASSUME EdgeInv, PopData
  PROVE  EdgeInv'
<1> DEFINE n == Len(data)
           z == data[1].size
<1>1. reader = "pop" /\ data # <<>> /\ meta # <<>>
  BY DEF PopData, EdgeInv, ReaderInv
<1>2. /\ data' = Tail(data) /\ tail' = tail + z /\ reader' = "popMeta"
      /\ UNCHANGED <<setup, producers, head, bytes, meta, view, delivered, bug>>
  BY <1>1 DEF PopData, HasMessage
<1>3. /\ UNCHANGED <<fnv1a, registry, published, ready, lock, pc, sent>>
      /\ UNCHANGED <<head, bytes, meta, view, delivered, bug>>
  BY <1>2 DEF setup, producers
<1>4. /\ n \in Nat \ {0} /\ z \in Nat \ {0} /\ head \in Nat /\ tail \in Nat
      /\ BufferSize \in Nat \ {0} /\ BufferCapacity \in Nat \ {0} /\ n <= BufferCapacity
      /\ head - tail \in 0 .. BufferSize /\ data[1].pos = tail
  <2>1. n # 0 /\ n \in Nat
    BY <1>1, EdgeFacts DEF EdgeInv, EdgeTypeOK
  <2>2. z \in 1 .. BufferSize /\ BufferSize \in Nat \ {0} /\ BufferCapacity \in Nat \ {0}
    BY <2>1, EdgeFacts
  <2>3. head \in Nat /\ tail \in Nat /\ head - tail \in 0 .. BufferSize /\ data[1].pos = tail
    BY <1>1 DEF EdgeInv, EdgeTypeOK, RingInv
  <2>4. n <= BufferCapacity
    BY DEF EdgeInv, EdgeTypeOK, TypeOK
  <2> HIDE DEF n, z
  <2> QED
    BY <2>1, <2>2, <2>3, <2>4
<1>5. /\ data' \in Seq([pos : Nat, size : 1..BufferSize]) /\ Len(data') = n - 1
      /\ DOMAIN data' = 1 .. n - 1 /\ \A k \in 1 .. n - 1 : data'[k] = data[k + 1]
  BY <1>1, <1>2, <1>4 DEF EdgeInv, EdgeTypeOK
<1>6. ASSUME NEW k \in 1 .. n
      PROVE  /\ data[k].pos \in Nat /\ data[k].size \in Nat
             /\ tail <= data[k].pos /\ data[k].pos + data[k].size <= head
             /\ k # n => data[k + 1].pos = data[k].pos + data[k].size
             /\ k = n => data[k].pos + data[k].size = head
  <2>1. k \in DOMAIN data /\ data[k].pos \in Nat /\ data[k].size \in Nat
    BY <1>4, EdgeFacts
  <2> QED
    BY <1>1, <2>1 DEF EdgeInv, RingInv, End
<1>7. tail' \in Nat /\ tail <= tail' /\ head - tail' \in 0 .. BufferSize
  <2>1. 1 \in 1 .. n
    BY <1>4
  <2>2. tail + z <= head
    BY <1>4, <1>6, <2>1
  <2>3. tail' = tail + z
    BY <1>2
  <2> HIDE DEF z, n
  <2> QED
    BY <1>4, <2>2, <2>3
<1>8. Popped = 0 /\ Popped' = 1 /\ Handled' = Handled /\ Pushing' = Pushing
  BY <1>1, <1>2, <1>3 DEF Popped, Handled, Pushing
<1>9. EdgeTypeOK'
  <2>1. Len(data') <= BufferCapacity
    BY <1>4, <1>5
  <2> QED
    BY <1>2, <1>3, <1>5, <1>7, <2>1 DEF EdgeInv, EdgeTypeOK, TypeOK, Bytes
<1>10. SetUpInv'
  BY <1>1, <1>3 DEF EdgeInv, SetUpInv, Registered
<1>11. ProducerInv'
  <2>1. ASSUME NEW t \in Thread, pc[t] = "push" PROVE ~ DataFull(NextSize(t))'
    <3>1. n # BufferCapacity /\ ~ (head - tail + NextSize(t) > BufferSize) /\ sent[t] < Len(Sizes[t])
      BY <2>1 DEF EdgeInv, ProducerInv, DataFull, Bytes
    <3>2. NextSize(t) \in Nat
      <4>1. sent[t] + 1 \in 1 .. Len(Sizes[t])
        BY <3>1, EdgeFacts
      <4> QED
        BY <1>4, <4>1, EdgeFacts, SMTT(40) DEF NextSize
    <3>3. NextSize(t)' = NextSize(t)
      BY <1>3 DEF NextSize
    <3>4. n - 1 # BufferCapacity /\ ~ (head - tail' + NextSize(t) > BufferSize)
      <4> HIDE DEF n
      <4>1. n - 1 # BufferCapacity
        BY <1>4
      <4>2. ~ (head - tail' + NextSize(t) > BufferSize)
        BY <1>4, <1>7, <3>1, <3>2, RoomGrows
      <4> QED
        BY <4>1, <4>2
    <3> QED
      BY <1>3, <1>5, <3>3, <3>4 DEF DataFull, Bytes
  <2> QED
    BY <1>3, <2>1 DEF EdgeInv, ProducerInv, MetaFull
<1>12. ReaderInv'
  BY <1>1, <1>2, <1>3 DEF ReaderInv
<1>13. RingInv'
  <2>1. ASSUME NEW k \in 1 .. n - 1
        PROVE  /\ tail' <= data'[k].pos /\ data'[k].pos + data'[k].size <= head
               /\ k # n - 1 => data'[k + 1].pos = data'[k].pos + data'[k].size
               /\ k = n - 1 => data'[k].pos + data'[k].size = head
               /\ k = 1 => data'[k].pos = tail'
    <3>1. k \in 1 .. n /\ k + 1 \in 1 .. n /\ k # n /\ 1 \in 1 .. n
      BY <1>4
    <3>2. data'[k] = data[k + 1]
      BY <1>5
    <3>3. k = 1 => data'[k].pos = tail'
      <4>1. 1 # n => data[1 + 1].pos = data[1].pos + data[1].size
        BY <1>6, <3>1
      <4> QED
        BY <1>2, <1>4, <3>1, <3>2, <4>1
    <3>4. tail' <= data'[k].pos
      <4>1. 1 < k + 1 /\ 1 \in DOMAIN data /\ k + 1 \in DOMAIN data
        <5>1. DOMAIN data = 1 .. n
          BY EdgeFacts
        <5>2. 1 < k + 1
          BY <1>4
        <5> QED
          BY <3>1, <5>1, <5>2
      <4>2. data[1].pos + data[1].size <= data[k + 1].pos
        BY <4>1 DEF EdgeInv, RingInv, End
      <4> QED
        BY <1>2, <1>4, <3>2, <4>2
    <3>5. data'[k].pos + data'[k].size <= head
      BY <1>6, <3>1, <3>2
    <3>6. k # n - 1 => data'[k + 1].pos = data'[k].pos + data'[k].size
      <4> SUFFICES ASSUME k # n - 1 PROVE data'[k + 1].pos = data'[k].pos + data'[k].size
        OBVIOUS
      <4>1. k + 1 \in 1 .. n - 1 /\ k + 1 # n
        BY <1>4
      <4>2. data'[k + 1] = data[k + 1 + 1]
        BY <1>5, <4>1
      <4>3. data[k + 1 + 1].pos = data[k + 1].pos + data[k + 1].size
        BY <1>6, <3>1, <4>1
      <4> QED
        BY <3>2, <4>2, <4>3
    <3>7. k = n - 1 => data'[k].pos + data'[k].size = head
      <4> SUFFICES ASSUME k = n - 1 PROVE data'[k].pos + data'[k].size = head
        OBVIOUS
      <4>1. k + 1 = n
        BY <1>4
      <4> QED
        BY <1>6, <3>1, <3>2, <4>1
    <3> QED
      BY <3>3, <3>4, <3>5, <3>6, <3>7
  <2>2. data' = <<>> => head' = tail'
    <3> SUFFICES ASSUME data' = <<>> PROVE head = tail'
      BY <1>3
    <3>1. n = 1 /\ 1 \in 1 .. n
      BY <1>4, <1>5
    <3> QED
      BY <1>2, <1>4, <1>6, <3>1
  <2>3. data' # <<>> => n - 1 \in 1 .. n - 1 /\ 1 \in 1 .. n - 1
    BY <1>4, <1>5
  <2>4. ASSUME NEW i \in 1 .. n - 1, NEW k \in 1 .. n - 1, i < k
        PROVE  data'[i].pos + data'[i].size <= data'[k].pos
    <3>1. i + 1 < k + 1 /\ i + 1 \in DOMAIN data /\ k + 1 \in DOMAIN data
      BY <1>4, <2>4, EdgeFacts
    <3> QED
      BY <1>5, <3>1 DEF EdgeInv, RingInv, End
  <2> QED
    BY <1>3, <1>5, <1>7, <2>1, <2>2, <2>3, <2>4 DEF RingInv, End
<1>14. QueueInv'
  <2>1. Len(meta') + Pushing' = Len(data') + Popped'
    <3>1. Len(meta) + Pushing = n + 0
      BY <1>8 DEF EdgeInv, QueueInv
    <3> QED
      BY <1>3, <1>4, <1>5, <1>8, <3>1
  <2>2. ASSUME NEW k \in 1 .. n - 1
        PROVE  \E t \in Thread : \E j \in DOMAIN Sizes[t] :
                 /\ Occupies(data'[k], bytes, t, j)
                 /\ IF k + 1 \in DOMAIN meta THEN meta[k + 1] = MessageOf(t, j)
                    ELSE pc[t] = "pushMeta" /\ j = sent[t] + 1
    <3>1. k + 1 \in DOMAIN data /\ k + 1 + 0 = k + 1 /\ data'[k] = data[k + 1]
      <4>1. DOMAIN data = 1 .. n
        BY EdgeFacts
      <4> HIDE DEF n
      <4> QED
        BY <1>4, <1>5, <4>1, SMTT(30)
    <3> QED
      BY <1>8, <3>1 DEF EdgeInv, QueueInv
  <2> QED
    BY <1>3, <1>5, <1>8, <2>1, <2>2 DEF QueueInv, MessageOf
<1>15. LogInv'
  <2>1. LogLen' = LogLen /\ Log' = Log
    BY <1>3, <1>8 DEF LogLen, Log
  <2> QED
    BY <1>3, <2>1, LogFrame DEF EdgeInv
<1>16. DeliveredIntact' /\ NoBug'
  BY <1>3 DEF EdgeInv, DeliveredIntact, NoBug
<1> QED
  BY <1>9, <1>10, <1>11, <1>12, <1>13, <1>14, <1>15, <1>16 DEF EdgeInv

\* The metadata of the payload that is gone goes too.
LEMMA PopMetaKeeps ==
  ASSUME EdgeInv, PopMeta
  PROVE  EdgeInv'
<1> DEFINE n == Len(meta)
           d == Len(delivered)
<1>1. /\ reader = "popMeta" /\ reader' = "poll" /\ meta # <<>> /\ meta' = Tail(meta)
      /\ UNCHANGED <<setup, producers, data, head, tail, bytes, delivered, bug>>
  BY DEF PopMeta, EdgeInv, ReaderInv
<1>2. /\ UNCHANGED <<fnv1a, registry, published, ready, lock, pc, sent>>
      /\ UNCHANGED <<data, head, tail, bytes, delivered, bug>>
  BY <1>1 DEF setup, producers
<1>3. /\ n \in Nat \ {0} /\ d \in Nat /\ n <= BufferCapacity /\ BufferCapacity \in Nat
      /\ DOMAIN meta = 1 .. n
  <2>1. n # 0 /\ n \in Nat /\ DOMAIN meta = 1 .. n
    BY <1>1 DEF EdgeInv, EdgeTypeOK
  <2>2. n <= BufferCapacity /\ d \in Nat /\ BufferCapacity \in Nat
    BY EdgeFacts, CapacityAssumption DEF EdgeInv, EdgeTypeOK, TypeOK
  <2> HIDE DEF n, d
  <2> QED
    BY <2>1, <2>2
<1>4. /\ meta' \in Seq(MetadataSet) /\ Len(meta') = n - 1
      /\ DOMAIN meta' = 1 .. n - 1 /\ \A k \in 1 .. n - 1 : meta'[k] = meta[k + 1]
  BY <1>1, <1>3 DEF EdgeInv, EdgeTypeOK
<1>5. Popped = 1 /\ Popped' = 0 /\ Handled = 1 /\ Handled' = 0 /\ Pushing' = Pushing
  BY <1>1, <1>2 DEF Popped, Handled, Pushing
<1>6. n - 1 <= BufferCapacity /\ n - 1 # BufferCapacity
  <2> HIDE DEF n
  <2> QED
    BY <1>3
<1>7. EdgeTypeOK'
  BY <1>1, <1>2, <1>4, <1>6 DEF EdgeInv, EdgeTypeOK, TypeOK, Bytes
<1>8. SetUpInv'
  BY <1>1, <1>2 DEF EdgeInv, SetUpInv, Registered
<1>9. ProducerInv'
  BY <1>2, <1>4, <1>6 DEF EdgeInv, ProducerInv, MetaFull, DataFull, Bytes, NextSize
<1>10. ReaderInv' /\ RingInv'
  BY <1>1, <1>2 DEF EdgeInv, ReaderInv, RingInv, End
<1>11. QueueInv'
  <2>1. Len(meta') + Pushing' = Len(data') + Popped'
    <3>1. n + Pushing = Len(data) + 1 /\ Len(data) \in Nat /\ Pushing \in Nat
      BY <1>5, EdgeFacts DEF EdgeInv, QueueInv, Pushing
    <3> HIDE DEF n
    <3> QED
      BY <1>2, <1>3, <1>4, <1>5, <3>1
  <2>2. ASSUME NEW k \in DOMAIN data
        PROVE  \E t \in Thread : \E j \in DOMAIN Sizes[t] :
                 /\ Occupies(data[k], bytes, t, j)
                 /\ IF k + 0 \in DOMAIN meta' THEN meta'[k + 0] = MessageOf(t, j)
                    ELSE pc[t] = "pushMeta" /\ j = sent[t] + 1
    <3>1. k \in Nat \ {0} /\ k + 0 = k
      BY EdgeFacts
    <3>2. k + 1 \in DOMAIN meta <=> k + 0 \in DOMAIN meta'
      <4> HIDE DEF n
      <4> QED
        BY <1>3, <1>4, <3>1
    <3>3. k + 0 \in DOMAIN meta' => meta'[k + 0] = meta[k + 1]
      BY <1>4, <3>1
    <3>4. \E t \in Thread : \E j \in DOMAIN Sizes[t] :
                 /\ Occupies(data[k], bytes, t, j)
                 /\ IF k + 1 \in DOMAIN meta THEN meta[k + 1] = MessageOf(t, j)
                    ELSE pc[t] = "pushMeta" /\ j = sent[t] + 1
      BY <1>5 DEF EdgeInv, QueueInv
    <3> QED
      BY <3>2, <3>3, <3>4
  <2> QED
    BY <1>2, <1>5, <2>1, <2>2 DEF QueueInv, MessageOf
<1>12. LogInv'
  <2>1. LogLen' = LogLen /\ LogLen \in Nat /\ LogLen = d + n - 1
    <3>1. LogLen = d + n - 1 /\ LogLen' = d + (n - 1) - 0
      BY <1>2, <1>4, <1>5 DEF LogLen
    <3> HIDE DEF n, d
    <3> QED
      BY <1>3, <3>1
  <2>2. ASSUME NEW k \in 1 .. LogLen PROVE Log'[k] = Log[k]
    <3>1. Log[k] = IF k <= d THEN delivered[k].metadata ELSE meta[k - d + 1]
      BY <1>5 DEF Log
    <3>2. Log'[k] = IF k <= d THEN delivered[k].metadata ELSE meta'[k - d + 0]
      BY <1>2, <1>5, <2>1 DEF Log
    <3>3. CASE ~ (k <= d)
      <4>1. k - d + 0 \in 1 .. n - 1 /\ k - d + 0 + 1 = k - d + 1
        <5> HIDE DEF n, d
        <5> QED
          BY <1>3, <2>1, <3>3
      <4>2. meta'[k - d + 0] = meta[k - d + 0 + 1]
        BY <1>4, <4>1
      <4> QED
        BY <3>1, <3>2, <3>3, <4>1, <4>2
    <3> QED
      BY <3>1, <3>2, <3>3
  <2> QED
    BY <1>2, <2>1, <2>2, LogFrame DEF EdgeInv
<1>13. DeliveredIntact' /\ NoBug'
  BY <1>2 DEF EdgeInv, DeliveredIntact, NoBug
<1> QED
  BY <1>7, <1>8, <1>9, <1>10, <1>11, <1>12, <1>13 DEF EdgeInv

LEMMA EdgeStepKeeps ==
  ASSUME EdgeInv, Next
  PROVE  EdgeInv'
<1>1. CASE \E side \in Side : SetUp(side)
  BY <1>1, RegisterKeeps, ExchangeKeeps, InitializeKeeps DEF SetUp
<1>2. CASE \E t \in Thread : LockOutput(t) \/ Push(t)
  <2>1. PICK t \in Thread : LockOutput(t) \/ Push(t)
    BY <1>2
  <2> QED
    BY <2>1, LockOutputKeeps, IsFullKeeps, UnlockKeeps, PushDataKeeps, PushMetaKeeps DEF Push
<1>3. CASE Consume
  BY <1>3, GetMessageKeeps, HandleKeeps, PopDataKeeps, PopMetaKeeps DEF Consume
<1> QED
  BY <1>1, <1>2, <1>3 DEF Next

-----------------------------------------------------------------------------
(***************************************************************************)
(* What EdgeInv says of the messages that were delivered.                  *)
(***************************************************************************)
\* The log begins with what was delivered.
LEMMA DeliveredLog ==
  ASSUME EdgeInv, NEW k \in DOMAIN delivered
  PROVE  /\ k \in 1 .. LogLen /\ Log[k] = delivered[k].metadata
         /\ SlotKeys \subseteq published
         /\ \E t \in Thread : \E j \in 1 .. sent[t] :
               j \in Nat \ {0} /\ delivered[k].metadata = MessageOf(t, j)
<1>1. /\ k \in 1 .. Len(delivered) /\ Len(delivered) \in Nat /\ Len(meta) \in Nat
      /\ Handled \in Nat /\ Handled <= Len(meta)
  <2>1. CASE reader \in {"pop", "popMeta"}
    <3>1. meta # <<>> /\ Handled = 1
      BY <2>1 DEF EdgeInv, ReaderInv, Handled
    <3>2. Len(meta) # 0
      BY <3>1 DEF EdgeInv, EdgeTypeOK
    <3> QED
      BY <3>1, <3>2, EdgeFacts
  <2>2. CASE reader \notin {"pop", "popMeta"}
    BY <2>2, EdgeFacts DEF Handled
  <2> QED
    BY <2>1, <2>2
<1>2. k \in 1 .. LogLen /\ LogLen \in Nat
  BY <1>1 DEF LogLen
<1>3. Log[k] = delivered[k].metadata
  BY <1>1, <1>2 DEF Log
<1>4. PICK t \in Thread : \E j \in 1 .. sent[t] : Log[k] = MessageOf(t, j)
  BY <1>2 DEF EdgeInv, LogInv
<1>5. PICK j \in 1 .. sent[t] : Log[k] = MessageOf(t, j)
  BY <1>4
<1>6. j \in Nat \ {0} /\ sent[t] # 0
  BY EdgeFacts
<1>7. SlotKeys \subseteq published
  BY <1>6 DEF EdgeInv, SetUpInv
<1> QED
  BY <1>2, <1>3, <1>5, <1>6, <1>7

\* The entries before entry k that have its type are numbered 0, 1, ...
LEMMA SequenceCounts ==
  ASSUME EdgeInv, NEW k \in DOMAIN delivered
  PROVE  delivered[k].metadata.sequenceId =
           Cardinality({i \in 1 .. (k - 1) :
             delivered[i].metadata.type = delivered[k].metadata.type})
<1> DEFINE Before == {i \in 1 .. (k - 1) :
                        delivered[i].metadata.type = delivered[k].metadata.type}
           q == delivered[k].metadata.sequenceId
           f == [i \in Before |-> delivered[i].metadata.sequenceId]
<1>1. k \in 1 .. LogLen /\ Log[k] = delivered[k].metadata
  BY DeliveredLog
<1>2. PICK t \in Thread : \E j \in 1 .. sent[t] :
        j \in Nat \ {0} /\ delivered[k].metadata = MessageOf(t, j)
  BY DeliveredLog
<1>3. PICK j \in 1 .. sent[t] : j \in Nat \ {0} /\ delivered[k].metadata = MessageOf(t, j)
  BY <1>2
<1>4. /\ q = j - 1 /\ q \in Nat /\ delivered[k].metadata.type = fnv1a[Names[t]]
      /\ sent[t] \in Nat /\ q < sent[t]
  <2>1. q = j - 1 /\ delivered[k].metadata.type = fnv1a[Names[t]]
    BY <1>3, MessageType
  <2>2. sent[t] \in Nat
    BY EdgeFacts
  <2> QED
    BY <1>3, <2>1, <2>2
<1>5. DOMAIN delivered = 1 .. Len(delivered) /\ Len(delivered) \in Nat /\ k \in 1 .. Len(delivered)
  BY EdgeFacts
<1>6. IsFiniteSet(Before)
  <2>1. k - 1 \in Int /\ 1 \in Int /\ Before \in SUBSET (1 .. (k - 1))
    BY <1>5
  <2>2. IsFiniteSet(1 .. (k - 1))
    BY <2>1, FS_Interval
  <2> QED
    BY <2>1, <2>2, FS_Subset
<1>7. ASSUME NEW i \in Before
      PROVE  /\ i \in 1 .. LogLen /\ i < k /\ Log[i] = delivered[i].metadata
             /\ Log[i].type = Log[k].type /\ f[i] \in 0 .. (q - 1)
  <2>1. i \in DOMAIN delivered /\ i < k
    BY <1>5
  <2>2. i \in 1 .. LogLen /\ Log[i] = delivered[i].metadata
    BY <2>1, DeliveredLog
  <2>3. PICK u \in Thread : \E l \in 1 .. sent[u] :
          l \in Nat \ {0} /\ delivered[i].metadata = MessageOf(u, l)
    BY <2>1, DeliveredLog
  <2>4. f[i] \in Nat
    <3>1. PICK l \in Nat \ {0} : delivered[i].metadata = MessageOf(u, l)
      BY <2>3
    <3>2. f[i] = l - 1
      BY <3>1, MessageType
    <3> QED
      BY <3>2
  <2>5. f[i] < q
    BY <1>1, <2>1, <2>2 DEF EdgeInv, LogInv
  <2> HIDE DEF q, f
  <2> QED
    BY <1>1, <1>4, <2>1, <2>2, <2>4, <2>5 DEF Before
<1>8. ASSUME NEW i \in Before, NEW l \in Before, i < l PROVE f[i] < f[l]
  BY <1>7, <1>8 DEF EdgeInv, LogInv
<1>9. ASSUME NEW r \in 0 .. (q - 1) PROVE \E i \in Before : f[i] = r
  <2>1. r + 1 \in 1 .. sent[t] /\ r \in Nat /\ r < q /\ r + 1 \in Nat \ {0}
    <3> HIDE DEF q
    <3> QED
      BY <1>4
  <2>2. PICK l \in 1 .. LogLen : Log[l] = MessageOf(t, r + 1)
    BY <2>1 DEF EdgeInv, LogInv
  <2>3. Log[l].type = fnv1a[Names[t]] /\ Log[l].sequenceId = r
    <3>1. MessageOf(t, r + 1).type = fnv1a[Names[t]] /\ MessageOf(t, r + 1).sequenceId = r + 1 - 1
      BY <2>1, MessageType
    <3> QED
      BY <2>1, <2>2, <3>1
  <2>4. Log[k].type = fnv1a[Names[t]] /\ Log[k].sequenceId = q
    BY <1>1, <1>4
  <2>5. l < k
    <3>1. ~ (k < l)
      <4> SUFFICES ASSUME k < l PROVE FALSE
        OBVIOUS
      <4>1. Log[k].sequenceId < Log[l].sequenceId
        BY <1>1, <2>3, <2>4 DEF EdgeInv, LogInv
      <4> HIDE DEF q
      <4> QED
        BY <1>4, <2>1, <2>3, <2>4, <4>1
    <3>2. k # l
      <4> HIDE DEF q
      <4> QED
        BY <1>4, <2>1, <2>3, <2>4
    <3>3. l \in Int
      OBVIOUS
    <3> QED
      BY <1>5, <3>1, <3>2, <3>3
  <2>6. l \in 1 .. (k - 1) /\ l \in DOMAIN delivered
    BY <1>5, <2>5
  <2>7. Log[l] = delivered[l].metadata
    BY <2>6, DeliveredLog
  <2>8. l \in Before
    BY <1>4, <2>3, <2>6, <2>7
  <2> QED
    BY <2>3, <2>7, <2>8
<1>10. f \in Bijection(Before, 0 .. (q - 1))
  <2>1. f \in [Before -> 0 .. (q - 1)]
    BY <1>7
  <2>2. \A i, l \in Before : f[i] = f[l] => i = l
    <3> SUFFICES ASSUME NEW i \in Before, NEW l \in Before, f[i] = f[l], i # l PROVE FALSE
      OBVIOUS
    <3>1. i \in Int /\ l \in Int /\ f[i] \in Int /\ f[l] \in Int
      <4>1. f[i] \in 0 .. (q - 1) /\ f[l] \in 0 .. (q - 1)
        BY <1>7
      <4> QED
        BY <1>4, <1>5, <4>1
    <3>2. f[i] < f[l] \/ f[l] < f[i]
      <4> HIDE DEF f, Before
      <4> QED
        BY <1>8, <3>1
    <3> HIDE DEF f
    <3> QED
      BY <3>1, <3>2
  <2> HIDE DEF f, Before, q
  <2>3. \A r \in 0 .. (q - 1) : \E i \in Before : f[i] = r
    BY <1>9
  <2> QED
    BY <2>1, <2>2, <2>3 DEF Bijection, Injection, Surjection, IsInjective
<1> HIDE DEF f, Before, q
<1>11. Cardinality(Before) = Cardinality(0 .. (q - 1))
  <2>1. ExistsBijection(Before, 0 .. (q - 1))
    BY <1>10 DEF ExistsBijection
  <2> QED
    BY <1>6, <2>1, FS_Bijection
<1>12. Cardinality(0 .. (q - 1)) = q
  BY <1>4, FS_Interval
<1> QED
  BY <1>11, <1>12 DEF Before, q

LEMMA DistinctIds ==
  ASSUME EdgeInv
  PROVE  IdsDistinct
<1> SUFFICES ASSUME NEW i \in DOMAIN delivered, NEW k \in DOMAIN delivered,
                    GetId(delivered[i].metadata) = GetId(delivered[k].metadata)
             PROVE  i = k
  BY DEF IdsDistinct
<1>1. ASSUME NEW n \in DOMAIN delivered
      PROVE  LET m == delivered[n].metadata
             IN  /\ m.type \in 0 .. TypeIds - 1 /\ m.groupId \in 0 .. GroupIds - 1
                 /\ m.sequenceId \in 0 .. SequenceIds - 1
                 /\ GetId(m) = (m.type * GroupIds + m.groupId) * SequenceIds + m.sequenceId
                 /\ m.type * GroupIds + m.groupId \in Nat
  <2> DEFINE m == delivered[n].metadata
  <2>1. PICK t \in Thread : \E j \in 1 .. sent[t] : j \in Nat \ {0} /\ m = MessageOf(t, j)
    BY DeliveredLog
  <2>2. PICK j \in 1 .. sent[t] : j \in Nat \ {0} /\ m = MessageOf(t, j)
    BY <2>1
  <2>3. /\ m.type \in 0 .. TypeIds - 1 /\ m.groupId \in 0 .. GroupIds - 1
        /\ m.sequenceId = j - 1
    BY <2>2, MessageType
  <2>4. m.sequenceId \in 0 .. SequenceIds - 1
    <3>1. sent[t] \in 0 .. Len(Sizes[t]) /\ Len(Sizes[t]) \in Nat
      BY EdgeFacts DEF EdgeInv, EdgeTypeOK, TypeOK
    <3>2. Len(Sizes[t]) <= SequenceIds /\ SequenceIds \in Nat
      BY IdsAssumption
    <3> QED
      BY <2>2, <2>3, <3>1, <3>2
  <2> HIDE DEF m
  <2>5. m.type % TypeIds = m.type /\ m.groupId % GroupIds = m.groupId
        /\ m.sequenceId % SequenceIds = m.sequenceId
    BY <2>3, <2>4, SmallRemainder, IdsAssumption
  <2>6. GetId(m) = (m.type * GroupIds + m.groupId) * SequenceIds + m.sequenceId
    BY <2>5 DEF GetId
  <2>7. m.type * GroupIds + m.groupId \in Nat
    <3>1. m.type \in Nat /\ m.groupId \in Nat /\ GroupIds \in Nat
      BY <2>3, IdsAssumption
    <3> QED
      BY <3>1
  <2> QED
    BY <2>3, <2>4, <2>6, <2>7 DEF m
<1>2. PICK a : a = delivered[i].metadata
  OBVIOUS
<1>3. PICK b : b = delivered[k].metadata
  OBVIOUS
<1>4. /\ a.type \in 0 .. TypeIds - 1 /\ a.groupId \in 0 .. GroupIds - 1
      /\ a.sequenceId \in 0 .. SequenceIds - 1
      /\ GetId(a) = (a.type * GroupIds + a.groupId) * SequenceIds + a.sequenceId
      /\ a.type * GroupIds + a.groupId \in Nat
  BY <1>1, <1>2
<1>5. /\ b.type \in 0 .. TypeIds - 1 /\ b.groupId \in 0 .. GroupIds - 1
      /\ b.sequenceId \in 0 .. SequenceIds - 1
      /\ GetId(b) = (b.type * GroupIds + b.groupId) * SequenceIds + b.sequenceId
      /\ b.type * GroupIds + b.groupId \in Nat
  BY <1>1, <1>3
<1>6. a.type * GroupIds + a.groupId = b.type * GroupIds + b.groupId /\ a.sequenceId = b.sequenceId
  <2>1. (a.type * GroupIds + a.groupId) * SequenceIds + a.sequenceId
        = (b.type * GroupIds + b.groupId) * SequenceIds + b.sequenceId
    BY <1>2, <1>3, <1>4, <1>5
  <2>2. /\ SequenceIds \in Nat /\ a.sequenceId \in 0 .. SequenceIds - 1
        /\ b.sequenceId \in 0 .. SequenceIds - 1
    BY <1>4, <1>5, IdsAssumption
  <2>3. ASSUME NEW v \in Nat, NEW w \in Nat, v * SequenceIds + a.sequenceId = w * SequenceIds + b.sequenceId
        PROVE  v = w /\ a.sequenceId = b.sequenceId
    BY <2>2, <2>3, Digits
  <2> QED
    BY <1>4, <1>5, <2>1, <2>3
<1>7. a.type = b.type
  <2>1. /\ a.type \in Nat /\ b.type \in Nat /\ GroupIds \in Nat
        /\ a.groupId \in 0 .. GroupIds - 1 /\ b.groupId \in 0 .. GroupIds - 1
    BY <1>4, <1>5, IdsAssumption
  <2>2. ASSUME NEW v \in Nat, NEW w \in Nat, v * GroupIds + a.groupId = w * GroupIds + b.groupId
        PROVE  v = w
    BY <2>1, <2>2, Digits
  <2> QED
    BY <1>6, <2>1, <2>2
<1>8. i \in 1 .. LogLen /\ Log[i] = a /\ k \in 1 .. LogLen /\ Log[k] = b
  BY <1>2, <1>3, DeliveredLog
<1>9. ~ (i < k) /\ ~ (k < i)
  <2>1. ~ (a.sequenceId < b.sequenceId) /\ ~ (b.sequenceId < a.sequenceId)
    BY <1>4, <1>5, <1>6, IdsAssumption
  <2> QED
    BY <1>7, <1>8, <2>1 DEF EdgeInv, LogInv
<1> QED
  BY <1>8, <1>9

LEMMA Kept ==
  ASSUME EdgeInv
  PROVE  PayloadsKept
<1> SUFFICES ASSUME NEW k \in DOMAIN data
             PROVE  Cardinality({bytes[p] : p \in Span(data[k].pos, data[k].size)}) = 1
  BY DEF PayloadsKept
<1>0. PICK t \in Thread : \E j \in DOMAIN Sizes[t] : Occupies(data[k], bytes, t, j)
  BY DEF EdgeInv, QueueInv
<1>1. PICK j \in DOMAIN Sizes[t] : Occupies(data[k], bytes, t, j)
  BY <1>0
<1>2. data[k].pos \in Nat /\ data[k].size \in 1 .. BufferSize
  BY EdgeFacts
<1>3. {bytes[p] : p \in Span(data[k].pos, data[k].size)} = {<<t, j>>}
  <2>1. ASSUME NEW p \in Span(data[k].pos, data[k].size) PROVE bytes[p] = <<t, j>>
    <3>1. PICK q \in data[k].pos .. (data[k].pos + data[k].size - 1) : p = q % BufferSize
      BY <1>2, SpanBytes
    <3> QED
      BY <1>1, <3>1 DEF Occupies
  <2>2. data[k].pos % BufferSize \in Span(data[k].pos, data[k].size)
    <3>1. data[k].pos \in data[k].pos .. (data[k].pos + data[k].size - 1)
      BY <1>2, CapacityAssumption
    <3> QED
      BY <1>2, <3>1, SpanBytes
  <2> QED
    BY <2>1, <2>2
<1> QED
  BY <1>3, FS_Singleton

\* Whatever the threads send and whatever the channels' sizes, two threads
\* never mix their messages: pushMessage and popMessage do not find full or
\* empty what they have checked, and a message is delivered once, in its
\* sender's order, with its own payload, type and id (output.hpp, input.hpp).
THEOREM MessagesArriveIntact == PlatformSpec => []MessagesIntact
<1>1. PlatformInit => EdgeInv
  BY EdgeInitially DEF PlatformInit
<1>2. EdgeInv /\ [PlatformNext]_allVars => EdgeInv'
  <2> SUFFICES ASSUME EdgeInv, [PlatformNext]_allVars PROVE EdgeInv'
    OBVIOUS
  <2>1. CASE Next
    BY <2>1, EdgeStepKeeps
  <2>2. CASE UNCHANGED vars
    <3>1. /\ UNCHANGED <<fnv1a, registry, published, ready, lock, pc, sent>>
          /\ UNCHANGED <<data, head, tail, bytes, meta, reader, view, delivered, bug>>
      BY <2>2 DEF vars, setup, producers, channel, consumer
    <3>2. EdgeTypeOK'
      BY <3>1 DEF EdgeInv, EdgeTypeOK, TypeOK, Bytes
    <3>8. SetUpInv'
      BY <3>1 DEF EdgeInv, SetUpInv, Registered
    <3>9. DeliveredIntact' /\ NoBug'
      BY <3>1 DEF EdgeInv, DeliveredIntact, NoBug
    <3>3. ProducerInv' /\ ReaderInv' /\ RingInv'
      BY <3>1 DEF EdgeInv, ProducerInv, MetaFull, DataFull, Bytes, NextSize, ReaderInv, RingInv, End
    <3>4. Popped' = Popped /\ Pushing' = Pushing /\ Handled' = Handled
      BY <3>1 DEF Popped, Pushing, Handled
    <3>5. QueueInv'
      BY <3>1, <3>4 DEF EdgeInv, QueueInv, MessageOf
    <3>6. LogLen' = LogLen /\ Log' = Log
      BY <3>1, <3>4 DEF LogLen, Log
    <3>7. LogInv'
      BY <3>1, <3>6, LogFrame DEF EdgeInv
    <3> QED
      BY <3>2, <3>3, <3>5, <3>7, <3>8, <3>9 DEF EdgeInv
  <2> QED
    BY <2>1, <2>2 DEF PlatformNext, allVars
<1>3. EdgeInv => MessagesIntact
  <2>1. EdgeInv => DeliveredInOrder
    BY SequenceCounts DEF DeliveredInOrder
  <2> QED
    BY <2>1, DistinctIds, Kept DEF EdgeInv, EdgeTypeOK, MessagesIntact
<1> QED
  BY <1>1, <1>2, <1>3, PTL DEF PlatformSpec
=============================================================================
