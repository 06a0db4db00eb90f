---------------------------- MODULE OrchestraSafety ----------------------------
(***************************************************************************)
(* The safety properties of Orchestra that need more than IInv: what has    *)
(* been told to the test, and where the migration containers are.          *)
(***************************************************************************)
EXTENDS OrchestraProofs

\* Whatever leaves something behind has returned an error.
Told ==
    phase = "Broken" \/ Lost # {} \/ ctx = "expired" => reported # {}

\* No report is taken back, and every step that makes one due makes one.
LEMMA ToldStep == Told /\ [Next]_vars => Told'
<1> SUFFICES ASSUME Told, [Next]_vars PROVE Told'
  OBVIOUS
<1> USE DEF Told, Lost, vars, buildVars, worldVars, fxVars, history
<1>1. ASSUME NEW u \in Units, Begin(u) PROVE Told'
  BY <1>1 DEF Begin
<1>2. ASSUME NEW s \in Containers, ContainerStep(s) PROVE Told'
  <2>1. CASE NewRequest(s) \/ ResolveNeeds(s)
    BY <2>1 DEF NewRequest, ResolveNeeds
  <2>2. CASE CreateJob(s) \/ JobExits(s) \/ RemoveJob(s)
    BY <2>2 DEF CreateJob, JobExits, RemoveJob
  <2>3. CASE Create(s) \/ StartContainer(s) \/ WaitUntilReady(s)
    BY <2>3 DEF Create, StartContainer, WaitUntilReady
  <2>4. CASE PostReady(s) \/ Terminate(s)
    BY <2>4 DEF PostReady, Terminate
  <2>5. QED
    BY <1>2, <2>1, <2>2, <2>3, <2>4 DEF ContainerStep
<1>3. ASSUME NEW p \in Proxies, ProxyStep(p) PROVE Told'
  BY <1>3 DEF ProxyStep, LookUpEndpoint, StartProxy, CloseProxy
<1>4. CASE FxStep
  <2>1. CASE OnStart
    BY <2>1 DEF OnStart, Regain
  <2>2. CASE OnStartFails \/ StartTimesOut
    BY <2>2 DEF OnStartFails, StartTimesOut, RollBack
  <2>3. CASE StartReturns \/ StopReturns \/ StopTimesOut
    BY <2>3 DEF StartReturns, StopReturns, StopTimesOut
  <2>4. QED
    BY <1>4, <2>1, <2>2, <2>3 DEF FxStep
<1>5. CASE TestStep
  BY <1>5 DEF TestStep, FinishNew, Start, Stop
<1>6. CASE Failure
  BY <1>6 DEF Failure, ConstructorFails, InvokeFails, ContextExpires, TerminateFails
<1>7. CASE StartBroken \/ StopIdle \/ UNCHANGED vars
  BY <1>7 DEF StartBroken, StopIdle
<1>8. QED
  BY <1>1, <1>2, <1>3, <1>4, <1>5, <1>6, <1>7 DEF Next

\* No leak of a service container or a listener is silent.
THEOREM LeaksAreReported == Spec => []LeaksReported
<1>1. Init => Told
  BY DEF Init, Told, Lost
<1>2. LeakAccounted /\ Told => LeaksReported
  BY DEF LeakAccounted, Told, LeaksReported, AtRest
<1>3. QED
  BY <1>1, <1>2, ToldStep, LeaksAccounted, PTL DEF Spec

-----------------------------------------------------------------------------
\* A service that has a migration container gets past it only when that has ended.
Migrated ==
    building \in Migrates /\ step \in {"migrated", "create", "start", "wait", "hook"} =>
        job[building] \in (IF step = "migrated" THEN {"exited"} ELSE {"kept", "removed"})

\* No step starts a migration beside its service, or a service beside its migration.
LEMMA MigrationStep ==
  ASSUME IInv, IInv', MigrationAlone, Migrated, [Next]_vars
  PROVE  MigrationAlone' /\ Migrated'
<1> DEFINE Goal == MigrationAlone' /\ Migrated'
<1> USE UnitsAssumption, KindsAssumption
    DEF UnitsAssumption, KindsAssumption, MigrationAlone, Migrated, Present, Up, Units,
        vars, buildVars, worldVars, fxVars, history
<1>0. /\ docker \in [Containers -> {"none", "created", "running", "ready", "exited", "removed"}]
      /\ job \in [Containers -> {"none", "running", "exited", "kept", "removed"}]
  BY DEF IInv, TypeOK
<1>1. ASSUME NEW u \in Units, Begin(u) PROVE Goal
  BY <1>1 DEF Begin
<1>2. ASSUME NEW s \in Containers, ContainerStep(s) PROVE Goal
  <2>1. CASE NewRequest(s) \/ ResolveNeeds(s)
    BY <2>1 DEF NewRequest, ResolveNeeds, At
  <2>2. CASE CreateJob(s)
    <3>1. ~Present(s)
      BY <2>2 DEF CreateJob, At, IInv, Making
    <3>2. QED
      BY <1>0, <2>2, <3>1 DEF CreateJob, At
  <2>3. CASE JobExits(s) \/ RemoveJob(s)
    <3>1. ~Present(s) /\ building = s /\ building' = s /\ UNCHANGED docker
      BY <2>3 DEF JobExits, RemoveJob, At, IInv, Making
    <3>2. CASE JobExits(s)
      BY <1>0, <3>1, <3>2 DEF JobExits, At
    <3>3. CASE RemoveJob(s)
      <4>1. job' = [job EXCEPT ![s] = "removed"] \/ job' = [job EXCEPT ![s] = "kept"]
        BY <3>3 DEF RemoveJob
      <4>2. job'[s] \in {"kept", "removed"} /\ \A u \in Containers \ {s} : job'[u] = job[u]
        BY <1>0, <4>1
      <4>3. step' = "create"
        BY <3>3 DEF RemoveJob
      <4>4. QED
        BY <3>1, <4>2, <4>3
    <3>4. QED
      BY <2>3, <3>2, <3>3
  <2>4. CASE Create(s) \/ StartContainer(s) \/ WaitUntilReady(s)
    BY <1>0, <2>4 DEF Create, StartContainer, WaitUntilReady, At
  <2>5. CASE PostReady(s)
    BY <2>5 DEF PostReady, Return
  <2>6. CASE Terminate(s)
    BY <1>0, <2>6 DEF Terminate
  <2>7. QED
    BY <1>2, <2>1, <2>2, <2>3, <2>4, <2>5, <2>6 DEF ContainerStep
<1>3. ASSUME NEW p \in Proxies, ProxyStep(p) PROVE Goal
  BY <1>3 DEF ProxyStep, LookUpEndpoint, StartProxy, CloseProxy, At, Return
<1>4. CASE FxStep
  <2>1. CASE UNCHANGED <<docker, job, building, step>>
    BY <2>1
  <2>2. CASE /\ CanReport(NextHook) /\ NextHook \in Reruns
             /\ RunAgain(NextHook)
             /\ UNCHANGED <<job, building, step>>
    BY <1>0, <2>2 DEF CanReport, RunAgain
  <2>3. QED
    BY <1>4, <2>1, <2>2
       DEF FxStep, OnStart, OnStartFails, StartTimesOut, StartReturns, StopReturns,
           StopTimesOut, RollBack
<1>5. CASE TestStep
  BY <1>5 DEF TestStep, FinishNew, Start, Stop
<1>6. CASE Failure
  <2>1. CASE ConstructorFails \/ InvokeFails \/ ContextExpires
    BY <2>1 DEF ConstructorFails, InvokeFails, ContextExpires
  <2>2. ASSUME NEW s \in Containers, TerminateFails(s) PROVE Goal
    BY <1>0, <2>2 DEF TerminateFails
  <2>3. QED
    BY <1>6, <2>1, <2>2 DEF Failure
<1>7. CASE StartBroken \/ StopIdle \/ UNCHANGED vars
  BY <1>7 DEF StartBroken, StopIdle
<1>8. QED
  BY <1>1, <1>2, <1>3, <1>4, <1>5, <1>6, <1>7 DEF Next

\* A service and its migration container never run at the same time.
THEOREM MigrationsAlone == Spec => []MigrationAlone
<1>1. Init => MigrationAlone /\ Migrated
  BY UnitsAssumption, KindsAssumption
     DEF Init, MigrationAlone, Migrated, Present, Units, UnitsAssumption, KindsAssumption
<1>2. IInv /\ IInv' /\ MigrationAlone /\ Migrated /\ [Next]_vars => MigrationAlone' /\ Migrated'
  BY MigrationStep
<1>3. QED
  BY <1>1, <1>2, IInvHolds, PTL DEF Spec

-----------------------------------------------------------------------------
\* No Start succeeds once a container is gone.
THEOREM RestartsRefused == Spec => []RestartRefused
<1>1. IInv => RestartRefused
  <2> SUFFICES ASSUME IInv, phase = "Started", NEW u \in Built \cap Containers
               PROVE  docker[u] # "removed"
    BY DEF RestartRefused
  <2>1. PICK i \in DOMAIN hooks : hooks[i] = u
    BY DEF Built
  <2>2. i \in 1 .. started
    BY DEF IInv, TypeOK, PhaseFacts
  <2>3. QED
    BY <2>1, <2>2 DEF IInv, CountedUp
<1>2. QED
  BY <1>1, IInvHolds, PTL

-----------------------------------------------------------------------------
\* Only a constructor opens a listener.
LEMMA ReopenStep ==
  ASSUME [Next]_vars, NEW p \in Proxies, p \notin listening, p \in listening'
  PROVE  phase = "New"
<1> USE DEF vars, buildVars, worldVars, fxVars, history
<1>1. CASE listening' \subseteq listening
  BY <1>1
<1>2. ASSUME NEW q \in Proxies, StartProxy(q) PROVE phase = "New"
  BY <1>2 DEF StartProxy, At
<1>3. ASSUME NEW u \in Units, Begin(u) PROVE listening' \subseteq listening
  BY <1>3 DEF Begin
<1>4. ASSUME NEW s \in Containers, ContainerStep(s) PROVE listening' \subseteq listening
  BY <1>4 DEF ContainerStep, NewRequest, ResolveNeeds, CreateJob, JobExits, RemoveJob, Create,
              StartContainer, WaitUntilReady, PostReady, Terminate
<1>5. ASSUME NEW q \in Proxies, LookUpEndpoint(q) \/ CloseProxy(q)
      PROVE  listening' \subseteq listening
  BY <1>5 DEF LookUpEndpoint, CloseProxy
<1>6. ASSUME FxStep PROVE listening' \subseteq listening
  BY <1>6 DEF FxStep, OnStart, OnStartFails, StartTimesOut, StartReturns, StopReturns,
              StopTimesOut, RollBack
<1>7. ASSUME TestStep PROVE listening' \subseteq listening
  BY <1>7 DEF TestStep, FinishNew, Start, Stop
<1>8. ASSUME Failure PROVE listening' \subseteq listening
  BY <1>8 DEF Failure, ConstructorFails, InvokeFails, ContextExpires, TerminateFails
<1>9. ASSUME StartBroken \/ StopIdle \/ UNCHANGED vars PROVE listening' \subseteq listening
  BY <1>9 DEF StartBroken, StopIdle
<1>10. QED
  BY <1>1, <1>2, <1>3, <1>4, <1>5, <1>6, <1>7, <1>8, <1>9 DEF Next, ProxyStep

\* A proxy closed once is never reopened.
THEOREM NeverReopened == Spec => NoReopen
<1>1. [Next]_vars => [\A p \in Proxies : p \notin listening /\ p \in listening' => phase = "New"]_vars
  BY ReopenStep
<1>2. QED
  BY <1>1, PTL DEF Spec, NoReopen

-----------------------------------------------------------------------------
\* How often hooks have run: a hook that a Start has yet to reach is one run behind.
RunCounts ==
    /\ \A s \in Containers : s \notin Built => readied[s] = 0
    /\ \A s \in Containers : s \in Built =>
          readied[s] >= 1 /\ readied[s] <= (IF s \in Reruns THEN 1 + starts ELSE 1)
    /\ phase = "Starting" =>
          /\ starts >= 1
          /\ \A i \in started + 1 .. Len(hooks) :
                hooks[i] \in Containers => readied[hooks[i]] <= starts

\* Only a constructor that returns and a Start that starts a container again count.
LEMMA RunCountsStep ==
  ASSUME IInv, IInv', RunCounts, [Next]_vars
  PROVE  RunCounts'
<1> USE UnitsAssumption, KindsAssumption
    DEF UnitsAssumption, KindsAssumption, vars, buildVars, worldVars, fxVars, history, Units
<1>0. /\ readied \in [Containers -> Nat] /\ starts \in Nat
      /\ hooks \in Seq(Units) /\ started \in 0 .. Len(hooks)
      /\ \A i, j \in DOMAIN hooks : hooks[i] = hooks[j] => i = j
  BY DEF IInv, TypeOK
<1>1. ASSUME UNCHANGED <<readied, hooks, started, starts>>, phase' = phase \/ phase' # "Starting"
      PROVE  RunCounts'
  BY <1>0, <1>1 DEF RunCounts, Built
<1>2. ASSUME UNCHANGED <<readied, hooks, starts>>, phase' # "Starting" PROVE RunCounts'
  BY <1>0, <1>2 DEF RunCounts, Built
<1>3. ASSUME NEW u \in Units, Begin(u) PROVE RunCounts'
  BY <1>1, <1>3 DEF Begin
<1>4. ASSUME NEW s \in Containers, PostReady(s) PROVE RunCounts'
  <2>1. Built' = Built \cup {s} /\ s \notin Built /\ phase' = "New" /\ starts' = starts /\ starts = 0
    BY <1>4, ReturnAppends DEF PostReady, At, IInv, TypeOK, PhaseFacts
  <2>2. readied[s] = 0
    BY <2>1 DEF RunCounts
  <2>3. \A t \in Containers : readied'[t] = IF t = s THEN 1 ELSE readied[t]
    BY <1>0, <1>4, <2>2 DEF PostReady
  <2>4. QED
    BY <1>0, <2>1, <2>3 DEF RunCounts
<1>5. ASSUME NEW s \in Containers, ContainerStep(s), ~PostReady(s) PROVE RunCounts'
  <2>1. CASE Terminate(s)
    BY <1>2, <2>1 DEF Terminate, Stopping
  <2>2. CASE NewRequest(s) \/ ResolveNeeds(s) \/ CreateJob(s) \/ JobExits(s) \/ RemoveJob(s)
    BY <1>1, <2>2 DEF NewRequest, ResolveNeeds, CreateJob, JobExits, RemoveJob
  <2>3. CASE Create(s) \/ StartContainer(s) \/ WaitUntilReady(s)
    BY <1>1, <2>3 DEF Create, StartContainer, WaitUntilReady
  <2>4. QED
    BY <1>5, <2>1, <2>2, <2>3 DEF ContainerStep
<1>6. ASSUME NEW p \in Proxies, StartProxy(p) PROVE RunCounts'
  <2>1. Built' = Built \cup {p} /\ phase' = "New" /\ UNCHANGED <<readied, starts>>
    BY <1>6, ReturnAppends DEF StartProxy, At, IInv
  <2>2. QED
    BY <1>0, <2>1 DEF RunCounts
<1>7. ASSUME NEW p \in Proxies, LookUpEndpoint(p) \/ CloseProxy(p) PROVE RunCounts'
  BY <1>1, <1>2, <1>7 DEF LookUpEndpoint, CloseProxy, Stopping
<1>8. CASE OnStart
  <2>1. /\ phase = "Starting" /\ phase' = "Starting" /\ started' = started + 1
        /\ UNCHANGED <<hooks, starts>> /\ started + 1 \in DOMAIN hooks
    BY <1>0, <1>8 DEF OnStart
  <2>2. CASE UNCHANGED readied
    BY <1>0, <2>1, <2>2 DEF RunCounts, Built
  <2>3. CASE NextHook \in Reruns /\ RunAgain(NextHook)
    <3>1. /\ readied' = [readied EXCEPT ![NextHook] = @ + 1]
          /\ NextHook = hooks[started + 1] /\ NextHook \in Built /\ NextHook \in Containers
      BY <2>1, <2>3 DEF RunAgain, NextHook, Built
    <3>2. readied[NextHook] <= starts
      BY <1>0, <2>1, <3>1 DEF RunCounts
    <3>3. \A i \in started + 2 .. Len(hooks) : hooks[i] # NextHook
      BY <1>0, <2>1, <3>1
    <3>4. QED
      BY <1>0, <2>1, <2>3, <3>1, <3>2, <3>3 DEF RunCounts, Built
  <2>4. QED
    BY <1>8, <2>2, <2>3 DEF OnStart
<1>9. CASE OnStartFails
  <2>1. CASE UNCHANGED readied
    BY <1>2, <1>9, <2>1 DEF OnStartFails, RollBack
  <2>2. CASE NextHook \in Reruns /\ RunAgain(NextHook)
    <3>1. /\ phase = "Starting" /\ phase' # "Starting" /\ UNCHANGED <<hooks, starts>>
          /\ started + 1 \in DOMAIN hooks
      BY <1>0, <1>9 DEF OnStartFails, RollBack
    <3>2. /\ readied' = [readied EXCEPT ![NextHook] = @ + 1]
          /\ NextHook = hooks[started + 1] /\ NextHook \in Built /\ NextHook \in Containers
      BY <2>2, <3>1 DEF RunAgain, NextHook, Built
    <3>3. readied[NextHook] <= starts
      BY <1>0, <3>1, <3>2 DEF RunCounts
    <3>4. QED
      BY <1>0, <2>2, <3>1, <3>2, <3>3 DEF RunCounts, Built
  <2>3. QED
    BY <1>9, <2>1, <2>2 DEF OnStartFails
<1>10. CASE StartTimesOut \/ StartReturns \/ StopReturns \/ StopTimesOut
  BY <1>2, <1>10 DEF StartTimesOut, RollBack, StartReturns, StopReturns, StopTimesOut
<1>11. CASE Start
  <2>1. starts' = starts + 1 /\ started' = 0 /\ UNCHANGED <<readied, hooks>>
    BY <1>11 DEF Start
  <2>2. \A i \in DOMAIN hooks : hooks[i] \in Containers => readied[hooks[i]] <= starts + 1
    BY <1>0 DEF RunCounts, Built
  <2>3. QED
    BY <1>0, <2>1, <2>2 DEF RunCounts, Built
<1>12. CASE FinishNew \/ Stop
  BY <1>2, <1>12 DEF FinishNew, Stop
<1>13. CASE Failure
  <2>1. CASE ConstructorFails \/ InvokeFails \/ ContextExpires
    BY <1>1, <2>1 DEF ConstructorFails, InvokeFails, ContextExpires
  <2>2. ASSUME NEW s \in Containers, TerminateFails(s) PROVE RunCounts'
    BY <1>2, <2>2 DEF TerminateFails, Stopping
  <2>3. QED
    BY <1>13, <2>1, <2>2 DEF Failure
<1>14. CASE StartBroken \/ StopIdle \/ UNCHANGED vars
  BY <1>1, <1>14 DEF StartBroken, StopIdle
<1>15. QED
  BY <1>3, <1>4, <1>5, <1>6, <1>7, <1>8, <1>9, <1>10, <1>11, <1>12, <1>13, <1>14
     DEF Next, ProxyStep, FxStep, TestStep

\* PostReady hooks run once, and once more at each Start of a service that starts twice.
THEOREM ReadyOnce == Spec => []ReadyRuns
<1>1. Init => RunCounts
  BY DEF Init, RunCounts, Built
<1>2. IInv /\ IInv' /\ RunCounts /\ [Next]_vars => RunCounts'
  BY RunCountsStep
<1>3. IInv /\ RunCounts => ReadyRuns
  BY DEF IInv, TypeOK, RunCounts, ReadyRuns
<1>4. QED
  BY <1>1, <1>2, <1>3, IInvHolds, PTL DEF Spec

-----------------------------------------------------------------------------
\* The first hook is the hook of a container, since what it belongs to needs nothing.
LEMMA FirstHook ==
  ASSUME IInv, hooks # <<>>
  PROVE  hooks[1] \in Containers
<1>1. hooks \in Seq(Units) /\ 1 \in DOMAIN hooks
  BY DEF IInv, TypeOK
<1>2. Needs[hooks[1]] = {}
  <2> SUFFICES ASSUME NEW d \in Needs[hooks[1]] PROVE FALSE
    OBVIOUS
  <2>1. PICK i \in DOMAIN hooks : i < 1
    BY <1>1 DEF IInv, HookOrder
  <2>2. QED
    BY <1>1, <2>1
<1>3. hooks[1] \in Units
  BY <1>1
<1>4. QED
  BY <1>2, <1>3, ProxiesAssumption DEF ProxiesAssumption, Units

\* As long as every OnStop that was due has run without an error, all that is built is up,
\* or a pass is on its way to the first hook, or it has removed the first container.
Whole ==
    flaws = {} =>
        \/ Built \subseteq Holding
        \/ phase = "Stopping" /\ started > 0
        \/ hooks # <<>> /\ docker[hooks[1]] = "removed"

\* Steps outside the stop pass that take nothing down and bring no removed container back.
LEMMA WholeKept ==
  ASSUME IInv, Whole, UNCHANGED hooks, flaws \subseteq flaws',
         phase = "Stopping" => phase' = "Stopping" /\ started' = started,
         listening' = listening,
         \A s \in Built \cap Containers :
            /\ docker[s] = "removed" <=> docker'[s] = "removed"
            /\ Present(s) => Present(s)'
  PROVE  Whole'
<1> SUFFICES ASSUME flaws' = {} PROVE Whole'
  BY DEF Whole
<1>1. Built' = Built /\ Built \subseteq Units
  BY DEF Built, IInv, TypeOK
<1>2. CASE Built \subseteq Holding
  <2>1. ASSUME NEW u \in Built PROVE Up(u)'
    BY <1>1, <1>2, <2>1 DEF Holding, Up, Units
  <2>2. QED
    BY <1>1, <2>1 DEF Whole, Holding
<1>3. CASE phase = "Stopping" /\ started > 0
  BY <1>3 DEF Whole
<1>4. CASE hooks # <<>> /\ docker[hooks[1]] = "removed"
  <2>1. hooks[1] \in Built /\ hooks[1] \in Containers
    BY <1>4, FirstHook DEF Built, IInv, TypeOK
  <2>2. QED
    BY <1>4, <2>1 DEF Whole
<1>5. QED
  BY <1>2, <1>3, <1>4 DEF Whole

\* A constructor that returns adds a unit that is up to those that are.
LEMMA WholeReturn ==
  ASSUME IInv, Whole, NEW u \in Units, Return(u), phase = "New", Up(u)',
         UNCHANGED <<docker, flaws>>, listening \subseteq listening'
  PROVE  Whole'
<1> SUFFICES ASSUME flaws' = {} PROVE Built' \subseteq Holding'
  BY DEF Whole
<1>1. Built \subseteq Holding
  <2>1. ~(hooks # <<>> /\ docker[hooks[1]] = "removed")
    BY FirstHook DEF IInv, PhaseFacts, Intact, Built, TypeOK
  <2>2. QED
    BY <2>1 DEF Whole
<1>2. Built' = Built \cup {u}
  BY ReturnAppends DEF IInv
<1>3. \A v \in Built : Up(v)'
  BY <1>1 DEF Holding, Up, Present
<1>4. QED
  BY <1>1, <1>2, <1>3 DEF Holding

\* Every step keeps it.
LEMMA WholeStep ==
  ASSUME IInv, IInv', Whole, [Next]_vars
  PROVE  Whole'
<1> USE UnitsAssumption, KindsAssumption
    DEF UnitsAssumption, KindsAssumption, vars, buildVars, worldVars, fxVars, history
<1>0. /\ docker \in [Containers -> {"none", "created", "running", "ready", "exited", "removed"}]
      /\ hooks \in Seq(Units) /\ started \in 0 .. Len(hooks)
      /\ building \notin Built
  BY DEF IInv, TypeOK
<1>1. ASSUME UNCHANGED <<hooks, docker, listening>>, flaws \subseteq flaws',
             phase = "Stopping" => phase' = "Stopping" /\ started' = started
      PROVE  Whole'
  BY <1>1, WholeKept DEF Present
<1>2. ASSUME NEW u \in Units, Begin(u) PROVE Whole'
  BY <1>1, <1>2 DEF Begin
<1>3. ASSUME NEW s \in Containers, PostReady(s) PROVE Whole'
  <2>1. /\ s \in Units /\ Return(s) /\ phase = "New" /\ docker[s] = "ready"
        /\ UNCHANGED <<docker, listening, flaws>>
    BY <1>3 DEF PostReady, At, IInv, PhaseFacts, Units
  <2>2. Up(s)'
    BY <2>1 DEF Up, Present
  <2>3. QED
    BY <2>1, <2>2, WholeReturn
<1>4. ASSUME NEW s \in Containers, Terminate(s) PROVE Whole'
  <2>1. /\ started > 0 /\ started' = started - 1 /\ s = hooks[started] /\ phase' = "Stopping"
        /\ docker' = [docker EXCEPT ![s] = "removed"] /\ UNCHANGED hooks
    BY <1>4 DEF Terminate, Stopping, LastHook
  <2>2. CASE started = 1
    BY <1>0, <2>1, <2>2 DEF Whole
  <2>3. CASE started # 1
    BY <1>0, <2>1, <2>3 DEF Whole
  <2>4. QED
    BY <2>2, <2>3
<1>5. ASSUME NEW s \in Containers, ContainerStep(s), ~PostReady(s), ~Terminate(s) PROVE Whole'
  <2>1. CASE NewRequest(s) \/ ResolveNeeds(s) \/ CreateJob(s) \/ JobExits(s) \/ RemoveJob(s)
    BY <1>1, <2>1 DEF NewRequest, ResolveNeeds, CreateJob, JobExits, RemoveJob, At
  <2>2. CASE Create(s) \/ StartContainer(s) \/ WaitUntilReady(s)
    <3>1. s \notin Built /\ phase = "New"
      BY <1>0, <2>2 DEF Create, StartContainer, WaitUntilReady, At
    <3>2. /\ UNCHANGED <<hooks, listening, flaws>>
          /\ \A u \in Built \cap Containers : docker'[u] = docker[u]
      BY <1>0, <2>2, <3>1 DEF Create, StartContainer, WaitUntilReady
    <3>3. QED
      BY <3>1, <3>2, WholeKept DEF Present
  <2>3. QED
    BY <1>5, <2>1, <2>2 DEF ContainerStep
<1>6. ASSUME NEW p \in Proxies, ProxyStep(p) PROVE Whole'
  <2>1. CASE LookUpEndpoint(p)
    BY <1>1, <2>1 DEF LookUpEndpoint, At
  <2>2. CASE StartProxy(p)
    <3>1. /\ p \in Units /\ Return(p) /\ phase = "New"
          /\ UNCHANGED <<docker, flaws>> /\ listening' = listening \cup {p}
      BY <2>2 DEF StartProxy, At, Units
    <3>2. Up(p)'
      BY <3>1 DEF Up
    <3>3. QED
      BY <3>1, <3>2, WholeReturn
  <2>3. CASE CloseProxy(p)
    <3>1. /\ started > 0 /\ started' = started - 1 /\ p = hooks[started] /\ phase' = "Stopping"
      BY <2>3 DEF CloseProxy, Stopping, LastHook
    <3>2. started # 1
      BY <1>0, <3>1, FirstHook
    <3>3. QED
      BY <1>0, <3>1, <3>2 DEF Whole
  <2>4. QED
    BY <1>6, <2>1, <2>2, <2>3 DEF ProxyStep
<1>7. CASE OnStart \/ OnStartFails \/ StartTimesOut
  <2>1. /\ UNCHANGED <<hooks, listening, flaws>> /\ phase = "Starting"
    BY <1>7 DEF OnStart, Regain, OnStartFails, StartTimesOut, RollBack
  <2>2. \A u \in Containers : docker'[u] = docker[u]
            \/ (docker'[u] = "ready" /\ docker[u] \in {"ready", "exited"})
    BY <1>0, <1>7 DEF OnStart, OnStartFails, StartTimesOut, RunAgain, CanReport
  <2>3. QED
    BY <2>1, <2>2, WholeKept DEF Present
<1>8. CASE StartReturns
  BY <1>1, <1>8 DEF StartReturns
<1>9. CASE StopReturns
  <2>1. /\ UNCHANGED <<hooks, docker, listening, flaws>> /\ started = 0
    BY <1>9 DEF StopReturns
  <2>2. QED
    BY <2>1 DEF Whole, Built, Holding, Up, Present
<1>10. CASE StopTimesOut
  BY <1>10 DEF StopTimesOut, Whole
<1>11. CASE TestStep
  BY <1>1, <1>11 DEF TestStep, FinishNew, Start, Stop
<1>12. CASE Failure
  <2>1. CASE ConstructorFails \/ InvokeFails \/ ContextExpires
    BY <1>1, <2>1 DEF ConstructorFails, InvokeFails, ContextExpires
  <2>2. ASSUME NEW s \in Containers, TerminateFails(s) PROVE Whole'
    BY <2>2 DEF TerminateFails, Whole
  <2>3. QED
    BY <1>12, <2>1, <2>2 DEF Failure
<1>13. CASE StartBroken \/ StopIdle \/ UNCHANGED vars
  BY <1>1, <1>13 DEF StartBroken, StopIdle
<1>14. QED
  BY <1>2, <1>3, <1>4, <1>5, <1>6, <1>7, <1>8, <1>9, <1>10, <1>11, <1>12, <1>13
     DEF Next, FxStep

\* An application that counts as started has all its containers up and its proxies
\* listening, through any restart, unless an OnStop has failed or a deadline has cut a
\* stop pass short.
THEOREM StartedComplete == Spec => []StartedIsComplete
<1>1. Init => Whole
  BY DEF Init, Whole, Built
<1>2. IInv /\ IInv' /\ Whole /\ [Next]_vars => Whole'
  BY WholeStep
<1>3. IInv /\ Whole => StartedIsComplete
  <2> SUFFICES ASSUME IInv, Whole, phase = "Started", flaws = {}
               PROVE  Built \subseteq Holding
    BY DEF StartedIsComplete
  <2>1. ASSUME hooks # <<>> PROVE docker[hooks[1]] # "removed"
    <3>1. hooks[1] \in Containers /\ 1 \in 1 .. started
      BY <2>1, FirstHook DEF IInv, TypeOK, PhaseFacts
    <3>2. QED
      BY <3>1 DEF IInv, CountedUp
  <2>2. QED
    BY <2>1 DEF Whole
<1>4. QED
  BY <1>1, <1>2, <1>3, IInvHolds, PTL DEF Spec
=============================================================================
