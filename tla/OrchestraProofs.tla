---------------------------- MODULE OrchestraProofs ----------------------------
(***************************************************************************)
(* Proofs about Orchestra, for every set of services and proxies, every     *)
(* relation of needs, every kind and number of failures and restarts.       *)
(***************************************************************************)
EXTENDS Orchestra, TLAPS

\* The initial state is well typed.
LEMMA TypeInit == Init => TypeOK
<1> SUFFICES ASSUME Init PROVE TypeOK
  OBVIOUS
<1> USE DEF Init
<1>1. hooks \in Seq(Units) /\ Len(hooks) = 0 /\ DOMAIN hooks = {}
  OBVIOUS
<1>2. building \in Units \cup {NoUnit} /\ building \notin Built
  BY <1>1 DEF Built
<1>3. faults \in 0 .. MaxFaults /\ starts \in 0 .. MaxStarts /\ started \in 0 .. Len(hooks)
  BY <1>1, FaultsAssumption, StartsAssumption DEF FaultsAssumption, StartsAssumption
<1>4. /\ docker \in [Containers -> {"none", "created", "running", "ready", "exited", "removed"}]
      /\ job \in [Containers -> {"none", "running", "exited", "kept", "removed"}]
      /\ readied \in [Containers -> Nat]
  OBVIOUS
<1>5. QED
  BY <1>1, <1>2, <1>3, <1>4 DEF TypeOK

\* Starting a container again keeps the types of what it touches.
LEMMA RerunTypes ==
  ASSUME TypeOK, NEW u
  PROVE  /\ [docker EXCEPT ![u] = "ready"] \in
              [Containers -> {"none", "created", "running", "ready", "exited", "removed"}]
         /\ [readied EXCEPT ![u] = @ + 1] \in [Containers -> Nat]
<1>1. CASE u \in Containers
  <2>1. readied[u] + 1 \in Nat
    BY <1>1 DEF TypeOK
  <2>2. QED
    BY <2>1 DEF TypeOK
<1>2. CASE u \notin Containers
  BY <1>2 DEF TypeOK
<1>3. QED
  BY <1>1, <1>2

\* Every step preserves the type invariant.
LEMMA TypeStep == TypeOK /\ [Next]_vars => TypeOK'
<1> SUFFICES ASSUME TypeOK, [Next]_vars PROVE TypeOK'
  OBVIOUS
<1> USE UnitsAssumption, NeedsAssumption, FaultsAssumption, StartsAssumption
        DEF TypeOK, Built, UnitsAssumption, NeedsAssumption, FaultsAssumption,
            StartsAssumption, vars, buildVars, worldVars, fxVars, history
<1>1. ASSUME NEW u \in Units, Begin(u) PROVE TypeOK'
  BY <1>1 DEF Begin
<1>2. ASSUME NEW s \in Containers, NewRequest(s) PROVE TypeOK'
  BY <1>2 DEF NewRequest, At, Units
<1>3. ASSUME NEW s \in Containers, ResolveNeeds(s) PROVE TypeOK'
  BY <1>3 DEF ResolveNeeds, At, Units
<1>4. ASSUME NEW s \in Containers, CreateJob(s) PROVE TypeOK'
  BY <1>4 DEF CreateJob, At, Units
<1>5. ASSUME NEW s \in Containers, JobExits(s) PROVE TypeOK'
  BY <1>5 DEF JobExits, At, Fault, Units
<1>6. ASSUME NEW s \in Containers, RemoveJob(s) PROVE TypeOK'
  <2>1. job' \in [Containers -> {"none", "running", "exited", "kept", "removed"}]
    BY <1>6 DEF RemoveJob
  <2>2. faults' \in 0 .. MaxFaults
    BY <1>6 DEF RemoveJob, Fault
  <2>3. QED
    BY <1>6, <2>1, <2>2 DEF RemoveJob, At, Units
<1>7. ASSUME NEW s \in Containers, Create(s) PROVE TypeOK'
  BY <1>7 DEF Create, At, Units
<1>8. ASSUME NEW s \in Containers, StartContainer(s) PROVE TypeOK'
  BY <1>8 DEF StartContainer, At, Units
<1>9. ASSUME NEW s \in Containers, WaitUntilReady(s) PROVE TypeOK'
  BY <1>9 DEF WaitUntilReady, At, Units
<1>10. ASSUME NEW s \in Containers, PostReady(s) PROVE TypeOK'
  BY <1>10 DEF PostReady, At, Return, Units
<1>11. ASSUME NEW s \in Containers, Terminate(s) PROVE TypeOK'
  BY <1>11 DEF Terminate, Stopping, Units
<1>12. ASSUME NEW s \in Containers, TerminateFails(s) PROVE TypeOK'
  BY <1>12 DEF TerminateFails, Stopping, Fault, Caller, Units
<1>13. ASSUME NEW p \in Proxies, LookUpEndpoint(p) PROVE TypeOK'
  BY <1>13 DEF LookUpEndpoint, At, Units
<1>14. ASSUME NEW p \in Proxies, StartProxy(p) PROVE TypeOK'
  BY <1>14 DEF StartProxy, At, Return, Units
<1>15. ASSUME NEW p \in Proxies, CloseProxy(p) PROVE TypeOK'
  <2>1. p \in Units /\ Caller \in {"New", "Start", "Stop"}
    BY DEF Units, Caller
  <2>2. started' \in 0 .. Len(hooks')
    BY <1>15 DEF CloseProxy, Stopping
  <2>3. /\ reported' \subseteq {"New", "Start", "Stop"} /\ unstopped' \subseteq Units
        /\ flaws' \subseteq {"onstop", "deadline"}
    BY <1>15, <2>1 DEF CloseProxy
  <2>4. QED
    BY <1>15, <2>2, <2>3 DEF CloseProxy
<1>16. CASE OnStart
  <2>1. CASE NextHook \in Reruns
    <3>1. /\ docker' = [docker EXCEPT ![NextHook] = "ready"]
          /\ readied' = [readied EXCEPT ![NextHook] = @ + 1]
      BY <1>16, <2>1 DEF OnStart, RunAgain
    <3>2. QED
      BY <1>16, <3>1, RerunTypes DEF OnStart, Regain
  <2>2. CASE NextHook \notin Reruns
    BY <1>16, <2>2 DEF OnStart, Regain
  <2>3. QED
    BY <2>1, <2>2
<1>17. CASE OnStartFails
  <2>1. CASE UNCHANGED <<docker, readied>>
    BY <1>17, <2>1 DEF OnStartFails, RollBack, Fault
  <2>2. CASE RunAgain(NextHook)
    <3>1. docker' \in [Containers -> {"none", "created", "running", "ready", "exited", "removed"}]
          /\ readied' \in [Containers -> Nat]
      BY <2>2, RerunTypes DEF RunAgain
    <3>2. QED
      BY <1>17, <3>1 DEF OnStartFails, RollBack, Fault
  <2>3. QED
    BY <1>17, <2>1, <2>2 DEF OnStartFails
<1>18. CASE StartTimesOut
  BY <1>18 DEF StartTimesOut, RollBack
<1>19. CASE StartReturns
  BY <1>19 DEF StartReturns
<1>20. CASE StopReturns
  BY <1>20 DEF StopReturns
<1>21. CASE StopTimesOut
  <2>1. stranded' \subseteq Units /\ started' = 0 /\ Len(hooks) \in Nat
    BY <1>21 DEF StopTimesOut
  <2>2. started' \in 0 .. Len(hooks') /\ flaws' \subseteq {"onstop", "deadline"}
    BY <1>21, <2>1 DEF StopTimesOut
  <2>3. /\ phase' = "Idle" /\ rollback' = FALSE
        /\ UNCHANGED <<building, step, hooks, docker, job, migrated, listening, readied, ctx,
                       starts, reported, unstopped, torn, faults>>
    BY <1>21 DEF StopTimesOut
  <2>4. QED
    BY <2>1, <2>2, <2>3
<1>22. CASE FinishNew
  BY <1>22 DEF FinishNew
<1>23. CASE Start
  BY <1>23 DEF Start
<1>24. CASE Stop
  BY <1>24 DEF Stop
<1>25. CASE ConstructorFails
  BY <1>25 DEF ConstructorFails, Fault
<1>26. CASE InvokeFails
  BY <1>26 DEF InvokeFails, Fault
<1>27. CASE ContextExpires
  BY <1>27 DEF ContextExpires, Fault, Caller
<1>28. CASE StartBroken
  BY <1>28 DEF StartBroken
<1>29. CASE StopIdle
  BY <1>29 DEF StopIdle
<1>30. CASE UNCHANGED vars
  BY <1>30
<1>31. QED
  BY <1>1, <1>2, <1>3, <1>4, <1>5, <1>6, <1>7, <1>8, <1>9, <1>10, <1>11, <1>12, <1>13, <1>14, <1>15, <1>16, <1>17, <1>18, <1>19, <1>20, <1>21, <1>22, <1>23, <1>24, <1>25, <1>26, <1>27, <1>28, <1>29, <1>30
     DEF Next, ContainerStep, ProxyStep, FxStep, TestStep, Failure

\* Every reachable state has its type, and no unit has two hooks.
THEOREM TypeCorrect == Spec => []TypeOK
<1>1. QED
  BY TypeInit, TypeStep, PTL DEF Spec

-----------------------------------------------------------------------------
\* The invariant holds before any constructor has run.
LEMMA IInvInit == Init => IInv
<1> SUFFICES ASSUME Init PROVE IInv
  OBVIOUS
<1>1. TypeOK
  BY TypeInit
<1>2. hooks = <<>> /\ Len(hooks) = 0 /\ DOMAIN hooks = {} /\ Built = {}
  BY DEF Init, Built
<1>3. QED
  BY <1>1, <1>2 DEF Init, IInv, HookOrder, PhaseFacts, Intact, CountedUp, Swept, Hooked, Making,
                    Up, Present, Units

\* A constructor that returns adds one hook, behind all the others.
LEMMA ReturnAppends ==
  ASSUME TypeOK, NEW u \in Units, Return(u)
  PROVE  /\ Len(hooks') = Len(hooks) + 1
         /\ \A i \in 1 .. Len(hooks) : hooks'[i] = hooks[i]
         /\ hooks'[Len(hooks) + 1] = u
         /\ DOMAIN hooks' = 1 .. Len(hooks) + 1
         /\ DOMAIN hooks = 1 .. Len(hooks)
         /\ Built' = Built \cup {u}
<1>1. hooks \in Seq(Units) /\ hooks' = Append(hooks, u)
  BY DEF TypeOK, Return
<1>2. /\ Len(hooks) \in Nat
      /\ DOMAIN hooks = 1 .. Len(hooks)
      /\ DOMAIN hooks' = 1 .. Len(hooks) + 1
      /\ Len(hooks') = Len(hooks) + 1
      /\ hooks'[Len(hooks) + 1] = u
      /\ \A i \in 1 .. Len(hooks) : hooks'[i] = hooks[i]
  BY <1>1
<1>3. Built' = Built \cup {u}
  <2>1. \A x : x \in Built' => x \in Built \cup {u}
    BY <1>2 DEF Built
  <2>2. \A x : x \in Built \cup {u} => x \in Built'
    BY <1>2 DEF Built
  <2>3. QED
    BY <2>1, <2>2
<1>4. QED
  BY <1>2, <1>3

\* Such a constructor was injected with units whose hooks are there already.
LEMMA ReturnKeepsOrder ==
  ASSUME TypeOK, HookOrder, NEW u \in Units, Return(u), Needs[u] \subseteq Built
  PROVE  HookOrder'
<1> USE ReturnAppends
<1>1. SUFFICES ASSUME NEW j \in DOMAIN hooks', NEW d \in Needs[hooks'[j]]
               PROVE  \E i \in DOMAIN hooks' : i < j /\ hooks'[i] = d
  BY DEF HookOrder
<1>2. CASE j \in DOMAIN hooks
  <2>1. PICK i \in DOMAIN hooks : i < j /\ hooks[i] = d
    BY <1>1, <1>2 DEF HookOrder
  <2>2. QED
    BY <2>1, <1>2
<1>3. CASE j = Len(hooks) + 1
  <2>1. PICK i \in DOMAIN hooks : hooks[i] = d
    BY <1>1, <1>3 DEF Built
  <2>2. QED
    BY <2>1, <1>3
<1>4. QED
  BY <1>2, <1>3

\* A service's constructor that returns leaves its container ready behind its hook.
LEMMA PostReadyStep ==
  ASSUME IInv, TypeOK', NEW s \in Containers, PostReady(s)
  PROVE  IInv'
<1>1. TypeOK /\ s \in Units /\ Return(s) /\ Needs[s] \subseteq Built /\ docker[s] = "ready"
  BY UnitsAssumption DEF PostReady, At, IInv, PhaseFacts, Units, UnitsAssumption
<1>2. HookOrder'
  BY <1>1, ReturnKeepsOrder DEF IInv
<1>3. PhaseFacts'
  BY UnitsAssumption, <1>1, ReturnAppends
     DEF PostReady, At, Return, IInv, PhaseFacts, history, UnitsAssumption
<1>4. Built' = Built \cup {s} /\ UNCHANGED <<docker, listening, torn, phase, stranded, unstopped>>
  BY <1>1, ReturnAppends DEF PostReady, history
<1>5. started' = started /\ ~torn /\ started = 0
  BY DEF PostReady, At, IInv, PhaseFacts
<1>6. Intact' /\ CountedUp' /\ Swept'
  BY <1>1, <1>4, <1>5 DEF IInv, Intact, CountedUp, Swept
<1>7. Hooked'
  BY <1>4, UnitsAssumption
     DEF PostReady, At, IInv, Hooked, Up, Present, Units, UnitsAssumption
<1>8. Making'
  BY <1>1 DEF Return, Making
<1>9. QED
  BY <1>2, <1>3, <1>6, <1>7, <1>8 DEF IInv

\* A proxy's constructor that returns leaves its listener open behind its hook.
LEMMA StartProxyStep ==
  ASSUME IInv, TypeOK', NEW p \in Proxies, StartProxy(p)
  PROVE  IInv'
<1>1. TypeOK /\ p \in Units /\ p \notin Containers /\ Return(p) /\ Needs[p] \subseteq Built
  BY UnitsAssumption DEF StartProxy, At, IInv, PhaseFacts, Units, UnitsAssumption
<1>2. HookOrder'
  BY <1>1, ReturnKeepsOrder DEF IInv
<1>3. PhaseFacts'
  BY UnitsAssumption, <1>1, ReturnAppends
     DEF StartProxy, At, Return, IInv, PhaseFacts, history, UnitsAssumption
<1>4. /\ Built' = Built \cup {p}
      /\ listening' = listening \cup {p}
      /\ UNCHANGED <<docker, torn, phase, stranded, unstopped>>
  BY <1>1, ReturnAppends DEF StartProxy, history
<1>5. started' = started /\ ~torn /\ started = 0
  BY DEF StartProxy, At, IInv, PhaseFacts
<1>6. Intact' /\ CountedUp' /\ Swept'
  BY <1>1, <1>4, <1>5 DEF IInv, Intact, CountedUp, Swept
<1>7. Hooked'
  BY <1>4, UnitsAssumption
     DEF StartProxy, At, IInv, Hooked, Up, Present, Units, UnitsAssumption
<1>8. Making'
  BY <1>1 DEF Return, Making
<1>9. QED
  BY <1>2, <1>3, <1>6, <1>7, <1>8 DEF IInv

\* Every step preserves the inductive invariant.
LEMMA IInvStep == IInv /\ [Next]_vars => IInv'
<1> SUFFICES ASSUME IInv, [Next]_vars PROVE IInv'
  OBVIOUS
<1>0. TypeOK /\ TypeOK'
  BY TypeStep DEF IInv
<1>1. ASSUME NEW s \in Containers, PostReady(s) PROVE IInv'
  BY <1>0, <1>1, PostReadyStep
<1>2. ASSUME NEW p \in Proxies, StartProxy(p) PROVE IInv'
  BY <1>0, <1>2, StartProxyStep
<1> USE <1>0, UnitsAssumption
    DEF UnitsAssumption, vars, buildVars, worldVars, fxVars, history, Units, Built, Up, Present,
        IInv, TypeOK, HookOrder, PhaseFacts, Intact, CountedUp, Swept, Hooked, Making,
        Lost
<1>3. ASSUME NEW u \in Units, Begin(u) PROVE IInv'
  BY <1>3 DEF Begin
<1>4. ASSUME NEW s \in Containers, NewRequest(s) PROVE IInv'
  BY <1>4 DEF NewRequest, At
<1>5. ASSUME NEW s \in Containers, ResolveNeeds(s) PROVE IInv'
  BY <1>5 DEF ResolveNeeds, At
<1>6. ASSUME NEW s \in Containers, CreateJob(s) PROVE IInv'
  BY <1>6 DEF CreateJob, At
<1>7. ASSUME NEW s \in Containers, JobExits(s) PROVE IInv'
  BY <1>7 DEF JobExits, At, Fault
<1>8. ASSUME NEW s \in Containers, RemoveJob(s) PROVE IInv'
  BY <1>8 DEF RemoveJob, At, Fault
<1>9. ASSUME NEW s \in Containers, Create(s) PROVE IInv'
  BY <1>9 DEF Create, At
<1>10. ASSUME NEW s \in Containers, StartContainer(s) PROVE IInv'
  BY <1>10 DEF StartContainer, At
<1>11. ASSUME NEW s \in Containers, WaitUntilReady(s) PROVE IInv'
  BY <1>11 DEF WaitUntilReady, At
<1>12. ASSUME NEW s \in Containers, Terminate(s) PROVE IInv'
  BY <1>12 DEF Terminate, Stopping, LastHook
<1>13. ASSUME NEW s \in Containers, TerminateFails(s) PROVE IInv'
  BY <1>13 DEF TerminateFails, Stopping, LastHook, Fault, Caller
<1>14. ASSUME NEW p \in Proxies, LookUpEndpoint(p) PROVE IInv'
  BY <1>14 DEF LookUpEndpoint, At
<1>15. ASSUME NEW p \in Proxies, CloseProxy(p) PROVE IInv'
  BY <1>15 DEF CloseProxy, Stopping, LastHook, Caller
<1>16. CASE OnStart
  <2>1. /\ UNCHANGED <<listening, hooks, building, step, starts, torn, phase>>
        /\ started' = started + 1 /\ phase = "Starting" /\ CanReport(NextHook)
        /\ Lost' = Lost \ {NextHook}
    BY <1>16 DEF OnStart, Regain
  <2>2. NextHook = hooks[started + 1] /\ NextHook \in Built /\ started + 1 \in DOMAIN hooks
    BY <1>16 DEF OnStart, NextHook
  <2>3. /\ \A u \in Containers : docker'[u] = docker[u] \/ (u = NextHook /\ docker'[u] = "ready")
        /\ NextHook \in Containers => docker'[NextHook] = "ready" /\ Present(NextHook)
    BY <1>16 DEF OnStart, RunAgain, CanReport
  <2>4. HookOrder' /\ PhaseFacts' /\ Intact' /\ Making'
    BY <2>1, <2>2, <2>3
  <2>5. CountedUp'
    BY <2>1, <2>2, <2>3
  <2>6. Swept'
    <3>1. \A i \in started' + 1 .. Len(hooks) :
            i \in started + 1 .. Len(hooks) /\ hooks[i] # NextHook
      BY <2>1, <2>2
    <3>2. QED
      BY <2>1, <2>3, <3>1
  <2>7. Hooked'
    BY <2>1, <2>2, <2>3
  <2>8. QED
    BY <2>4, <2>5, <2>6, <2>7
<1>17. CASE OnStartFails
  <2>1. CASE UNCHANGED docker
    BY <1>17, <2>1 DEF OnStartFails, RollBack
  <2>2. CASE docker' = [docker EXCEPT ![NextHook] = "ready"] /\ CanReport(NextHook) /\ NextHook \in Reruns
    <3>1. /\ UNCHANGED <<listening, hooks, started, building, step, starts, unstopped>>
          /\ torn' /\ phase' = "Stopping" /\ phase = "Starting"
          /\ stranded' = stranded \cup {hooks[i] : i \in started + 1 .. Len(hooks)}
      BY <1>17 DEF OnStartFails, RollBack
    <3>2. HookOrder' /\ PhaseFacts' /\ Intact' /\ Swept' /\ Making'
      BY <3>1
    <3>3. CountedUp'
      BY <3>1, <2>2
    <3>4. NextHook \in Built /\ Present(NextHook)
      <4>1. started + 1 \in DOMAIN hooks
        BY <1>17 DEF OnStartFails
      <4>2. NextHook \in Built
        BY <4>1 DEF NextHook
      <4>3. NextHook \in Containers
        BY <2>2, KindsAssumption DEF KindsAssumption
      <4>4. Present(NextHook)
        BY <2>2, <4>3 DEF CanReport
      <4>5. QED
        BY <4>2, <4>4
    <3>5. Hooked'
      BY <3>1, <3>4, <2>2
    <3>6. QED
      BY <3>2, <3>3, <3>5
  <2>3. QED
    BY <1>17, <2>1, <2>2 DEF OnStartFails, RunAgain
<1>18. CASE StartTimesOut
  BY <1>18 DEF StartTimesOut, RollBack
<1>19. CASE StartReturns
  BY <1>19 DEF StartReturns
<1>20. CASE StopReturns
  BY <1>20 DEF StopReturns
<1>21. CASE StopTimesOut
  BY <1>21 DEF StopTimesOut
<1>22. CASE FinishNew
  BY <1>22 DEF FinishNew
<1>23. CASE Start
  BY <1>23 DEF Start
<1>24. CASE Stop
  BY <1>24 DEF Stop
<1>25. CASE ConstructorFails
  BY <1>25 DEF ConstructorFails
<1>26. CASE InvokeFails
  BY <1>26 DEF InvokeFails
<1>27. CASE ContextExpires
  <2>1. PhaseFacts'
    BY <1>27 DEF ContextExpires
  <2>2. UNCHANGED <<docker, listening, hooks, started, torn, building, step, phase, Lost>>
    BY <1>27 DEF ContextExpires
  <2>3. HookOrder' /\ Intact' /\ CountedUp' /\ Swept' /\ Hooked' /\ Making'
    BY <2>2
  <2>4. QED
    BY <2>1, <2>3
<1>28. CASE StartBroken
  BY <1>28 DEF StartBroken
<1>29. CASE StopIdle
  BY <1>29 DEF StopIdle
<1>30. CASE UNCHANGED vars
  BY <1>30
<1>31. QED
  BY <1>1, <1>2, <1>3, <1>4, <1>5, <1>6, <1>7, <1>8, <1>9, <1>10, <1>11, <1>12, <1>13,
     <1>14, <1>15, <1>16, <1>17, <1>18, <1>19, <1>20, <1>21, <1>22, <1>23, <1>24, <1>25,
     <1>26, <1>27, <1>28, <1>29, <1>30
     DEF Next, ContainerStep, ProxyStep, FxStep, TestStep, Failure

\* The inductive invariant holds in every reachable state.
THEOREM IInvHolds == Spec => []IInv
<1>1. QED
  BY IInvInit, IInvStep, PTL DEF Spec

-----------------------------------------------------------------------------
\* The order in which fx starts and stops the units is a dependency order.
THEOREM HookOrderHolds == Spec => []HookOrder
<1>1. IInv => HookOrder
  BY DEF IInv
<1>2. QED
  BY <1>1, IInvHolds, PTL

\* What a unit was built on is ready for as long as the unit is up and not lost.
LEMMA IInvDependencies == IInv => DependenciesOutlive
<1> SUFFICES ASSUME IInv, NEW u \in Built, NEW d \in Needs[u],
                    Up(u), u \notin Lost
             PROVE  docker[d] = "ready"
  BY DEF DependenciesOutlive
<1>1. PICK j \in DOMAIN hooks : hooks[j] = u
  BY DEF Built
<1>2. PICK i \in DOMAIN hooks : i < j /\ hooks[i] = d
  BY <1>1 DEF IInv, HookOrder
<1>3. d \in Containers /\ d \in Built
  <2>1. u \in Units
    BY <1>1 DEF IInv, TypeOK
  <2>2. QED
    BY <2>1, <1>2, NeedsAssumption DEF NeedsAssumption, Built
<1>4. CASE ~torn
  BY <1>3, <1>4 DEF IInv, Intact
<1>5. CASE torn
  <2>1. DOMAIN hooks = 1 .. Len(hooks) /\ Len(hooks) \in Nat /\ started \in 0 .. Len(hooks)
    BY DEF IInv, TypeOK
  <2>2. j \notin started + 1 .. Len(hooks)
    BY <1>1, <1>5 DEF IInv, Swept
  <2>3. i \in 1 .. started
    BY <2>1, <2>2, <1>1, <1>2
  <2>4. QED
    BY <2>3, <1>2, <1>3 DEF IInv, CountedUp
<1>6. QED
  BY <1>4, <1>5

\* No unit that is up has lost what it was built on.
THEOREM DependenciesHold == Spec => []DependenciesOutlive
<1>1. QED
  BY IInvDependencies, IInvHolds, PTL

\* When the application is over, the invariant names the failure behind each leftover.
LEMMA IInvAccounted == IInv => LeakAccounted
<1> SUFFICES ASSUME IInv, phase = "Idle", starts > 0, NEW u \in Units, Up(u)
             PROVE  u \in Lost
  BY DEF LeakAccounted, AtRest, Holding
<1>1. torn /\ started = 0 /\ building = NoUnit
  BY UnitsAssumption DEF IInv, PhaseFacts, UnitsAssumption
<1>2. u \in Built
  BY <1>1, UnitsAssumption DEF IInv, Hooked, UnitsAssumption
<1>3. PICK j \in DOMAIN hooks : hooks[j] = u
  BY <1>2 DEF Built
<1>4. j \in started + 1 .. Len(hooks)
  BY <1>1 DEF IInv, TypeOK
<1>5. QED
  BY <1>1, <1>3, <1>4 DEF IInv, Swept

\* Nothing is left behind without a failure that explains it.
THEOREM LeaksAccounted == Spec => []LeakAccounted
<1>1. QED
  BY IInvAccounted, IInvHolds, PTL
=============================================================================
