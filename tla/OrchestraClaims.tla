---------------------------- MODULE OrchestraClaims ----------------------------
(***************************************************************************)
(* Three claims of the documentation and of comments that do not hold of    *)
(* every application: from which failures on they fail.  Each is proved for *)
(* every application in which those failures do not happen, whatever else   *)
(* goes wrong.                                                             *)
(***************************************************************************)
EXTENDS OrchestraSafety

\* A migration container that has ended has done its work.
Effective ==
    /\ \A s \in Containers : job[s] \in {"exited", "kept", "removed"} => s \in migrated
    /\ building # NoUnit /\ step = "migrated" => building \in migrated

LEMMA EffectiveStep ==
  ASSUME "exit" \notin Faults, IInv, Effective, [Next]_vars
  PROVE  Effective'
<1> USE UnitsAssumption
    DEF UnitsAssumption, Effective, Units, vars, buildVars, worldVars, fxVars, history
<1>0. job \in [Containers -> {"none", "running", "exited", "kept", "removed"}]
  BY DEF IInv, TypeOK
<1>1. ASSUME UNCHANGED <<job, migrated>>,
             \/ UNCHANGED buildVars
             \/ building' = NoUnit \/ step' # "migrated"
      PROVE  Effective'
  BY <1>1
<1>2. ASSUME NEW u \in Units, Begin(u) PROVE Effective'
  BY <1>1, <1>2 DEF Begin
<1>3. ASSUME NEW s \in Containers, ContainerStep(s) PROVE Effective'
  <2>1. CASE NewRequest(s) \/ ResolveNeeds(s)
    BY <1>1, <2>1 DEF NewRequest, ResolveNeeds
  <2>2. CASE CreateJob(s)
    BY <1>0, <2>2 DEF CreateJob
  <2>3. CASE JobExits(s)
    <3>1. /\ migrated' = migrated \cup {s} /\ job' = [job EXCEPT ![s] = "exited"]
          /\ building' = building /\ building = s
      BY <2>3 DEF JobExits, Fault, At
    <3>2. QED
      BY <1>0, <3>1
  <2>4. CASE RemoveJob(s)
    <3>1. /\ building = s /\ step = "migrated" /\ step' = "create" /\ UNCHANGED migrated
          /\ job' \in {[job EXCEPT ![s] = "kept"], [job EXCEPT ![s] = "removed"]}
      BY <2>4 DEF RemoveJob, At
    <3>2. s \in migrated
      BY <3>1
    <3>3. QED
      BY <1>0, <3>1, <3>2
  <2>5. CASE Create(s) \/ StartContainer(s) \/ WaitUntilReady(s)
    BY <1>1, <2>5 DEF Create, StartContainer, WaitUntilReady
  <2>6. CASE PostReady(s) \/ Terminate(s)
    BY <1>1, <2>6 DEF PostReady, Return, Terminate
  <2>7. QED
    BY <1>3, <2>1, <2>2, <2>3, <2>4, <2>5, <2>6 DEF ContainerStep
<1>4. ASSUME NEW p \in Proxies, ProxyStep(p) PROVE Effective'
  BY <1>1, <1>4 DEF ProxyStep, LookUpEndpoint, StartProxy, CloseProxy, Return
<1>5. CASE FxStep
  BY <1>1, <1>5 DEF FxStep, OnStart, OnStartFails, StartTimesOut, StartReturns, StopReturns,
                    StopTimesOut, RollBack
<1>6. CASE TestStep
  BY <1>1, <1>6 DEF TestStep, FinishNew, Start, Stop
<1>7. CASE Failure
  BY <1>1, <1>7 DEF Failure, ConstructorFails, InvokeFails, ContextExpires, TerminateFails
<1>8. CASE StartBroken \/ StopIdle \/ UNCHANGED vars
  BY <1>1, <1>8 DEF StartBroken, StopIdle
<1>9. QED
  BY <1>2, <1>3, <1>4, <1>5, <1>6, <1>7, <1>8 DEF Next

\* If every migration container that ends has exited with code 0, no server is created on
\* a database that has not been migrated: all a failed migration takes to go unnoticed is
\* its exit code (hydra.go:153).
THEOREM MigrationsTakeEffect ==
  ASSUME "exit" \notin Faults
  PROVE  Spec => []MigratedFirst
<1>1. Init => Effective
  BY DEF Init, Effective
<1>2. IInv /\ Effective /\ [Next]_vars => Effective'
  BY EffectiveStep
<1>3. MigrationAlone /\ Effective => MigratedFirst
  BY KindsAssumption DEF KindsAssumption, MigrationAlone, Effective, MigratedFirst
<1>4. QED
  BY <1>1, <1>2, <1>3, IInvHolds, MigrationsAlone, PTL DEF Spec

-----------------------------------------------------------------------------
\* Units behind the last hook that counts are down, unless their OnStop failed.
Kept ==
    /\ ctx = "live"
    /\ torn => \A i \in started + 1 .. Len(hooks) : Up(hooks[i]) => hooks[i] \in unstopped

LEMMA RangeShrinks ==
  ASSUME NEW a \in Nat, NEW b \in Nat, a <= b, NEW n \in Nat
  PROVE  \A i \in b + 1 .. n : i \in a + 1 .. n
  OBVIOUS

\* A first Start cannot fail but by a failing hook or a deadline, and a later one finds
\* down what it will not stop again.
LEMMA KeptStep ==
  ASSUME Faults \cap {"onstart", "deadline"} = {}, IInv, IInv', Kept, [Next]_vars
  PROVE  Kept'
<1> USE UnitsAssumption, KindsAssumption
    DEF UnitsAssumption, KindsAssumption, Up, Present, vars, buildVars, worldVars, fxVars,
        history, Units
<1>0. /\ docker \in [Containers -> {"none", "created", "running", "ready", "exited", "removed"}]
      /\ hooks \in Seq(Units) /\ started \in 0 .. Len(hooks)
      /\ \A i, j \in DOMAIN hooks : hooks[i] = hooks[j] => i = j
      /\ ctx = "live" /\ ("onstart" \notin Faults /\ "deadline" \notin Faults)
      /\ phase = "New" => ~torn
  BY DEF IInv, TypeOK, PhaseFacts, Kept
<1>1. ASSUME UNCHANGED <<docker, listening, hooks, unstopped>>, started' \in Nat,
             started <= started', torn' = torn, ctx' = "live"
      PROVE  Kept'
  <2>0. started \in Nat /\ started' \in Nat /\ Len(hooks) \in Nat /\ started <= started'
    BY <1>0, <1>1
  <2>1. \A i \in started' + 1 .. Len(hooks) : i \in started + 1 .. Len(hooks)
    BY <2>0, RangeShrinks
  <2>2. QED
    BY <1>1, <2>1 DEF Kept
<1>2. ASSUME ~torn', ctx' = "live" PROVE Kept'
  BY <1>2 DEF Kept
<1>3. CASE phase = "New"
  <2>1. CASE ~torn' /\ ctx' = "live"
    BY <1>2, <2>1
  <2>2. CASE torn' \/ ctx' # "live"
    BY <1>0, <1>3, <2>2
       DEF Next, Begin, ContainerStep, NewRequest, ResolveNeeds, CreateJob, JobExits, RemoveJob,
           Create, StartContainer, WaitUntilReady, PostReady, Terminate, ProxyStep, LookUpEndpoint,
           StartProxy, CloseProxy, Stopping, FxStep, OnStart, OnStartFails, StartTimesOut,
           StartReturns, StopReturns, StopTimesOut, TestStep, FinishNew, Start, Stop, Failure,
           ConstructorFails, InvokeFails, ContextExpires, TerminateFails, StartBroken, StopIdle
  <2>3. QED
    BY <2>1, <2>2
<1>4. ASSUME NEW s \in Containers, Terminate(s) PROVE Kept'
  <2>1. /\ UNCHANGED <<listening, hooks, unstopped, torn, ctx>> /\ started > 0
        /\ started' = started - 1 /\ s = hooks[started]
        /\ docker' = [docker EXCEPT ![s] = "removed"]
    BY <1>4 DEF Terminate, Stopping, LastHook
  <2>2. \A i \in started' + 1 .. Len(hooks) : i = started \/ i \in started + 1 .. Len(hooks)
    BY <1>0, <2>1
  <2>3. QED
    BY <1>0, <2>1, <2>2 DEF Kept
<1>5. ASSUME NEW s \in Containers, TerminateFails(s) PROVE Kept'
  <2>1. /\ UNCHANGED <<listening, hooks, torn, ctx>> /\ started > 0
        /\ started' = started - 1 /\ s = hooks[started]
        /\ docker' = docker \/ (Present(s) /\ docker' = [docker EXCEPT ![s] = "exited"])
        /\ unstopped' = unstopped \cup {s}
    BY <1>5 DEF TerminateFails, Stopping, LastHook
  <2>2. \A i \in started' + 1 .. Len(hooks) : i = started \/ i \in started + 1 .. Len(hooks)
    BY <1>0, <2>1
  <2>3. QED
    BY <1>0, <2>1, <2>2 DEF Kept
<1>6. ASSUME NEW p \in Proxies, CloseProxy(p) PROVE Kept'
  <2>1. /\ UNCHANGED <<docker, hooks, torn, ctx>> /\ started > 0
        /\ started' = started - 1 /\ p = hooks[started]
        /\ listening' = listening \ {p} /\ unstopped \subseteq unstopped'
    BY <1>6 DEF CloseProxy, Stopping, LastHook
  <2>2. \A i \in started' + 1 .. Len(hooks) : i = started \/ i \in started + 1 .. Len(hooks)
    BY <1>0, <2>1
  <2>3. QED
    BY <1>0, <2>1, <2>2 DEF Kept
<1>7. CASE OnStart
  <2>1. /\ UNCHANGED <<listening, hooks, torn, ctx>> /\ started' = started + 1
        /\ started + 1 \in DOMAIN hooks /\ unstopped' = unstopped \ {hooks[started + 1]}
        /\ docker' = docker \/ docker' = [docker EXCEPT ![hooks[started + 1]] = "ready"]
    BY <1>0, <1>7 DEF OnStart, RunAgain, NextHook, Regain
  <2>2. \A i \in started' + 1 .. Len(hooks) :
           i \in started + 1 .. Len(hooks) /\ hooks[i] # hooks[started + 1]
    BY <1>0, <2>1
  <2>3. QED
    BY <1>0, <2>1, <2>2 DEF Kept
<1>8. CASE OnStartFails \/ StartTimesOut
  <2>1. OnStartFails /\ ~CanReport(NextHook)
    BY <1>0, <1>8 DEF OnStartFails, StartTimesOut, Fault
  <2>2. torn
    <3>1. started + 1 \in DOMAIN hooks /\ NextHook \in Built
      BY <1>0, <2>1 DEF OnStartFails, NextHook, Built
    <3>2. QED
      BY <2>1, <3>1 DEF CanReport, IInv, Intact
  <2>3. /\ UNCHANGED <<docker, listening, hooks, started, unstopped, ctx>> /\ torn'
    BY <1>0, <2>1 DEF OnStartFails, RollBack, Fault
  <2>4. QED
    BY <1>0, <1>1, <2>2, <2>3 DEF IInv, TypeOK
<1>9. CASE StartReturns \/ StopReturns \/ StopTimesOut
  BY <1>0, <1>1, <1>9 DEF StartReturns, StopReturns, StopTimesOut
<1>10. CASE Start
  <2>1. started = 0
    BY <1>10 DEF Start, IInv, PhaseFacts
  <2>2. QED
    BY <1>0, <1>1, <1>10, <2>1 DEF Start
<1>11. CASE Stop
  <2>1. started = Len(hooks) /\ UNCHANGED <<started, hooks>> /\ ctx' = "live"
    BY <1>11 DEF Stop, IInv, PhaseFacts
  <2>2. QED
    BY <1>0, <2>1 DEF Kept
<1>12. CASE ContextExpires
  BY <1>0, <1>12 DEF ContextExpires, Fault
<1>13. CASE StartBroken \/ StopIdle \/ UNCHANGED vars
  BY <1>0, <1>1, <1>13 DEF StartBroken, StopIdle
<1>14. QED
  BY <1>3, <1>4, <1>5, <1>6, <1>7, <1>8, <1>9, <1>10, <1>11, <1>12, <1>13
     DEF Next, Begin, ContainerStep, NewRequest, ResolveNeeds, CreateJob, JobExits, RemoveJob,
         Create, StartContainer, WaitUntilReady, PostReady, ProxyStep, LookUpEndpoint, StartProxy,
         At, FxStep, TestStep, FinishNew, Failure, ConstructorFails, InvokeFails

\* Unless an OnStart hook fails or a deadline passes, no unit is up without what it was
\* built on, whatever constructors and OnStop hooks fail and however often the test calls
\* Start: it is the rollback of a failed Start that breaks the claim (README.md:27).
THEOREM DependenciesAreHandled ==
  ASSUME Faults \cap {"onstart", "deadline"} = {}
  PROVE  Spec => []DependenciesHandled
<1>1. Init => Kept
  BY DEF Init, Kept
<1>2. IInv /\ IInv' /\ Kept /\ [Next]_vars => Kept'
  BY KeptStep
<1>3. IInv /\ Kept => DependenciesHandled
  <2> SUFFICES ASSUME IInv, Kept, NEW u \in Built, NEW d \in Needs[u], Up(u), u \notin unstopped
               PROVE  docker[d] = "ready"
    BY DEF DependenciesHandled
  <2>1. PICK j \in DOMAIN hooks : hooks[j] = u
    BY DEF Built
  <2>2. PICK i \in DOMAIN hooks : i < j /\ hooks[i] = d
    BY <2>1 DEF IInv, HookOrder
  <2>3. hooks \in Seq(Units) /\ started \in 0 .. Len(hooks)
    BY DEF IInv, TypeOK
  <2>4. d \in Containers /\ d \in Built
    BY <2>1, <2>2, <2>3, NeedsAssumption DEF NeedsAssumption, Built
  <2>5. CASE ~torn
    BY <2>4, <2>5 DEF IInv, Intact
  <2>6. CASE torn
    <3>1. j \notin started + 1 .. Len(hooks)
      BY <2>1, <2>6 DEF Kept
    <3>2. i \in 1 .. started
      BY <2>1, <2>2, <2>3, <3>1
    <3>3. QED
      BY <2>2, <2>4, <3>2 DEF IInv, CountedUp
  <2>7. QED
    BY <2>5, <2>6
<1>4. QED
  BY <1>1, <1>2, <1>3, IInvHolds, PTL DEF Spec

-----------------------------------------------------------------------------
\* The units that are up are those whose hooks count as started, and all of them before
\* the first Stop; no call fails but a Start after a Stop, at once.
Tidy ==
    /\ ctx = "live" /\ phase # "Broken" /\ unstopped = {}
    /\ \A i \in DOMAIN hooks : Up(hooks[i]) <=> ~torn \/ i <= started
    /\ phase = "Starting" /\ torn => started = 0

\* Without failures that fx is told of, every hook of the first Start is run, every hook
\* of its Stop is, and no hook ever after.
LEMMA TidyStep ==
  ASSUME Faults \subseteq {"exit"}, IInv, IInv', Tidy, [Next]_vars
  PROVE  Tidy'
<1> USE UnitsAssumption, KindsAssumption
    DEF UnitsAssumption, KindsAssumption, Up, Present, vars, buildVars, worldVars, fxVars,
        history, Units
<1>0. /\ docker \in [Containers -> {"none", "created", "running", "ready", "exited", "removed"}]
      /\ hooks \in Seq(Units) /\ started \in 0 .. Len(hooks)
      /\ \A i, j \in DOMAIN hooks : hooks[i] = hooks[j] => i = j
      /\ building \notin Built
      /\ ctx = "live" /\ phase # "Broken" /\ unstopped = {}
      /\ phase = "New" => ~torn
  BY DEF IInv, TypeOK, PhaseFacts, Tidy
<1>1. ASSUME NEW k \in FaultKinds \ {"exit"}, Fault(k) PROVE FALSE
  BY <1>1 DEF Fault
<1>2. ASSUME UNCHANGED <<docker, listening, hooks, unstopped, started, torn>>, ctx' = "live",
             phase' \notin {"Broken", "Starting"} \/ phase' = phase
      PROVE  Tidy'
  BY <1>2 DEF Tidy
<1>3. ASSUME NEW u \in Units, Begin(u) PROVE Tidy'
  BY <1>0, <1>2, <1>3 DEF Begin
<1>4. ASSUME NEW s \in Containers, ContainerStep(s) PROVE Tidy'
  <2>1. CASE NewRequest(s) \/ ResolveNeeds(s) \/ CreateJob(s) \/ JobExits(s) \/ RemoveJob(s)
    BY <1>0, <1>2, <2>1 DEF NewRequest, ResolveNeeds, CreateJob, JobExits, RemoveJob
  <2>2. CASE Create(s) \/ StartContainer(s) \/ WaitUntilReady(s)
    <3>1. s \notin Built /\ UNCHANGED <<listening, hooks, unstopped, started, torn, phase, ctx>>
      BY <1>0, <2>2 DEF Create, StartContainer, WaitUntilReady, At
    <3>2. \A i \in DOMAIN hooks :
            hooks[i] \in Containers => docker'[hooks[i]] = docker[hooks[i]]
      BY <1>0, <2>2, <3>1 DEF Create, StartContainer, WaitUntilReady, Built
    <3>3. QED
      BY <1>0, <3>1, <3>2 DEF Tidy
  <2>3. CASE PostReady(s)
    <3>1. /\ DOMAIN hooks' = 1 .. Len(hooks) + 1 /\ hooks'[Len(hooks) + 1] = s
          /\ \A i \in 1 .. Len(hooks) : hooks'[i] = hooks[i]
          /\ UNCHANGED <<docker, listening, unstopped, started, torn, phase, ctx>>
          /\ ~torn /\ docker[s] = "ready" /\ phase = "New"
      BY <1>0, <2>3, ReturnAppends DEF PostReady, At, IInv, PhaseFacts
    <3>2. DOMAIN hooks = 1 .. Len(hooks)
      BY <1>0
    <3>3. \A i \in DOMAIN hooks' : Up(hooks'[i])
      BY <1>0, <3>1, <3>2 DEF Tidy
    <3>4. QED
      BY <1>0, <3>1, <3>3 DEF Tidy
  <2>4. CASE Terminate(s)
    <3>1. /\ UNCHANGED <<listening, hooks, unstopped, torn, ctx, phase>> /\ started > 0
          /\ started' = started - 1 /\ s = hooks[started] /\ phase = "Stopping"
          /\ docker' = [docker EXCEPT ![s] = "removed"] /\ torn
      BY <2>4 DEF Terminate, Stopping, LastHook, IInv, PhaseFacts
    <3>2. \A i \in DOMAIN hooks : i # started => hooks[i] # s
      BY <1>0, <3>1
    <3>3. \A i \in DOMAIN hooks : i <= started' <=> i <= started /\ i # started
      BY <1>0, <3>1
    <3>4. QED
      BY <1>0, <3>1, <3>2, <3>3 DEF Tidy
  <2>5. QED
    BY <1>4, <2>1, <2>2, <2>3, <2>4 DEF ContainerStep
<1>5. ASSUME NEW p \in Proxies, ProxyStep(p) PROVE Tidy'
  <2>1. CASE LookUpEndpoint(p)
    BY <1>0, <1>2, <2>1 DEF LookUpEndpoint
  <2>2. CASE StartProxy(p)
    <3>1. /\ DOMAIN hooks' = 1 .. Len(hooks) + 1 /\ hooks'[Len(hooks) + 1] = p
          /\ \A i \in 1 .. Len(hooks) : hooks'[i] = hooks[i]
          /\ UNCHANGED <<docker, unstopped, started, torn, phase, ctx>>
          /\ listening' = listening \cup {p} /\ ~torn /\ phase = "New"
      BY <1>0, <2>2, ReturnAppends DEF StartProxy, At, IInv, PhaseFacts
    <3>2. DOMAIN hooks = 1 .. Len(hooks)
      BY <1>0
    <3>3. \A i \in DOMAIN hooks' : Up(hooks[i])'
      BY <1>0, <3>1, <3>2 DEF Tidy
    <3>4. QED
      BY <1>0, <3>1, <3>3 DEF Tidy
  <2>3. CASE CloseProxy(p)
    <3>1. /\ UNCHANGED <<docker, hooks, torn, ctx, phase>> /\ started > 0
          /\ started' = started - 1 /\ p = hooks[started] /\ phase = "Stopping" /\ torn
      BY <2>3 DEF CloseProxy, Stopping, LastHook, IInv, PhaseFacts
    <3>2. p \in listening
      BY <1>0, <3>1 DEF Tidy
    <3>3. listening' = listening \ {p} /\ unstopped' = unstopped
      BY <2>3, <3>2 DEF CloseProxy
    <3>4. \A i \in DOMAIN hooks : i # started => hooks[i] # p
      BY <1>0, <3>1
    <3>5. \A i \in DOMAIN hooks : i <= started' <=> i <= started /\ i # started
      BY <1>0, <3>1
    <3>6. QED
      BY <1>0, <3>1, <3>3, <3>4, <3>5 DEF Tidy
  <2>4. QED
    BY <1>5, <2>1, <2>2, <2>3 DEF ProxyStep
<1>6. ASSUME phase = "Starting", started < Len(hooks), torn PROVE ~CanReport(NextHook)
  <2>1. started = 0 /\ 1 \in DOMAIN hooks /\ hooks # <<>> /\ NextHook = hooks[1]
    BY <1>0, <1>6 DEF Tidy, NextHook
  <2>2. hooks[1] \in Containers /\ ~Up(hooks[1])
    BY <1>6, <2>1, FirstHook DEF Tidy
  <2>3. QED
    BY <2>1, <2>2 DEF CanReport
<1>7. ASSUME phase = "Starting", started < Len(hooks), ~torn PROVE CanReport(NextHook)
  BY <1>0, <1>7 DEF CanReport, NextHook, IInv, Intact, Built
<1>8. CASE OnStart
  <2>1. /\ UNCHANGED <<listening, hooks, torn, ctx, phase>> /\ ~torn
        /\ phase = "Starting" /\ unstopped' = {}
    BY <1>0, <1>6, <1>8 DEF OnStart, Regain
  <2>2. docker' = docker \/ docker' = [docker EXCEPT ![NextHook] = "ready"]
    BY <1>8 DEF OnStart, RunAgain
  <2>3. QED
    BY <1>0, <2>1, <2>2 DEF Tidy
<1>9. CASE OnStartFails
  <2>1. torn /\ phase = "Starting" /\ started = 0
    BY <1>1, <1>7, <1>9 DEF OnStartFails, FaultKinds, Tidy
  <2>2. /\ UNCHANGED <<docker, listening, hooks, unstopped, started, torn, ctx>>
        /\ phase' = "Stopping"
    BY <1>1, <1>9, <2>1 DEF OnStartFails, RollBack, FaultKinds, IInv, TypeOK
  <2>3. QED
    BY <1>0, <1>2, <2>2
<1>10. CASE StartTimesOut \/ StopTimesOut
  BY <1>0, <1>10 DEF StartTimesOut, StopTimesOut
<1>11. CASE StartReturns \/ StopReturns
  BY <1>0, <1>2, <1>11 DEF StartReturns, StopReturns
<1>12. CASE FinishNew
  BY <1>0, <1>2, <1>12 DEF FinishNew
<1>13. CASE Start
  <2>1. started = 0
    BY <1>13 DEF Start, IInv, PhaseFacts
  <2>2. QED
    BY <1>0, <1>13, <2>1 DEF Start, Tidy
<1>14. CASE Stop
  <2>1. /\ phase = "Started" /\ started = Len(hooks) /\ phase' = "Stopping" /\ ctx' = "live"
        /\ UNCHANGED <<docker, listening, hooks, unstopped, started>>
    BY <1>0, <1>14 DEF Stop, IInv, PhaseFacts
  <2>2. \A i \in DOMAIN hooks : i <= started
    BY <1>0, <2>1
  <2>3. QED
    BY <1>0, <2>1, <2>2 DEF Tidy
<1>15. CASE Failure
  <2>1. CASE ConstructorFails
    <3>1. FaultOfStep[step] \in FaultKinds \ {"exit"}
      BY <2>1 DEF ConstructorFails, FaultOfStep, FaultKinds
    <3>2. QED
      BY <1>1, <2>1, <3>1 DEF ConstructorFails
  <2>2. CASE InvokeFails \/ ContextExpires
    BY <1>1, <2>2 DEF InvokeFails, ContextExpires, FaultKinds
  <2>3. ASSUME NEW s \in Containers, TerminateFails(s) PROVE FALSE
    BY <1>1, <2>3 DEF TerminateFails, FaultKinds
  <2>4. QED
    BY <1>15, <2>1, <2>2, <2>3 DEF Failure
<1>16. CASE StartBroken \/ StopIdle \/ UNCHANGED vars
  BY <1>0, <1>2, <1>16 DEF StartBroken, StopIdle
<1>17. QED
  BY <1>3, <1>4, <1>5, <1>8, <1>9, <1>10, <1>11, <1>12, <1>13, <1>14, <1>15, <1>16
     DEF Next, FxStep, TestStep

\* A migration container is there only while its service's constructor waits for it or is
\* about to remove it.
Cleared ==
    \A s \in Containers :
        \/ job[s] \in {"none", "removed"}
        \/ building = s /\ step \in {"migrating", "migrated"}

LEMMA ClearedStep ==
  ASSUME Faults \subseteq {"exit"}, IInv, Cleared, [Next]_vars
  PROVE  Cleared'
<1> USE UnitsAssumption
    DEF UnitsAssumption, Cleared, Units, vars, buildVars, worldVars, fxVars, history
<1>0. job \in [Containers -> {"none", "running", "exited", "kept", "removed"}]
  BY DEF IInv, TypeOK
<1>1. ASSUME NEW k \in FaultKinds \ {"exit"}, Fault(k) PROVE FALSE
  BY <1>1 DEF Fault
<1>2. ASSUME UNCHANGED job, UNCHANGED buildVars \/ step \notin {"migrating", "migrated"}
             \/ building = NoUnit
      PROVE  Cleared'
  BY <1>2
<1>3. ASSUME NEW u \in Units, Begin(u) PROVE Cleared'
  BY <1>2, <1>3 DEF Begin
<1>4. ASSUME NEW s \in Containers, ContainerStep(s) PROVE Cleared'
  <2>1. CASE NewRequest(s) \/ ResolveNeeds(s)
    BY <1>2, <2>1 DEF NewRequest, ResolveNeeds, At
  <2>2. CASE CreateJob(s) \/ JobExits(s)
    BY <1>0, <2>2 DEF CreateJob, JobExits, At
  <2>3. CASE RemoveJob(s)
    <3>1. job' = [job EXCEPT ![s] = "removed"]
      BY <1>1, <2>3 DEF RemoveJob, FaultKinds
    <3>2. building = s
      BY <2>3 DEF RemoveJob, At
    <3>3. QED
      BY <1>0, <3>1, <3>2
  <2>4. CASE Create(s) \/ StartContainer(s) \/ WaitUntilReady(s)
    BY <1>2, <2>4 DEF Create, StartContainer, WaitUntilReady, At
  <2>5. CASE PostReady(s) \/ Terminate(s)
    BY <1>2, <2>5 DEF PostReady, At, Terminate
  <2>6. QED
    BY <1>4, <2>1, <2>2, <2>3, <2>4, <2>5 DEF ContainerStep
<1>5. ASSUME NEW p \in Proxies, ProxyStep(p) PROVE Cleared'
  BY <1>2, <1>5 DEF ProxyStep, LookUpEndpoint, StartProxy, CloseProxy, At
<1>6. CASE FxStep
  BY <1>2, <1>6 DEF FxStep, OnStart, OnStartFails, StartTimesOut, StartReturns, StopReturns,
                    StopTimesOut, RollBack
<1>7. CASE TestStep
  BY <1>2, <1>7 DEF TestStep, FinishNew, Start, Stop
<1>8. CASE Failure
  <2>1. CASE ConstructorFails
    <3>1. FaultOfStep[step] \in FaultKinds \ {"exit"}
      BY <2>1 DEF ConstructorFails, FaultOfStep, FaultKinds
    <3>2. QED
      BY <1>1, <2>1, <3>1 DEF ConstructorFails
  <2>2. CASE InvokeFails \/ ContextExpires
    BY <1>2, <2>2 DEF InvokeFails, ContextExpires
  <2>3. ASSUME NEW s \in Containers, TerminateFails(s) PROVE Cleared'
    BY <1>2, <2>3 DEF TerminateFails
  <2>4. QED
    BY <1>8, <2>1, <2>2, <2>3 DEF Failure
<1>9. CASE StartBroken \/ StopIdle \/ UNCHANGED vars
  BY <1>2, <1>9 DEF StartBroken, StopIdle
<1>10. QED
  BY <1>3, <1>4, <1>5, <1>6, <1>7, <1>8, <1>9 DEF Next

\* As long as no call fails, but for migrations that exit with an error, an application that
\* is over has left no service container, no migration container and no listener, however
\* often the test calls Start (README.md:25).
THEOREM NothingIsLeft ==
  ASSUME Faults \subseteq {"exit"}
  PROVE  Spec => []NothingLeft
<1>1. Init => Tidy /\ Cleared
  BY DEF Init, Tidy, Cleared
<1>2. IInv /\ IInv' /\ Tidy /\ Cleared /\ [Next]_vars => Tidy' /\ Cleared'
  BY TidyStep, ClearedStep
<1>3. IInv /\ Tidy /\ Cleared => NothingLeft
  <2> SUFFICES ASSUME IInv, Tidy, Cleared, AtRest
               PROVE  Holding = {} /\ \A s \in Containers : job[s] \in {"none", "removed"}
    BY DEF NothingLeft
  <2>1. phase = "Idle" /\ starts > 0 /\ torn /\ started = 0 /\ building = NoUnit
    BY UnitsAssumption DEF AtRest, Tidy, IInv, PhaseFacts, UnitsAssumption
  <2>2. ASSUME NEW u \in Units, Up(u) PROVE FALSE
    <3>1. u \in Built
      BY <2>1, <2>2, UnitsAssumption DEF IInv, Hooked, UnitsAssumption
    <3>2. PICK i \in DOMAIN hooks : hooks[i] = u
      BY <3>1 DEF Built
    <3>3. i <= started
      BY <2>1, <2>2, <3>2 DEF Tidy
    <3>4. QED
      BY <2>1, <3>3 DEF IInv, TypeOK
  <2>3. \A s \in Containers : job[s] \in {"none", "removed"}
    BY <2>1, UnitsAssumption DEF Cleared, Units, UnitsAssumption
  <2>4. QED
    BY <2>2, <2>3 DEF Holding
<1>4. QED
  BY <1>1, <1>2, <1>3, IInvHolds, PTL DEF Spec
=============================================================================
