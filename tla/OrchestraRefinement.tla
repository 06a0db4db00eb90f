-------------------------- MODULE OrchestraRefinement --------------------------
(***************************************************************************)
(* Every application of Orchestra is a Fleet: the proof that each of its    *)
(* steps joins one unit, takes one unit away, loses some, or changes none.  *)
(***************************************************************************)
EXTENDS OrchestraProofs

\* The application starts with nothing up and nothing lost.
LEMMA FleetInit == Init => Abstract!Init
<1> SUFFICES ASSUME Init PROVE Holding = {} /\ Lost = {}
  BY DEF Abstract!Init
<1>1. Lost = {}
  BY DEF Init, Lost
<1>2. ASSUME NEW u \in Units PROVE ~Up(u)
  BY DEF Init, Up, Present, Units
<1>3. Holding = {}
  BY <1>2 DEF Holding
<1>4. QED
  BY <1>1, <1>3

\* A step that touches neither the machine nor the history of losses is a stutter.
LEMMA QuietStep ==
  ASSUME UNCHANGED <<docker, listening, stranded, unstopped>>
  PROVE  UNCHANGED <<Holding, Lost>>
BY DEF Holding, Lost, Up, Present

\* So is one that changes the state of a container which exists and goes on existing.
LEMMA SameHolding ==
  ASSUME NEW s \in Containers, docker \in [Containers -> {"none", "created", "running",
                                           "ready", "exited", "removed"}],
         Present(s), NEW d \in {"created", "running", "ready", "exited"},
         docker' = [docker EXCEPT ![s] = d], UNCHANGED listening
  PROVE  Holding' = Holding
<1>1. ASSUME NEW u \in Units PROVE Up(u)' <=> Up(u)
  <2>1. CASE u \in Proxies
    BY <2>1 DEF Up
  <2>2. CASE u \in Containers /\ u \notin Proxies
    BY <2>2 DEF Up, Present
  <2>3. QED
    BY <2>1, <2>2 DEF Units
<1>2. QED
  BY <1>1 DEF Holding

\* What a constructor was injected with is up while it runs.
LEMMA InjectedUp ==
  ASSUME IInv, NEW u \in Units, building = u
  PROVE  Needs[u] \subseteq Holding
<1>1. Needs[u] \subseteq Built /\ ~torn
  BY UnitsAssumption DEF IInv, PhaseFacts, UnitsAssumption
<1>2. Needs[u] \subseteq Containers
  BY NeedsAssumption DEF NeedsAssumption
<1>3. \A d \in Needs[u] : docker[d] = "ready"
  BY <1>1, <1>2 DEF IInv, Intact
<1>4. QED
  BY <1>2, <1>3, UnitsAssumption DEF Holding, Up, Present, Units, UnitsAssumption

\* A container that comes into existence is a unit that joins.
LEMMA CreateJoins ==
  ASSUME IInv, NEW s \in Containers, Create(s)
  PROVE  Abstract!Join(s)
<1>1. s \in Units /\ s \notin Proxies /\ building = s /\ step = "create"
  BY UnitsAssumption DEF Create, At, Units, UnitsAssumption
<1>2. s \notin Holding
  BY <1>1, UnitsAssumption DEF IInv, Making, Holding, UnitsAssumption
<1>3. Needs[s] \subseteq Holding
  BY <1>1, InjectedUp
<1>4. Holding' = Holding \cup {s}
  <2>1. docker' = [docker EXCEPT ![s] = "created"] /\ listening' = listening
    BY DEF Create
  <2>2. docker \in [Containers -> {"none", "created", "running", "ready", "exited", "removed"}]
    BY DEF IInv, TypeOK
  <2>3. ASSUME NEW u \in Units PROVE Up(u)' <=> Up(u) \/ u = s
    <3>1. CASE u \in Proxies
      BY <1>1, <2>1, <3>1 DEF Up
    <3>2. CASE u \in Containers /\ u \notin Proxies
      BY <2>1, <2>2, <3>2 DEF Up, Present
    <3>3. QED
      BY <3>1, <3>2 DEF Units
  <2>4. QED
    BY <1>1, <2>3 DEF Holding
<1>5. Lost' = Lost
  BY DEF Create, history, Lost
<1>6. QED
  BY <1>2, <1>3, <1>4, <1>5 DEF Abstract!Join

\* A listener that opens is a unit that joins.
LEMMA StartProxyJoins ==
  ASSUME IInv, NEW p \in Proxies, StartProxy(p)
  PROVE  Abstract!Join(p)
<1>1. p \in Units /\ building = p /\ step = "listen"
  BY DEF StartProxy, At, Units
<1>2. p \notin Holding
  BY <1>1, UnitsAssumption DEF IInv, Making, Holding, UnitsAssumption
<1>3. Needs[p] \subseteq Holding
  BY <1>1, InjectedUp
<1>4. Holding' = Holding \cup {p}
  BY <1>1 DEF StartProxy, Holding, Up, Present
<1>5. Lost' = Lost
  BY DEF StartProxy, history, Lost
<1>6. QED
  BY <1>2, <1>3, <1>4, <1>5 DEF Abstract!Join

\* Nothing that is up and not lost needs the unit whose OnStop runs next.
LEMMA LastUnneeded ==
  ASSUME IInv, NEW u \in Units, Stopping(u), NEW v \in Holding \ Lost
  PROVE  u \notin Needs[v]
<1> SUFFICES ASSUME u \in Needs[v] PROVE FALSE
  OBVIOUS
<1>1. phase = "Stopping" /\ started > 0 /\ u = hooks[started]
  BY DEF Stopping, LastHook
<1>2. DOMAIN hooks = 1 .. Len(hooks) /\ Len(hooks) \in Nat /\ started \in 1 .. Len(hooks)
  BY <1>1 DEF IInv, TypeOK
<1>3. torn /\ building = NoUnit
  BY <1>1, UnitsAssumption DEF IInv, PhaseFacts, UnitsAssumption
<1>4. v \in Units /\ Up(v) /\ v \notin Lost
  BY DEF Holding
<1>5. v \in Built
  BY <1>1, <1>3, <1>4, UnitsAssumption DEF IInv, Hooked, UnitsAssumption
<1>6. PICK j \in DOMAIN hooks : hooks[j] = v
  BY <1>5 DEF Built
<1>7. j \in 1 .. started
  <2>1. j \notin started + 1 .. Len(hooks)
    BY <1>3, <1>4, <1>6 DEF IInv, Swept
  <2>2. QED
    BY <1>2, <1>6, <2>1
<1>8. PICK i \in DOMAIN hooks : i < j /\ hooks[i] = u
  BY <1>6 DEF IInv, HookOrder
<1>9. i = started
  BY <1>1, <1>2, <1>8 DEF IInv, TypeOK
<1>10. QED
  BY <1>2, <1>7, <1>8, <1>9

\* A container that is removed is a unit that leaves.
LEMMA TerminateLeaves ==
  ASSUME IInv, NEW s \in Containers, Terminate(s)
  PROVE  Abstract!Leave(s)
<1>1. s \in Units /\ s \notin Proxies /\ Stopping(s)
  BY UnitsAssumption DEF Terminate, Units, UnitsAssumption
<1>2. docker[s] = "ready"
  <2>1. started \in 1 .. started /\ hooks[started] = s
    BY <1>1 DEF Stopping, LastHook, IInv, TypeOK
  <2>2. QED
    BY <2>1 DEF IInv, CountedUp
<1>3. s \in Holding
  BY <1>1, <1>2 DEF Holding, Up, Present
<1>4. Holding' = Holding \ {s}
  <2>1. docker' = [docker EXCEPT ![s] = "removed"] /\ listening' = listening
    BY DEF Terminate
  <2>2. docker \in [Containers -> {"none", "created", "running", "ready", "exited", "removed"}]
    BY DEF IInv, TypeOK
  <2>3. ASSUME NEW u \in Units PROVE Up(u)' <=> Up(u) /\ u # s
    <3>1. CASE u \in Proxies
      BY <1>1, <2>1, <3>1 DEF Up
    <3>2. CASE u \in Containers /\ u \notin Proxies
      BY <2>1, <2>2, <3>2 DEF Up, Present
    <3>3. QED
      BY <3>1, <3>2 DEF Units
  <2>4. QED
    BY <2>3 DEF Holding
<1>5. Lost' = Lost
  BY DEF Terminate, history, Lost
<1>6. \A v \in Holding \ Lost : s \notin Needs[v]
  BY <1>1, LastUnneeded
<1>7. QED
  BY <1>3, <1>4, <1>5, <1>6 DEF Abstract!Leave

\* A listener that closes is a unit that leaves; one that was closed before is lost.
LEMMA CloseProxyLeaves ==
  ASSUME IInv, NEW p \in Proxies, CloseProxy(p)
  PROVE  Abstract!Leave(p) \/ Abstract!Lose({p})
<1>1. p \in Units /\ Stopping(p)
  BY DEF CloseProxy, Units
<1>2. Holding' = Holding \ {p}
  BY <1>1 DEF CloseProxy, Holding, Up, Present
<1>3. CASE p \in listening
  <2>1. p \in Holding
    BY <1>1, <1>3 DEF Holding, Up
  <2>2. Lost' = Lost
    BY <1>3 DEF CloseProxy, Lost
  <2>3. \A v \in Holding \ Lost : p \notin Needs[v]
    BY <1>1, LastUnneeded
  <2>4. QED
    BY <1>2, <2>1, <2>2, <2>3 DEF Abstract!Leave
<1>4. CASE p \notin listening
  <2>1. Holding' = Holding
    BY <1>2, <1>4 DEF Holding, Up
  <2>2. Lost' = Lost \cup {p}
    BY <1>4 DEF CloseProxy, Lost
  <2>3. QED
    BY <2>1, <2>2 DEF Abstract!Lose
<1>5. QED
  BY <1>3, <1>4

\* An OnStop that fails loses its unit, which still exists.
LEMMA TerminateFailsLoses ==
  ASSUME IInv, NEW s \in Containers, TerminateFails(s)
  PROVE  Abstract!Lose({s})
<1>1. docker \in [Containers -> {"none", "created", "running", "ready", "exited", "removed"}]
  BY DEF IInv, TypeOK
<1>2. CASE UNCHANGED docker
  BY <1>2 DEF TerminateFails, Abstract!Lose, Holding, Lost, Up, Present
<1>3. CASE Present(s) /\ docker' = [docker EXCEPT ![s] = "exited"]
  <2>1. Holding' = Holding
    BY <1>1, <1>3, SameHolding DEF TerminateFails
  <2>2. Lost' = Lost \cup {s}
    BY DEF TerminateFails, Lost
  <2>3. QED
    BY <2>1, <2>2 DEF Abstract!Lose
<1>4. QED
  BY <1>2, <1>3 DEF TerminateFails

\* A second start of a container that exists changes no unit.
LEMMA RunAgainQuiet ==
  ASSUME IInv, CanReport(NextHook), NextHook \in Reruns, RunAgain(NextHook), UNCHANGED listening
  PROVE  Holding' = Holding
<1>1. NextHook \in Containers
  BY KindsAssumption DEF KindsAssumption
<1>2. Present(NextHook)
  BY <1>1 DEF CanReport, Present
<1>3. docker \in [Containers -> {"none", "created", "running", "ready", "exited", "removed"}]
  BY DEF IInv, TypeOK
<1>4. QED
  BY <1>1, <1>2, <1>3, SameHolding DEF RunAgain

\* A rollback loses the units it will not reach.
LEMMA RollBackLoses ==
  ASSUME IInv, RollBack, Holding' = Holding
  PROVE  \E S \in SUBSET Units : Abstract!Lose(S)
<1> DEFINE S == {hooks[i] : i \in started + 1 .. Len(hooks)}
<1>1. S \in SUBSET Units
  BY DEF IInv, TypeOK
<1>2. Lost' = Lost \cup S
  BY DEF RollBack, Lost
<1>3. Abstract!Lose(S)
  BY <1>2 DEF Abstract!Lose
<1>4. QED
  BY <1>1, <1>3

\* A hook that counts again belongs to a unit whose needs are up.
LEMMA OnStartRegains ==
  ASSUME IInv, OnStart, Holding' = Holding
  PROVE  \/ UNCHANGED <<Holding, Lost>>
         \/ \E u \in Units : Abstract!Regain(u)
<1>1. /\ hooks \in Seq(Units) /\ started \in 0 .. Len(hooks)
      /\ started + 1 \in DOMAIN hooks /\ NextHook = hooks[started + 1]
  BY DEF OnStart, NextHook, IInv, TypeOK
<1>2. NextHook \in Units /\ Lost' = Lost \ {NextHook}
  BY <1>1 DEF OnStart, Regain, Lost
<1>3. ASSUME NEW d \in Needs[NextHook] PROVE d \in Holding
  <2>1. PICK i \in DOMAIN hooks : i < started + 1 /\ hooks[i] = d
    BY <1>1 DEF IInv, HookOrder
  <2>2. d \in Containers /\ i \in 1 .. started
    BY <1>1, <1>2, <2>1, NeedsAssumption DEF NeedsAssumption
  <2>3. docker[d] = "ready"
    BY <2>1, <2>2 DEF IInv, CountedUp
  <2>4. QED
    BY <2>2, <2>3, UnitsAssumption DEF Holding, Up, Present, Units, UnitsAssumption
<1>4. CASE NextHook \in Lost
  BY <1>2, <1>3, <1>4 DEF Abstract!Regain
<1>5. CASE NextHook \notin Lost
  BY <1>2, <1>5
<1>6. QED
  BY <1>4, <1>5

\* A stop pass that is cut short loses the units it will not reach.
LEMMA StopTimesOutLoses ==
  ASSUME IInv, StopTimesOut
  PROVE  \E S \in SUBSET Units : Abstract!Lose(S)
<1> DEFINE S == {hooks[i] : i \in 1 .. started}
<1>1. S \in SUBSET Units
  BY DEF IInv, TypeOK
<1>2. Lost' = Lost \cup S
  BY DEF StopTimesOut, Lost
<1>3. Holding' = Holding
  BY DEF StopTimesOut, worldVars, Holding, Up, Present
<1>4. QED
  BY <1>1, <1>2, <1>3 DEF Abstract!Lose

\* Every step of the application is a step of the fleet, or changes nothing in it.
LEMMA FleetStep ==
  ASSUME IInv, [Next]_vars
  PROVE  [Abstract!Next]_<<Holding, Lost>>
<1> DEFINE Step == [Abstract!Next]_<<Holding, Lost>>
<1>0. docker \in [Containers -> {"none", "created", "running", "ready", "exited", "removed"}]
  BY DEF IInv, TypeOK
<1>1. ASSUME NEW u \in Units, Begin(u) PROVE Step
  BY <1>1, QuietStep DEF Begin, worldVars, history
<1>2. ASSUME NEW s \in Containers, ContainerStep(s) PROVE Step
  <2>1. CASE NewRequest(s) \/ ResolveNeeds(s)
    BY <2>1, QuietStep DEF NewRequest, ResolveNeeds, worldVars, history
  <2>2. CASE CreateJob(s) \/ JobExits(s) \/ RemoveJob(s) \/ PostReady(s)
    BY <2>2, QuietStep DEF CreateJob, JobExits, RemoveJob, PostReady, history
  <2>3. CASE Create(s)
    BY <2>3, CreateJoins DEF Abstract!Next, Units
  <2>4. CASE StartContainer(s) \/ WaitUntilReady(s)
    <3>1. building = s /\ step \in {"start", "wait"}
      BY <2>4 DEF StartContainer, WaitUntilReady, At
    <3>2. Present(s)
      BY <3>1, UnitsAssumption DEF IInv, Making, Up, Units, UnitsAssumption
    <3>3. Holding' = Holding
      BY <1>0, <2>4, <3>2, SameHolding DEF StartContainer, WaitUntilReady
    <3>4. Lost' = Lost
      BY <2>4 DEF StartContainer, WaitUntilReady, history, Lost
    <3>5. QED
      BY <3>3, <3>4
  <2>5. CASE Terminate(s)
    BY <2>5, TerminateLeaves DEF Abstract!Next, Units
  <2>6. QED
    BY <1>2, <2>1, <2>2, <2>3, <2>4, <2>5 DEF ContainerStep
<1>3. ASSUME NEW p \in Proxies, ProxyStep(p) PROVE Step
  <2>1. CASE LookUpEndpoint(p)
    BY <2>1, QuietStep DEF LookUpEndpoint, worldVars, history
  <2>2. CASE StartProxy(p)
    BY <2>2, StartProxyJoins DEF Abstract!Next, Units
  <2>3. CASE CloseProxy(p)
    BY <2>3, CloseProxyLeaves DEF Abstract!Next, Units
  <2>4. QED
    BY <1>3, <2>1, <2>2, <2>3 DEF ProxyStep
<1>4. CASE FxStep
  <2>1. CASE OnStart
    <3>1. Holding' = Holding
      <4>1. CASE NextHook \in Reruns
        BY <2>1, <4>1, RunAgainQuiet DEF OnStart
      <4>2. CASE NextHook \notin Reruns
        BY <2>1, <4>2 DEF OnStart, Holding, Up, Present
      <4>3. QED
        BY <4>1, <4>2
    <3>2. QED
      BY <2>1, <3>1, OnStartRegains DEF Abstract!Next
  <2>2. CASE OnStartFails
    <3>1. RollBack /\ UNCHANGED listening
      BY <2>2 DEF OnStartFails, RollBack
    <3>2. Holding' = Holding
      <4>1. CASE UNCHANGED docker
        BY <3>1, <4>1 DEF Holding, Up, Present
      <4>2. CASE NextHook \in Reruns /\ CanReport(NextHook) /\ RunAgain(NextHook)
        BY <3>1, <4>2, RunAgainQuiet
      <4>3. QED
        BY <2>2, <4>1, <4>2 DEF OnStartFails
    <3>3. QED
      BY <3>1, <3>2, RollBackLoses DEF Abstract!Next
  <2>3. CASE StartTimesOut
    <3>1. RollBack /\ Holding' = Holding
      BY <2>3 DEF StartTimesOut, RollBack, Holding, Up, Present
    <3>2. QED
      BY <3>1, RollBackLoses DEF Abstract!Next
  <2>4. CASE StartReturns \/ StopReturns
    BY <2>4, QuietStep DEF StartReturns, StopReturns, worldVars, history
  <2>5. CASE StopTimesOut
    BY <2>5, StopTimesOutLoses DEF Abstract!Next
  <2>6. QED
    BY <1>4, <2>1, <2>2, <2>3, <2>4, <2>5 DEF FxStep
<1>5. CASE TestStep
  BY <1>5, QuietStep DEF TestStep, FinishNew, Start, Stop, worldVars, history
<1>6. CASE Failure
  <2>1. CASE ConstructorFails \/ InvokeFails \/ ContextExpires
    BY <2>1, QuietStep DEF ConstructorFails, InvokeFails, ContextExpires, worldVars
  <2>2. ASSUME NEW s \in Containers, TerminateFails(s) PROVE Step
    <3>1. {s} \in SUBSET Units
      BY DEF Units
    <3>2. QED
      BY <2>2, <3>1, TerminateFailsLoses DEF Abstract!Next
  <2>3. QED
    BY <1>6, <2>1, <2>2 DEF Failure
<1>7. CASE StartBroken \/ StopIdle \/ UNCHANGED vars
  BY <1>7, QuietStep DEF StartBroken, StopIdle, vars, worldVars, history
<1>8. QED
  BY <1>1, <1>2, <1>3, <1>4, <1>5, <1>6, <1>7 DEF Next

\* Every application implements the fleet.
THEOREM Implements == Spec => IsFleet
<1>1. QED
  BY FleetInit, FleetStep, IInvHolds, PTL DEF Spec, IsFleet, Abstract!Spec
=============================================================================
