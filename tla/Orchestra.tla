------------------------------ MODULE Orchestra ------------------------------
(***************************************************************************)
(* The life of one fx application built from mockestra modules.            *)
(*                                                                         *)
(* fx.New runs the constructors the application demands, one at a time and *)
(* dependencies first.  A service's constructors (New, Actualize) customise *)
(* a container request, resolve the containers they are injected with, run *)
(* a migration container when the service has one, create the container,   *)
(* start it, wait for it, run its PostReady hooks and append one fx.Hook;   *)
(* a proxy's constructor (NewProxy) looks its container's endpoint up,      *)
(* starts listening and appends one fx.Hook.  App.Start then runs the       *)
(* OnStart hooks in the order they were appended, App.Stop the OnStop hooks *)
(* of the started ones in reverse.                                          *)
(*                                                                         *)
(* Everything with a lasting effect (containers, migration containers,     *)
(* listeners) already exists when fx.New returns; only OnStop removes it.  *)
(***************************************************************************)
EXTENDS Naturals, FiniteSets, Sequences

CONSTANTS
    Containers,  \* the services of the application
    Proxies,     \* its TCP access proxies
    Needs,       \* the containers each unit's constructor is injected with
    Migrates,    \* the services that run a migration container first
    Reruns,      \* the services whose OnStart hook starts the container again
    Faults,      \* the kinds of failure that can happen
    MaxFaults,   \* how many failures at most
    MaxStarts    \* how many times App.Start is called at most

Units == Containers \cup Proxies

NoUnit == "none"

FaultKinds == {"new", "needs", "migrate", "exit", "jobremove", "create", "start",
               "wait", "hook", "endpoint", "listen", "invoke", "onstart",
               "onstop", "deadline"}

ASSUME UnitsAssumption == Containers \cap Proxies = {} /\ NoUnit \notin Units
ASSUME NeedsAssumption == Needs \in [Units -> SUBSET Containers]
ASSUME ProxiesAssumption == \A p \in Proxies : Needs[p] # {}
ASSUME KindsAssumption == Migrates \subseteq Containers /\ Reruns \subseteq Containers
ASSUME FaultsAssumption == Faults \subseteq FaultKinds /\ MaxFaults \in Nat
ASSUME StartsAssumption == MaxStarts \in Nat

VARIABLES
    phase,      \* where the application is: fx.New, then the fx lifecycle
    building,   \* the unit whose constructor is running, or NoUnit
    step,       \* how far that constructor is
    hooks,      \* the lifecycle's hooks, one per constructed unit, in append order
    started,    \* fx's numStarted: the hooks whose OnStart counts as done
    docker,     \* the service containers, as the Docker daemon has them
    job,        \* the migration containers
    migrated,   \* the services whose migration container exited with code 0
    listening,  \* the proxies with an open listener
    readied,    \* how often each container's PostReady hooks have run
    ctx,        \* whether the context of the current Start or Stop has expired
    rollback,   \* whether the hooks being stopped are those of a failed Start
    starts,     \* calls of App.Start so far
    faults,     \* failures so far
    reported,   \* the fx calls that have returned an error to the test
    stranded,   \* history: units a rollback or a Stop has skipped
    unstopped,  \* history: units whose OnStop returned an error
    flaws,      \* history: how passes over the OnStop hooks have gone wrong
    torn        \* history: whether any OnStop pass has begun

buildVars == <<building, step>>
worldVars == <<docker, job, migrated, listening, readied>>
fxVars    == <<phase, hooks, started, ctx, rollback, starts>>
history   == <<reported, stranded, unstopped, flaws, torn>>
vars      == <<buildVars, worldVars, fxVars, history, faults>>

Built == {hooks[i] : i \in DOMAIN hooks}

\* A container that exists takes its name and its resources, whatever its state.
Present(s) == docker[s] \notin {"none", "removed"}

Up(u) == IF u \in Proxies THEN u \in listening ELSE Present(u)

\* The units that hold resources of the machine...
Holding == {u \in Units : Up(u)}

\* ...and those fx has lost hold of.
Lost == stranded \cup unstopped

TypeOK ==
    /\ phase \in {"New", "Broken", "Idle", "Starting", "Started", "Stopping"}
    /\ building \in Units \cup {NoUnit}
    /\ step \in {"idle", "request", "needs", "migrate", "migrating", "migrated",
                 "create", "start", "wait", "hook", "endpoint", "listen"}
    /\ hooks \in Seq(Units)
    /\ \A i, j \in DOMAIN hooks : hooks[i] = hooks[j] => i = j
    /\ building \notin Built
    /\ started \in 0 .. Len(hooks)
    /\ docker \in [Containers -> {"none", "created", "running", "ready", "exited", "removed"}]
    /\ job \in [Containers -> {"none", "running", "exited", "kept", "removed"}]
    /\ migrated \subseteq Containers
    /\ listening \subseteq Proxies
    /\ readied \in [Containers -> Nat]
    /\ ctx \in {"live", "expired"}
    /\ rollback \in BOOLEAN
    /\ starts \in 0 .. MaxStarts
    /\ faults \in 0 .. MaxFaults
    /\ reported \subseteq {"New", "Start", "Stop"}
    /\ stranded \subseteq Units
    /\ unstopped \subseteq Units
    /\ flaws \subseteq {"onstop", "deadline"}
    /\ torn \in BOOLEAN

Init ==
    /\ phase = "New"
    /\ building = NoUnit
    /\ step = "idle"
    /\ hooks = <<>>
    /\ started = 0
    /\ docker = [s \in Containers |-> "none"]
    /\ job = [s \in Containers |-> "none"]
    /\ migrated = {}
    /\ listening = {}
    /\ readied = [s \in Containers |-> 0]
    /\ ctx = "live"
    /\ rollback = FALSE
    /\ starts = 0
    /\ faults = 0
    /\ reported = {}
    /\ stranded = {}
    /\ unstopped = {}
    /\ flaws = {}
    /\ torn = FALSE

\* One more failure of kind k.
Fault(k) ==
    /\ k \in Faults
    /\ faults < MaxFaults
    /\ faults' = faults + 1

-----------------------------------------------------------------------------
(***************************************************************************)
(* fx.New: the constructors, run one at a time in one goroutine.           *)
(***************************************************************************)

\* u's constructor is at step st.
At(u, st) == phase = "New" /\ building = u /\ step = st

\* Mutant: the constructor is not injected with the containers it uses.
BeginEager(u) ==
    /\ phase = "New"
    /\ building = NoUnit
    /\ u \notin Built
    /\ building' = u
    /\ step' = IF u \in Proxies THEN "endpoint" ELSE "request"
    /\ UNCHANGED <<worldVars, fxVars, history, faults>>

\* dig calls u's constructor once everything it is injected with is built.  A
\* unit no Invoke demands is never built.
Begin(u) ==
    /\ phase = "New"
    /\ building = NoUnit
    /\ u \notin Built
    /\ Needs[u] \subseteq Built
    /\ building' = u
    /\ step' = IF u \in Proxies THEN "endpoint" ELSE "request"
    /\ UNCHANGED <<worldVars, fxVars, history, faults>>

\* New(s): the request, with every customizer of the service's group applied.
NewRequest(s) ==
    /\ At(s, "request")
    /\ step' = IF Needs[s] # {} THEN "needs"
               ELSE IF s \in Migrates THEN "migrate" ELSE "create"
    /\ UNCHANGED <<building, worldVars, fxVars, history, faults>>

\* Mutant: the address of a container is taken from what its OnStart hook recorded.
ResolveNeedsStarted(s) ==
    /\ At(s, "needs")
    /\ started > 0
    /\ step' = IF s \in Migrates THEN "migrate" ELSE "create"
    /\ UNCHANGED <<building, worldVars, fxVars, history, faults>>

\* Actualize(s): ContainerIP of every injected container, written into the request.
ResolveNeeds(s) ==
    /\ At(s, "needs")
    /\ step' = IF s \in Migrates THEN "migrate" ELSE "create"
    /\ UNCHANGED <<building, worldVars, fxVars, history, faults>>

\* Mutant: the migration container is started without wait.ForExit.
CreateJobUnawaited(s) ==
    /\ At(s, "migrate")
    /\ job' = [job EXCEPT ![s] = "running"]
    /\ step' = "create"
    /\ UNCHANGED <<building, docker, migrated, listening, readied, fxVars, history, faults>>

\* The migration container: a copy of the request with another name and command.
CreateJob(s) ==
    /\ At(s, "migrate")
    /\ job' = [job EXCEPT ![s] = "running"]
    /\ step' = "migrating"
    /\ UNCHANGED <<building, docker, migrated, listening, readied, fxVars, history, faults>>

\* wait.ForExit returns when the process ends, and does not read its exit code.
JobExits(s) ==
    /\ At(s, "migrating")
    /\ job' = [job EXCEPT ![s] = "exited"]
    /\ \/ migrated' = migrated \cup {s} /\ UNCHANGED faults
       \/ UNCHANGED migrated /\ Fault("exit")
    /\ step' = "migrated"
    /\ UNCHANGED <<building, docker, listening, readied, fxVars, history>>

\* A failed Terminate of the migration container is logged, never returned: it is kept.
RemoveJob(s) ==
    /\ At(s, "migrated")
    /\ \/ job' = [job EXCEPT ![s] = "removed"] /\ UNCHANGED faults
       \/ job' = [job EXCEPT ![s] = "kept"] /\ Fault("jobremove")
    /\ step' = "create"
    /\ UNCHANGED <<building, docker, migrated, listening, readied, fxVars, history>>

\* GenericContainer, in the steps that leave different things behind on failure.
Create(s) ==
    /\ At(s, "create")
    /\ docker' = [docker EXCEPT ![s] = "created"]
    /\ step' = "start"
    /\ UNCHANGED <<building, job, migrated, listening, readied, fxVars, history, faults>>

StartContainer(s) ==
    /\ At(s, "start")
    /\ docker' = [docker EXCEPT ![s] = "running"]
    /\ step' = "wait"
    /\ UNCHANGED <<building, job, migrated, listening, readied, fxVars, history, faults>>

WaitUntilReady(s) ==
    /\ At(s, "wait")
    /\ docker' = [docker EXCEPT ![s] = "ready"]
    /\ step' = "hook"
    /\ UNCHANGED <<building, job, migrated, listening, readied, fxVars, history, faults>>

\* Mutant: the constructor appends its hook and goes on as if it had not returned.
ReturnTwice(u) ==
    /\ hooks' = Append(hooks, u)
    /\ building' = u
    /\ step' = "idle"

\* The constructor of u returns: its hook is appended and its result cached by dig.
Return(u) ==
    /\ hooks' = Append(hooks, u)
    /\ building' = NoUnit
    /\ step' = "idle"

\* The PostReady hooks run, GenericContainer returns and Actualize appends its hook.
PostReady(s) ==
    /\ At(s, "hook")
    /\ readied' = [readied EXCEPT ![s] = @ + 1]
    /\ Return(s)
    /\ UNCHANGED <<docker, job, migrated, listening, phase, started, ctx, rollback,
                   starts, history, faults>>

\* NewProxy(p): the endpoint of the container's port, as Docker mapped it.
LookUpEndpoint(p) ==
    /\ At(p, "endpoint")
    /\ step' = "listen"
    /\ UNCHANGED <<building, worldVars, fxVars, history, faults>>

\* Mutant: NewProxy returns a proxy it has not started.
StartProxyNever(p) ==
    /\ At(p, "listen")
    /\ Return(p)
    /\ UNCHANGED <<worldVars, phase, started, ctx, rollback, starts, history, faults>>

\* TCPProxy.Start opens the listener inside the constructor, then the hook is appended.
StartProxy(p) ==
    /\ At(p, "listen")
    /\ listening' = listening \cup {p}
    /\ Return(p)
    /\ UNCHANGED <<docker, job, migrated, readied, phase, started, ctx, rollback,
                   starts, history, faults>>

FaultOfStep == [st \in {"request", "needs", "migrate", "migrating", "create", "start",
                        "wait", "hook", "endpoint", "listen"} |->
                  IF st = "request" THEN "new"
                  ELSE IF st = "migrating" THEN "migrate" ELSE st]

\* Any of those steps may fail: the constructor returns the error, nothing it made
\* is undone, and fx keeps the error for Start.
ConstructorFails ==
    /\ phase = "New"
    /\ building # NoUnit
    /\ step \in DOMAIN FaultOfStep
    /\ Fault(FaultOfStep[step])
    /\ phase' = "Broken"
    /\ building' = NoUnit
    /\ step' = "idle"
    /\ reported' = reported \cup {"New"}
    /\ UNCHANGED <<worldVars, hooks, started, ctx, rollback, starts, stranded, unstopped,
                   flaws, torn>>

\* A function given to fx.Invoke, run between constructors, may fail as well.
InvokeFails ==
    /\ phase = "New"
    /\ building = NoUnit
    /\ Fault("invoke")
    /\ phase' = "Broken"
    /\ reported' = reported \cup {"New"}
    /\ UNCHANGED <<buildVars, worldVars, hooks, started, ctx, rollback, starts,
                   stranded, unstopped, flaws, torn>>

\* Every Invoke has run: fx.New returns.
FinishNew ==
    /\ phase = "New"
    /\ building = NoUnit
    /\ phase' = "Idle"
    /\ UNCHANGED <<buildVars, worldVars, hooks, started, ctx, rollback, starts, history, faults>>

-----------------------------------------------------------------------------
(***************************************************************************)
(* App.Start and App.Stop.                                                 *)
(***************************************************************************)

\* Start of an application whose New failed returns that error and runs no hook.
StartBroken ==
    /\ phase = "Broken"
    /\ reported' = reported \cup {"Start"}
    /\ UNCHANGED <<buildVars, worldVars, fxVars, stranded, unstopped, flaws, torn, faults>>

\* Start may follow any Stop, also one that was cut short.
Start ==
    /\ phase = "Idle"
    /\ starts < MaxStarts
    /\ phase' = "Starting"
    /\ starts' = starts + 1
    /\ started' = 0
    /\ ctx' = "live"
    /\ UNCHANGED <<buildVars, worldVars, hooks, rollback, history, faults>>

NextHook == hooks[started + 1]

\* Mutant: the hooks of containers only log.
ReportAlways(u) == u \in Units

\* OnStart of a container's hook queries its ports, which only a running container
\* has, unless it starts the container first; a proxy's hook only logs.
CanReport(u) ==
    u \in Containers => docker[u] = "ready" \/ (u \in Reruns /\ docker[u] = "exited")

\* Container.Start: nothing to do for a container that runs, but every hook of a
\* start, PostReady included, runs again.
RunAgain(s) ==
    /\ docker' = [docker EXCEPT ![s] = "ready"]
    /\ readied' = [readied EXCEPT ![s] = @ + 1]

\* The next Stop will run the OnStop of a unit whose OnStart is done.
Regain(u) ==
    /\ stranded' = stranded \ {u}
    /\ unstopped' = unstopped \ {u}
    /\ UNCHANGED <<reported, flaws, torn>>

\* Mutant: every service starts its container again in OnStart.
OnStartReruns ==
    /\ phase = "Starting" /\ ctx = "live"
    /\ started < Len(hooks)
    /\ CanReport(NextHook)
    /\ started' = started + 1
    /\ IF NextHook \in Containers THEN RunAgain(NextHook) ELSE UNCHANGED <<docker, readied>>
    /\ Regain(NextHook)
    /\ UNCHANGED <<buildVars, job, migrated, listening, phase, hooks, ctx,
                   rollback, starts, faults>>

\* Mutant: the OnStart hook of a proxy starts the proxy.
OnStartReopens ==
    /\ phase = "Starting" /\ ctx = "live"
    /\ started < Len(hooks)
    /\ CanReport(NextHook)
    /\ started' = started + 1
    /\ listening' = listening \cup ({NextHook} \cap Proxies)
    /\ Regain(NextHook)
    /\ UNCHANGED <<buildVars, docker, job, migrated, readied, phase, hooks, ctx,
                   rollback, starts, faults>>

\* OnStart of the next hook.
OnStart ==
    /\ phase = "Starting" /\ ctx = "live"
    /\ started < Len(hooks)
    /\ CanReport(NextHook)
    /\ started' = started + 1
    /\ IF NextHook \in Reruns THEN RunAgain(NextHook) ELSE UNCHANGED <<docker, readied>>
    /\ Regain(NextHook)
    /\ UNCHANGED <<buildVars, job, migrated, listening, phase, hooks, ctx,
                   rollback, starts, faults>>

\* The start pass ends early: fx rolls back with the OnStop hooks of the counted
\* hooks, and only of those.
RollBack ==
    /\ phase' = "Stopping"
    /\ rollback' = TRUE
    /\ torn' = TRUE
    /\ stranded' = stranded \cup {hooks[i] : i \in started + 1 .. Len(hooks)}
    /\ reported' = reported \cup {"Start"}
    /\ UNCHANGED <<buildVars, job, migrated, listening, hooks, started, ctx, starts,
                   unstopped, flaws>>

\* Mutant: a hook whose container is gone waits for it instead of failing.
OnStartWaits ==
    /\ phase = "Starting" /\ ctx = "live"
    /\ started < Len(hooks)
    /\ NextHook \in Containers /\ Fault("onstart")
    /\ RollBack
    /\ UNCHANGED <<docker, readied>>

\* A hook that fails may have started its container again before.
OnStartFails ==
    /\ phase = "Starting" /\ ctx = "live"
    /\ started < Len(hooks)
    /\ \/ ~CanReport(NextHook) /\ UNCHANGED <<docker, readied, faults>>
       \/ /\ NextHook \in Containers /\ Fault("onstart")
          /\ \/ NextHook \in Reruns /\ CanReport(NextHook) /\ RunAgain(NextHook)
             \/ UNCHANGED <<docker, readied>>
    /\ RollBack

\* fx looks at the context before each OnStart.
StartTimesOut ==
    /\ phase = "Starting" /\ ctx = "expired"
    /\ started < Len(hooks)
    /\ RollBack
    /\ UNCHANGED <<docker, readied, faults>>

StartReturns ==
    /\ phase = "Starting"
    /\ started = Len(hooks)
    /\ phase' = "Started"
    /\ UNCHANGED <<buildVars, worldVars, hooks, started, ctx, rollback, starts, history, faults>>

\* The context of the call expires, which the caller is told whatever the hooks do.
Caller == IF phase = "Starting" \/ rollback THEN "Start" ELSE "Stop"

ContextExpires ==
    /\ phase \in {"Starting", "Stopping"}
    /\ ctx = "live"
    /\ Fault("deadline")
    /\ ctx' = "expired"
    /\ reported' = reported \cup {Caller}
    /\ UNCHANGED <<buildVars, worldVars, phase, hooks, started, rollback, starts,
                   stranded, unstopped, flaws, torn>>

\* Stop does nothing before Start, and nothing once it has been called, whether its
\* pass was complete or not.
StopIdle ==
    /\ phase \in {"Broken", "Idle"}
    /\ UNCHANGED vars

Stop ==
    /\ phase = "Started"
    /\ phase' = "Stopping"
    /\ rollback' = FALSE
    /\ ctx' = "live"
    /\ torn' = TRUE
    /\ UNCHANGED <<buildVars, worldVars, hooks, started, starts, reported, stranded,
                   unstopped, flaws, faults>>

LastHook == hooks[started]

Stopping(u) ==
    /\ phase = "Stopping" /\ ctx = "live"
    /\ started > 0
    /\ u = LastHook
    /\ started' = started - 1

\* Mutant: OnStop only logs.
TerminateNothing(s) ==
    /\ s \in Containers
    /\ Stopping(s)
    /\ UNCHANGED <<buildVars, worldVars, phase, hooks, ctx, rollback, starts, history, faults>>

\* OnStop of a service: Terminate stops and removes the container.
Terminate(s) ==
    /\ s \in Containers
    /\ Stopping(s)
    /\ docker' = [docker EXCEPT ![s] = "removed"]
    /\ UNCHANGED <<buildVars, job, migrated, listening, readied, phase, hooks, ctx,
                   rollback, starts, history, faults>>

\* Mutant: OnStop logs the error of Terminate and returns nil.
TerminateFailsQuietly(s) ==
    /\ s \in Containers
    /\ Stopping(s)
    /\ Fault("onstop")
    /\ \/ UNCHANGED docker
       \/ Present(s) /\ docker' = [docker EXCEPT ![s] = "exited"]
    /\ unstopped' = unstopped \cup {s}
    /\ flaws' = flaws \cup {"onstop"}
    /\ UNCHANGED <<buildVars, job, migrated, listening, readied, phase, hooks, ctx,
                   rollback, starts, reported, stranded, torn>>

\* OnStop of a service returns the error of a Terminate that could not stop the
\* container, or stopped it and could not remove it; fx goes on with the next hook.
TerminateFails(s) ==
    /\ s \in Containers
    /\ Stopping(s)
    /\ Fault("onstop")
    /\ \/ UNCHANGED docker
       \/ Present(s) /\ docker' = [docker EXCEPT ![s] = "exited"]
    /\ reported' = reported \cup {Caller}
    /\ unstopped' = unstopped \cup {s}
    /\ flaws' = flaws \cup {"onstop"}
    /\ UNCHANGED <<buildVars, job, migrated, listening, readied, phase, hooks, ctx,
                   rollback, starts, stranded, torn>>

\* Mutant: OnStop of a proxy cancels its context and leaves the listener open.
CloseProxyNot(p) ==
    /\ p \in Proxies
    /\ Stopping(p)
    /\ UNCHANGED <<buildVars, worldVars, phase, hooks, ctx, rollback, starts, history, faults>>

\* OnStop of a proxy: Close of the listener, an error when it is closed already.
CloseProxy(p) ==
    /\ p \in Proxies
    /\ Stopping(p)
    /\ listening' = listening \ {p}
    /\ IF p \in listening THEN UNCHANGED <<reported, unstopped, flaws>>
       ELSE /\ reported' = reported \cup {Caller}
            /\ unstopped' = unstopped \cup {p}
            /\ flaws' = flaws \cup {"onstop"}
    /\ UNCHANGED <<buildVars, docker, job, migrated, readied, phase, hooks, ctx,
                   rollback, starts, stranded, torn, faults>>

\* The pass is over: the lifecycle is stopped and may be started again.
StopReturns ==
    /\ phase = "Stopping"
    /\ started = 0
    /\ phase' = "Idle"
    /\ rollback' = FALSE
    /\ UNCHANGED <<buildVars, worldVars, hooks, started, ctx, starts, history, faults>>

\* fx looks at the context before each OnStop (a rollback has the context of Start):
\* once it has expired the remaining hooks are skipped, and the lifecycle is stopped
\* all the same.
StopTimesOut ==
    /\ phase = "Stopping" /\ ctx = "expired"
    /\ started > 0
    /\ phase' = "Idle"
    /\ rollback' = FALSE
    /\ started' = 0
    /\ stranded' = stranded \cup {hooks[i] : i \in 1 .. started}
    /\ flaws' = flaws \cup {"deadline"}
    /\ UNCHANGED <<buildVars, worldVars, hooks, ctx, starts, reported, unstopped,
                   torn, faults>>

-----------------------------------------------------------------------------
ContainerStep(s) ==
    \/ NewRequest(s)
    \/ ResolveNeeds(s)
    \/ CreateJob(s)
    \/ JobExits(s)
    \/ RemoveJob(s)
    \/ Create(s)
    \/ StartContainer(s)
    \/ WaitUntilReady(s)
    \/ PostReady(s)
    \/ Terminate(s)

ProxyStep(p) ==
    \/ LookUpEndpoint(p)
    \/ StartProxy(p)
    \/ CloseProxy(p)

FxStep ==
    \/ OnStart
    \/ OnStartFails
    \/ StartTimesOut
    \/ StartReturns
    \/ StopReturns
    \/ StopTimesOut

\* What the test does with the application: New, RequireStart, and Stop on cleanup.
TestStep ==
    \/ FinishNew
    \/ Start
    \/ Stop

Failure ==
    \/ ConstructorFails
    \/ InvokeFails
    \/ ContextExpires
    \/ \E s \in Containers : TerminateFails(s)

Next ==
    \/ \E u \in Units : Begin(u)
    \/ \E s \in Containers : ContainerStep(s)
    \/ \E p \in Proxies : ProxyStep(p)
    \/ FxStep
    \/ TestStep
    \/ Failure
    \/ StartBroken
    \/ StopIdle

Spec == Init /\ [][Next]_vars

\* A constructor, and a pass over the hooks, is one goroutine that runs until it
\* returns; the test calls Start once New has returned and Stop in its cleanup.
Fairness ==
    /\ WF_vars(\E s \in Containers : ContainerStep(s))
    /\ WF_vars(\E p \in Proxies : ProxyStep(p))
    /\ WF_vars(FxStep)
    /\ WF_vars(TestStep)

FairSpec == Spec /\ Fairness

-----------------------------------------------------------------------------
(***************************************************************************)
(* What holds of every application.                                        *)
(***************************************************************************)

\* The hooks are a dependency order: each unit's hook comes after the hooks of all
\* it needs, so fx starts it after them and stops it before them (hydra.go:113).
HookOrder ==
    \A j \in DOMAIN hooks : \A d \in Needs[hooks[j]] :
        \E i \in DOMAIN hooks : i < j /\ hooks[i] = d

\* A unit never outlives what it was built on, unless its own OnStop failed, or a failed
\* Start left it out of the rollback, or the deadline of a Stop skipped it: no server runs without its database
\* and no proxy forwards to a removed container (postgres.go:130-133).
DependenciesOutlive ==
    \A u \in Built : \A d \in Needs[u] :
        Up(u) /\ u \notin Lost => docker[d] = "ready"

\* fx.New has failed, or the application has been started and is not running: the
\* test has nothing left to call but Stop.
AtRest == phase = "Broken" \/ (phase = "Idle" /\ starts > 0)

\* What is left when the application is over is exactly accounted for: New failed, or
\* the unit's OnStop failed, or a rollback or a deadline skipped it, and no later Start
\* has made it count again (postgres.go:148-157).
LeakAccounted == AtRest /\ phase # "Broken" => Holding \subseteq Lost

\* No leak of a service container or a listener is silent: some fx call has returned
\* an error to the test (hydra.go:181-188).
LeaksReported == AtRest /\ Holding # {} => reported # {}

\* A running application is complete: every built container is up and every built proxy
\* listens, even after a restart, unless an OnStop has failed or a deadline has cut a stop
\* pass short.  Then a Start succeeds that finds its proxies closed, since their OnStart
\* only logs (hydra/proxy.go:37-51).
StartedIsComplete == phase = "Started" /\ flaws = {} => Built \subseteq Holding

\* A stopped application cannot be started again by mistake: once a Stop pass has
\* removed a container, no Start succeeds (postgres.go:140-147).
RestartRefused ==
    phase = "Started" => \A u \in Built \cap Containers : docker[u] # "removed"

\* A service and its migration container never run at the same time on one database
\* (hydra.go:145-159).
MigrationAlone ==
    \A s \in Migrates : Present(s) => job[s] \in {"kept", "removed"}

\* PostReady hooks have run exactly once for every container handed to a test,
\* and once more at each Start of the services that start twice (concourse.go:142).
ReadyRuns ==
    \A s \in Built \cap Containers :
        readied[s] \in 1 .. (IF s \in Reruns THEN 1 + starts ELSE 1)

\* The application implements the abstract fleet: what is up is what exists, and what
\* is lost is what a rollback, a failed OnStop or a deadline left behind, until a Start
\* makes it count again (postgres.go:148-157).
Abstract == INSTANCE Fleet WITH up <- Holding, lost <- Lost

IsFleet == Abstract!Spec

\* Listening starts before fx.New returns, never later, and a proxy closed once is
\* never reopened, not even by a restart (hydra/proxy.go:37-42).
NoReopen == [][\A p \in Proxies : p \notin listening /\ p \in listening' => phase = "New"]_vars

\* fx.New returns once no constructor hangs (hydra.go:151-162).
NewReturns == phase = "New" ~> phase # "New"

\* A Start that began is followed by a Stop that returns, also when the containers it
\* reports on are gone or a deadline passes (postgres.go:140-157).
StartIsStopped == phase = "Starting" ~> phase = "Idle"

\* The migration containers that are left without anybody having failed to remove them.
JobsLeft == {s \in Containers : job[s] \in {"running", "exited"}}


-----------------------------------------------------------------------------
(***************************************************************************)
(* The inductive invariant behind HookOrder, DependenciesOutlive and        *)
(* LeakAccounted.                                                          *)
(***************************************************************************)

\* The phases, as far as they bound the hooks that count as started.
PhaseFacts ==
    /\ phase \in {"New", "Broken"} => ~torn /\ started = 0 /\ starts = 0
    /\ phase = "Idle" => started = 0 /\ (starts > 0 => torn)
    /\ phase = "Started" => started = Len(hooks)
    /\ phase = "Stopping" => torn
    /\ building # NoUnit => phase = "New" /\ Needs[building] \subseteq Built
    /\ building # NoUnit /\ step = "hook" => docker[building] = "ready"

\* Before any OnStop pass every constructed container is up.
Intact == ~torn => \A s \in Built \cap Containers : docker[s] = "ready"

\* The hooks that count as started belong to containers that are up...
CountedUp == \A i \in 1 .. started : hooks[i] \in Containers => docker[hooks[i]] = "ready"

\* ...and once a pass has begun, the others are down or lost.
Swept ==
    torn => \A i \in started + 1 .. Len(hooks) :
        Up(hooks[i]) => hooks[i] \in Lost

\* Nothing is up without a hook, but what a constructor is making or has failed to make.
Hooked ==
    \A u \in Units \ Built :
        Up(u) => phase = "Broken" \/ building = u

\* The unit being made is up from the moment its container exists.
Making == building # NoUnit => (Up(building) <=> step \in {"start", "wait", "hook"})

\* All together, every step of the application preserves it (hydra.go:128-195).
IInv ==
    /\ TypeOK /\ HookOrder /\ PhaseFacts
    /\ Intact /\ CountedUp /\ Swept /\ Hooked /\ Making

-----------------------------------------------------------------------------
(***************************************************************************)
(* What the documentation says and the code does not do.                   *)
(***************************************************************************)

\* README.md:25, "Containers start and stop automatically with your application
\* lifecycle": an application that is over has left no service container, no migration
\* container and no listener.
NothingLeft ==
    AtRest => Holding = {} /\ \A s \in Containers : job[s] \in {"none", "removed"}

\* README.md:27, "Automatically handles dependencies between services": no container
\* is without the containers it was built on, unless its own Terminate failed.
DependenciesHandled ==
    \A u \in Built : \A d \in Needs[u] :
        Up(u) /\ u \notin unstopped => docker[d] = "ready"

\* hydra.go:153, "failed to run hydra migration": no server is created on a database
\* whose migration failed.
MigratedFirst == \A s \in Migrates : Present(s) => s \in migrated
=============================================================================
