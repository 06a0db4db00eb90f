-------------------------------- MODULE Host --------------------------------
(***************************************************************************)
(* Several applications on one machine.  They share the ports of the        *)
(* loopback address and Docker's container names, with each other and with  *)
(* whatever else runs there.                                               *)
(*                                                                         *)
(* A service with an access proxy listens on fixed ports, or on one that is *)
(* found free, released, written into its container's configuration, and   *)
(* listened on only when the container is up, and then only if the test    *)
(* demands the proxy: fx calls NewProxy for no other reason.  Applications *)
(* of one process share their fate: the kernel closes its sockets when it  *)
(* exits, and the reaper removes its containers some time afterwards.      *)
(***************************************************************************)
EXTENDS Naturals

CONSTANTS
    Apps,
    Processes,
    Process,    \* the process each application runs in
    Units,      \* the services of the applications
    Owner,      \* the application of each
    Name,       \* the name of its container: mock-<prefix>-<tag>
    ContainerNames,
    Ports,
    Fixed,      \* the ports its proxies are bound to by the code
    Dynamic     \* the services that have the kernel choose one

ASSUME ProcessAssumption == Process \in [Apps -> Processes]
ASSUME OwnerAssumption == Owner \in [Units -> Apps]
ASSUME NameAssumption == Name \in [Units -> ContainerNames]
ASSUME FixedAssumption == Fixed \in [Units -> SUBSET Ports]
ASSUME DynamicAssumption == Dynamic \subseteq Units

\* Who holds a port that no service of these applications holds.
Free  == "free"
Other == "other"
ASSUME UnitsAssumption == Free \notin Units /\ Other \notin Units

VARIABLES
    holder,   \* who listens on each port
    named,    \* whose container has each name
    port,     \* the port injected into New and NewProxy of each service
    config,   \* the ports its container was configured to be reached at
    open,     \* those for which a NewProxy of it has returned a proxy that is not closed
    stage,    \* how far each service is
    fate      \* of each application

vars == <<holder, named, port, config, open, stage, fate>>

Own(a) == {u \in Units : Owner[u] = a}

Fates == {"idle", "building", "running", "stopping", "stopped", "failed", "gone"}

TypeOK ==
    /\ holder \in [Ports -> Units \cup {Free, Other}]
    /\ named \in [ContainerNames -> Units \cup {Free}]
    /\ port \in [Units -> SUBSET Ports] /\ config \in [Units -> SUBSET Ports]
    /\ open \in [Units -> SUBSET Ports]
    /\ stage \in [Units -> {"none", "allocated", "created", "closed", "kept"}]
    /\ fate \in [Apps -> Fates]

Init ==
    /\ holder = [p \in Ports |-> Free]
    /\ named = [n \in ContainerNames |-> Free]
    /\ port = [u \in Units |-> {}]
    /\ config = [u \in Units |-> {}]
    /\ open = [u \in Units |-> {}]
    /\ stage = [u \in Units |-> "none"]
    /\ fate = [a \in Apps |-> "idle"]

Wanted(u) == Fixed[u] \cup port[u]

Building(u, at) == fate[Owner[u]] = "building" /\ stage[u] = at

Fail(u) == fate' = [fate EXCEPT ![Owner[u]] = "failed"]

--------------------------------------------------------------------------------
(* fx.New *)

Begin(a) ==
    /\ fate[a] = "idle"
    /\ fate' = [fate EXCEPT ![a] = "building"]
    /\ UNCHANGED <<holder, named, port, config, open, stage>>

\* Mutant: the address that was asked for is used, not the one that was given.
AllocateUnresolved(u) ==
    /\ Building(u, "none")
    /\ port' = [port EXCEPT ![u] = IF u \in Dynamic THEN {0} ELSE {}]
    /\ stage' = [stage EXCEPT ![u] = "allocated"]
    /\ UNCHANGED <<holder, named, config, open, fate>>

\* The listener that finds the port is closed on return: nobody holds it then.
Allocate(u) ==
    /\ Building(u, "none")
    /\ IF u \in Dynamic
       THEN \E p \in Ports : holder[p] = Free /\ port' = [port EXCEPT ![u] = {p}]
       ELSE UNCHANGED port
    /\ stage' = [stage EXCEPT ![u] = "allocated"]
    /\ UNCHANGED <<holder, named, config, open, fate>>

AllocateFails(u) ==
    /\ Building(u, "none")
    /\ u \in Dynamic /\ \A p \in Ports : holder[p] # Free
    /\ Fail(u)
    /\ UNCHANGED <<holder, named, port, config, open, stage>>

Create(u) ==
    /\ Building(u, "allocated")
    /\ named[Name[u]] = Free
    /\ named' = [named EXCEPT ![Name[u]] = u]
    /\ config' = [config EXCEPT ![u] = Wanted(u)]
    /\ stage' = [stage EXCEPT ![u] = "created"]
    /\ UNCHANGED <<holder, port, open, fate>>

\* Mutant: Actualize tries again until the name is free.
CreateWaits(u) == FALSE

\* Docker refuses a second container of a name.
CreateFails(u) ==
    /\ Building(u, "allocated")
    /\ named[Name[u]] # Free
    /\ Fail(u)
    /\ UNCHANGED <<holder, named, port, config, open, stage>>

\* Mutant: a port that is taken is shared.
ListenShared(u, p) ==
    /\ Building(u, "created")
    /\ p \in Wanted(u) /\ holder[p] # u
    /\ holder' = [holder EXCEPT ![p] = u]
    /\ open' = [open EXCEPT ![u] = @ \cup {p}]
    /\ UNCHANGED <<named, port, config, stage, fate>>

Listen(u, p) ==
    /\ Building(u, "created")
    /\ p \in Wanted(u) /\ holder[p] = Free
    /\ holder' = [holder EXCEPT ![p] = u]
    /\ open' = [open EXCEPT ![u] = @ \cup {p}]
    /\ UNCHANGED <<named, port, config, stage, fate>>

ListenFails(u, p) ==
    /\ Building(u, "created")
    /\ p \in Wanted(u) /\ holder[p] \notin {Free, u}
    /\ Fail(u)
    /\ UNCHANGED <<holder, named, port, config, open, stage>>

\* Every container has been made, and those proxies the test demands.
Run(a) ==
    /\ fate[a] = "building"
    /\ \A u \in Own(a) : stage[u] = "created"
    /\ fate' = [fate EXCEPT ![a] = "running"]
    /\ UNCHANGED <<holder, named, port, config, open, stage>>

--------------------------------------------------------------------------------
(* fx's Stop *)

Stop(a) ==
    /\ fate[a] = "running"
    /\ fate' = [fate EXCEPT ![a] = "stopping"]
    /\ UNCHANGED <<holder, named, port, config, open, stage>>

\* What is held by any of a set of services becomes free.
Released(table, us) == [x \in DOMAIN table |-> IF table[x] \in us THEN Free ELSE table[x]]

\* A proxy's hook runs before the one of its container.
CloseProxies(u) ==
    /\ fate[Owner[u]] = "stopping" /\ stage[u] = "created"
    /\ holder' = Released(holder, {u})
    /\ open' = [open EXCEPT ![u] = {}]
    /\ stage' = [stage EXCEPT ![u] = "closed"]
    /\ UNCHANGED <<named, port, config, fate>>

\* Mutant: the container is stopped, and keeps its name.
TerminateKeeps(u) ==
    /\ fate[Owner[u]] = "stopping" /\ stage[u] = "closed"
    /\ stage' = [stage EXCEPT ![u] = "none"]
    /\ UNCHANGED <<holder, named, port, config, open, fate>>

Terminate(u) ==
    /\ fate[Owner[u]] = "stopping" /\ stage[u] = "closed"
    /\ named' = Released(named, {u})
    /\ stage' = [stage EXCEPT ![u] = "none"]
    /\ UNCHANGED <<holder, port, config, open, fate>>

\* fx goes on with the other hooks.
TerminateFails(u) ==
    /\ fate[Owner[u]] = "stopping" /\ stage[u] = "closed"
    /\ stage' = [stage EXCEPT ![u] = "kept"]
    /\ UNCHANGED <<holder, named, port, config, open, fate>>

Stopped(a) ==
    /\ fate[a] = "stopping"
    /\ \A u \in Own(a) : stage[u] \in {"none", "kept"}
    /\ fate' = [fate EXCEPT ![a] =
                   IF \E u \in Own(a) : stage[u] = "kept" THEN "failed" ELSE "stopped"]
    /\ UNCHANGED <<holder, named, port, config, open, stage>>

\* The deadline passes before every hook has run, or the hooks were the rollback of a
\* Start that failed half way: those that did not start do not stop.
StopFails(a) ==
    /\ fate[a] = "stopping"
    /\ fate' = [fate EXCEPT ![a] = "failed"]
    /\ UNCHANGED <<holder, named, port, config, open, stage>>

--------------------------------------------------------------------------------
(* The machine *)

In(q) == {u \in Units : Process[Owner[u]] = q}

\* The process ends, by itself or not, whatever its applications are doing.
Exit(q) ==
    /\ \E a \in Apps : Process[a] = q /\ fate[a] # "gone"
    /\ fate' = [a \in Apps |-> IF Process[a] = q THEN "gone" ELSE fate[a]]
    /\ holder' = Released(holder, In(q))
    /\ port' = [u \in Units |-> IF u \in In(q) THEN {} ELSE port[u]]
    /\ config' = [u \in Units |-> IF u \in In(q) THEN {} ELSE config[u]]
    /\ open' = [u \in Units |-> IF u \in In(q) THEN {} ELSE open[u]]
    /\ stage' = [u \in Units |-> IF u \in In(q) THEN "none" ELSE stage[u]]
    /\ UNCHANGED named

Exited(q) == \A a \in Apps : Process[a] = q => fate[a] = "gone"

\* The reaper removes the containers of a process that has exited.
Reap(q) ==
    /\ Exited(q)
    /\ \E n \in ContainerNames : named[n] \in In(q)
    /\ named' = Released(named, In(q))
    /\ UNCHANGED <<holder, port, config, open, stage, fate>>

\* Another program, or Docker for the ports it maps, listens on a port or stops to.
Intrude(p) ==
    /\ holder[p] \in {Free, Other}
    /\ holder' = [holder EXCEPT ![p] = IF @ = Free THEN Other ELSE Free]
    /\ UNCHANGED <<named, port, config, open, stage, fate>>

Construct(a) ==
    \E u \in Own(a) :
        \/ Allocate(u) \/ AllocateFails(u) \/ Create(u) \/ CreateFails(u)
        \/ \E p \in Ports : Listen(u, p) \/ ListenFails(u, p)

Unwind(a) == \E u \in Own(a) : CloseProxies(u) \/ Terminate(u) \/ TerminateFails(u)

Next ==
    \/ \E a \in Apps : Begin(a) \/ Construct(a) \/ Run(a) \/ Stop(a) \/ Unwind(a) \/ Stopped(a) \/ StopFails(a)
    \/ \E q \in Processes : Exit(q) \/ Reap(q)
    \/ \E p \in Ports : Intrude(p)

Spec == Init /\ [][Next]_vars

\* Constructors and OnStop hooks run to their ends.
Fairness ==
    \A a \in Apps : WF_vars(Construct(a) \/ Run(a) \/ Unwind(a) \/ Stopped(a))

FairSpec == Spec /\ Fairness

--------------------------------------------------------------------------------
(* Properties *)

\* The address a NewProxy has returned is the one its container was configured with, and
\* leads a client to that proxy and to that container, from then on until the proxy is closed:
\* a port found free long before was neither lost on the way nor given to two services, and
\* no application that begins, fails, stops or is killed meanwhile takes the port or the name
\* (livekit/proxy.go:43, mailslurper/proxy.go:30, the ListenAddress tests connect to).
OpenIsServed ==
    \A u \in Units : \A p \in open[u] :
        holder[p] = u /\ p \in config[u] /\ named[Name[u]] = u

\* After Stop returns nil an application holds nothing a later one needs: no port that a
\* listener was left on, and no name, whichever order its hooks ran in (proxy.go OnStop,
\* Actualize's OnStop).
CleanStop ==
    \A u \in Units : fate[Owner[u]] = "stopped" =>
        /\ \A p \in Ports : holder[p] # u
        /\ \A n \in ContainerNames : named[n] # u

\* Nobody waits for a port or a name that another holds: fx.New fails when one is taken,
\* and so does not hang whatever the others do; nor does Stop wait for its clients.  As an
\* application builds once and stops once, it is in the end in neither for good.
NothingWaits ==
    \A a \in Apps : <>[](fate[a] \notin {"building", "stopping"})
=============================================================================
