----------------------------- MODULE HostProofs -----------------------------
(***************************************************************************)
(* Proofs about Host, for any number of applications, processes, services,  *)
(* names and ports, and any prefixes and fixed ports.                      *)
(***************************************************************************)
EXTENDS Host, TLAPS

\* Only a service whose proxies are open listens, and only where it wants to.
Listeners ==
    \A u \in Units : \A p \in Ports :
        holder[p] = u => stage[u] = "created" /\ p \in Wanted(u)

\* A name belongs to the service it was made for, from Create on, until it is terminated or
\* the reaper has come.
Names ==
    \A u \in Units : \A n \in ContainerNames :
        named[n] = u =>
            /\ n = Name[u]
            /\ stage[u] \in {"created", "closed", "kept"} \/ fate[Owner[u]] = "gone"

\* A container that is up has its name, and the ports it was configured with are those its
\* proxies want.
Configured ==
    \A u \in Units : stage[u] = "created" => named[Name[u]] = u /\ config[u] = Wanted(u)

\* An open proxy listens, at a port its service wants, and its container is up.
Opened ==
    \A u \in Units : \A p \in open[u] :
        holder[p] = u /\ stage[u] = "created" /\ p \in Wanted(u)

\* An application that has stopped or is gone has nothing under way.
Fated ==
    \A u \in Units : fate[Owner[u]] \in {"stopped", "gone"} => stage[u] = "none"

HInv == TypeOK /\ Listeners /\ Names /\ Configured /\ Opened /\ Fated

LEMMA HInvInit == Init => HInv
<1> SUFFICES ASSUME Init PROVE HInv
  OBVIOUS
<1>1. TypeOK
  BY DEF Init, TypeOK, Fates
<1>2. Listeners /\ Names /\ Configured /\ Opened /\ Fated
  BY UnitsAssumption, NameAssumption, OwnerAssumption
     DEF Init, Listeners, Names, Configured, Opened, Fated, UnitsAssumption, NameAssumption,
         OwnerAssumption
<1>3. QED
  BY <1>1, <1>2 DEF HInv

\* The invariant, without the types.
Parts == Listeners /\ Names /\ Configured /\ Opened /\ Fated

LEMMA TypeStep ==
  ASSUME TypeOK, [Next]_vars
  PROVE  TypeOK'
<1> USE ProcessAssumption, OwnerAssumption, NameAssumption, FixedAssumption
    DEF ProcessAssumption, OwnerAssumption, NameAssumption, FixedAssumption, TypeOK, Fates
<1>1. ASSUME NEW a \in Apps, Begin(a) \/ Run(a) \/ Stop(a) \/ Stopped(a) \/ StopFails(a)
      PROVE  TypeOK'
  BY <1>1 DEF Begin, Run, Stop, Stopped, StopFails
<1>2. ASSUME NEW u \in Units, Allocate(u) PROVE TypeOK'
  BY <1>2 DEF Allocate
<1>3. ASSUME NEW u \in Units, Create(u) PROVE TypeOK'
  BY <1>3 DEF Create, Wanted
<1>4. ASSUME NEW u \in Units, AllocateFails(u) \/ CreateFails(u) PROVE TypeOK'
  BY <1>4 DEF AllocateFails, CreateFails, Fail
<1>5. ASSUME NEW u \in Units, NEW p \in Ports, Listen(u, p) \/ ListenFails(u, p) PROVE TypeOK'
  BY <1>5 DEF Listen, ListenFails, Fail
<1>6. ASSUME NEW u \in Units, CloseProxies(u) PROVE TypeOK'
  BY <1>6 DEF CloseProxies, Released
<1>7. ASSUME NEW u \in Units, Terminate(u) \/ TerminateFails(u) PROVE TypeOK'
  BY <1>7 DEF Terminate, TerminateFails, Released
<1>8. ASSUME NEW q \in Processes, Exit(q) PROVE TypeOK'
  BY <1>8 DEF Exit, Released
<1>9. ASSUME NEW q \in Processes, Reap(q) PROVE TypeOK'
  BY <1>9 DEF Reap, Released
<1>10. ASSUME NEW p \in Ports, Intrude(p) PROVE TypeOK'
  BY <1>10 DEF Intrude
<1>11. CASE UNCHANGED vars
  BY <1>11 DEF vars
<1>12. QED
  BY <1>1, <1>2, <1>3, <1>4, <1>5, <1>6, <1>7, <1>8, <1>9, <1>10, <1>11
     DEF Next, Construct, Unwind, Own

LEMMA PartsStep ==
  ASSUME HInv, TypeOK', [Next]_vars
  PROVE  Parts'
<1> USE ProcessAssumption, OwnerAssumption, NameAssumption, FixedAssumption, UnitsAssumption
    DEF ProcessAssumption, OwnerAssumption, NameAssumption, FixedAssumption, UnitsAssumption,
        HInv, Parts, TypeOK
<1>1. ASSUME NEW a \in Apps, Begin(a) \/ Run(a) \/ Stop(a) \/ Stopped(a) \/ StopFails(a)
      PROVE  Parts'
  <2>1. UNCHANGED <<holder, named, port, config, open, stage>>
    BY <1>1 DEF Begin, Run, Stop, Stopped, StopFails
  <2>2. fate[a] \in {"idle", "building", "running", "stopping"}
        /\ fate' = [fate EXCEPT ![a] = fate'[a]]
    BY <1>1 DEF Begin, Run, Stop, Stopped, StopFails
  <2>3. Listeners' /\ Names' /\ Configured' /\ Opened'
    BY <2>1, <2>2 DEF Listeners, Names, Configured, Opened, Wanted
  <2>4. ASSUME NEW u \in Units, Owner[u] = a, fate'[a] \in {"stopped", "gone"}
        PROVE  stage[u] = "none"
    BY <1>1, <2>4 DEF Begin, Run, Stop, Stopped, StopFails, Own
  <2>5. Fated'
    BY <2>1, <2>2, <2>4 DEF Fated
  <2>6. QED
    BY <2>3, <2>5
<1>2. ASSUME NEW u \in Units, Allocate(u) PROVE Parts'
  <2>1. /\ fate[Owner[u]] = "building" /\ stage[u] = "none"
        /\ stage' = [stage EXCEPT ![u] = "allocated"]
        /\ \A v \in Units \ {u} : port'[v] = port[v]
        /\ UNCHANGED <<holder, named, config, open, fate>>
    BY <1>2 DEF Allocate, Building
  <2>2. \A v \in Units \ {u} : Wanted(v)' = Wanted(v)
    BY <2>1 DEF Wanted
  <2>3. \A p \in Ports : holder[p] # u
    BY <2>1 DEF Listeners
  <2>4. Listeners' /\ Names' /\ Configured' /\ Fated'
    BY <2>1, <2>2, <2>3 DEF Listeners, Names, Configured, Fated
  <2>5. open[u] = {}
    BY <2>1 DEF Opened
  <2>6. Opened'
    BY <2>1, <2>2, <2>5 DEF Opened
  <2>7. QED
    BY <2>4, <2>6
<1>3. ASSUME NEW u \in Units, Create(u) PROVE Parts'
  <2>1. /\ fate[Owner[u]] = "building" /\ stage[u] = "allocated" /\ named[Name[u]] = Free
        /\ stage' = [stage EXCEPT ![u] = "created"]
        /\ named' = [named EXCEPT ![Name[u]] = u]
        /\ config' = [config EXCEPT ![u] = Wanted(u)]
        /\ UNCHANGED <<holder, port, open, fate>>
    BY <1>3 DEF Create, Building
  <2>2. \A v \in Units : Wanted(v)' = Wanted(v)
    BY <2>1 DEF Wanted
  <2>3. Listeners' /\ Names' /\ Fated' /\ Opened'
    BY <2>1, <2>2 DEF Listeners, Names, Fated, Opened
  <2>4. Configured'
    BY <2>1, <2>2 DEF Configured
  <2>5. QED
    BY <2>3, <2>4
<1>4. ASSUME NEW u \in Units,
             AllocateFails(u) \/ CreateFails(u) \/ \E p \in Ports : ListenFails(u, p)
      PROVE  Parts'
  <2>1. /\ UNCHANGED <<holder, named, port, config, open, stage>>
        /\ fate[Owner[u]] = "building" /\ fate' = [fate EXCEPT ![Owner[u]] = "failed"]
    BY <1>4 DEF AllocateFails, CreateFails, ListenFails, Fail, Building
  <2>2. QED
    BY <2>1 DEF Listeners, Names, Configured, Opened, Fated, Wanted
<1>5. ASSUME NEW u \in Units, NEW p \in Ports, Listen(u, p) PROVE Parts'
  <2>1. /\ fate[Owner[u]] = "building" /\ stage[u] = "created"
        /\ p \in Wanted(u) /\ holder[p] = Free
        /\ holder' = [holder EXCEPT ![p] = u]
        /\ open' = [open EXCEPT ![u] = open[u] \cup {p}]
        /\ UNCHANGED <<named, port, config, stage, fate>>
    BY <1>5 DEF Listen, Building
  <2>2. Wanted(u) \subseteq Ports /\ \A v \in Units : Wanted(v)' = Wanted(v)
    BY <2>1 DEF Wanted
  <2>3. Listeners' /\ Names' /\ Configured'
    BY <2>1, <2>2 DEF Listeners, Names, Configured
  <2>4. Opened'
    <3> SUFFICES ASSUME NEW v \in Units, NEW r \in open'[v]
                 PROVE  holder'[r] = v /\ stage[v] = "created" /\ r \in Wanted(v)
      BY <2>1, <2>2 DEF Opened
    <3>1. CASE v = u /\ r = p
      BY <2>1, <3>1
    <3>2. CASE ~(v = u /\ r = p)
      <4>1. r \in open[v] /\ r \in Ports
        BY <2>1, <3>2
      <4>2. holder[r] = v /\ stage[v] = "created" /\ r \in Wanted(v)
        BY <4>1 DEF Opened
      <4>3. QED
        BY <2>1, <4>1, <4>2
    <3>3. QED
      BY <3>1, <3>2
  <2>5. Fated'
    BY <2>1 DEF Fated
  <2>6. QED
    BY <2>3, <2>4, <2>5
<1>6. ASSUME NEW u \in Units, CloseProxies(u) PROVE Parts'
  <2>1. /\ fate[Owner[u]] = "stopping" /\ stage[u] = "created"
        /\ stage' = [stage EXCEPT ![u] = "closed"]
        /\ open' = [open EXCEPT ![u] = {}]
        /\ UNCHANGED <<named, port, config, fate>>
        /\ holder' \in [Ports -> Units \cup {Free, Other}]
        /\ \A p \in Ports : holder'[p] = IF holder[p] = u THEN Free ELSE holder[p]
    BY <1>6 DEF CloseProxies, Released
  <2>2. \A v \in Units : Wanted(v)' = Wanted(v) /\ Wanted(v) \subseteq Ports
    BY <2>1 DEF Wanted
  <2>3. Listeners' /\ Names' /\ Configured'
    BY <2>1, <2>2 DEF Listeners, Names, Configured
  <2>4. Opened'
    BY <2>1, <2>2 DEF Opened
  <2>5. Fated'
    BY <2>1 DEF Fated
  <2>6. QED
    BY <2>3, <2>4, <2>5
<1>7. ASSUME NEW u \in Units, Terminate(u) PROVE Parts'
  <2>1. /\ fate[Owner[u]] = "stopping" /\ stage[u] = "closed"
        /\ stage' = [stage EXCEPT ![u] = "none"]
        /\ UNCHANGED <<holder, port, config, open, fate>>
        /\ \A n \in ContainerNames : named'[n] = IF named[n] = u THEN Free ELSE named[n]
    BY <1>7 DEF Terminate, Released
  <2>2. \A v \in Units : Wanted(v)' = Wanted(v)
    BY <2>1 DEF Wanted
  <2>3. Listeners' /\ Names'
    BY <2>1, <2>2 DEF Listeners, Names
  <2>4. Configured' /\ Opened' /\ Fated'
    BY <2>1, <2>2 DEF Configured, Opened, Fated
  <2>5. QED
    BY <2>3, <2>4
<1>8. ASSUME NEW u \in Units, TerminateFails(u) PROVE Parts'
  <2>1. /\ fate[Owner[u]] = "stopping" /\ stage[u] = "closed"
        /\ stage' = [stage EXCEPT ![u] = "kept"]
        /\ UNCHANGED <<holder, named, port, config, open, fate>>
    BY <1>8 DEF TerminateFails
  <2>2. \A v \in Units : Wanted(v)' = Wanted(v)
    BY <2>1 DEF Wanted
  <2>3. QED
    BY <2>1, <2>2 DEF Listeners, Names, Configured, Opened, Fated
<1>9. ASSUME NEW q \in Processes, Exit(q) PROVE Parts'
  <2>1. /\ \A u \in In(q) : fate'[Owner[u]] = "gone" /\ stage'[u] = "none"
              /\ open'[u] = {}
        /\ \A u \in Units \ In(q) :
              /\ fate'[Owner[u]] = fate[Owner[u]] /\ stage'[u] = stage[u]
              /\ port'[u] = port[u] /\ config'[u] = config[u] /\ open'[u] = open[u]
        /\ \A p \in Ports : holder'[p] = IF holder[p] \in In(q) THEN Free ELSE holder[p]
        /\ named' = named
    BY <1>9 DEF Exit, Released, In
  <2>2. \A u \in Units \ In(q) : Wanted(u)' = Wanted(u) /\ Wanted(u) \subseteq Ports
    BY <2>1 DEF Wanted
  <2>3. In(q) \subseteq Units
    BY DEF In
  <2>4. Listeners' /\ Names'
    BY <2>1, <2>2, <2>3 DEF Listeners, Names
  <2>5. Configured' /\ Opened' /\ Fated'
    BY <2>1, <2>2, <2>3 DEF Configured, Opened, Fated
  <2>6. QED
    BY <2>4, <2>5
<1>10. ASSUME NEW q \in Processes, Reap(q) PROVE Parts'
  <2>1. /\ \A n \in ContainerNames : named'[n] = IF named[n] \in In(q) THEN Free ELSE named[n]
        /\ UNCHANGED <<holder, port, config, open, stage, fate>>
        /\ \A u \in In(q) : fate[Owner[u]] = "gone"
    BY <1>10 DEF Reap, Released, Exited, In
  <2>2. \A v \in Units : Wanted(v)' = Wanted(v)
    BY <2>1 DEF Wanted
  <2>3. \A u \in In(q) : u \in Units /\ stage[u] = "none"
    BY <2>1 DEF Fated, In
  <2>4. Listeners' /\ Names' /\ Opened' /\ Fated'
    BY <2>1, <2>2 DEF Listeners, Names, Opened, Fated
  <2>5. Configured'
    BY <2>1, <2>2, <2>3 DEF Configured
  <2>6. QED
    BY <2>4, <2>5
<1>11. ASSUME NEW p \in Ports, Intrude(p) PROVE Parts'
  <2>1. /\ holder[p] \in {Free, Other} /\ holder'[p] \in {Free, Other}
        /\ \A r \in Ports \ {p} : holder'[r] = holder[r]
        /\ UNCHANGED <<named, port, config, open, stage, fate>>
    BY <1>11 DEF Intrude
  <2>2. \A v \in Units : Wanted(v)' = Wanted(v) /\ Wanted(v) \subseteq Ports
    BY <2>1 DEF Wanted
  <2>3. Listeners' /\ Names' /\ Configured'
    BY <2>1, <2>2 DEF Listeners, Names, Configured
  <2>4. Opened' /\ Fated'
    BY <2>1, <2>2 DEF Opened, Fated
  <2>5. QED
    BY <2>3, <2>4
<1>12. CASE UNCHANGED vars
  BY <1>12 DEF vars, Listeners, Names, Configured, Opened, Fated, Wanted
<1>13. QED
  BY <1>1, <1>2, <1>3, <1>4, <1>5, <1>6, <1>7, <1>8, <1>9, <1>10, <1>11, <1>12
     DEF Next, Construct, Unwind, Own

LEMMA HInvHolds == Spec => []HInv
<1>1. HInv /\ [Next]_vars => HInv'
  BY TypeStep, PartsStep DEF HInv, Parts
<1>2. QED
  BY <1>1, HInvInit, PTL DEF Spec

\* The state of the machine has its types.
THEOREM TypeCorrect == Spec => []TypeOK
<1>1. HInv => TypeOK
  BY DEF HInv
<1>2. QED
  BY <1>1, HInvHolds, PTL

\* A client of an open proxy reaches it, and its container, at the port the container was
\* configured with.
THEOREM ProxiesServe == Spec => []OpenIsServed
<1>1. HInv => OpenIsServed
  BY DEF HInv, OpenIsServed, Configured, Opened
<1>2. QED
  BY <1>1, HInvHolds, PTL

\* An application whose Stop returned nil has left nothing behind.
THEOREM StopsClean == Spec => []CleanStop
<1>1. HInv => CleanStop
  BY DEF HInv, CleanStop, Listeners, Names, Fated
<1>2. QED
  BY <1>1, HInvHolds, PTL
=============================================================================
