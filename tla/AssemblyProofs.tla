---------------------------- MODULE AssemblyProofs ----------------------------
(***************************************************************************)
(* Proofs about Assembly, for every set of packages and options, every      *)
(* relation of needs, and every order in which options are applied.        *)
(***************************************************************************)
EXTENDS Assembly, TLAPS

\* A request has its six parts, and a sequence of hooks.
IsRequest(r) ==
    /\ r = [env |-> r.env, fields |-> r.fields, files |-> r.files,
            args |-> r.args, ports |-> r.ports, hooks |-> r.hooks]
    /\ r.hooks \in Seq(Hooks)

\* An option makes a request of a request, and adds its own hooks behind.
LEMMA CustomizeRequest ==
  ASSUME NEW r, IsRequest(r), NEW o, o.hooks \in Seq(Hooks)
  PROVE  IsRequest(Customize(o, r))
<1>1. r.hooks \in Seq(Hooks)
  BY DEF IsRequest
<1>2. r.hooks \o o.hooks \in Seq(Hooks)
  BY <1>1
<1>3. QED
  BY <1>2 DEF IsRequest, Customize

\* What an option adds is there, what it replaces is replaced, and the rest stays.
LEMMA CustomizeAdds ==
  ASSUME NEW r, IsRequest(r), NEW o, o.hooks \in Seq(Hooks)
  PROVE  /\ \A k \in DOMAIN o.env : Customize(o, r).env[k] = o.env[k]
         /\ \A k \in DOMAIN r.env \ DOMAIN o.env : Customize(o, r).env[k] = r.env[k]
         /\ \A k \in DOMAIN o.defaults \ (DOMAIN o.env \cup DOMAIN r.env) :
              Customize(o, r).env[k] = o.defaults[k]
         /\ DOMAIN Customize(o, r).env = DOMAIN r.env \cup DOMAIN o.env \cup DOMAIN o.defaults
         /\ DOMAIN Customize(o, r).fields = DOMAIN r.fields \cup DOMAIN o.fields
         /\ \A f \in DOMAIN o.fields : Customize(o, r).fields[f] = o.fields[f]
         /\ \A f \in DOMAIN r.fields \ DOMAIN o.fields : Customize(o, r).fields[f] = r.fields[f]
         /\ DOMAIN Customize(o, r).files = DOMAIN r.files \cup DOMAIN o.files
         /\ \A p \in DOMAIN o.files : Customize(o, r).files[p] = o.files[p]
         /\ \A p \in DOMAIN r.files \ DOMAIN o.files : Customize(o, r).files[p] = r.files[p]
         /\ Customize(o, r).args = r.args \cup o.args
         /\ Customize(o, r).ports = r.ports \cup o.ports
<1>1. QED
  BY DEF Customize, Over

LEMMA CustomizeHooks ==
  ASSUME NEW r, IsRequest(r), NEW o, o.hooks \in Seq(Hooks)
  PROVE  HooksOf(Customize(o, r)) = HooksOf(r) \cup HooksOf(o)
<1> DEFINE a == r.hooks
           b == o.hooks
           c == Customize(o, r).hooks
<1>1. a \in Seq(Hooks) /\ b \in Seq(Hooks) /\ c = a \o b
  BY DEF IsRequest, Customize
<1> HIDE DEF a, b, c
<1>2. /\ Len(a) \in Nat /\ Len(b) \in Nat
      /\ DOMAIN a = 1 .. Len(a) /\ DOMAIN b = 1 .. Len(b) /\ DOMAIN c = 1 .. Len(a) + Len(b)
      /\ \A i \in 1 .. Len(a) + Len(b) : c[i] = IF i <= Len(a) THEN a[i] ELSE b[i - Len(a)]
  BY <1>1
<1>3. ASSUME NEW h, h \in {c[i] : i \in DOMAIN c}
      PROVE  h \in {a[i] : i \in DOMAIN a} \/ h \in {b[i] : i \in DOMAIN b}
  BY <1>2, <1>3
<1>4. ASSUME NEW h, h \in {a[i] : i \in DOMAIN a}
      PROVE  h \in {c[i] : i \in DOMAIN c}
  BY <1>2, <1>4
<1>5. ASSUME NEW h, h \in {b[i] : i \in DOMAIN b}
      PROVE  h \in {c[i] : i \in DOMAIN c}
  <2>1. PICK i \in 1 .. Len(b) : h = b[i]
    BY <1>2, <1>5
  <2>2. Len(a) + i \in DOMAIN c /\ c[Len(a) + i] = h
    BY <1>2, <2>1
  <2>3. QED
    BY <2>2
<1>6. {c[i] : i \in DOMAIN c} = {a[i] : i \in DOMAIN a} \cup {b[i] : i \in DOMAIN b}
  BY <1>3, <1>4, <1>5
<1>7. QED
  BY <1>6 DEF HooksOf, a, b, c

\* Maps that have no entry in common.
Apart(f, g) == DOMAIN f \cap DOMAIN g = {}

\* Options that set different entries may be applied in either order, which the group does
\* not fix (main.go:35): only their hooks, which are appended, tell the orders apart.
THEOREM OptionsCommute ==
  ASSUME NEW r, NEW o, NEW p,
         Apart(o.env, p.env), Apart(o.env, p.defaults), Apart(o.defaults, p.env),
         Apart(o.defaults, p.defaults), Apart(o.fields, p.fields), Apart(o.files, p.files)
  PROVE  LET oLast == Customize(o, Customize(p, r))
             pLast == Customize(p, Customize(o, r))
         IN  /\ oLast.env = pLast.env /\ oLast.fields = pLast.fields /\ oLast.files = pLast.files
             /\ oLast.args = pLast.args /\ oLast.ports = pLast.ports
<1>1. ASSUME NEW f, NEW g, NEW e, Apart(f, g) PROVE Over(f, Over(g, e)) = Over(g, Over(f, e))
  BY <1>1 DEF Apart, Over
<1>2. Over(o.env, Over(Over(p.env, Over(r.env, p.defaults)), o.defaults))
        = Over(p.env, Over(Over(o.env, Over(r.env, o.defaults)), p.defaults))
  BY DEF Apart, Over
<1>3. /\ Over(o.fields, Over(p.fields, r.fields)) = Over(p.fields, Over(o.fields, r.fields))
      /\ Over(o.files, Over(p.files, r.files)) = Over(p.files, Over(o.files, r.files))
  BY <1>1
<1>4. /\ (r.args \cup p.args) \cup o.args = (r.args \cup o.args) \cup p.args
      /\ (r.ports \cup p.ports) \cup o.ports = (r.ports \cup o.ports) \cup p.ports
  OBVIOUS
<1>5. QED
  BY <1>2, <1>3, <1>4 DEF Customize

-----------------------------------------------------------------------------
\* The options of an application are requests' parts, and so is what New applies last.
LEMMA OptionHooks ==
  ASSUME supplied \in Compositions, NEW s \in App
  PROVE  /\ s \in Packages
         /\ Last[s].hooks \in Seq(Hooks)
         /\ \A o \in OptionsOf(s) : o \in Chosen /\ o.hooks \in Seq(Hooks)
<1>1. s \in Packages
  BY CompositionsAssumption DEF CompositionsAssumption, App
<1>2. Last[s] \in Chosen
  BY <1>1 DEF Chosen
<1>3. \A o \in supplied[s] : o \in Chosen
  BY DEF Chosen, App
<1>4. QED
  BY <1>1, <1>2, <1>3, RequestsAssumption DEF RequestsAssumption, OptionsOf, Supplies

\* The variables are functions of the application's services.
Shape ==
    /\ supplied \in Compositions
    /\ fate \in {"building", "built", "failed", "panicked"}
    /\ DOMAIN pc = App /\ DOMAIN pending = App /\ DOMAIN req = App
    /\ DOMAIN job = App /\ DOMAIN server = App /\ DOMAIN seen = App

\* What is known of one service, by how far it is.
Local(s) ==
    /\ pc[s] \in States
    /\ pending[s] \subseteq OptionsOf(s)
    /\ pc[s] \notin {"none", "customizing"} => pending[s] = {}
    /\ IsRequest(req[s])
    /\ pc[s] \notin {"hooks", "running"} => server[s] = None /\ seen[s] = <<>>
    /\ pc[s] \notin {"migrated", "hooks", "running"} => job[s] = None
    /\ job[s] = None \/ (s \in Migrates /\ job[s] = Container(JobRequest(req[s]), {}))
    /\ pc[s] \in {"hooks", "running"} =>
          /\ server[s] = Container(req[s], Drained(s))
          /\ seen[s] \in Seq({Observed(h, req[s]) : h \in Hooks})
          /\ Len(seen[s]) <= Len(req[s].hooks)
          /\ \A i \in 1 .. Len(seen[s]) : seen[s][i] = Observed(req[s].hooks[i], req[s])
    /\ pc[s] = "running" => Len(seen[s]) = Len(req[s].hooks)

\* Only one constructor runs at a time.
Alone == \A s, t \in App : pc[s] \notin Resting /\ pc[t] \notin Resting => s = t

AInv == Shape /\ Alone /\ \A s \in App : Local(s)

\* A step of one service.
Only(s) ==
    /\ UNCHANGED supplied
    /\ \A t \in App \ {s} :
          /\ pc'[t] = pc[t] /\ pending'[t] = pending[t] /\ req'[t] = req[t]
          /\ job'[t] = job[t] /\ server'[t] = server[t] /\ seen'[t] = seen[t]

Step(s) ==
    \/ NewRequest(s) \/ FinishNew(s)
    \/ \E o \in pending[s] : ApplyOption(s, o)
    \/ Link(s) \/ RunJob(s) \/ CreateServer(s) \/ RunHook(s) \/ Finish(s)

\* All the other steps only decide the fate of fx.New.
Verdict ==
    /\ UNCHANGED <<supplied, pending, pc, req, job, server, seen>>
    /\ fate' \in {"building", "built", "failed", "panicked"}

LEMMA NextSteps ==
  ASSUME Shape, [Next]_vars
  PROVE  Verdict \/ \E s \in App : Step(s)
<1>1. CASE Built \/ Returned \/ UNCHANGED vars
  BY <1>1 DEF Built, Returned, vars, Verdict, Shape
<1>2. ASSUME NEW s \in App, LinkFails(s) \/ HookFails(s) PROVE Verdict
  BY <1>2 DEF LinkFails, HookFails, Verdict
<1>3. ASSUME NEW s \in App, NEW o \in pending[s], OptionFails(s, o) \/ OptionPanics(s, o)
      PROVE  Verdict
  BY <1>3 DEF OptionFails, OptionPanics, Verdict
<1>4. QED
  BY <1>1, <1>2, <1>3 DEF Next, Step

LEMMA StepShape ==
  ASSUME Shape, NEW s \in App, Step(s)
  PROVE  Shape' /\ Only(s) /\ fate' = fate
<1> USE DEF Shape, Only, App
<1>1. CASE NewRequest(s) \/ FinishNew(s)
  BY <1>1 DEF NewRequest, FinishNew
<1>2. ASSUME NEW o \in pending[s], ApplyOption(s, o) PROVE Shape' /\ Only(s) /\ fate' = fate
  BY <1>2 DEF ApplyOption
<1>3. CASE Link(s) \/ RunJob(s)
  BY <1>3 DEF Link, RunJob
<1>4. CASE CreateServer(s) \/ RunHook(s) \/ Finish(s)
  BY <1>4 DEF CreateServer, RunHook, Finish
<1>5. QED
  BY <1>1, <1>2, <1>3, <1>4 DEF Step

LEMMA LocalKept ==
  ASSUME NEW t \in App, Local(t), supplied' = supplied,
         pc'[t] = pc[t], pending'[t] = pending[t], req'[t] = req[t],
         job'[t] = job[t], server'[t] = server[t], seen'[t] = seen[t]
  PROVE  Local(t)'
<1>1. Drained(t)' = Drained(t) /\ OptionsOf(t)' = OptionsOf(t)
  BY DEF Drained, OptionsOf
<1>2. QED
  BY <1>1 DEF Local

\* The service that a step belongs to is, after it, as far as the step took it.
LEMMA LocalStep ==
  ASSUME Shape, NEW s \in App, Local(s), Step(s)
  PROVE  Local(s)'
<1> USE DEF App, Shape
<1>0. OptionsOf(s)' = OptionsOf(s) /\ s \in App'
  BY StepShape DEF Only, OptionsOf
<1>1. CASE NewRequest(s)
  <2>1. /\ pc[s] = "none" /\ pc'[s] = "customizing" /\ pending'[s] = OptionsOf(s)
        /\ UNCHANGED <<supplied, req, job, server, seen>>
    BY <1>1 DEF NewRequest, OptionsOf
  <2>2. QED
    BY <1>0, <2>1 DEF Local, States, Resting
<1>2. ASSUME NEW o \in pending[s], ApplyOption(s, o) PROVE Local(s)'
  <2>1. /\ pc[s] = "customizing" /\ pc'[s] = "customizing" /\ pending'[s] \subseteq pending[s]
        /\ req'[s] = Customize(o, req[s])
        /\ UNCHANGED <<supplied, job, server, seen>>
    BY <1>2 DEF ApplyOption
  <2>2. o.hooks \in Seq(Hooks) /\ IsRequest(req[s])
    BY OptionHooks DEF Local
  <2>3. IsRequest(req'[s])
    BY <2>1, <2>2, CustomizeRequest
  <2>4. /\ job'[s] = None /\ server'[s] = None /\ seen'[s] = <<>>
        /\ pending'[s] \subseteq OptionsOf(s)'
    BY <1>0, <2>1 DEF Local
  <2> HIDE DEF App, Shape
  <2>5. /\ pc'[s] \in States /\ pc'[s] \notin {"hooks", "running"}
        /\ pc'[s] \notin {"migrated", "hooks", "running"} /\ pc'[s] \in {"none", "customizing"}
    BY <2>1 DEF States, Resting
  <2>6. QED
    BY <2>3, <2>4, <2>5 DEF Local
<1>3. CASE FinishNew(s)
  <2>1. /\ pc[s] = "customizing" /\ pc'[s] = "requested" /\ pending'[s] = {}
        /\ req'[s] = Customize(Last[s], req[s])
        /\ UNCHANGED <<supplied, job, server, seen>>
    BY <1>3 DEF FinishNew
  <2>2. Last[s].hooks \in Seq(Hooks) /\ IsRequest(req[s])
    BY OptionHooks DEF Local
  <2>3. IsRequest(req'[s])
    BY <2>1, <2>2, CustomizeRequest
  <2>4. job[s] = None /\ server[s] = None /\ seen[s] = <<>>
    BY <2>1 DEF Local
  <2>5. QED
    BY <1>0, <2>1, <2>3, <2>4 DEF Local, States, Resting, IsRequest
<1>4. CASE Link(s)
  <2>1. /\ pc[s] = "requested" /\ pc'[s] = "linked"
        /\ req'[s] = [req[s] EXCEPT !.env = Over(Filled(s), req[s].env)]
        /\ UNCHANGED <<supplied, pending, job, server, seen>>
    BY <1>4 DEF Link, Injected
  <2>2. IsRequest(req'[s])
    BY <2>1 DEF Local, IsRequest
  <2>3. job[s] = None /\ server[s] = None /\ seen[s] = <<>> /\ pending[s] = {}
    BY <2>1 DEF Local
  <2>4. QED
    BY <1>0, <2>1, <2>2, <2>3 DEF Local, States, Resting, IsRequest
<1>5. CASE RunJob(s)
  <2>1. /\ pc[s] = "linked" /\ pc'[s] = "migrated" /\ s \in Migrates
        /\ job'[s] = Container(JobRequest(req[s]), {})
        /\ UNCHANGED <<supplied, pending, req, server, seen>>
    BY <1>5 DEF RunJob
  <2>2. server[s] = None /\ seen[s] = <<>> /\ pending[s] = {} /\ IsRequest(req[s])
    BY <2>1 DEF Local
  <2>3. QED
    BY <1>0, <2>1, <2>2 DEF Local, States, Resting, IsRequest
<1>6. CASE CreateServer(s)
  <2>1. /\ pc[s] \in {"linked", "migrated"} /\ pc'[s] = "hooks"
        /\ server'[s] = Container(req[s], Drained(s))
        /\ UNCHANGED <<supplied, pending, req, job, seen>>
    BY <1>6 DEF CreateServer
  <2>2. /\ seen[s] = <<>> /\ pending[s] = {} /\ IsRequest(req[s])
        /\ job[s] = None \/ (s \in Migrates /\ job[s] = Container(JobRequest(req[s]), {}))
    BY <2>1 DEF Local
  <2>3. Drained(s)' = Drained(s)
    BY <2>1 DEF Drained
  <2>4. Len(req[s].hooks) \in Nat
    BY <2>2 DEF IsRequest
  <2>5. /\ seen'[s] \in Seq({Observed(h, req[s]) : h \in Hooks})
        /\ Len(seen'[s]) <= Len(req[s].hooks)
        /\ \A i \in 1 .. Len(seen'[s]) : seen'[s][i] = Observed(req[s].hooks[i], req[s])
    BY <2>1, <2>2, <2>4
  <2>6. QED
    BY <1>0, <2>1, <2>2, <2>3, <2>5 DEF Local, States, Resting, IsRequest
<1>7. CASE RunHook(s)
  <2> DEFINE S == {Observed(h, req[s]) : h \in Hooks}
             n == Len(seen[s])
  <2>1. /\ pc[s] = "hooks" /\ pc' = pc /\ HooksLeft(s)
        /\ seen'[s] = Append(seen[s], Observed(NextHook(s), req[s]))
        /\ UNCHANGED <<supplied, pending, req, job, server>>
    BY <1>7 DEF RunHook
  <2>2. /\ seen[s] \in Seq(S) /\ req[s].hooks \in Seq(Hooks) /\ n <= Len(req[s].hooks)
        /\ \A i \in 1 .. n : seen[s][i] = Observed(req[s].hooks[i], req[s])
        /\ server[s] = Container(req[s], Drained(s)) /\ IsRequest(req[s]) /\ pending[s] = {}
    BY <2>1 DEF Local, IsRequest
  <2>3. n \in Nat /\ n + 1 \in 1 .. Len(req[s].hooks) /\ NextHook(s) = req[s].hooks[n + 1]
    BY <2>1, <2>2 DEF HooksLeft, NextHook
  <2>4. Observed(NextHook(s), req[s]) \in S
    <3>1. req[s].hooks[n + 1] \in Hooks
      BY <2>2, <2>3
    <3>2. QED
      BY <2>3, <3>1
  <2>5. /\ seen'[s] \in Seq(S) /\ Len(seen'[s]) = n + 1
        /\ \A i \in 1 .. n : seen'[s][i] = seen[s][i]
        /\ seen'[s][n + 1] = Observed(req[s].hooks[n + 1], req[s])
    <3> HIDE DEF S
    <3>1. QED
      BY <2>1, <2>2, <2>3, <2>4
  <2>6. /\ Len(seen'[s]) <= Len(req[s].hooks)
        /\ \A i \in 1 .. Len(seen'[s]) : seen'[s][i] = Observed(req[s].hooks[i], req[s])
    <3> HIDE DEF S, n
    <3>1. Len(seen'[s]) <= Len(req[s].hooks)
      BY <2>3, <2>5
    <3>2. ASSUME NEW i \in 1 .. n + 1
          PROVE  seen'[s][i] = Observed(req[s].hooks[i], req[s])
      <4>1. CASE i = n + 1
        BY <2>5, <4>1
      <4>2. CASE i \in 1 .. n
        BY <2>2, <2>5, <4>2
      <4>3. QED
        BY <2>3, <4>1, <4>2
    <3>3. QED
      BY <2>5, <3>1, <3>2
  <2>7. Drained(s)' = Drained(s)
    BY <2>1 DEF Drained
  <2>8. job[s] = None \/ (s \in Migrates /\ job[s] = Container(JobRequest(req[s]), {}))
    BY DEF Local
  <2>9. QED
    BY <1>0, <2>1, <2>2, <2>5, <2>6, <2>7, <2>8 DEF Local, States, Resting
<1>8. CASE Finish(s)
  <2>1. /\ pc[s] = "hooks" /\ pc'[s] = "running" /\ ~HooksLeft(s)
        /\ UNCHANGED <<supplied, pending, req, job, server, seen>>
    BY <1>8 DEF Finish
  <2>2. Drained(s)' = Drained(s)
    BY <2>1 DEF Drained
  <2>3. seen[s] \in Seq({Observed(h, req[s]) : h \in Hooks}) /\ req[s].hooks \in Seq(Hooks)
    BY <2>1 DEF Local, IsRequest
  <2>4. Len(seen[s]) = Len(req[s].hooks)
    <3>1. Len(seen[s]) \in Nat /\ Len(req[s].hooks) \in Nat
      BY <2>3
    <3>2. QED
      BY <2>1, <3>1 DEF Local, HooksLeft
  <2>5. /\ IsRequest(req[s]) /\ pending[s] = {} /\ server[s] = Container(req[s], Drained(s))
        /\ job[s] = None \/ (s \in Migrates /\ job[s] = Container(JobRequest(req[s]), {}))
        /\ Len(seen[s]) <= Len(req[s].hooks)
        /\ \A i \in 1 .. Len(seen[s]) : seen[s][i] = Observed(req[s].hooks[i], req[s])
    BY <2>1 DEF Local
  <2> HIDE DEF App, Shape
  <2>6. QED
    BY <1>0, <2>1, <2>2, <2>3, <2>4, <2>5 DEF Local, States, Resting
<1>9. QED
  BY <1>1, <1>2, <1>3, <1>4, <1>5, <1>6, <1>7, <1>8 DEF Step

\* A constructor begins when no other is under way.
LEMMA AloneStep ==
  ASSUME Shape, Alone, NEW s \in App, Step(s), \A t \in App : pc[t] \in States
  PROVE  Alone'
<1> USE DEF Shape, App
<1>1. ASSUME UNCHANGED pc, supplied' = supplied PROVE Alone'
  BY <1>1 DEF Alone
<1>2. ASSUME \A t \in App \ {s} : pc[t] \in Resting
      PROVE  Alone'
  BY <1>2, StepShape DEF Alone, Only
<1>3. CASE Idle
  BY <1>2, <1>3 DEF Idle
<1>4. CASE pc[s] \notin Resting
  BY <1>2, <1>4 DEF Alone
<1>5. QED
  BY <1>1, <1>3, <1>4
     DEF Step, NewRequest, ApplyOption, FinishNew, Link, RunJob, CreateServer, RunHook, Finish, Resting

LEMMA AInvInit == Init => AInv
<1> SUFFICES ASSUME Init PROVE AInv
  OBVIOUS
<1>1. Shape /\ Alone
  BY DEF Init, Shape, Alone, App, Resting
<1>2. ASSUME NEW s \in App PROVE Local(s)
  <2>1. /\ pc[s] = "none" /\ pending[s] = {} /\ req[s] = Base[s]
        /\ job[s] = None /\ server[s] = None /\ seen[s] = <<>>
    BY DEF Init
  <2>2. IsRequest(Base[s])
    BY OptionHooks, RequestsAssumption DEF RequestsAssumption, IsRequest, Init
  <2>3. QED
    BY <2>1, <2>2 DEF Local, States, Resting
<1>3. QED
  BY <1>1, <1>2 DEF AInv

LEMMA AInvStep == AInv /\ [Next]_vars => AInv'
<1> SUFFICES ASSUME AInv, [Next]_vars PROVE AInv'
  OBVIOUS
<1> USE DEF AInv
<1>1. CASE Verdict
  <2>1. Shape' /\ Alone' /\ App' = App
    BY <1>1 DEF Verdict, Shape, Alone, App
  <2>2. ASSUME NEW t \in App PROVE Local(t)'
    BY <1>1, <2>2, LocalKept DEF Verdict
  <2>3. QED
    BY <2>1, <2>2
<1>2. ASSUME NEW s \in App, Step(s) PROVE AInv'
  <2>1. Shape' /\ Only(s)
    BY <1>2, StepShape
  <2>2. Alone'
    BY <1>2, AloneStep DEF Local
  <2>3. Local(s)'
    BY <1>2, LocalStep
  <2>4. ASSUME NEW t \in App, t # s PROVE Local(t)'
    BY <2>1, <2>4, LocalKept DEF Only
  <2>5. App' = App
    BY <2>1 DEF Only, App
  <2>6. QED
    BY <2>1, <2>2, <2>3, <2>4, <2>5
<1>3. QED
  BY <1>1, <1>2, NextSteps

\* The invariant: what a service's parts are, by how far its constructors are.
THEOREM AInvHolds == Spec => []AInv
<1>1. QED
  BY AInvInit, AInvStep, PTL DEF Spec

-----------------------------------------------------------------------------
\* Every reachable state is well typed.
THEOREM TypeCorrect == Spec => []TypeOK
<1>1. AInv => TypeOK
  <2> SUFFICES ASSUME AInv PROVE TypeOK
    OBVIOUS
  <2> USE DEF AInv, Shape
  <2>1. App \subseteq Packages /\ \A s \in App : Needs[s] \subseteq App
    BY CompositionsAssumption DEF CompositionsAssumption, App
  <2>2. ASSUME NEW s \in App
        PROVE  /\ pc[s] \in States /\ pending[s] \subseteq supplied[s]
               /\ Len(seen[s]) <= Len(req[s].hooks)
               /\ pc[s] \notin {"none", "customizing"} => pending[s] = {}
    <3>1. Local(s)
      BY DEF AInv
    <3> HIDE DEF AInv, Shape
    <3>2. Len(seen[s]) <= Len(req[s].hooks)
      <4>1. CASE pc[s] \in {"hooks", "running"}
        BY <3>1, <4>1 DEF Local
      <4>2. CASE pc[s] \notin {"hooks", "running"}
        <5>1. seen[s] = <<>> /\ req[s].hooks \in Seq(Hooks)
          BY <3>1, <4>2 DEF Local, IsRequest
        <5>2. QED
          BY <5>1
      <4>3. QED
        BY <4>1, <4>2
    <3>3. pc[s] \in States /\ pending[s] \subseteq supplied[s]
      BY <3>1 DEF Local, OptionsOf, Supplies
    <3>4. pc[s] \notin {"none", "customizing"} => pending[s] = {}
      BY <3>1 DEF Local
    <3>5. QED
      BY <3>2, <3>3, <3>4
  <2>3. QED
    BY <2>1, <2>2 DEF TypeOK, Alone
<1>2. QED
  BY <1>1, AInvHolds, PTL

\* What a service has come to, once its container exists.
LEMMA ServerFacts ==
  ASSUME AInv, NEW s \in App, server[s] # None
  PROVE  /\ pc[s] \in {"hooks", "running"}
         /\ server[s].env = req[s].env /\ server[s].fields = req[s].fields
         /\ server[s].args = req[s].args /\ server[s].ports = req[s].ports
         /\ server[s].hooks = req[s].hooks
         /\ server[s].files = Contents(req[s], Drained(s))
<1>1. pc[s] \in {"hooks", "running"} /\ server[s] = Container(req[s], Drained(s))
  BY DEF AInv, Local
<1>2. QED
  BY <1>1 DEF Container

\* What the hooks of a container have seen, and what it was made from.
LEMMA SeenFacts ==
  ASSUME AInv, NEW s \in App, pc[s] \in {"hooks", "running"}
  PROVE  /\ server[s] = Container(req[s], Drained(s))
         /\ DOMAIN seen[s] = 1 .. Len(seen[s])
         /\ \A i \in DOMAIN seen[s] : seen[s][i] = Observed(req[s].hooks[i], req[s])
         /\ pc[s] = "running" => Len(seen[s]) = Len(req[s].hooks)
<1> DEFINE S == {Observed(h, req[s]) : h \in Hooks}
<1>1. Local(s)
  BY DEF AInv
<1>2. /\ server[s] = Container(req[s], Drained(s)) /\ seen[s] \in Seq(S)
      /\ \A i \in 1 .. Len(seen[s]) : seen[s][i] = Observed(req[s].hooks[i], req[s])
      /\ pc[s] = "running" => Len(seen[s]) = Len(req[s].hooks)
  BY <1>1 DEF Local
<1> HIDE DEF S
<1>3. DOMAIN seen[s] = 1 .. Len(seen[s])
  BY <1>2
<1>4. QED
  BY <1>2, <1>3

\* The hooks see the container they are about, although they read the request.
THEOREM HooksSee == Spec => []HooksSeeContainer
<1>1. AInv => HooksSeeContainer
  <2> SUFFICES ASSUME AInv, NEW s \in App, NEW i \in DOMAIN seen[s]
               PROVE  seen[s][i] = Observed(server[s].hooks[i], server[s])
    BY DEF HooksSeeContainer
  <2>1. Local(s)
    BY DEF AInv
  <2>2. pc[s] \in {"hooks", "running"}
    <3>1. CASE seen[s] = <<>>
      BY <3>1
    <3>2. CASE seen[s] # <<>>
      BY <2>1, <3>2 DEF Local
    <3>3. QED
      BY <3>1, <3>2
  <2>3. seen[s][i] = Observed(req[s].hooks[i], req[s]) /\ server[s] = Container(req[s], Drained(s))
    BY <2>2, SeenFacts
  <2>4. /\ server[s].env = req[s].env /\ server[s].ports = req[s].ports
        /\ server[s].hooks = req[s].hooks
    BY <2>3 DEF Container
  <2>5. QED
    BY <2>3, <2>4 DEF Observed
<1>2. QED
  BY <1>1, AInvHolds, PTL

\* A container that others get has run every hook once, in the order they were added.
THEOREM HooksOnce == Spec => []HooksRunOnce
<1>1. AInv => HooksRunOnce
  <2> SUFFICES ASSUME AInv, NEW s \in App, pc[s] = "running"
               PROVE  /\ Len(seen[s]) = Len(server[s].hooks)
                      /\ \A i \in DOMAIN seen[s] : seen[s][i].id = server[s].hooks[i].id
    BY DEF HooksRunOnce
  <2>1. /\ server[s] = Container(req[s], Drained(s)) /\ Len(seen[s]) = Len(req[s].hooks)
        /\ \A i \in DOMAIN seen[s] : seen[s][i] = Observed(req[s].hooks[i], req[s])
    BY SeenFacts
  <2>2. server[s].hooks = req[s].hooks
    BY <2>1 DEF Container
  <2>3. \A i \in DOMAIN seen[s] : Observed(req[s].hooks[i], req[s]).id = req[s].hooks[i].id
    BY DEF Observed
  <2>4. \A i \in DOMAIN seen[s] : seen[s][i].id = server[s].hooks[i].id
    BY <2>1, <2>2, <2>3
  <2>5. QED
    BY <2>1, <2>2, <2>4
<1>2. QED
  BY <1>1, AInvHolds, PTL

\* What a step may do to a service's request: nothing, or what one option does, or what
\* New does last, or what Actualize fills in.
LEMMA Changes ==
  ASSUME AInv, NEW s \in App, Step(s)
  PROVE  \/ /\ req'[s] = req[s] /\ pc[s] = "none" /\ pc'[s] = "customizing"
            /\ pending'[s] = OptionsOf(s)
         \/ /\ req'[s] = req[s] /\ pc[s] \in {"linked", "migrated", "hooks"}
            /\ pc'[s] \in {"migrated", "hooks", "running"} /\ pending'[s] = pending[s]
         \/ \E o \in pending[s] :
               /\ pc[s] = "customizing" /\ pc'[s] = "customizing"
               /\ pending'[s] = pending[s] \ {o} /\ req'[s] = Customize(o, req[s])
               /\ ~o.fails
         \/ /\ pc[s] = "customizing" /\ pc'[s] = "requested"
            /\ pending[s] = {} /\ pending'[s] = {} /\ req'[s] = Customize(Last[s], req[s])
         \/ /\ pc[s] = "requested" /\ pc'[s] = "linked" /\ \A d \in Needs[s] : pc[d] = "running"
            /\ pending[s] = {} /\ pending'[s] = {}
            /\ req'[s] = [req[s] EXCEPT !.env = Over(Filled(s), req[s].env)]
<1> USE DEF AInv, Shape
<1>1. CASE NewRequest(s)
  BY <1>1 DEF NewRequest, OptionsOf
<1>2. ASSUME NEW o \in pending[s], ApplyOption(s, o)
      PROVE  /\ pc[s] = "customizing" /\ pc'[s] = "customizing"
             /\ pending'[s] = pending[s] \ {o} /\ req'[s] = Customize(o, req[s])
             /\ ~o.fails
  BY <1>2 DEF ApplyOption
<1>3. CASE FinishNew(s)
  BY <1>3 DEF FinishNew
<1>4. CASE Link(s)
  BY <1>4 DEF Link, Injected, Local
<1>5. CASE RunJob(s) \/ CreateServer(s) \/ RunHook(s) \/ Finish(s)
  BY <1>5 DEF RunJob, CreateServer, RunHook, Finish
<1>6. QED
  BY <1>1, <1>2, <1>3, <1>4, <1>5 DEF Step

\* Once a container is made of it, a request does not change.
THEOREM Frozen == Spec => RequestFrozen
<1>1. AInv /\ [Next]_vars =>
        [\A s \in App : job[s] # None \/ server[s] # None => req'[s] = req[s]]_vars
  <2> SUFFICES ASSUME AInv, [Next]_vars, NEW s \in App, job[s] # None \/ server[s] # None
               PROVE  req'[s] = req[s]
    OBVIOUS
  <2>1. pc[s] \in {"migrated", "hooks", "running"}
    BY DEF AInv, Local
  <2>2. CASE Verdict
    BY <2>2 DEF Verdict
  <2>3. CASE Step(s)
    BY <2>1, <2>3, Changes
  <2>4. ASSUME NEW t \in App, t # s, Step(t) PROVE req'[s] = req[s]
    BY <2>4, StepShape DEF Only, AInv
  <2>5. QED
    BY <2>2, <2>3, <2>4, NextSteps DEF AInv
<1>2. QED
  BY <1>1, AInvHolds, PTL DEF Spec, RequestFrozen
-----------------------------------------------------------------------------
(* Options *)

\* The entries of a request r of s come from where they should, once the options D have been
\* applied, and those New began with are still there.
Sources(s, D, r) ==
    /\ \A k \in LeftToOptions(s, r.env) : Sourced(s, D, k, r.env[k])
    /\ DOMAIN Base[s].env \subseteq DOMAIN r.env

\* The options in D have taken effect on a request r of s.
Takes(s, D, r) ==
    \A o \in D :
        /\ \A k \in LeftToOptions(s, o.env) :
             \E p \in D : k \in DOMAIN p.env /\ r.env[k] = p.env[k]
        /\ \A f \in DOMAIN o.fields \ DOMAIN Last[s].fields :
             \E p \in D : f \in DOMAIN p.fields /\ r.fields[f] = p.fields[f]
        /\ DOMAIN o.env \cup DOMAIN o.defaults \subseteq DOMAIN r.env
        /\ DOMAIN o.fields \subseteq DOMAIN r.fields
        /\ DOMAIN o.files \subseteq DOMAIN r.files
        /\ o.args \subseteq r.args /\ o.ports \subseteq r.ports
        /\ HooksOf(o) \subseteq HooksOf(r)

\* One more option takes effect, and those before it keep theirs.
LEMMA TakesOne ==
  ASSUME NEW s, NEW D, NEW r, IsRequest(r), Takes(s, D, r), NEW o, o.hooks \in Seq(Hooks)
  PROVE  Takes(s, D \cup {o}, Customize(o, r))
<1> DEFINE q == Customize(o, r)
           E == D \cup {o}
<1>1. /\ \A k \in DOMAIN o.env : q.env[k] = o.env[k]
      /\ \A k \in DOMAIN r.env \ DOMAIN o.env : q.env[k] = r.env[k]
      /\ DOMAIN q.env = DOMAIN r.env \cup DOMAIN o.env \cup DOMAIN o.defaults
      /\ DOMAIN q.fields = DOMAIN r.fields \cup DOMAIN o.fields
      /\ \A f \in DOMAIN o.fields : q.fields[f] = o.fields[f]
      /\ \A f \in DOMAIN r.fields \ DOMAIN o.fields : q.fields[f] = r.fields[f]
      /\ DOMAIN q.files = DOMAIN r.files \cup DOMAIN o.files
      /\ q.args = r.args \cup o.args /\ q.ports = r.ports \cup o.ports
      /\ HooksOf(q) = HooksOf(r) \cup HooksOf(o)
  BY CustomizeAdds, CustomizeHooks
<1> HIDE DEF q
<1>2. ASSUME NEW x \in E,
             NEW k \in LeftToOptions(s, x.env)
      PROVE  \E p \in E : k \in DOMAIN p.env /\ q.env[k] = p.env[k]
  <2>1. CASE k \in DOMAIN o.env
    BY <1>1, <2>1
  <2>2. CASE k \notin DOMAIN o.env
    <3>1. x \in D /\ k \in DOMAIN r.env
      BY <1>2, <2>2 DEF Takes, LeftToOptions
    <3>2. PICK p \in D : k \in DOMAIN p.env /\ r.env[k] = p.env[k]
      BY <1>2, <3>1 DEF Takes
    <3>3. QED
      BY <1>1, <2>2, <3>1, <3>2
  <2>3. QED
    BY <2>1, <2>2
<1>3. ASSUME NEW x \in E, NEW f \in DOMAIN x.fields \ DOMAIN Last[s].fields
      PROVE  \E p \in E : f \in DOMAIN p.fields /\ q.fields[f] = p.fields[f]
  <2>1. CASE f \in DOMAIN o.fields
    BY <1>1, <2>1
  <2>2. CASE f \notin DOMAIN o.fields
    <3>1. x \in D /\ f \in DOMAIN r.fields
      BY <1>3, <2>2 DEF Takes
    <3>2. PICK p \in D : f \in DOMAIN p.fields /\ r.fields[f] = p.fields[f]
      BY <1>3, <3>1 DEF Takes
    <3>3. QED
      BY <1>1, <2>2, <3>1, <3>2
  <2>3. QED
    BY <2>1, <2>2
<1>4. ASSUME NEW x \in E
      PROVE  /\ DOMAIN x.env \cup DOMAIN x.defaults \subseteq DOMAIN q.env
             /\ DOMAIN x.fields \subseteq DOMAIN q.fields
             /\ DOMAIN x.files \subseteq DOMAIN q.files
             /\ x.args \subseteq q.args /\ x.ports \subseteq q.ports
             /\ HooksOf(x) \subseteq HooksOf(q)
  <2>1. CASE x = o
    BY <1>1, <2>1
  <2>2. CASE x \in D
    BY <1>1, <2>2 DEF Takes
  <2>3. QED
    BY <2>1, <2>2
<1>5. Takes(s, E, q)
  BY <1>2, <1>3, <1>4 DEF Takes
<1>6. QED
  BY <1>5 DEF q

\* What New applies last, and what Actualize fills in, take nothing away.
LEMMA TakesLast ==
  ASSUME NEW s, NEW D, NEW r, IsRequest(r), Takes(s, D, r), Last[s].hooks \in Seq(Hooks)
  PROVE  Takes(s, D, Customize(Last[s], r))
<1> DEFINE o == Last[s]
           q == Customize(o, r)
<1>1. /\ \A k \in DOMAIN r.env \ DOMAIN o.env : q.env[k] = r.env[k]
      /\ DOMAIN q.env = DOMAIN r.env \cup DOMAIN o.env \cup DOMAIN o.defaults
      /\ DOMAIN q.fields = DOMAIN r.fields \cup DOMAIN o.fields
      /\ \A f \in DOMAIN r.fields \ DOMAIN o.fields : q.fields[f] = r.fields[f]
      /\ DOMAIN q.files = DOMAIN r.files \cup DOMAIN o.files
      /\ q.args = r.args \cup o.args /\ q.ports = r.ports \cup o.ports
      /\ HooksOf(q) = HooksOf(r) \cup HooksOf(o)
  BY CustomizeAdds, CustomizeHooks
<1> HIDE DEF q
<1>2. ASSUME NEW x \in D,
             NEW k \in LeftToOptions(s, x.env)
      PROVE  \E p \in D : k \in DOMAIN p.env /\ q.env[k] = p.env[k]
  BY <1>1 DEF Takes, LeftToOptions
<1>3. ASSUME NEW x \in D, NEW f \in DOMAIN x.fields \ DOMAIN Last[s].fields
      PROVE  \E p \in D : f \in DOMAIN p.fields /\ q.fields[f] = p.fields[f]
  BY <1>1 DEF Takes
<1>4. ASSUME NEW x \in D
      PROVE  /\ DOMAIN x.env \cup DOMAIN x.defaults \subseteq DOMAIN q.env
             /\ DOMAIN x.fields \subseteq DOMAIN q.fields
             /\ DOMAIN x.files \subseteq DOMAIN q.files
             /\ x.args \subseteq q.args /\ x.ports \subseteq q.ports
             /\ HooksOf(x) \subseteq HooksOf(q)
  BY <1>1 DEF Takes
<1>5. Takes(s, D, q)
  BY <1>2, <1>3, <1>4 DEF Takes
<1>6. QED
  BY <1>5 DEF q

LEMMA TakesLink ==
  ASSUME NEW s, NEW D, NEW r, IsRequest(r), Takes(s, D, r)
  PROVE  Takes(s, D, [r EXCEPT !.env = Over(Filled(s), r.env)])
<1> DEFINE q == [r EXCEPT !.env = Over(Filled(s), r.env)]
<1>1. /\ q.env = Over(Filled(s), r.env) /\ q.fields = r.fields /\ q.files = r.files
      /\ q.args = r.args /\ q.ports = r.ports /\ HooksOf(q) = HooksOf(r)
  BY DEF IsRequest, HooksOf
<1>2. /\ DOMAIN q.env = DOMAIN Links[s] \cup DOMAIN r.env
      /\ \A k \in DOMAIN r.env \ DOMAIN Links[s] : q.env[k] = r.env[k]
  BY <1>1 DEF Over, Filled
<1> HIDE DEF q
<1>3. Takes(s, D, q)
  BY <1>1, <1>2 DEF Takes, LeftToOptions
<1>4. QED
  BY <1>3 DEF q

\* An option gives an entry a source, and takes none away.
LEMMA SourcesOne ==
  ASSUME NEW s, NEW D, NEW r, IsRequest(r), Sources(s, D, r), NEW o, o.hooks \in Seq(Hooks)
  PROVE  Sources(s, D \cup {o}, Customize(o, r))
<1> DEFINE q == Customize(o, r)
           E == D \cup {o}
<1>1. /\ \A k \in DOMAIN o.env : q.env[k] = o.env[k]
      /\ \A k \in DOMAIN r.env \ DOMAIN o.env : q.env[k] = r.env[k]
      /\ \A k \in DOMAIN o.defaults \ (DOMAIN o.env \cup DOMAIN r.env) : q.env[k] = o.defaults[k]
      /\ DOMAIN q.env = DOMAIN r.env \cup DOMAIN o.env \cup DOMAIN o.defaults
  BY CustomizeAdds
<1> HIDE DEF q
<1>2. ASSUME NEW k \in LeftToOptions(s, q.env)
      PROVE  Sourced(s, E, k, q.env[k])
  <2>1. CASE k \in DOMAIN o.env
    BY <1>1, <2>1 DEF Sourced
  <2>2. CASE k \in DOMAIN r.env \ DOMAIN o.env
    <3>1. q.env[k] = r.env[k] /\ k \in LeftToOptions(s, r.env)
      BY <1>1, <1>2, <2>2 DEF LeftToOptions
    <3>2. Sourced(s, D, k, r.env[k])
      BY <3>1 DEF Sources
    <3>3. QED
      BY <3>1, <3>2 DEF Sourced
  <2>3. CASE k \in DOMAIN o.defaults \ (DOMAIN o.env \cup DOMAIN r.env)
    <3>1. q.env[k] = o.defaults[k] /\ k \notin DOMAIN Base[s].env
      BY <1>1, <2>3 DEF Sources
    <3>2. QED
      BY <2>3, <3>1 DEF Sourced
  <2>4. QED
    BY <1>1, <1>2, <2>1, <2>2, <2>3 DEF LeftToOptions
<1>3. DOMAIN Base[s].env \subseteq DOMAIN q.env
  BY <1>1 DEF Sources
<1>4. Sources(s, E, q)
  BY <1>2, <1>3 DEF Sources
<1>5. QED
  BY <1>4 DEF q

\* New must not bring defaults of its own after the options: it sets what it adds last.
LEMMA SourcesLast ==
  ASSUME NEW s, NEW D, NEW r, IsRequest(r), Sources(s, D, r),
         Last[s].hooks \in Seq(Hooks), DOMAIN Last[s].defaults = {}
  PROVE  Sources(s, D, Customize(Last[s], r))
<1> DEFINE o == Last[s]
           q == Customize(o, r)
<1>1. /\ \A k \in DOMAIN r.env \ DOMAIN o.env : q.env[k] = r.env[k]
      /\ DOMAIN q.env = DOMAIN r.env \cup DOMAIN o.env
  BY CustomizeAdds
<1> HIDE DEF q
<1>2. ASSUME NEW k \in LeftToOptions(s, q.env)
      PROVE  Sourced(s, D, k, q.env[k])
  <2>1. k \in LeftToOptions(s, r.env) /\ q.env[k] = r.env[k]
    BY <1>1, <1>2 DEF LeftToOptions
  <2>2. QED
    BY <2>1 DEF Sources
<1>3. Sources(s, D, q)
  BY <1>1, <1>2 DEF Sources
<1>4. QED
  BY <1>3 DEF q

LEMMA SourcesLink ==
  ASSUME NEW s, NEW D, NEW r, IsRequest(r), Sources(s, D, r)
  PROVE  Sources(s, D, [r EXCEPT !.env = Over(Filled(s), r.env)])
<1> DEFINE e == Over(Filled(s), r.env)
<1>1. [r EXCEPT !.env = e].env = e
  BY DEF IsRequest
<1>2. /\ DOMAIN e = DOMAIN Links[s] \cup DOMAIN r.env
      /\ \A k \in DOMAIN r.env \ DOMAIN Links[s] : e[k] = r.env[k]
  BY DEF Over, Filled
<1> HIDE DEF e
<1>3. ASSUME NEW k \in LeftToOptions(s, e)
      PROVE  Sourced(s, D, k, e[k])
  <2>1. k \in LeftToOptions(s, r.env) /\ e[k] = r.env[k]
    BY <1>2, <1>3 DEF LeftToOptions
  <2>2. QED
    BY <2>1 DEF Sources
<1>4. Sources(s, D, [r EXCEPT !.env = e])
  BY <1>1, <1>2, <1>3 DEF Sources
<1>5. QED
  BY <1>4 DEF e

LEMMA SuppliedKept ==
  ASSUME AInv, [Next]_vars
  PROVE  supplied' = supplied /\ App' = App
<1>1. CASE Verdict
  BY <1>1 DEF Verdict, App
<1>2. ASSUME NEW s \in App, Step(s) PROVE supplied' = supplied
  BY <1>2, StepShape DEF AInv, Only
<1>3. QED
  BY <1>1, <1>2, NextSteps DEF AInv, App

Applied(s) == IF pc[s] = "none" THEN {} ELSE OptionsOf(s) \ pending[s]

Effect ==
    \A s \in App : Takes(s, Applied(s), req[s]) /\ Sources(s, Applied(s), req[s])

LEMMA EffectInit == Init => Effect
<1> SUFFICES ASSUME Init, NEW s \in App
             PROVE  Takes(s, Applied(s), req[s]) /\ Sources(s, Applied(s), req[s])
  BY DEF Effect
<1>1. Applied(s) = {} /\ req[s] = Base[s]
  BY DEF Init, Applied, App
<1>2. QED
  BY <1>1 DEF Takes, Sources, LeftToOptions, Sourced

LEMMA EffectStep ==
  ASSUME AInv, AInv', Effect, [Next]_vars
  PROVE  Effect'
<1>0. App' = App /\ supplied' = supplied
  BY SuppliedKept
<1> SUFFICES ASSUME NEW s \in App
             PROVE  Takes(s, Applied(s)', req'[s]) /\ Sources(s, Applied(s)', req'[s])
  BY <1>0 DEF Effect, Takes, Sources, Sourced, LeftToOptions
<1>1. Takes(s, Applied(s), req[s]) /\ Sources(s, Applied(s), req[s]) /\ IsRequest(req[s])
  BY DEF Effect, AInv, Local
<1>2. OptionsOf(s)' = OptionsOf(s)
  BY <1>0 DEF OptionsOf
<1>3. CASE Verdict
  BY <1>1, <1>3 DEF Verdict, Applied, OptionsOf
<1>4. ASSUME NEW t \in App, t # s, Step(t)
      PROVE  Takes(s, Applied(s)', req'[s]) /\ Sources(s, Applied(s)', req'[s])
  <2>1. pc'[s] = pc[s] /\ pending'[s] = pending[s] /\ req'[s] = req[s]
    BY <1>4, StepShape DEF AInv, Only
  <2>2. QED
    BY <1>1, <1>2, <2>1 DEF Applied
<1>5. CASE Step(s)
  <2>1. CASE /\ req'[s] = req[s] /\ pc[s] = "none" /\ pc'[s] = "customizing"
             /\ pending'[s] = OptionsOf(s)
    <3>1. Applied(s)' = {} /\ Applied(s) = {}
      BY <1>2, <2>1 DEF Applied
    <3>2. QED
      BY <1>1, <2>1, <3>1
  <2>2. CASE /\ req'[s] = req[s] /\ pc[s] \in {"linked", "migrated", "hooks"}
             /\ pc'[s] \in {"migrated", "hooks", "running"} /\ pending'[s] = pending[s]
    <3>1. Applied(s)' = Applied(s)
      BY <1>2, <2>2 DEF Applied
    <3>2. QED
      BY <1>1, <2>2, <3>1
  <2>3. ASSUME NEW o \in pending[s], pc[s] = "customizing", pc'[s] = "customizing",
               pending'[s] = pending[s] \ {o}, req'[s] = Customize(o, req[s])
        PROVE  Takes(s, Applied(s)', req'[s]) /\ Sources(s, Applied(s)', req'[s])
    <3>1. o \in OptionsOf(s) /\ o.hooks \in Seq(Hooks)
      BY OptionHooks DEF AInv, Local, Shape
    <3>2. Applied(s)' = Applied(s) \cup {o}
      BY <1>2, <2>3, <3>1 DEF Applied
    <3>3. /\ Takes(s, Applied(s) \cup {o}, Customize(o, req[s]))
          /\ Sources(s, Applied(s) \cup {o}, Customize(o, req[s]))
      BY <1>1, <3>1, TakesOne, SourcesOne
    <3>4. QED
      BY <2>3, <3>2, <3>3
  <2>4. CASE /\ pc[s] = "customizing" /\ pc'[s] = "requested"
             /\ pending[s] = {} /\ pending'[s] = {} /\ req'[s] = Customize(Last[s], req[s])
    <3>1. Applied(s)' = Applied(s)
      BY <1>2, <2>4 DEF Applied
    <3>2. Last[s].hooks \in Seq(Hooks) /\ DOMAIN Last[s].defaults = {}
      BY OptionHooks, RequestsAssumption DEF AInv, Shape, RequestsAssumption
    <3>3. /\ Takes(s, Applied(s), Customize(Last[s], req[s]))
          /\ Sources(s, Applied(s), Customize(Last[s], req[s]))
      BY <1>1, <3>2, TakesLast, SourcesLast
    <3>4. QED
      BY <2>4, <3>1, <3>3
  <2>5. CASE /\ pc[s] = "requested" /\ pc'[s] = "linked"
             /\ pending[s] = {} /\ pending'[s] = {}
             /\ req'[s] = [req[s] EXCEPT !.env = Over(Filled(s), req[s].env)]
    <3>1. Applied(s)' = Applied(s)
      BY <1>2, <2>5 DEF Applied
    <3>2. /\ Takes(s, Applied(s), [req[s] EXCEPT !.env = Over(Filled(s), req[s].env)])
          /\ Sources(s, Applied(s), [req[s] EXCEPT !.env = Over(Filled(s), req[s].env)])
      BY <1>1, TakesLink, SourcesLink
    <3>3. QED
      BY <2>5, <3>1, <3>2
  <2>6. QED
    BY <1>5, <2>1, <2>2, <2>3, <2>4, <2>5, Changes
<1>6. QED
  BY <1>3, <1>4, <1>5, NextSteps DEF AInv

\* What the options add, defaults included, is in the container, in whatever order the group
\* came, and nothing else has a value nobody gave.
THEOREM OptionsWork == Spec => []OptionsTakeEffect
<1>1. AInv /\ Effect => OptionsTakeEffect
  <2> SUFFICES ASSUME AInv, Effect, NEW s \in App, server[s] # None
               PROVE  /\ \A k \in LeftToOptions(s, server[s].env) :
                            Sourced(s, OptionsOf(s), k, server[s].env[k])
                      /\ \A o \in OptionsOf(s) : Arrived(s, o)
    BY DEF OptionsTakeEffect
  <2>1. pc[s] \in {"hooks", "running"} /\ pending[s] = {}
    BY ServerFacts DEF AInv, Local
  <2>2. Takes(s, OptionsOf(s), req[s]) /\ Sources(s, OptionsOf(s), req[s])
    BY <2>1 DEF Effect, Applied
  <2>3. /\ server[s].env = req[s].env /\ server[s].fields = req[s].fields
        /\ server[s].args = req[s].args /\ server[s].ports = req[s].ports
        /\ server[s].hooks = req[s].hooks
        /\ DOMAIN server[s].files = DOMAIN req[s].files
    BY ServerFacts DEF Contents
  <2>4. \A k \in LeftToOptions(s, server[s].env) : Sourced(s, OptionsOf(s), k, server[s].env[k])
    BY <2>2, <2>3 DEF Sources
  <2>5. ASSUME NEW o \in OptionsOf(s) PROVE Arrived(s, o)
    <3>1. \A i \in DOMAIN o.hooks :
            \E j \in DOMAIN req[s].hooks : req[s].hooks[j] = o.hooks[i]
      <4>1. HooksOf(o) \subseteq HooksOf(req[s])
        BY <2>2 DEF Takes
      <4>2. QED
        BY <4>1 DEF HooksOf
    <3>2. QED
      BY <2>2, <2>3, <3>1 DEF Takes, Arrived
  <2>6. QED
    BY <2>4, <2>5
<1>2. QED
  BY <1>1, AInvHolds, EffectInit, EffectStep, PTL DEF Spec
-----------------------------------------------------------------------------
(* Credentials *)

\* A service that is linked agrees with the database it is linked to, which is running.
LinkedTo(s) ==
    pc[s] \in {"linked", "migrated", "hooks", "running"} =>
        \A k \in DOMAIN Links[s] : Links[s][k].from # "address" =>
            /\ Database \in App /\ pc[Database] = "running"
            /\ req[s].env[k] = LinkText(Links[s][k])

Linked == \A s \in App : LinkedTo(s)

\* A service that runs, and its request, stay as they are.
LEMMA RunningStays ==
  ASSUME AInv, [Next]_vars, NEW s \in App, pc[s] = "running"
  PROVE  pc'[s] = "running" /\ req'[s] = req[s]
<1>1. CASE Verdict
  BY <1>1 DEF Verdict
<1>2. CASE Step(s)
  BY <1>2, Changes
<1>3. ASSUME NEW t \in App, t # s, Step(t) PROVE pc'[s] = pc[s] /\ req'[s] = req[s]
  BY <1>3, StepShape DEF Only, AInv
<1>4. QED
  BY <1>1, <1>2, <1>3, NextSteps DEF AInv

LEMMA LinkedInit == Init => Linked
  BY DEF Init, Linked, LinkedTo

LEMMA LinkedStep ==
  ASSUME AInv, Linked, [Next]_vars
  PROVE  Linked'
<1> SUFFICES ASSUME NEW s \in App,
                    pc'[s] \in {"linked", "migrated", "hooks", "running"},
                    NEW k \in DOMAIN Links[s], Links[s][k].from # "address"
             PROVE  /\ Database \in App' /\ pc'[Database] = "running"
                    /\ req'[s].env[k] = LinkText(Links[s][k])'
  BY SuppliedKept DEF Linked, LinkedTo
<1>0. App' = App
  BY SuppliedKept
<1>1. ASSUME Database \in App, pc[Database] = "running"
      PROVE  pc'[Database] = "running" /\ LinkText(Links[s][k])' = LinkText(Links[s][k])
  BY <1>1, RunningStays DEF LinkText
<1>2. CASE /\ pc[s] \in {"linked", "migrated", "hooks", "running"} /\ req'[s] = req[s]
  BY <1>0, <1>1, <1>2 DEF Linked, LinkedTo
<1>3. CASE Step(s)
  <2>1. CASE /\ pc[s] = "requested" /\ pc'[s] = "linked"
             /\ \A d \in Needs[s] : pc[d] = "running"
             /\ req'[s] = [req[s] EXCEPT !.env = Over(Filled(s), req[s].env)]
    <3>1. s \in Packages /\ Database \in Needs[s] /\ Needs[s] \subseteq App
      BY OptionHooks, LinksAssumption, CompositionsAssumption
         DEF AInv, Shape, LinksAssumption, CompositionsAssumption, App
    <3>2. Database \in App /\ pc[Database] = "running"
      BY <2>1, <3>1
    <3>3. req'[s].env = Over(Filled(s), req[s].env)
      BY <2>1 DEF AInv, Local, IsRequest
    <3>4. req'[s].env[k] = LinkText(Links[s][k])
      BY <3>3 DEF Over, Filled
    <3>5. QED
      BY <1>0, <1>1, <3>2, <3>4
  <2>2. QED
    BY <1>2, <1>3, <2>1, Changes
<1>4. CASE Verdict
  BY <1>2, <1>4 DEF Verdict
<1>5. ASSUME NEW t \in App, t # s, Step(t) PROVE pc'[s] = pc[s] /\ req'[s] = req[s]
  BY <1>5, StepShape DEF Only, AInv
<1>6. QED
  BY <1>2, <1>3, <1>4, <1>5, NextSteps DEF AInv

\* A service logs in as the user its database has, in whatever order the options of both came,
\* if the database was given one, and a text that goes into a URL can stand in it
\* (hydra/hydra.go:134).
THEOREM Credentials == Spec => []CredentialsMatch
<1>1. AInv /\ Linked => CredentialsMatch
  <2> SUFFICES ASSUME AInv, Linked, NEW s \in App, server[s] # None, NEW k \in DOMAIN Links[s],
                      Links[s][k].from # "address",
                      Links[s][k].from \in DOMAIN server[Database].env,
                      Links[s][k].url => server[Database].env[Links[s][k].from] \notin Mangled
               PROVE  server[s].env[k] = server[Database].env[Links[s][k].from]
    BY DEF CredentialsMatch
  <2>1. pc[s] \in {"hooks", "running"} /\ server[s].env = req[s].env
    BY ServerFacts
  <2>2. /\ Database \in App /\ pc[Database] = "running"
        /\ req[s].env[k] = LinkText(Links[s][k])
    BY <2>1 DEF Linked, LinkedTo
  <2>3. server[Database].env = req[Database].env
    <3>1. server[Database] = Container(req[Database], Drained(Database))
      BY <2>2, SeenFacts
    <3>2. QED
      BY <3>1 DEF Container
  <2>4. QED
    BY <2>1, <2>2, <2>3 DEF LinkText, Entry
<1>2. QED
  BY <1>1, AInvHolds, LinkedInit, LinkedStep, PTL DEF Spec

-----------------------------------------------------------------------------
(* Migrations *)

\* No server is told to do what its migration is told to do.
Fresh(r) == \A f \in DOMAIN r.fields \cap DOMAIN JobFields : r.fields[f] # JobFields[f]

\* No file of a request is empty.
Filed(r) == \A p \in DOMAIN r.files : r.files[p].text # ""

Whole == \A s \in App : Fresh(req[s]) /\ Filed(req[s])

LEMMA WholeCustomize ==
  ASSUME NEW r, IsRequest(r), Fresh(r), Filed(r), NEW o \in Chosen, o.hooks \in Seq(Hooks)
  PROVE  Fresh(Customize(o, r)) /\ Filed(Customize(o, r))
<1> DEFINE q == Customize(o, r)
<1>1. /\ DOMAIN q.fields = DOMAIN r.fields \cup DOMAIN o.fields
      /\ \A f \in DOMAIN o.fields : q.fields[f] = o.fields[f]
      /\ \A f \in DOMAIN r.fields \ DOMAIN o.fields : q.fields[f] = r.fields[f]
      /\ DOMAIN q.files = DOMAIN r.files \cup DOMAIN o.files
      /\ \A p \in DOMAIN o.files : q.files[p] = o.files[p]
      /\ \A p \in DOMAIN r.files \ DOMAIN o.files : q.files[p] = r.files[p]
  BY CustomizeAdds
<1>2. /\ \A p \in DOMAIN o.files : o.files[p].text # ""
      /\ \A f \in DOMAIN o.fields \cap DOMAIN JobFields : o.fields[f] # JobFields[f]
  BY ContentsAssumption DEF ContentsAssumption
<1> HIDE DEF q
<1>3. Fresh(q) /\ Filed(q)
  BY <1>1, <1>2 DEF Fresh, Filed
<1>4. QED
  BY <1>3 DEF q

LEMMA WholeInit == Init => Whole
<1> SUFFICES ASSUME Init, NEW s \in App PROVE Fresh(req[s]) /\ Filed(req[s])
  BY DEF Whole
<1>1. s \in Packages
  BY CompositionsAssumption DEF Init, CompositionsAssumption, App
<1>2. req[s] = Base[s]
  BY DEF Init
<1>3. QED
  BY <1>1, <1>2, ContentsAssumption DEF ContentsAssumption, Fresh, Filed

LEMMA WholeStep ==
  ASSUME AInv, Whole, [Next]_vars
  PROVE  Whole'
<1>0. App' = App
  BY SuppliedKept
<1> SUFFICES ASSUME NEW s \in App PROVE Fresh(req'[s]) /\ Filed(req'[s])
  BY <1>0 DEF Whole, Fresh, Filed
<1>1. Fresh(req[s]) /\ Filed(req[s]) /\ IsRequest(req[s])
  BY DEF Whole, AInv, Local
<1>2. CASE Verdict
  BY <1>1, <1>2 DEF Verdict
<1>3. ASSUME NEW t \in App, t # s, Step(t) PROVE req'[s] = req[s]
  BY <1>3, StepShape DEF Only, AInv
<1>4. CASE Step(s)
  <2>1. ASSUME NEW o \in pending[s], req'[s] = Customize(o, req[s])
        PROVE  Fresh(req'[s]) /\ Filed(req'[s])
    <3>1. o \in Chosen /\ o.hooks \in Seq(Hooks)
      BY OptionHooks DEF AInv, Shape, Local
    <3>2. QED
      BY <1>1, <2>1, <3>1, WholeCustomize
  <2>2. CASE req'[s] = Customize(Last[s], req[s])
    <3>1. Last[s] \in Chosen /\ Last[s].hooks \in Seq(Hooks)
      BY OptionHooks DEF AInv, Shape, Chosen
    <3>2. QED
      BY <1>1, <2>2, <3>1, WholeCustomize
  <2>3. CASE req'[s] = [req[s] EXCEPT !.env = Over(Filled(s), req[s].env)]
    <3>1. req'[s].fields = req[s].fields /\ req'[s].files = req[s].files
      BY <1>1, <2>3 DEF IsRequest
    <3>2. QED
      BY <1>1, <3>1 DEF Fresh, Filed
  <2>4. QED
    BY <1>1, <1>4, <2>1, <2>2, <2>3, Changes
<1>5. QED
  BY <1>1, <1>2, <1>3, <1>4, NextSteps DEF AInv

\* A migration has the settings of its server, and keeps what the copy was assigned.
THEOREM JobMatches == Spec => []JobMatchesServer
<1>1. AInv /\ Whole => JobMatchesServer
  <2> SUFFICES ASSUME AInv, Whole, NEW s \in App, job[s] # None, server[s] # None
               PROVE  /\ job[s].env = server[s].env
                      /\ job[s].hooks = <<>> /\ server[s].hooks = req[s].hooks
                      /\ \A f \in DOMAIN JobFields :
                           f \in DOMAIN server[s].fields => server[s].fields[f] # job[s].fields[f]
    BY DEF JobMatchesServer
  <2>1. Local(s)
    BY DEF AInv
  <2>2. job[s] = Container(JobRequest(req[s]), {}) /\ IsRequest(req[s])
    BY <2>1 DEF Local
  <2>3. /\ server[s].env = req[s].env /\ server[s].fields = req[s].fields
        /\ server[s].hooks = req[s].hooks
    BY ServerFacts
  <2>4. /\ JobRequest(req[s]).env = req[s].env /\ JobRequest(req[s]).hooks = <<>>
        /\ JobRequest(req[s]).fields = Over(JobFields, req[s].fields)
    BY <2>2 DEF JobRequest, IsRequest
  <2>5. /\ job[s].env = req[s].env /\ job[s].hooks = <<>>
        /\ job[s].fields = Over(JobFields, req[s].fields)
    BY <2>2, <2>4 DEF Container
  <2>6. \A f \in DOMAIN JobFields : job[s].fields[f] = JobFields[f]
    BY <2>5 DEF Over
  <2>7. Fresh(req[s])
    BY DEF Whole
  <2>8. QED
    BY <2>3, <2>5, <2>6, <2>7 DEF Fresh
<1>2. QED
  BY <1>1, AInvHolds, WholeInit, WholeStep, PTL DEF Spec

-----------------------------------------------------------------------------
(* Files *)

\* The services that migrate mount nothing from a reader, which a first container would drain.
Rereadable ==
    \A s \in Migrates :
        /\ Readers(Base[s]) = {} /\ Readers(Last[s]) = {}
        /\ \A c \in Compositions : s \in DOMAIN c => \A o \in c[s] : Readers(o) = {}

NoReaders == \A s \in App \cap Migrates : Readers(req[s]) = {}

LEMMA ReadersCustomize ==
  ASSUME NEW r, IsRequest(r), NEW o, o.hooks \in Seq(Hooks), Readers(r) = {}, Readers(o) = {}
  PROVE  Readers(Customize(o, r)) = {}
<1>1. /\ DOMAIN Customize(o, r).files = DOMAIN r.files \cup DOMAIN o.files
      /\ \A p \in DOMAIN o.files : Customize(o, r).files[p] = o.files[p]
      /\ \A p \in DOMAIN r.files \ DOMAIN o.files : Customize(o, r).files[p] = r.files[p]
  BY CustomizeAdds
<1>2. QED
  BY <1>1 DEF Readers

LEMMA NoReadersInit == ASSUME Rereadable PROVE Init => NoReaders
  BY DEF Rereadable, Init, NoReaders

LEMMA NoReadersStep ==
  ASSUME Rereadable, AInv, NoReaders, [Next]_vars
  PROVE  NoReaders'
<1>0. App' = App
  BY SuppliedKept
<1> SUFFICES ASSUME NEW s \in App, s \in Migrates PROVE Readers(req'[s]) = {}
  BY <1>0 DEF NoReaders, Readers
<1>1. Readers(req[s]) = {} /\ IsRequest(req[s])
  BY DEF NoReaders, AInv, Local
<1>2. CASE Verdict
  BY <1>1, <1>2 DEF Verdict
<1>3. ASSUME NEW t \in App, t # s, Step(t) PROVE req'[s] = req[s]
  BY <1>3, StepShape DEF Only, AInv
<1>4. CASE Step(s)
  <2>1. ASSUME NEW o \in pending[s], req'[s] = Customize(o, req[s])
        PROVE  Readers(req'[s]) = {}
    <3>1. o \in OptionsOf(s) /\ o.hooks \in Seq(Hooks)
      BY OptionHooks DEF AInv, Shape, Local
    <3>2. Readers(o) = {}
      BY <3>1 DEF Rereadable, AInv, Shape, OptionsOf, Supplies, App
    <3>3. QED
      BY <1>1, <2>1, <3>1, <3>2, ReadersCustomize
  <2>2. CASE req'[s] = Customize(Last[s], req[s])
    <3>1. Last[s].hooks \in Seq(Hooks) /\ Readers(Last[s]) = {}
      BY OptionHooks DEF AInv, Shape, Rereadable
    <3>2. QED
      BY <1>1, <2>2, <3>1, ReadersCustomize
  <2>3. CASE req'[s] = [req[s] EXCEPT !.env = Over(Filled(s), req[s].env)]
    <3>1. req'[s].files = req[s].files
      BY <1>1, <2>3 DEF IsRequest
    <3>2. QED
      BY <1>1, <3>1 DEF Readers
  <2>4. QED
    BY <1>1, <1>4, <2>1, <2>2, <2>3, Changes
<1>5. QED
  BY <1>1, <1>2, <1>3, <1>4, NextSteps DEF AInv

\* Without readers, the migration and the server both get every file.
THEOREM FilesReach ==
  ASSUME Rereadable
  PROVE  Spec => []FilesArrive
<1>1. AInv /\ Whole /\ NoReaders => FilesArrive
  <2> SUFFICES ASSUME AInv, Whole, NoReaders, NEW s \in App
               PROVE  /\ server[s] # None =>
                           \A p \in DOMAIN server[s].files : server[s].files[p] # ""
                      /\ job[s] # None => \A p \in DOMAIN job[s].files : job[s].files[p] # ""
    BY DEF FilesArrive
  <2>1. Local(s) /\ Filed(req[s])
    BY DEF AInv, Whole
  <2>2. Drained(s) = {}
    <3>1. CASE job[s] = None
      BY <3>1 DEF Drained
    <3>2. CASE job[s] # None
      <4>1. s \in Migrates
        BY <2>1, <3>2 DEF Local
      <4>2. QED
        BY <4>1 DEF Drained, NoReaders
    <3>3. QED
      BY <3>1, <3>2
  <2>3. \A p \in DOMAIN Contents(req[s], {}) : Contents(req[s], {})[p] # ""
    BY <2>1 DEF Contents, Filed
  <2>4. ASSUME server[s] # None
        PROVE  \A p \in DOMAIN server[s].files : server[s].files[p] # ""
    BY <2>2, <2>3, <2>4, ServerFacts
  <2>5. ASSUME job[s] # None
        PROVE  \A p \in DOMAIN job[s].files : job[s].files[p] # ""
    <3>1. job[s] = Container(JobRequest(req[s]), {}) /\ IsRequest(req[s])
      BY <2>1, <2>5 DEF Local
    <3>2. JobRequest(req[s]).files = req[s].files
      BY <3>1 DEF JobRequest, IsRequest
    <3>3. job[s].files = Contents(JobRequest(req[s]), {})
      BY <3>1 DEF Container
    <3>4. Contents(JobRequest(req[s]), {}) = Contents(req[s], {})
      BY <3>2 DEF Contents
    <3>5. QED
      BY <2>3, <3>3, <3>4
  <2>6. QED
    BY <2>4, <2>5
<1>2. QED
  BY <1>1, AInvHolds, WholeInit, WholeStep, NoReadersInit, NoReadersStep, PTL DEF Spec

-----------------------------------------------------------------------------
(* The fate of fx.New *)

\* What a panic, and a failure while a hook is due, say of the options and the server.
Judged ==
    /\ OnlyNilFunctionsPanic
    /\ \A s \in App : fate = "failed" /\ pc[s] = "hooks" => ~Connects(server[s])

\* A fate is decided once, by one constructor, and nothing happens afterwards.
LEMMA JudgedStep ==
  ASSUME AInv, Judged, [Next]_vars
  PROVE  Judged'
<1> USE DEF Judged, OnlyNilFunctionsPanic, App
<1>1. CASE Returned \/ UNCHANGED vars
  BY <1>1 DEF Returned, vars
<1>2. CASE Built
  BY <1>2 DEF Built
<1>3. ASSUME NEW s \in App, Step(s) PROVE Judged'
  <2>1. fate = "building"
    BY <1>3 DEF Step, NewRequest, FinishNew, ApplyOption, Link, RunJob, CreateServer, RunHook, Finish
  <2>2. fate' = "building"
    BY <1>3, <2>1, StepShape DEF AInv
  <2>3. QED
    BY <2>2
<1>4. ASSUME NEW s \in App, NEW o \in pending[s], OptionPanics(s, o) PROVE Judged'
  <2>1. fate' = "panicked" /\ o.value # "func" /\ supplied' = supplied
    BY <1>4 DEF OptionPanics
  <2>2. o \in supplied[s] /\ o.value # "nil" /\ o \in Chosen
    <3>1. o \in OptionsOf(s)
      BY DEF AInv, Local
    <3>2. QED
      BY <3>1, OptionHooks DEF AInv, Shape, OptionsOf, Supplies
  <2>3. o.value = "nil func"
    BY <2>1, <2>2, ValuesAssumption DEF ValuesAssumption
  <2>4. QED
    BY <2>1, <2>2, <2>3
<1>5. ASSUME NEW s \in App, NEW o \in pending[s], OptionFails(s, o) PROVE Judged'
  <2>1. pc[s] = "customizing" /\ fate' = "failed" /\ UNCHANGED <<supplied, pc, server>>
    BY <1>5 DEF OptionFails
  <2>2. \A t \in App : pc[t] # "hooks"
    BY <2>1 DEF AInv, Alone, Resting
  <2>3. QED
    BY <2>1, <2>2
<1>6. ASSUME NEW s \in App, LinkFails(s) PROVE Judged'
  BY <1>6 DEF LinkFails, Idle, Resting
<1>7. ASSUME NEW s \in App, HookFails(s) PROVE Judged'
  <2>1. /\ pc[s] = "hooks" /\ fate' = "failed" /\ ~Connects(server[s])
        /\ UNCHANGED <<supplied, pc, server>>
    BY <1>7 DEF HookFails
  <2>2. \A t \in App : pc[t] = "hooks" => t = s
    BY <2>1 DEF AInv, Alone, Resting
  <2>3. QED
    BY <2>1, <2>2
<1>8. QED
  BY <1>1, <1>2, <1>3, <1>4, <1>5, <1>6, <1>7 DEF Next, Step

LEMMA JudgedHolds == Spec => []Judged
<1>1. Init => Judged
  BY DEF Init, Judged, OnlyNilFunctionsPanic
<1>2. QED
  BY <1>1, JudgedStep, AInvHolds, PTL DEF Spec

\* fx.New panics only for a nil function among the options; an untyped nil never gets there.
THEOREM PanicsExplained == Spec => []OnlyNilFunctionsPanic
<1>1. Judged => OnlyNilFunctionsPanic
  BY DEF Judged
<1>2. QED
  BY <1>1, JudgedHolds, PTL

-----------------------------------------------------------------------------
(* TLS *)

Marked == \A s \in App : Labelled(req[s])

\* A customizer leaves the labels true of what the server is told, whatever it overwrites.
LEMMA LabelledCustomize ==
  ASSUME NEW r, IsRequest(r), Labelled(r),
         NEW o, o.hooks \in Seq(Hooks), Labelled(o), DOMAIN o.defaults \cap TLSLabels = {}
  PROVE  Labelled(Customize(o, r))
<1> DEFINE q == Customize(o, r)
<1>1. /\ \A k \in DOMAIN o.env : q.env[k] = o.env[k]
      /\ \A k \in DOMAIN r.env \ DOMAIN o.env : q.env[k] = r.env[k]
      /\ DOMAIN q.files = DOMAIN r.files \cup DOMAIN o.files
      /\ \A p \in DOMAIN o.files : q.files[p] = o.files[p]
      /\ \A p \in DOMAIN r.files \ DOMAIN o.files : q.files[p] = r.files[p]
      /\ q.args = r.args \cup o.args
  BY CustomizeAdds
<1>2. \A k \in TLSLabels : k \in DOMAIN q.env <=> k \in DOMAIN o.env \/ k \in DOMAIN r.env
  BY DEF Customize, Over
<1> HIDE DEF q
<1>3. /\ "tls.enabled" \in TLSLabels /\ "tls.cert_path" \in TLSLabels
      /\ "tls.ca_path" \in TLSLabels /\ "tls.verify" \in TLSLabels
  BY DEF TLSLabels
<1>4. Labelled(q)
  BY <1>1, <1>2, <1>3 DEF Labelled
<1>5. QED
  BY <1>4 DEF q

LEMMA MarkedInit == Init => Marked
<1> SUFFICES ASSUME Init, NEW s \in App PROVE Labelled(req[s])
  BY DEF Marked
<1>1. s \in Packages /\ req[s] = Base[s]
  BY CompositionsAssumption DEF Init, CompositionsAssumption, App
<1>2. QED
  BY <1>1, LabelsAssumption DEF LabelsAssumption

LEMMA MarkedStep ==
  ASSUME AInv, Marked, [Next]_vars
  PROVE  Marked'
<1>0. App' = App
  BY SuppliedKept
<1> SUFFICES ASSUME NEW s \in App PROVE Labelled(req'[s])
  BY <1>0 DEF Marked, Labelled
<1>1. Labelled(req[s]) /\ IsRequest(req[s])
  BY DEF Marked, AInv, Local
<1>2. CASE Verdict
  BY <1>1, <1>2 DEF Verdict
<1>3. ASSUME NEW t \in App, t # s, Step(t) PROVE req'[s] = req[s]
  BY <1>3, StepShape DEF Only, AInv
<1>4. CASE Step(s)
  <2>0. s \in Packages
    BY OptionHooks DEF AInv, Shape
  <2>1. ASSUME NEW o \in pending[s], ~o.fails, req'[s] = Customize(o, req[s])
        PROVE  Labelled(req'[s])
    <3>1. o \in Chosen /\ o.hooks \in Seq(Hooks)
      BY OptionHooks DEF AInv, Shape, Local
    <3>2. Labelled(o) /\ DOMAIN o.defaults \cap TLSLabels = {}
      BY <2>1, <3>1, LabelsAssumption DEF LabelsAssumption
    <3>3. QED
      BY <1>1, <2>1, <3>1, <3>2, LabelledCustomize
  <2>2. CASE req'[s] = Customize(Last[s], req[s])
    <3>1. Last[s] \in Chosen /\ Last[s].hooks \in Seq(Hooks)
      BY OptionHooks DEF AInv, Shape, Chosen
    <3>2. Labelled(Last[s]) /\ DOMAIN Last[s].defaults \cap TLSLabels = {}
      BY <2>0, <3>1, LabelsAssumption DEF LabelsAssumption
    <3>3. QED
      BY <1>1, <2>2, <3>1, <3>2, LabelledCustomize
  <2>3. CASE req'[s] = [req[s] EXCEPT !.env = Over(Filled(s), req[s].env)]
    <3> DEFINE e == req'[s].env
    <3>1. /\ e = Over(Filled(s), req[s].env) /\ req'[s].files = req[s].files
          /\ req'[s].args = req[s].args
      BY <1>1, <2>3 DEF IsRequest
    <3>2. DOMAIN Filled(s) \cap TLSLabels = {}
      BY <2>0, LabelsAssumption DEF LabelsAssumption, Filled
    <3>3. \A k \in TLSLabels :
            /\ k \in DOMAIN e <=> k \in DOMAIN req[s].env
            /\ k \in DOMAIN e => e[k] = req[s].env[k]
      BY <3>1, <3>2 DEF Over
    <3> HIDE DEF e
    <3>4. /\ "tls.enabled" \in TLSLabels /\ "tls.cert_path" \in TLSLabels
          /\ "tls.ca_path" \in TLSLabels /\ "tls.verify" \in TLSLabels
      BY DEF TLSLabels
    <3>5. QED
      BY <1>1, <3>1, <3>3, <3>4 DEF Labelled, e
  <2>4. QED
    BY <1>1, <1>4, <2>1, <2>2, <2>3, Changes
<1>5. QED
  BY <1>1, <1>2, <1>3, <1>4, NextSteps DEF AInv

LEMMA MarkedHolds == Spec => []Marked
<1>1. QED
  BY MarkedInit, MarkedStep, AInvHolds, PTL DEF Spec

\* A hook that trusts and presents what the labels name can connect, if any client can that
\* names no user.
LEMMA LabelledConnects ==
  ASSUME NEW x, Workable(x), ~AsksForUser(x), ~(SkipsVerification(x) /\ "--tlsverify" \in x.args),
         "tls.enabled" \in DOMAIN x.env => "tls.cert_path" \in DOMAIN x.env,
         "tls.cert_path" \in DOMAIN x.env => x.env["tls.cert_path"] = CertPath,
         "tls.ca_path" \in DOMAIN x.env => x.env["tls.ca_path"] = CAPath,
         "tls.ca_path" \in DOMAIN x.env <=> "--tlscacert" \in x.args,
         "tls.verify" \in DOMAIN x.env => x.env["tls.verify"] = "true",
         "tls.verify" \in DOMAIN x.env <=> "--tlsverify" \in x.args
  PROVE  Connects(x)
<1> SUFFICES ASSUME Label(x, "tls.enabled") = "true"
             PROVE  /\ SkipsVerification(x) \/ Verified(x.files[CertPath], Trusted(x))
                    /\ Admits(x, Presented(x))
  BY DEF Connects
<1>1. Label(x, "tls.cert_path") = CertPath
  BY DEF Label
<1>2. Verified(x.files[CertPath], Trusted(x))
  <2>1. CASE Label(x, "tls.ca_path") # ""
    <3>1. "--tlscacert" \in x.args /\ Label(x, "tls.ca_path") = CAPath
      BY <2>1 DEF Label
    <3>2. QED
      BY <2>1, <3>1 DEF Trusted, Workable
  <2>2. CASE Label(x, "tls.ca_path") = ""
    BY <1>1, <2>2 DEF Trusted, Verified
  <2>3. QED
    BY <2>1, <2>2
<1>3. Admits(x, Presented(x))
  <2>1. CASE "--tlsverify" \notin x.args
    BY <2>1 DEF Admits
  <2>2. CASE "--tlsverify" \in x.args
    <3>1. Presented(x) = x.files[CertPath]
      BY <2>2 DEF Presented, Label
    <3>2. QED
      BY <2>2, <3>1 DEF Admits, Workable
  <2>3. QED
    BY <2>1, <2>2
<1>4. QED
  BY <1>2, <1>3

\* With certificates that fit, no hook of nats is refused, but for the two exceptions.
THEOREM TLSConnects == Spec => []TLSHooksConnect
<1>1. AInv /\ Judged /\ Marked => TLSHooksConnect
  <2> SUFFICES ASSUME AInv, Judged, Marked, NEW s \in App, fate = "failed", pc[s] = "hooks",
                      Workable(server[s]), ~AsksForUser(server[s]),
                      ~(SkipsVerification(server[s]) /\ "--tlsverify" \in server[s].args)
               PROVE  FALSE
    BY DEF TLSHooksConnect
  <2>1. server[s] = Container(req[s], Drained(s))
    BY SeenFacts
  <2>2. server[s].env = req[s].env /\ server[s].args = req[s].args
    BY <2>1 DEF Container
  <2>3. Labelled(req[s]) /\ ~Connects(server[s])
    BY DEF Marked, Judged
  <2>4. QED
    BY <2>2, <2>3, LabelledConnects DEF Labelled
<1>2. QED
  BY <1>1, AInvHolds, JudgedHolds, MarkedHolds, PTL

\* No test asks the clients to skip verification.
Verifying ==
    /\ \A o \in Chosen : "tls.insecure_skip_verify" \notin DOMAIN o.env
    /\ \A s \in Packages : "tls.insecure_skip_verify" \notin DOMAIN Base[s].env

Strict == \A s \in App : "tls.insecure_skip_verify" \notin DOMAIN req[s].env

LEMMA StrictInit == ASSUME Verifying PROVE Init => Strict
  BY CompositionsAssumption DEF CompositionsAssumption, Verifying, Init, Strict, App

LEMMA StrictStep ==
  ASSUME Verifying, AInv, Strict, [Next]_vars
  PROVE  Strict'
<1> DEFINE k == "tls.insecure_skip_verify"
<1>0. App' = App /\ k \in TLSLabels
  BY SuppliedKept DEF TLSLabels
<1> SUFFICES ASSUME NEW s \in App PROVE k \notin DOMAIN req'[s].env
  BY <1>0 DEF Strict
<1>1. k \notin DOMAIN req[s].env /\ IsRequest(req[s]) /\ s \in Packages
  BY OptionHooks DEF Strict, AInv, Shape, Local
<1>2. CASE Verdict
  BY <1>1, <1>2 DEF Verdict
<1>3. ASSUME NEW t \in App, t # s, Step(t) PROVE req'[s] = req[s]
  BY <1>3, StepShape DEF Only, AInv
<1>4. CASE Step(s)
  <2>1. ASSUME NEW o \in Chosen, req'[s] = Customize(o, req[s])
        PROVE  k \notin DOMAIN req'[s].env
    <3>1. DOMAIN Customize(o, req[s]).env = DOMAIN o.env \cup DOMAIN req[s].env \cup DOMAIN o.defaults
      BY DEF Customize, Over
    <3>2. k \notin DOMAIN o.env /\ k \notin DOMAIN o.defaults
      BY <1>0, LabelsAssumption DEF LabelsAssumption, Verifying
    <3>3. QED
      BY <1>1, <2>1, <3>1, <3>2
  <2>2. pending[s] \subseteq Chosen /\ Last[s] \in Chosen
    BY <1>1, OptionHooks DEF AInv, Shape, Local, Chosen
  <2>3. CASE req'[s] = [req[s] EXCEPT !.env = Over(Filled(s), req[s].env)]
    <3>1. req'[s].env = Over(Filled(s), req[s].env)
      BY <1>1, <2>3 DEF IsRequest
    <3>2. k \notin DOMAIN Filled(s)
      BY <1>0, <1>1, LabelsAssumption DEF LabelsAssumption, Filled
    <3>3. QED
      BY <1>1, <3>1, <3>2 DEF Over
  <2>4. QED
    BY <1>1, <1>4, <2>1, <2>2, <2>3, Changes
<1>5. QED
  BY <1>1, <1>2, <1>3, <1>4, NextSteps DEF AInv

\* What the documentation says of client certificates is so unless a test asks to skip
\* verification.
THEOREM ClientCertPresented ==
  ASSUME Verifying
  PROVE  Spec => []PresentsClientCert
<1>1. AInv /\ Marked /\ Strict => PresentsClientCert
  <2> SUFFICES ASSUME AInv, Marked, Strict, NEW s \in App, pc[s] = "hooks",
                      Label(server[s], "tls.verify") = "true"
               PROVE  Presented(server[s]) # "none"
    BY DEF PresentsClientCert
  <2>1. server[s] = Container(req[s], Drained(s))
    BY SeenFacts
  <2>2. server[s].env = req[s].env /\ server[s].files = Contents(req[s], Drained(s))
    BY <2>1 DEF Container
  <2>3. ~SkipsVerification(server[s])
    BY <2>2 DEF Strict, SkipsVerification, Label
  <2>4. CertPath \in DOMAIN req[s].files /\ req[s].files[CertPath].text # "none"
    BY <2>2 DEF Marked, Labelled, Label
  <2>5. server[s].files[CertPath] # "none"
    BY <2>2, <2>4 DEF Contents
  <2>6. QED
    BY <2>3, <2>5 DEF Presented
<1>2. QED
  BY <1>1, AInvHolds, MarkedHolds, StrictInit, StrictStep, PTL DEF Spec

-----------------------------------------------------------------------------
(* The fleet *)

\* A container exists only on containers that run.
Founded ==
    \A s \in App : pc[s] \in {"linked", "migrated", "hooks", "running"} =>
        \A d \in Needs[s] : d \in App /\ pc[d] = "running"

LEMMA FoundedInit == Init => Founded
  BY DEF Init, Founded

LEMMA FoundedStep ==
  ASSUME AInv, Founded, [Next]_vars
  PROVE  Founded'
<1>0. App' = App
  BY SuppliedKept
<1> SUFFICES ASSUME NEW s \in App, pc'[s] \in {"linked", "migrated", "hooks", "running"},
                    NEW d \in Needs[s]
             PROVE  d \in App /\ pc'[d] = "running"
  BY <1>0 DEF Founded
<1>1. CASE pc[s] \in {"linked", "migrated", "hooks", "running"}
  BY <1>1, RunningStays DEF Founded
<1>2. CASE pc[s] = "requested" /\ \A e \in Needs[s] : pc[e] = "running"
  <2>1. d \in App
    BY OptionHooks, CompositionsAssumption DEF AInv, Shape, CompositionsAssumption, App
  <2>2. QED
    BY <1>2, <2>1, RunningStays
<1>3. CASE Step(s)
  BY <1>1, <1>2, <1>3, Changes
<1>4. CASE Verdict
  BY <1>1, <1>4 DEF Verdict
<1>5. ASSUME NEW t \in App, t # s, Step(t) PROVE pc'[s] = pc[s]
  BY <1>5, StepShape DEF Only, AInv
<1>6. QED
  BY <1>1, <1>3, <1>4, <1>5, NextSteps DEF AInv

\* Creating a server is the only step of the fleet.
LEMMA FleetStep ==
  ASSUME AInv, Founded, [Next]_vars
  PROVE  [Abstract!Next]_<<Existing, {}>>
<1>0. App' = App
  BY SuppliedKept
<1>1. ASSUME NEW s \in App, CreateServer(s) PROVE Abstract!Join(s)
  <2>1. /\ pc[s] \in {"linked", "migrated"} /\ server[s] = None
        /\ server' = [server EXCEPT ![s] = Container(req[s], Drained(s))]
    BY <1>1 DEF CreateServer, AInv, Local
  <2>2. Container(req[s], Drained(s)) # None
    BY DEF Container, None
  <2>3. s \notin Existing /\ Existing' = Existing \cup {s}
    BY <1>0, <2>1, <2>2 DEF Existing, AInv, Shape
  <2>4. \A d \in Needs[s] : d \in Existing
    <3> SUFFICES ASSUME NEW d \in Needs[s] PROVE d \in App /\ server[d] # None
      BY DEF Existing
    <3>1. d \in App /\ pc[d] = "running"
      BY <2>1 DEF Founded
    <3>2. server[d] = Container(req[d], Drained(d))
      BY <3>1, SeenFacts
    <3>3. QED
      BY <3>1, <3>2 DEF Container, None
  <2>5. QED
    BY <2>3, <2>4 DEF Abstract!Join
<1>2. ASSUME NEW s \in App, Step(s), ~CreateServer(s) PROVE Existing' = Existing
  <2>1. server' = server
    BY <1>2 DEF Step, NewRequest, FinishNew, ApplyOption, Link, RunJob, RunHook, Finish
  <2>2. QED
    BY <1>0, <2>1 DEF Existing
<1>3. CASE Verdict
  BY <1>0, <1>3 DEF Verdict, Existing
<1>4. \A s \in App : s \in Packages
  BY OptionHooks DEF AInv, Shape
<1>5. QED
  BY <1>1, <1>2, <1>3, <1>4, NextSteps DEF AInv, Abstract!Next

\* The containers of an application are a fleet: a service is created on running ones, in
\* whatever order the constructors are called, and whatever its options do to its request.
THEOREM AssemblyFleet == Spec => IsFleet
<1>1. Init => Abstract!Init
  BY DEF Init, Abstract!Init, Existing
<1>2. QED
  BY <1>1, AInvHolds, FoundedInit, FoundedStep, FleetStep, PTL DEF Spec, IsFleet, Abstract!Spec
=============================================================================
