------------------------------ MODULE Assembly ------------------------------
(***************************************************************************)
(* How the options a test gives to the modules become containers: New       *)
(* applies them to a request in any order, Actualize fills in what it reads *)
(* off the containers and requests of other services, a migration container *)
(* is made from a shallow copy of the request, then the server, and the     *)
(* PostReady hooks run, which read the request they were appended to.       *)
(*                                                                         *)
(* fx runs one constructor at a time, in any order the dependencies allow.  *)
(***************************************************************************)
EXTENDS NatsTLS, Naturals

CONSTANTS
    Packages,
    Needs,         \* the services whose containers Actualize of a service is injected with
    Migrates,      \* the services that run a migration container
    Base,          \* the request New of each service starts from, with the options it applies first
    Last,          \* what New applies after every option
    Links,         \* the entries of env Actualize sets: from which entry of the database's
                   \* request, or "address"
    Mangled,       \* texts that do not survive being part of a URL
    Compositions   \* what tests build: the options supplied to the modules of an application

ASSUME NeedsAssumption == Needs \in [Packages -> SUBSET Packages]
ASSUME MigratesAssumption == Migrates \subseteq Packages
ASSUME CompositionsAssumption ==
    \A c \in Compositions :
        /\ DOMAIN c \subseteq Packages
        /\ \A s \in DOMAIN c : Needs[s] \subseteq DOMAIN c

Database == "postgres"

\* What the copy of a request for its migration is assigned.
JobFields == [Cmd |-> "migrate", WaitingFor |-> "exit"]

\* Every option of every test, and what New applies last.
Chosen ==
    (UNION {UNION {c[s] : s \in DOMAIN c} : c \in Compositions}) \cup {Last[s] : s \in Packages}

HooksOf(x) == {x.hooks[i] : i \in DOMAIN x.hooks}

\* The hooks there are.
Hooks == UNION {HooksOf(x) : x \in Chosen \cup {Base[s] : s \in Packages}}

ASSUME RequestsAssumption ==
    /\ \A s \in Packages :
          /\ Base[s] = [env |-> Base[s].env, fields |-> Base[s].fields, files |-> Base[s].files,
                        args |-> Base[s].args, ports |-> Base[s].ports, hooks |-> Base[s].hooks]
          /\ Base[s].hooks \in Seq(Hooks)
    /\ \A o \in Chosen : o.hooks \in Seq(Hooks)
    /\ \A s \in Packages : DOMAIN Last[s].defaults = {}

\* No file is empty, and no server is told to migrate.
ASSUME ContentsAssumption ==
    \A x \in Chosen \cup {Base[s] : s \in Packages} :
        /\ \A p \in DOMAIN x.files : x.files[p].text # ""
        /\ \A f \in DOMAIN x.fields \cap DOMAIN JobFields : x.fields[f] # JobFields[f]

ASSUME LinksAssumption ==
    \A s \in Packages : \A k \in DOMAIN Links[s] :
        Links[s][k].from # "address" => Database \in Needs[s]

\* An option is a function, or a nil that was typed as one, or an untyped nil.
ASSUME ValuesAssumption == \A o \in Chosen : o.value \in {"func", "nil func", "nil"}

TLSLabels ==
    {"tls.enabled", "tls.cert_path", "tls.ca_path", "tls.verify", "tls.insecure_skip_verify"}

\* Only nats.WithTLS, which sets all of them, touches the labels and files of TLS.
ASSUME LabelsAssumption ==
    /\ \A s \in Packages :
          Labelled(Base[s]) /\ Labelled(Last[s]) /\ DOMAIN Links[s] \cap TLSLabels = {}
    /\ \A o \in Chosen : DOMAIN o.defaults \cap TLSLabels = {} /\ (~o.fails => Labelled(o))

VARIABLES
    supplied,   \* the options given to each Module
    pending,    \* those New has not applied yet
    pc,         \* how far each service is
    req,        \* p.Request of each service
    job,        \* the migration container, as created
    server,     \* the container, as created
    seen,       \* what the hooks have found out
    fate        \* of fx.New

vars == <<supplied, pending, pc, req, job, server, seen, fate>>

App == DOMAIN supplied

\* No container yet.
None == [none |-> TRUE]

\* Between two constructors, and after them, a service is in one of these states.
Resting == {"none", "requested", "running"}

States == Resting \cup {"customizing", "linked", "migrated", "hooks"}

\* The options BuildContainerModule passes on: all but an untyped nil.
\* Mutant: all.
SuppliesAll(options) == options

Supplies(options) == {o \in options : o.value # "nil"}

TypeOK ==
    /\ App \subseteq Packages /\ \A s \in App : Needs[s] \subseteq App
    /\ DOMAIN pc = App /\ \A s \in App : pc[s] \in States
    /\ DOMAIN pending = App /\ \A s \in App : pending[s] \subseteq supplied[s]
    /\ DOMAIN req = App /\ DOMAIN job = App /\ DOMAIN server = App
    /\ DOMAIN seen = App /\ \A s \in App : Len(seen[s]) <= Len(req[s].hooks)
    /\ fate \in {"building", "built", "failed", "panicked"}
    /\ \A s, t \in App : pc[s] \notin Resting /\ pc[t] \notin Resting => s = t
    /\ \A s \in App : pc[s] \notin {"none", "customizing"} => pending[s] = {}

Init ==
    /\ supplied \in Compositions
    /\ pending = [s \in App |-> {}]
    /\ pc = [s \in App |-> "none"]
    /\ req = [s \in App |-> Base[s]]
    /\ job = [s \in App |-> None]
    /\ server = [s \in App |-> None]
    /\ seen = [s \in App |-> <<>>]
    /\ fate = "building"

Idle == \A s \in App : pc[s] \in Resting

--------------------------------------------------------------------------------
(* New *)

NewRequest(s) ==
    /\ fate = "building" /\ Idle
    /\ pc[s] = "none"
    /\ pc' = [pc EXCEPT ![s] = "customizing"]
    /\ pending' = [pending EXCEPT ![s] = Supplies(supplied[s])]
    /\ UNCHANGED <<supplied, req, job, server, seen, fate>>

\* The group hands the options over in no particular order.
ApplyOption(s, o) ==
    /\ fate = "building"
    /\ pc[s] = "customizing"
    /\ o \in pending[s]
    /\ o.value = "func" /\ ~o.fails
    /\ req' = [req EXCEPT ![s] = Customize(o, @)]
    /\ pending' = [pending EXCEPT ![s] = @ \ {o}]
    /\ UNCHANGED <<supplied, pc, job, server, seen, fate>>

OptionFails(s, o) ==
    /\ fate = "building"
    /\ pc[s] = "customizing"
    /\ o \in pending[s]
    /\ o.value = "func" /\ o.fails
    /\ fate' = "failed"
    /\ UNCHANGED <<supplied, pending, pc, req, job, server, seen>>

\* A nil function inside the interface is called.
OptionPanics(s, o) ==
    /\ fate = "building"
    /\ pc[s] = "customizing"
    /\ o \in pending[s]
    /\ o.value # "func"
    /\ fate' = "panicked"
    /\ UNCHANGED <<supplied, pending, pc, req, job, server, seen>>

\* Mutant: the loop over the options ends early.
FinishNewEarly(s) ==
    /\ fate = "building"
    /\ pc[s] = "customizing"
    /\ req' = [req EXCEPT ![s] = Customize(Last[s], @)]
    /\ pc' = [pc EXCEPT ![s] = "requested"]
    /\ UNCHANGED <<supplied, pending, job, server, seen, fate>>

FinishNew(s) ==
    /\ fate = "building"
    /\ pc[s] = "customizing"
    /\ pending[s] = {}
    /\ req' = [req EXCEPT ![s] = Customize(Last[s], @)]
    /\ pc' = [pc EXCEPT ![s] = "requested"]
    /\ UNCHANGED <<supplied, pending, job, server, seen, fate>>

--------------------------------------------------------------------------------
(* Actualize *)

\* An entry missing from a Go map reads as "".
Entry(env, k) == IF k \in DOMAIN env THEN env[k] ELSE ""

\* Mutant: the request of the database as its New had begun it.
LinkTextBase(link) ==
    IF link.from = "address" THEN "address" ELSE Entry(Base[Database].env, link.from)

\* An entry set from the database's request, directly or as a part of a URL.
LinkText(link) ==
    IF link.from = "address" THEN "address"
    ELSE LET text == Entry(req[Database].env, link.from)
         IN  IF link.url /\ text \in Mangled THEN "unreadable" ELSE text

\* concourse parses the URL itself, and returns an error if it cannot.
CanLink(s) ==
    \A k \in DOMAIN Links[s] :
        Links[s][k].parsed => Entry(req[Database].env, Links[s][k].from) \notin Mangled

Filled(s) == [k \in DOMAIN Links[s] |-> LinkText(Links[s][k])]

\* Mutant: without waiting for the containers it is to be injected with.
InjectedEager(s) == pc[s] = "requested"

Injected(s) == pc[s] = "requested" /\ \A d \in Needs[s] : pc[d] = "running"

Link(s) ==
    /\ fate = "building" /\ Idle
    /\ Injected(s) /\ CanLink(s)
    /\ req' = [req EXCEPT ![s].env = Over(Filled(s), @)]
    /\ pc' = [pc EXCEPT ![s] = "linked"]
    /\ UNCHANGED <<supplied, pending, job, server, seen, fate>>

LinkFails(s) ==
    /\ fate = "building" /\ Idle
    /\ Injected(s) /\ ~CanLink(s)
    /\ fate' = "failed"
    /\ UNCHANGED <<supplied, pending, pc, req, job, server, seen>>

\* Mutant: the hooks are copied too.
JobRequestHooked(r) == [r EXCEPT !.fields = Over(JobFields, @)]

\* migrateGenericContainerReq: a copy of the request, some fields of which are assigned.
JobRequest(r) == [r EXCEPT !.fields = Over(JobFields, @), !.hooks = <<>>]

RunJob(s) ==
    /\ fate = "building"
    /\ pc[s] = "linked"
    /\ s \in Migrates
    /\ job' = [job EXCEPT ![s] = Container(JobRequest(req[s]), {})]
    /\ pc' = [pc EXCEPT ![s] = "migrated"]
    /\ UNCHANGED <<supplied, pending, req, server, seen, fate>>

\* The readers of the shared files the job has drained.
Drained(s) == IF job[s] = None THEN {} ELSE Readers(req[s])

\* Mutant: an entry is added to the request on the way.
CreateServerMarked(s) ==
    /\ fate = "building"
    /\ pc[s] = IF s \in Migrates THEN "migrated" ELSE "linked"
    /\ req' = [req EXCEPT ![s].env = Over("MIGRATED" :> "true", @)]
    /\ server' = [server EXCEPT ![s] = Container(req'[s], Drained(s))]
    /\ pc' = [pc EXCEPT ![s] = "hooks"]
    /\ UNCHANGED <<supplied, pending, job, seen, fate>>

CreateServer(s) ==
    /\ fate = "building"
    /\ pc[s] = IF s \in Migrates THEN "migrated" ELSE "linked"
    /\ server' = [server EXCEPT ![s] = Container(req[s], Drained(s))]
    /\ pc' = [pc EXCEPT ![s] = "hooks"]
    /\ UNCHANGED <<supplied, pending, req, job, seen, fate>>

NextHook(s) == req[s].hooks[Len(seen[s]) + 1]

HooksLeft(s) == Len(seen[s]) < Len(req[s].hooks)

\* Mutant: the hook has kept the values of the request New began with.
RunHookStale(s) ==
    /\ fate = "building"
    /\ pc[s] = "hooks" /\ HooksLeft(s)
    /\ NextHook(s).connects => Connects(server[s])
    /\ seen' = [seen EXCEPT ![s] = Append(@, Observed(NextHook(s), Base[s]))]
    /\ UNCHANGED <<supplied, pending, pc, req, job, server, fate>>

RunHook(s) ==
    /\ fate = "building"
    /\ pc[s] = "hooks" /\ HooksLeft(s)
    /\ NextHook(s).connects => Connects(server[s])
    /\ seen' = [seen EXCEPT ![s] = Append(@, Observed(NextHook(s), req[s]))]
    /\ UNCHANGED <<supplied, pending, pc, req, job, server, fate>>

\* The connection is refused; GenericContainer and Actualize return the error.
HookFails(s) ==
    /\ fate = "building"
    /\ pc[s] = "hooks" /\ HooksLeft(s)
    /\ NextHook(s).connects /\ ~Connects(server[s])
    /\ fate' = "failed"
    /\ UNCHANGED <<supplied, pending, pc, req, job, server, seen>>

\* Mutant: with hooks left.
FinishEarly(s) ==
    /\ fate = "building"
    /\ pc[s] = "hooks"
    /\ pc' = [pc EXCEPT ![s] = "running"]
    /\ UNCHANGED <<supplied, pending, req, job, server, seen, fate>>

Finish(s) ==
    /\ fate = "building"
    /\ pc[s] = "hooks" /\ ~HooksLeft(s)
    /\ pc' = [pc EXCEPT ![s] = "running"]
    /\ UNCHANGED <<supplied, pending, req, job, server, seen, fate>>

Built ==
    /\ fate = "building"
    /\ \A s \in App : pc[s] = "running"
    /\ fate' = "built"
    /\ UNCHANGED <<supplied, pending, pc, req, job, server, seen>>

\* fx.New has returned.
Returned == fate # "building" /\ UNCHANGED vars

Next ==
    \/ \E s \in App :
          \/ NewRequest(s) \/ FinishNew(s)
          \/ \E o \in pending[s] : ApplyOption(s, o) \/ OptionFails(s, o) \/ OptionPanics(s, o)
          \/ Link(s) \/ LinkFails(s) \/ RunJob(s) \/ CreateServer(s)
          \/ RunHook(s) \/ HookFails(s) \/ Finish(s)
    \/ Built
    \/ Returned

Spec == Init /\ [][Next]_vars

--------------------------------------------------------------------------------
(* Properties *)

OptionsOf(s) == Supplies(supplied[s])

\* The entries of a request of s whose value neither New nor Actualize sets after the options.
LeftToOptions(s, env) == DOMAIN env \ (DOMAIN Last[s].env \cup DOMAIN Links[s])

\* The value v of the entry k is one that the options D set, or else the one New began with,
\* or else a default one of them brought.
Sourced(s, D, k, v) ==
    \/ \E p \in D : k \in DOMAIN p.env /\ v = p.env[k]
    \/ k \in DOMAIN Base[s].env /\ v = Base[s].env[k]
    \/ /\ k \notin DOMAIN Base[s].env
       /\ \E p \in D : k \in DOMAIN p.defaults /\ v = p.defaults[k]

\* What an option adds is in the container, or was overwritten by an option.
Arrived(s, o) ==
    /\ \A k \in LeftToOptions(s, o.env) :
         \E p \in OptionsOf(s) : k \in DOMAIN p.env /\ server[s].env[k] = p.env[k]
    /\ \A f \in DOMAIN o.fields \ DOMAIN Last[s].fields :
         \E p \in OptionsOf(s) : f \in DOMAIN p.fields /\ server[s].fields[f] = p.fields[f]
    /\ DOMAIN o.env \cup DOMAIN o.defaults \subseteq DOMAIN server[s].env
    /\ DOMAIN o.files \subseteq DOMAIN server[s].files
    /\ o.args \subseteq server[s].args
    /\ o.ports \subseteq server[s].ports
    /\ \A i \in DOMAIN o.hooks :
         \E j \in DOMAIN server[s].hooks : server[s].hooks[j] = o.hooks[i]

\* What an option adds reaches the container, whatever the order the group came in: an entry
\* that neither New nor Actualize sets afterwards has the value of an option that sets it (so
\* an option alone with its entry has it), a default is there unless it was not needed, and
\* its files, words, ports and hooks are there (main.go:35, the loop of every New,
\* livekit/livekit.go:90).  No entry has a value nobody gave.
OptionsTakeEffect ==
    \A s \in App : server[s] # None =>
        /\ \A k \in LeftToOptions(s, server[s].env) :
              Sourced(s, OptionsOf(s), k, server[s].env[k])
        /\ \A o \in OptionsOf(s) : Arrived(s, o)

\* The server and its migration see the text of every file the packages mount, although
\* both containers are made from one request (hydra/hydra.go:145, kratos/kratos.go:186).
FilesArrive ==
    \A s \in App :
        /\ server[s] # None => \A p \in DOMAIN server[s].files : server[s].files[p] # ""
        /\ job[s] # None => \A p \in DOMAIN job[s].files : job[s].files[p] # ""

\* A hook, which reads a request that Actualize has changed since the hook was appended,
\* finds the credentials and ports of the container it is about (minio/minio.go:41,
\* postgres/postgres.go:43, main.go:60).
HooksSeeContainer ==
    \A s \in App : \A i \in DOMAIN seen[s] :
        seen[s][i] = Observed(server[s].hooks[i], server[s])

\* Other services and the test get a container whose hooks have all run, each once.
HooksRunOnce ==
    \A s \in App : pc[s] = "running" =>
        /\ Len(seen[s]) = Len(server[s].hooks)
        /\ \A i \in DOMAIN seen[s] : seen[s][i].id = server[s].hooks[i].id

\* A migration runs with the settings of its server, on the same database, and nothing the
\* copy has assigned reaches the server (hydra/hydra.go:145-149).
JobMatchesServer ==
    \A s \in App : job[s] # None /\ server[s] # None =>
        /\ job[s].env = server[s].env
        /\ job[s].hooks = <<>> /\ server[s].hooks = req[s].hooks
        /\ \A f \in DOMAIN JobFields :
             f \in DOMAIN server[s].fields => server[s].fields[f] # job[s].fields[f]

\* A request is final once a container is made from it: its hooks read it later, and so do
\* the constructors of other services (hydra/hydra.go:136).
RequestFrozen ==
    [][\A s \in App : job[s] # None \/ server[s] # None => req'[s] = req[s]]_vars

\* A service logs in to the database as the user the database has, if the test names one
\* whose name and password can stand in a URL, and whatever DSN an option of the service
\* has set (hydra/hydra.go:132, zitadel/zitadel.go:164, concourse/concourse.go:125).
CredentialsMatch ==
    \A s \in App : server[s] # None =>
        \A k \in DOMAIN Links[s] :
            LET from == Links[s][k].from
            IN  /\ from # "address"
                /\ from \in DOMAIN server[Database].env
                /\ Links[s][k].url => server[Database].env[from] \notin Mangled
                => server[s].env[k] = server[Database].env[from]

\* fx.New panics only for an option that is a nil function (postgres/postgres.go:77); an
\* untyped nil is skipped (main.go:36).
OnlyNilFunctionsPanic ==
    fate = "panicked" => \E s \in App : \E o \in supplied[s] : o.value = "nil func"

\* With certificates that fit, the hooks of nats connect, unless the server's configuration
\* file asks for a user (nats/nats.go:266), or clients are verified and the hooks told to skip
\* verification (nats/nats.go:216).
TLSHooksConnect ==
    \A s \in App : fate = "failed" /\ pc[s] = "hooks" =>
        \/ ~Workable(server[s])
        \/ AsksForUser(server[s])
        \/ SkipsVerification(server[s]) /\ "--tlsverify" \in server[s].args

Existing == {s \in App : server[s] # None}

Abstract == INSTANCE Fleet WITH Units <- Packages, up <- Existing, lost <- {}

\* The containers that exist are a fleet: each is created on containers that exist already
\* (hydra/hydra.go:113), and none goes while fx.New is under way.
IsFleet == Abstract!Spec

\* nats/nats.go:199: "If mTLS (Verify) is enabled, it also presents the server cert as
\* client credentials."
PresentsClientCert ==
    \A s \in App : pc[s] = "hooks" /\ HooksLeft(s) /\ NextHook(s).connects =>
        (Label(server[s], "tls.verify") = "true" => Presented(server[s]) # "none")

=============================================================================
