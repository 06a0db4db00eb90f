------------------------------- MODULE Services -------------------------------
(***************************************************************************)
(* The service packages, as far as the life of an application depends on   *)
(* them: what each constructor is injected with, the container ports it    *)
(* exposes and later asks Docker for, the access proxies its Module        *)
(* provides, and the two places where a service leaves the common pattern  *)
(* (a migration container, a second start).                                *)
(***************************************************************************)
EXTENDS Naturals

\* A port chosen by the kernel when the application is built.
AnyPort == 0

\* A package without dependencies or proxies, whose OnStart asks for these ports.
Plain(ports, reports) ==
    [needs |-> {}, ports |-> ports, reports |-> reports, proxies |-> {},
     migrates |-> FALSE, reruns |-> FALSE]

\* A proxy is named after its fx name, which its container may have too.
Forward(name, target, listen) == [name |-> name, target |-> target, listen |-> listen]

Postgres    == Plain({5432}, {5432})
Timescaledb == Plain({5432}, {5432})
Redis       == Plain({6379}, {6379})
Valkey      == Plain({6379}, {6379})
Minio       == Plain({9000, 9001}, {9000})
Rustfs      == Plain({9000, 9001}, {9000})
Versitygw   == Plain({7070}, {7070})
Nats        == Plain({4222, 8222, 6222}, {4222, 8222, 6222})
Temporal    == Plain({7233, 8233}, {7233, 8233})
Typesense   == Plain({8108}, {8108})
Openfga     == Plain({8080, 8081}, {8080, 8081})
Registry    == Plain({5000}, {5000})
Dind        == Plain({2375, 2376}, {2375})
Lgtm        == Plain({3000, 3100, 3200, 4317, 4318, 9090},
                     {3000, 3100, 3200, 4317, 4318, 9090})
Kanidm      == Plain({8443}, {8443})

Mailslurper ==
    [Plain({4436, AnyPort, 1025}, {4436, AnyPort, 1025}) EXCEPT
       !.proxies = {Forward("mailslurper proxy", AnyPort, AnyPort)}]

Livekit ==
    [Plain({7880, 7881}, {7880}) EXCEPT
       !.proxies = {Forward("livekit proxy", 7881, AnyPort)}]

Hydra ==
    [Plain({4444, 4445}, {4444, 4445}) EXCEPT
       !.needs = {"postgres"},
       !.migrates = TRUE,
       !.proxies = {Forward("hydra proxy", 4444, 4444), Forward("hydraadmin proxy", 4445, 4445)}]

Kratos ==
    [Plain({4433, 4434}, {4433, 4434}) EXCEPT
       !.needs = {"hydra", "mailslurper", "postgres"},
       !.migrates = TRUE,
       !.proxies = {Forward("kratos proxy", 4433, 4433), Forward("kratosadmin proxy", 4434, 4434)}]

Zitadel ==
    [Plain({8080}, {8080}) EXCEPT
       !.needs = {"postgres"},
       !.proxies = {Forward("zitadel proxy", 8080, 8081)}]

Concourse ==
    [Plain({8080}, {8080}) EXCEPT
       !.needs = {"postgres"},
       !.reruns = TRUE,
       !.proxies = {Forward("concourse proxy", 8080, 8080)}]

Catalogue ==
    [postgres |-> Postgres, timescaledb |-> Timescaledb, redis |-> Redis,
     valkey |-> Valkey, minio |-> Minio, rustfs |-> Rustfs, versitygw |-> Versitygw,
     nats |-> Nats, temporal |-> Temporal, typesense |-> Typesense,
     openfga |-> Openfga, registry |-> Registry, dind |-> Dind, lgtm |-> Lgtm,
     kanidm |-> Kanidm, mailslurper |-> Mailslurper, livekit |-> Livekit,
     hydra |-> Hydra, kratos |-> Kratos, zitadel |-> Zitadel, concourse |-> Concourse]

Names == DOMAIN Catalogue

ProxiesOf(app) == UNION {Catalogue[s].proxies : s \in app}

\* An application can be built when every injected container is provided too.
Installable(app) == \A s \in app : Catalogue[s].needs \subseteq app

\* No cycle of needs: some order of the names puts each after all it needs.
ASSUME AcyclicAssumption ==
    \A app \in SUBSET {s \in Names : Catalogue[s].needs # {}} :
        app # {} => \E s \in app : Catalogue[s].needs \cap app = {}

\* Every port OnStart or a proxy asks Docker for is one the container exposes, or
\* Start could never succeed.
ASSUME ExposedAssumption ==
    \A s \in Names :
        /\ Catalogue[s].reports \subseteq Catalogue[s].ports
        /\ \A p \in Catalogue[s].proxies : p.target \in Catalogue[s].ports

\* The proxies of one application never compete for a port: fixed ports are distinct.
ASSUME DistinctPortsAssumption ==
    \A p, q \in ProxiesOf(Names) :
        p.listen = q.listen /\ p.listen # AnyPort => p = q
=============================================================================
