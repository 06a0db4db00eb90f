----------------------------- MODULE MCAssembly -----------------------------
(***************************************************************************)
(* Applications of the real packages and their options, for TLC: one        *)
(* package with all it needs, at most two of its options, and a few ways to *)
(* set up the database.                                                    *)
(***************************************************************************)
EXTENDS Assembly, Options, Services

CONSTANT Targets   \* the packages under test

Offered ==
    [postgres |-> {WithUsername("alice"), WithPassword("secret"), WithPassword("p#ss"),
                   WithDatabase("app"), WithMigration, WithExtraDatabase("hydra", TRUE),
                   WithExtraDatabase("hydra", FALSE), WithPostReadyHook("ready"),
                   [Nothing EXCEPT !.value = "nil"]},
     timescaledb |-> {WithUsername("alice"), WithPassword("secret"), WithDatabase("app"),
                      WithMigration},
     redis |-> {WithPostReadyHook("ready")},
     valkey |-> {WithPostReadyHook("ready")},
     minio |-> {MinioWithBucket("b1"), MinioWithBucket("b2"), MinioCredentials("id", "key")},
     rustfs |-> {RustfsWithBucket("b1"), RustfsCredentials("id", "key")},
     versitygw |-> {WithAccessKey("id"), WithSecretKey("key"), WithBackend("s3"),
                    WithPOSIXBackend, VersitygwWithBucket("b1")},
     nats |-> {WithTLS(c) : c \in {d \in TLSConfigs : d.cert # "none" /\ d.key}}
              \cup {WithTLS([cert |-> "self", key |-> FALSE, ca |-> "none", verify |-> FALSE,
                             insecure |-> FALSE]),
                    NatsWithUsername("alice"), NatsWithPassword("secret"),
                    NatsWithArgument("pid", "/pid"), NatsWithConfigFile("authorization"),
                    NatsWithConfigFile("log settings"), WithJetStreamStorageDir("/data"),
                    WithJetStreamDomain("hub"), WithStream("orders"), WithJetStreamCallback},
     temporal |-> {WithNamespace("n1"), WithNamespace("n2"), WithPostReadyHook("ready")},
     typesense |-> {WithApiKey("k1"), WithApiKey("k2")},
     openfga |-> {WithAuthorizationModel, WithPresharedKey("token")},
     registry |-> {WithDeleteEnabled, WithBasicAuth("htpasswd"), WithStoragePath("/data")},
     dind |-> {DindWithTLS("/certs"), WithInsecureRegistries({"r1"}),
               WithInsecureRegistries({"r2"})},
     lgtm |-> {WithDashboard({"d1"}), WithDashboard({"d2", "d3"})},
     kanidm |-> {WithDomain("a.test"), WithOrigin("https://a.test"), WithBindAddress("0.0.0.0:1"),
                 WithLDAPBindAddress("0.0.0.0:3636"), WithLogLevel("debug"), WithDBPath("/db"),
                 WithDBFSType("zfs"), WithDBArcSize("256"), WithPostReadyHook("ready")},
     mailslurper |-> {WithPostReadyHook("ready")},
     livekit |-> {WithAPIKey("k1", TRUE), WithAPIKey("k2", FALSE), WithWebhookURL("devkey", "u1"),
                  WithWebhookURL("k1", "u2"), WithPostReadyHook("ready")},
     hydra |-> {HydraWithPostgres("bob", "other"), HydraWithURL("u1"), HydraWithURL("u2"),
                HydraWithSelfServiceUIURL("u1"), WithKratosPublicURL("u1"), WithKratosURL("u1"),
                WithGenerateClientCredentialsHook},
     kratos |-> {KratosWithPostgres("bob", "other"), KratosWithURL("u1"), WithAdminURL("u1"),
                 WithRootDomain("a.test"), WithRegistrationHook("u1"), WithSettingsHook("u1"),
                 KratosWithSelfServiceUIURL("u1"), WithHydraPublicURL, WithHydraAdminURL("u1"),
                 WithIdentitySchema("schema.json"), WithSmtpURI("u1"), WithOIDCConfig({"0"}),
                 WithOIDCConfig({"0", "1"}), WithPostReadyHook("ready")},
     zitadel |-> {WithPostgresConnection("bob", "other"), WithPostgresAdminConnection("bob", "other"),
                  WithMasterkey("key"), WithOrganizationName("org"), WithAdminUser("admin", "secret"),
                  WithServiceUser("robot")},
     concourse |-> {ConcourseWithPostgres("bob", "other", TRUE),
                    ConcourseWithPostgres("bob", "other", FALSE), WithMainTeamUser("admin"),
                    WithSecret("secret"), WithExternalURL("u1"), WithPostReadyHook("ready")}]

MCBase ==
    [postgres |-> PostgresBase, timescaledb |-> PostgresBase, redis |-> RedisBase,
     valkey |-> ValkeyBase, minio |-> MinioBase, rustfs |-> RustfsBase,
     versitygw |-> VersitygwBase, nats |-> NatsBase, temporal |-> TemporalBase,
     typesense |-> TypesenseBase, openfga |-> OpenfgaBase, registry |-> RegistryBase,
     dind |-> DindBase, lgtm |-> LgtmBase, kanidm |-> KanidmBase,
     mailslurper |-> MailslurperBase, livekit |-> LivekitBase, hydra |-> HydraBase,
     kratos |-> Customize(WithIdentitySchema(""), KratosBase), zitadel |-> ZitadelBase,
     concourse |-> ConcourseBase]

MCLast ==
    [s \in Names |->
       CASE s \in {"postgres", "timescaledb"} -> BasicWaitStrategies
         [] s = "livekit" -> SetRTCPort
         [] OTHER -> Nothing]

MCLinks ==
    [s \in Names |->
       CASE s = "hydra" -> HydraLinks
         [] s = "kratos" -> KratosLinks
         [] s = "zitadel" -> ZitadelLinks
         [] s = "concourse" -> ConcourseLinks
         [] OTHER -> NoEntries]

MCNeeds == [s \in Names |-> Catalogue[s].needs]
MCMigrates == {s \in Names : Catalogue[s].migrates}

\* kratos needs hydra, which needs the database, which kratos needs too.
Installed(target) == {target} \cup Catalogue[target].needs

\* How tests set up a database another service uses.
DatabaseSetups(target) ==
    IF "postgres" \in Catalogue[target].needs
    THEN {{WithUsername("alice"), WithPassword("secret")},
          {WithPassword("secret"), WithMigration},
          {WithUsername("alice"), WithPassword("p#ss")}}
    ELSE {{}}

UpToTwo(S) == {{}} \cup {{o, p} : o, p \in S}

MCCompositions ==
    UNION {{[s \in Installed(t) |-> IF s = t THEN o ELSE IF s = "postgres" THEN d ELSE {}] :
              o \in UpToTwo(Offered[t]), d \in DatabaseSetups(t)} : t \in Targets}

--------------------------------------------------------------------------------

\* livekit/livekit.go:8: "TCP-only media via port 7881".  The server listens on the port
\* its configuration names, and the proxy forwards to this one.
MediaReachable ==
    "livekit" \in App /\ server["livekit"] # None =>
        \A p \in Catalogue["livekit"].proxies :
            server["livekit"].env["LIVEKIT_CONFIG.rtc.tcp_port"] = ToString(p.target)
=============================================================================
