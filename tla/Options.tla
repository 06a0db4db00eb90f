------------------------------- MODULE Options -------------------------------
(***************************************************************************)
(* The requests the New functions start from, and the customizers the       *)
(* packages export, each with the entries of the request it sets.           *)
(*                                                                         *)
(* Texts derived from a parameter by formatting (url + "/consent") are the  *)
(* parameter, generated secrets are "random", and settings that neither an  *)
(* option nor a property touches are left out.                              *)
(***************************************************************************)
EXTENDS NatsTLS

\* Every one of the keys has the value v.
All(keys, v) == [k \in keys |-> v]

--------------------------------------------------------------------------------
(* postgres and timescaledb *)

PostgresBase == Request(NoEntries, {"5432/tcp"})

WithUsername(user) == Set("POSTGRES_USER" :> user)
WithPassword(password) == Set("POSTGRES_PASSWORD" :> password)
WithDatabase(name) == Set("POSTGRES_DB" :> name)

WithMigration == Ready(Hook("migration", {"POSTGRES_USER", "POSTGRES_PASSWORD", "POSTGRES_DB"}))

\* An init script in a temporary file or, if that cannot be written, no function at all.
WithExtraDatabase(database, written) ==
    IF written
    THEN [Nothing EXCEPT !.files = Mount("/docker-entrypoint-initdb.d/" \o database, "init script")]
    ELSE [Nothing EXCEPT !.value = "nil func"]

BasicWaitStrategies == [Nothing EXCEPT !.fields = "WaitingFor" :> "ready to accept connections"]

--------------------------------------------------------------------------------
(* Ory hydra and kratos *)

HydraBase ==
    [Request(All({"SECRETS_COOKIE_0", "SECRETS_SYSTEM_0"}, "random"),
             {"4444/tcp", "4445/tcp"})
       EXCEPT !.fields = ("Cmd" :> "serve") @@ ("WaitingFor" :> "/health/ready")]

\* The parts of a connection string that the properties compare.
HydraWithPostgres(user, password) == Set(("DSN.user" :> user) @@ ("DSN.password" :> password))

HydraWithURL(url) == Set("URLS_SELF_ISSUER" :> url)
HydraWithSelfServiceUIURL(url) == Set(All({"URLS_CONSENT", "URLS_LOGIN", "URLS_LOGOUT"}, url))
WithKratosPublicURL(url) == Set("URLS_IDENTITY_PROVIDER_PUBLICURL" :> url)
WithKratosURL(url) == Set("URLS_IDENTITY_PROVIDER_URL" :> url)

\* Creates the client, and hands its credentials to the test.
WithGenerateClientCredentialsHook == WithPostReadyHook("client credentials")

IdentitySchema == "/etc/config/kratos/identity.schema.json"

\* Mutant: the schema is mounted from a reader.
WithIdentitySchemaReader(path) ==
    [Nothing EXCEPT
       !.env = All({"IDENTITY_DEFAULT_SCHEMA_ID", "IDENTITY_SCHEMAS_0_ID"}, "default")
               @@ ("IDENTITY_SCHEMAS_0_URL" :> IdentitySchema),
       !.files = IdentitySchema :> [text |-> "schema", reader |-> TRUE]]

WithIdentitySchema(path) ==
    [Nothing EXCEPT
       !.env = All({"IDENTITY_DEFAULT_SCHEMA_ID", "IDENTITY_SCHEMAS_0_ID"}, "default")
               @@ ("IDENTITY_SCHEMAS_0_URL" :> IdentitySchema),
       !.files = Mount(IdentitySchema, IF path = "" THEN "default schema" ELSE path)]

AfterRegistration(method) == "SELFSERVICE_FLOWS_REGISTRATION_AFTER_" \o method \o "_HOOKS_0"

KratosBase ==
    [Request(All({AfterRegistration(m) \o "_HOOK" : m \in {"PASSKEY", "WEBAUTHN", "PASSWORD"}},
                 "session")
             @@ All({"SELFSERVICE_METHODS_WEBAUTHN_CONFIG_RP_ID",
                     "SELFSERVICE_METHODS_PASSKEY_CONFIG_RP_ID"}, "localhost")
             @@ ("SELFSERVICE_DEFAULT_BROWSER_RETURN_URL" :> "http://localhost:3000/"),
             {"4433/tcp", "4434/tcp"})
       EXCEPT !.fields = ("Cmd" :> "serve") @@ ("WaitingFor" :> "/health/ready")]

KratosWithPostgres(user, password) == HydraWithPostgres(user, password)
KratosWithURL(url) == Set("SERVE_PUBLIC_BASE_URL" :> url)
WithAdminURL(url) == Set("SERVE_ADMIN_BASE_URL" :> url)

WithRootDomain(domain) ==
    Set(All({"SESSION_COOKIE_DOMAIN", "COOKIES_DOMAIN", "SELFSERVICE_METHODS_WEBAUTHN_CONFIG_RP_ID",
             "SELFSERVICE_METHODS_PASSKEY_CONFIG_RP_ID"}, domain))

\* A web hook at a flow: its five settings.
WebHook(prefix, url) ==
    All({prefix \o "_CONFIG_" \o part : part \in {"URL", "METHOD", "BODY", "HEADERS"}}, url)
    @@ (prefix \o "_HOOK" :> "web_hook")

WithRegistrationHook(url) ==
    Set(WebHook(AfterRegistration("PASSWORD"), url) @@ WebHook(AfterRegistration("WEBAUTHN"), url)
        @@ WebHook(AfterRegistration("PASSKEY"), url) @@ WebHook(AfterRegistration("OIDC"), url))

WithSettingsHook(url) == Set(WebHook("SELFSERVICE_FLOWS_SETTINGS_AFTER_HOOKS_0", url))

KratosWithSelfServiceUIURL(url) ==
    Set(All({"SELFSERVICE_DEFAULT_BROWSER_RETURN_URL", "SELFSERVICE_ALLOWED_RETURN_URLS_0",
             "SELFSERVICE_FLOWS_LOGOUT_AFTER_DEFAULT_BROWSER_RETURN_URL",
             "SELFSERVICE_FLOWS_VERIFICATION_AFTER_DEFAULT_BROWSER_RETURN_URL",
             "SELFSERVICE_METHODS_WEBAUTHN_CONFIG_RP_ORIGIN",
             "SELFSERVICE_METHODS_PASSKEY_CONFIG_RP_ORIGINS_0"}
            \cup {"SELFSERVICE_FLOWS_" \o flow \o "_UI_URL" :
                    flow \in {"ERROR", "SETTINGS", "LOGIN", "RECOVERY", "VERIFICATION",
                              "REGISTRATION"}}, url))

WithHydraPublicURL == Nothing
WithHydraAdminURL(url) == Set("OAUTH2_PROVIDER_URL" :> url)
WithSmtpURI(uri) == Set("COURIER_SMTP_CONNECTION_URI" :> uri)

WithOIDCConfig(indices) ==
    Set(("SELFSERVICE_METHODS_OIDC_ENABLED" :> "true")
        @@ All({"SELFSERVICE_METHODS_OIDC_CONFIG_PROVIDERS_" \o i : i \in indices}, "provider"))

--------------------------------------------------------------------------------
(* zitadel and concourse *)

ZitadelBase ==
    [Request(("ZITADEL_EXTERNALDOMAIN" :> "127.0.0.1") @@ ("ZITADEL_EXTERNALPORT" :> "8081"),
             {"8080/tcp"}) EXCEPT !.fields = "Cmd" :> "start-from-init"]

ZitadelDatabase(part) == "ZITADEL_DATABASE_POSTGRES_" \o part

WithPostgresConnection(user, password) ==
    Set((ZitadelDatabase("USER_USERNAME") :> user) @@ (ZitadelDatabase("USER_PASSWORD") :> password))

WithPostgresAdminConnection(user, password) ==
    Set((ZitadelDatabase("ADMIN_USERNAME") :> user)
        @@ (ZitadelDatabase("ADMIN_PASSWORD") :> password))

WithMasterkey(key) == Set("ZITADEL_MASTERKEY" :> key)
WithOrganizationName(name) == Set("ZITADEL_FIRSTINSTANCE_ORG_NAME" :> name)

WithAdminUser(user, password) ==
    Set(("ZITADEL_FIRSTINSTANCE_ORG_HUMAN_USERNAME" :> user)
        @@ ("ZITADEL_FIRSTINSTANCE_ORG_HUMAN_PASSWORD" :> password)
        @@ ("ZITADEL_FIRSTINSTANCE_ORG_HUMAN_PASSWORDCHANGEREQUIRED" :> "false"))

\* The hook copies the key zitadel has written; where, it reads in the request.
WithServiceUser(user) ==
    [Ready(Hook("key of " \o user, {"ZITADEL_FIRSTINSTANCE_MACHINEKEYPATH"})) EXCEPT
       !.env = ("ZITADEL_FIRSTINSTANCE_MACHINEKEYPATH" :> "/" \o user \o ".json")
               @@ All({"ZITADEL_FIRSTINSTANCE_ORG_MACHINE_MACHINE_USERNAME",
                       "ZITADEL_FIRSTINSTANCE_ORG_MACHINE_MACHINE_NAME"}, user)
               @@ ("ZITADEL_FIRSTINSTANCE_ORG_MACHINE_MACHINEKEY_TYPE" :> "1"),
       !.files = ("/" \o user \o ".json") :> [text |-> "empty", reader |-> TRUE]]

ConcourseBase ==
    [Request("CONCOURSE_EXTERNAL_URL" :> "http://127.0.0.1:8080", {"8080/tcp"})
       EXCEPT !.fields = "Cmd" :> "quickstart"]

\* pgx.ParseConfig splits the string, or returns an error.
ConcourseWithPostgres(user, password, parses) ==
    [Set(("CONCOURSE_POSTGRES_USER" :> user) @@ ("CONCOURSE_POSTGRES_PASSWORD" :> password))
       EXCEPT !.fails = ~parses]

WithMainTeamUser(user) ==
    Set(All({"CONCOURSE_ADD_LOCAL_USER", "CONCOURSE_MAIN_TEAM_LOCAL_USER"}, user))

WithSecret(secret) == Set(All({"CONCOURSE_CLIENT_SECRET", "CONCOURSE_TSA_CLIENT_SECRET"}, secret))
WithExternalURL(url) == Set("CONCOURSE_EXTERNAL_URL" :> url)

--------------------------------------------------------------------------------
(* What Actualize sets *)

\* From an entry of the database's request: into a URL, which is parsed here or by the
\* server, or directly.
InURL(key)     == [from |-> key, url |-> TRUE, parsed |-> FALSE]
ParsedURL(key) == [from |-> key, url |-> TRUE, parsed |-> TRUE]
Directly(key)  == [from |-> key, url |-> FALSE, parsed |-> FALSE]
Address        == [from |-> "address", url |-> FALSE, parsed |-> FALSE]

HydraLinks ==
    ("DSN.user" :> InURL("POSTGRES_USER")) @@ ("DSN.password" :> InURL("POSTGRES_PASSWORD"))

KratosLinks ==
    HydraLinks @@ All({"OAUTH2_PROVIDER_URL", "COURIER_SMTP_CONNECTION_URI"}, Address)

ZitadelLinks ==
    All({ZitadelDatabase("USER_USERNAME"), ZitadelDatabase("ADMIN_USERNAME")},
        Directly("POSTGRES_USER"))
    @@ All({ZitadelDatabase("USER_PASSWORD"), ZitadelDatabase("ADMIN_PASSWORD")},
           Directly("POSTGRES_PASSWORD"))

ConcourseLinks ==
    ("CONCOURSE_POSTGRES_USER" :> ParsedURL("POSTGRES_USER"))
    @@ ("CONCOURSE_POSTGRES_PASSWORD" :> ParsedURL("POSTGRES_PASSWORD"))

--------------------------------------------------------------------------------
(* object stores *)

MinioBase  == [Request(NoEntries, {"9000/tcp", "9001/tcp"}) EXCEPT !.fields = "Cmd" :> "server"]
RustfsBase == [Request(NoEntries, {"9000/tcp", "9001/tcp"}) EXCEPT !.fields = "Cmd" :> "/data"]

\* Without credentials in the request the hook and the server use the same defaults.
MinioWithBucket(bucket) == Ready(Hook(bucket, {"MINIO_ROOT_USER", "MINIO_ROOT_PASSWORD"}))

MinioCredentials(id, secret) == Set(("MINIO_ROOT_USER" :> id) @@ ("MINIO_ROOT_PASSWORD" :> secret))

RustfsWithBucket(bucket) == Ready(Hook(bucket, {"RUSTFS_ACCESS_KEY", "RUSTFS_SECRET_KEY"}))

RustfsCredentials(id, secret) == Set(("RUSTFS_ACCESS_KEY" :> id) @@ ("RUSTFS_SECRET_KEY" :> secret))

VersitygwBase ==
    [Request(All({"ROOT_ACCESS_KEY", "ROOT_SECRET_KEY"}, "random"), {"7070/tcp"})
       EXCEPT !.fields = "Cmd" :> "posix /data"]

WithAccessKey(key) == Set("ROOT_ACCESS_KEY" :> key)
WithSecretKey(secret) == Set("ROOT_SECRET_KEY" :> secret)
WithBackend(backend) == [Nothing EXCEPT !.fields = "Cmd" :> backend]
WithPOSIXBackend == WithBackend("posix")
VersitygwWithBucket(bucket) == Ready(Hook(bucket, {"ROOT_ACCESS_KEY", "ROOT_SECRET_KEY"}))

--------------------------------------------------------------------------------
(* nats, livekit and kanidm *)

NatsBase ==
    [Request(NoEntries, {"4222/tcp", "8222/tcp", "6222/tcp"}) EXCEPT !.fields = "Cmd" :> "-DV -js"]

\* These three are for nats.Run of testcontainers: their Customize, all that New calls, is
\* empty.
NatsWithUsername(user) == Nothing
NatsWithPassword(password) == Nothing
NatsWithArgument(flag, value) == Nothing

NatsWithConfigFile(text) ==
    [Words({"-config", ConfigFile}) EXCEPT !.files = ConfigFile :> [text |-> text, reader |-> TRUE]]

WithJetStreamStorageDir(dir) == Words({"-sd", dir})
WithJetStreamDomain(domain) == Words({"-jetstream_domain", domain})

\* Both hooks connect first.
WithStream(name) == Ready([Hook(name, {}) EXCEPT !.connects = TRUE])
WithJetStreamCallback == WithStream("callback")

LivekitBase ==
    Request(("LIVEKIT_CONFIG.rtc.tcp_port" :> "7881") @@ ("LIVEKIT_CONFIG.keys" :> "devkey"),
            {"7880/tcp", "7881/tcp"})

\* The keys are replaced; a secret of less than 32 characters is an error.
WithAPIKey(key, long) == [Set("LIVEKIT_CONFIG.keys" :> key) EXCEPT !.fails = ~long]

\* The first web hook brings its key, and each adds its URL.
WithWebhookURL(key, url) ==
    [Words({url}) EXCEPT !.defaults = "LIVEKIT_CONFIG.webhook.api_key" :> key]

\* What New does after every option.
RTCProxyPort == "the allocated RTC proxy port"
SetRTCPort == Set("LIVEKIT_CONFIG.rtc.tcp_port" :> RTCProxyPort)

DefaultDomain == "idm.example.com"

\* The certificate is made for the default domain, before any option.
KanidmBase ==
    [Request(("KANIDM_DOMAIN" :> DefaultDomain) @@ ("KANIDM_BINDADDRESS" :> "0.0.0.0:8443")
             @@ ("KANIDM_ORIGIN" :> "https://idm.example.com:8443")
             @@ ("KANIDM_DB_PATH" :> "/data/kanidm.db"), {"8443/tcp"})
       EXCEPT !.files = ("/data/chain.pem" :> [text |-> DefaultDomain, reader |-> TRUE])
                        @@ ("/data/key.pem" :> [text |-> "key", reader |-> TRUE])]

WithDomain(domain) == Set("KANIDM_DOMAIN" :> domain)
WithOrigin(origin) == Set("KANIDM_ORIGIN" :> origin)
WithBindAddress(addr) == Set("KANIDM_BINDADDRESS" :> addr)

WithLDAPBindAddress(addr) ==
    [Set("KANIDM_LDAPBINDADDRESS" :> addr) EXCEPT !.ports = {"3636/tcp"}]

WithLogLevel(level) == Set("KANIDM_LOG_LEVEL" :> level)
WithDBPath(path) == Set("KANIDM_DB_PATH" :> path)
WithDBFSType(type) == Set("KANIDM_DB_FS_TYPE" :> type)
WithDBArcSize(size) == Set("KANIDM_DB_ARC_SIZE" :> size)

--------------------------------------------------------------------------------
(* the other packages *)

OpenfgaBase == [Request(NoEntries, {"8080/tcp", "8081/tcp"}) EXCEPT !.fields = "Cmd" :> "run"]

WithAuthorizationModel == Ready(Hook("authorization model", {"OPENFGA_AUTHN_PRESHARED_KEYS"}))

WithPresharedKey(token) ==
    Set(("OPENFGA_AUTHN_METHOD" :> "preshared") @@ ("OPENFGA_AUTHN_PRESHARED_KEYS" :> token))

TemporalBase == [Request(NoEntries, {"7233/tcp", "8233/tcp"}) EXCEPT !.fields = "Cmd" :> "server"]

WithNamespace(name) == Ready(Hook(name, {}))

TypesenseBase == Request("TYPESENSE_DATA_DIR" :> "/data", {"8108/tcp"})
WithApiKey(key) == Set("TYPESENSE_API_KEY" :> key)

RegistryBase == [Request(NoEntries, {"5000/tcp"}) EXCEPT !.fields = "WaitingFor" :> "/v2/"]

WithDeleteEnabled == Set("REGISTRY_STORAGE_DELETE_ENABLED" :> "true")

WithBasicAuth(path) ==
    [Nothing EXCEPT
       !.env = ("REGISTRY_AUTH" :> "htpasswd")
               @@ All({"REGISTRY_AUTH_HTPASSWD_REALM", "REGISTRY_AUTH_HTPASSWD_PATH"}, "/auth/htpasswd"),
       !.files = Mount("/auth/htpasswd", path),
       !.fields = "WaitingFor" :> "/v2/ or 401"]

WithStoragePath(path) == Set("REGISTRY_STORAGE_FILESYSTEM_ROOTDIRECTORY" :> path)

DindBase ==
    [Request("DOCKER_TLS_CERTDIR" :> "", {"2375/tcp", "2376/tcp"})
       EXCEPT !.fields = "WaitingFor" :> "API listen on"]

DindWithTLS(dir) == Set("DOCKER_TLS_CERTDIR" :> dir)
WithInsecureRegistries(registries) == Words({"--insecure-registry"} \cup registries)

LgtmBase == Request(NoEntries, {"3000/tcp", "3100/tcp", "3200/tcp", "4317/tcp", "4318/tcp", "9090/tcp"})

\* The provisioning file, once more with every call, and a file per dashboard.
WithDashboard(names) ==
    [Nothing EXCEPT
       !.files = [p \in {"custom-dashboards.yaml"} \cup names |-> [text |-> p, reader |-> TRUE]]]

\* The allocated port is in the configuration file and among the exposed ports.
APIProxyPort == "the allocated API proxy port"

MailslurperBase ==
    [Request(NoEntries, {"4436/tcp", "1025/tcp", APIProxyPort})
       EXCEPT !.files = "config.json" :> [text |-> APIProxyPort, reader |-> TRUE]]

RedisBase  == Request(NoEntries, {"6379/tcp"})
ValkeyBase == RedisBase
=============================================================================
