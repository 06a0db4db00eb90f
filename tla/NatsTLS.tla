------------------------------- MODULE NatsTLS -------------------------------
(***************************************************************************)
(* TLS of the nats package: the option WithTLS configures the server, and   *)
(* the JetStream hooks connect to it with what they read back from the      *)
(* container's labels and files.                                           *)
(*                                                                         *)
(* A certificate is named by its kind: "self" signed itself, "signed" was   *)
(* signed by "ca", and "other" is an authority that signed neither.  Its    *)
(* key fits, and its names and usages are those of both ends.              *)
(***************************************************************************)
EXTENDS Requests, TLC

TLSConfigs ==
    [cert : {"none", "self", "signed"}, key : BOOLEAN, ca : {"none", "self", "ca", "other"},
     verify : BOOLEAN, insecure : BOOLEAN]

CertPath == "/etc/nats/certs/server.pem"
KeyPath  == "/etc/nats/certs/server-key.pem"
CAPath   == "/etc/nats/certs/ca.pem"

Mount(path, text) == path :> [text |-> text, reader |-> FALSE]

Given(condition, f) == IF condition THEN f ELSE NoEntries

WithTLS(c) ==
    [Nothing EXCEPT
       !.fails = c.cert = "none" \/ ~c.key,
       !.env = ("tls.enabled" :> "true") @@ ("tls.cert_path" :> CertPath)
               @@ Given(c.insecure, "tls.insecure_skip_verify" :> "true")
               @@ Given(c.ca # "none", "tls.ca_path" :> CAPath)
               @@ Given(c.verify, "tls.verify" :> "true"),
       !.files = Mount(CertPath, c.cert) @@ Mount(KeyPath, "key")
                 @@ Given(c.ca # "none", Mount(CAPath, c.ca)),
       !.args = {"--tls"} \cup (IF c.ca # "none" THEN {"--tlscacert"} ELSE {})
                \cup (IF c.verify THEN {"--tlsverify"} ELSE {})]

\* crypto/x509: a certificate is accepted with itself or its issuer among the roots.
Verified(cert, root) == cert = root \/ (cert = "signed" /\ root = "ca")

Label(container, name) == IF name \in DOMAIN container.env THEN container.env[name] ELSE ""

\* The certificate connectToNATS trusts: the CA's or, without one, the server's own.
\* Mutant: only the CA's.
TrustedCA(container) ==
    IF Label(container, "tls.ca_path") # "" THEN container.files[Label(container, "tls.ca_path")]
    ELSE "system"

Trusted(container) ==
    container.files[IF Label(container, "tls.ca_path") # "" THEN Label(container, "tls.ca_path")
                    ELSE Label(container, "tls.cert_path")]

SkipsVerification(container) == Label(container, "tls.insecure_skip_verify") = "true"

\* The client certificate connectToNATS presents.
Presented(container) ==
    IF Label(container, "tls.verify") = "true" /\ ~SkipsVerification(container)
    THEN container.files[CertPath] ELSE "none"

\* nats-server with --tlsverify asks for a certificate one of its own roots has signed.
Admits(container, cert) ==
    "--tlsverify" \notin container.args
    \/ ("--tlscacert" \in container.args /\ Verified(cert, container.files[CAPath]))

ConfigFile == "/etc/nats.conf"

\* A configuration file with the text "authorization" asks every client for a user.
AsksForUser(container) ==
    "-config" \in container.args /\ container.files[ConfigFile] = "authorization"

\* Whether natsgo.Connect of a hook, which names no user, succeeds.
Connects(container) ==
    /\ ~AsksForUser(container)
    /\ Label(container, "tls.enabled") = "true" =>
         /\ SkipsVerification(container)
            \/ Verified(container.files[CertPath], Trusted(container))
         /\ Admits(container, Presented(container))

\* Material with which a client that verifies and presents certificates can connect.
Workable(container) ==
    Label(container, "tls.enabled") = "true" =>
      /\ "--tlscacert" \in container.args =>
           Verified(container.files[CertPath], container.files[CAPath])
      /\ "--tlsverify" \in container.args => "--tlscacert" \in container.args

\* The labels an option or a request has say what the server was told and given: the words
\* of its command line, and the file of its certificate.
Labelled(x) ==
    /\ "tls.enabled" \in DOMAIN x.env => "tls.cert_path" \in DOMAIN x.env
    /\ "tls.cert_path" \in DOMAIN x.env => x.env["tls.cert_path"] = CertPath
    /\ "tls.ca_path" \in DOMAIN x.env => x.env["tls.ca_path"] = CAPath
    /\ "tls.ca_path" \in DOMAIN x.env <=> "--tlscacert" \in x.args
    /\ "tls.verify" \in DOMAIN x.env => x.env["tls.verify"] = "true" /\ CertPath \in DOMAIN x.files
    /\ "tls.verify" \in DOMAIN x.env <=> "--tlsverify" \in x.args
    /\ CertPath \in DOMAIN x.files => x.files[CertPath].text # "none"
=============================================================================
