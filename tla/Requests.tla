------------------------------ MODULE Requests ------------------------------
(***************************************************************************)
(* A testcontainers.GenericContainerRequest and what a customizer does to   *)
(* it.  A request has                                                       *)
(*   env     the environment and the labels: Go maps, shared by copies;     *)
(*   fields  the fields a customizer assigns whole: Cmd, WaitingFor;         *)
(*   files   path -> the text to mount, and whether an io.Reader holds it;   *)
(*   args    the words appended to Cmd;                                     *)
(*   ports   ExposedPorts;                                                  *)
(*   hooks   the PostReady hooks, in the order they were appended.          *)
(* A structured value (a DSN, a YAML document) is one entry of env for each *)
(* part an option or a property tells apart, as in "DSN.password".          *)
(***************************************************************************)
EXTENDS Sequences

\* The entries of f, and those of g that f does not have.
Over(f, g) == [k \in DOMAIN f \cup DOMAIN g |-> IF k \in DOMAIN f THEN f[k] ELSE g[k]]

NoEntries == [k \in {} |-> ""]

Request(env, ports) ==
    [env |-> env, fields |-> NoEntries, files |-> NoEntries, args |-> {}, ports |-> ports, hooks |-> <<>>]

\* An option: what it adds to a request, the entries of env it sets only where there are
\* none, whether it returns an error, and the Go value that reaches Module for it.
Nothing ==
    [env |-> NoEntries, defaults |-> NoEntries, fields |-> NoEntries, files |-> NoEntries, args |-> {},
     ports |-> {}, hooks |-> <<>>, fails |-> FALSE, value |-> "func"]

Set(env)    == [Nothing EXCEPT !.env = env]
Words(args) == [Nothing EXCEPT !.args = args]

\* The effect of opt.Customize(&req).
\* Mutant: what is there already wins.
CustomizeOnce(o, r) ==
    [env |-> Over(r.env, Over(o.env, o.defaults)), fields |-> Over(o.fields, r.fields),
     files |-> Over(o.files, r.files), args |-> r.args \cup o.args,
     ports |-> r.ports \cup o.ports, hooks |-> r.hooks \o o.hooks]

Customize(o, r) ==
    [env |-> Over(o.env, Over(r.env, o.defaults)), fields |-> Over(o.fields, r.fields),
     files |-> Over(o.files, r.files), args |-> r.args \cup o.args,
     ports |-> r.ports \cup o.ports, hooks |-> r.hooks \o o.hooks]

\* A PostReady hook reads env through the pointer to its request, and some read the
\* exposed ports or connect with TLS as the container's labels say.
Hook(id, reads) == [id |-> id, reads |-> reads, ports |-> FALSE, connects |-> FALSE]

Ready(hook) == [Nothing EXCEPT !.hooks = <<hook>>]

WithPostReadyHook(id) == Ready([Hook(id, {}) EXCEPT !.ports = TRUE])

\* A container is created from a copy of its request, with the text its files give then:
\* a reader that an earlier container has read to its end gives none.
Contents(r, drained) ==
    [p \in DOMAIN r.files |-> IF p \in drained THEN "" ELSE r.files[p].text]

Readers(r) == {p \in DOMAIN r.files : r.files[p].reader}

Container(r, drained) ==
    [env |-> r.env, fields |-> r.fields, files |-> Contents(r, drained),
     args |-> r.args, ports |-> r.ports, hooks |-> r.hooks]

\* What a hook h finds out from the request r when it runs.
Observed(h, r) ==
    [id |-> h.id, env |-> [k \in h.reads \cap DOMAIN r.env |-> r.env[k]],
     ports |-> IF h.ports THEN r.ports ELSE {}]
=============================================================================
