-------------------------------- MODULE Proxy --------------------------------
(***************************************************************************)
(* proxy.TCPProxy: an owner calls Start and Close, the Run goroutine        *)
(* accepts clients, and one handler per client dials the target and copies  *)
(* in both directions until both copies end.                                *)
(*                                                                         *)
(* Clients and the target are the environment: either end of a connection  *)
(* may send, finish sending (a half-close) or close at any time.           *)
(***************************************************************************)
EXTENDS Naturals, FiniteSets

CONSTANTS
    Conns,       \* the connections clients may open
    MaxChunks,   \* how much each end sends at most, in reads of io.Copy
    CloseFirst,  \* whether the owner may Close a proxy it never started
    Faults       \* kinds of failure: of Accept, of Dial, of Close

ASSUME ConnsAssumption == IsFiniteSet(Conns)
ASSUME ChunksAssumption == MaxChunks \in Nat
ASSUME OwnerAssumption == CloseFirst \in BOOLEAN
ASSUME ProxyFaultsAssumption == Faults \subseteq {"accept", "dial", "close"}

VARIABLES
    listener,  \* p.listener
    cancel,    \* p.cancel, and the context it cancels
    closing,   \* whether a Close has cancelled the context and not closed the listener yet
    panicked,  \* whether a nil p.cancel was called
    run,       \* the Run goroutine
    conn,      \* the handler of each connection
    client,    \* the client's end of each connection
    server,    \* the target's end
    sent,      \* what each end has sent
    moved,     \* what the handler has copied of it
    copying,   \* the directions whose io.Copy has not returned
    held,      \* the sockets of the connection the proxy holds open
    late       \* history: the connections accepted after the context was cancelled

ownerVars  == <<listener, cancel, closing, panicked>>
handleVars == <<conn, moved, copying, held>>
endVars    == <<client, server, sent>>
vars       == <<ownerVars, run, handleVars, endVars, late>>

\* io.Copy(downstreamConn, upstreamConn) carries requests, its converse responses.
Directions == {"request", "response"}

Sender(c, d) == IF d = "request" THEN client[c] ELSE server[c]

\* An end that has sent its FIN, still reading ("fin") or not ("closed").
Finished == {"fin", "closed"}

TypeOK ==
    /\ listener \in {"nil", "open", "closed"}
    /\ cancel \in {"nil", "live", "cancelled"}
    /\ closing \in BOOLEAN /\ panicked \in BOOLEAN
    /\ run \in {"none", "check", "accept", "ended"}
    /\ conn \in [Conns -> {"none", "backlog", "reset", "accepted", "undialed", "piping",
                           "closing", "ended"}]
    /\ client \in [Conns -> {"none", "open", "fin", "closed"}]
    /\ server \in [Conns -> {"none", "open", "fin", "closed"}]
    /\ sent \in [Conns -> [Directions -> 0 .. MaxChunks]]
    /\ moved \in [Conns -> [Directions -> 0 .. MaxChunks]]
    /\ copying \in [Conns -> SUBSET Directions]
    /\ held \in [Conns -> SUBSET {"upstream", "downstream"}]
    /\ late \subseteq Conns
    /\ listener = "nil" <=> cancel = "nil"
    /\ \A c \in Conns : \A d \in Directions : moved[c][d] <= sent[c][d]

Init ==
    /\ listener = "nil" /\ cancel = "nil"
    /\ closing = FALSE /\ panicked = FALSE
    /\ run = "none"
    /\ conn = [c \in Conns |-> "none"]
    /\ client = [c \in Conns |-> "none"]
    /\ server = [c \in Conns |-> "none"]
    /\ sent = [c \in Conns |-> [d \in Directions |-> 0]]
    /\ moved = [c \in Conns |-> [d \in Directions |-> 0]]
    /\ copying = [c \in Conns |-> {}]
    /\ held = [c \in Conns |-> {}]
    /\ late = {}

-----------------------------------------------------------------------------
(***************************************************************************)
(* The owner.                                                              *)
(***************************************************************************)

\* Start.  With a listener, open or closed, it returns nil and does nothing.
Start ==
    /\ ~panicked
    /\ listener = "nil"
    /\ listener' = "open"
    /\ cancel' = "live"
    /\ run' = "check"
    /\ UNCHANGED <<closing, panicked, handleVars, endVars, late>>

\* Close cancels the context before it looks at the listener.
CloseCancels ==
    /\ ~panicked /\ ~closing
    /\ listener # "nil"
    /\ cancel' = "cancelled"
    /\ closing' = TRUE
    /\ UNCHANGED <<listener, panicked, run, handleVars, endVars, late>>

\* Before Start there is no cancel function to call.
CloseUnstarted ==
    /\ CloseFirst
    /\ cancel = "nil" /\ ~panicked
    /\ panicked' = TRUE
    /\ UNCHANGED <<listener, cancel, closing, run, handleVars, endVars, late>>

\* Closing the listener, an error the second time, resets what it had not accepted.
CloseListener ==
    /\ closing
    /\ closing' = FALSE
    /\ listener' = "closed"
    /\ conn' = [c \in Conns |-> IF conn[c] = "backlog" THEN "reset" ELSE conn[c]]
    /\ UNCHANGED <<cancel, panicked, run, moved, copying, held, endVars, late>>

-----------------------------------------------------------------------------
(***************************************************************************)
(* Run.                                                                    *)
(***************************************************************************)

\* Mutant: the loop does not look at its context.
RunCheckNever ==
    /\ run = "check"
    /\ run' = "accept"
    /\ UNCHANGED <<ownerVars, handleVars, endVars, late>>

RunCheck ==
    /\ run = "check"
    /\ run' = IF cancel = "cancelled" THEN "ended" ELSE "accept"
    /\ UNCHANGED <<ownerVars, handleVars, endVars, late>>

\* Mutant: Run handles the connection itself instead of starting a goroutine.
RunAcceptAlone(c) ==
    /\ run = "accept" /\ listener = "open"
    /\ conn[c] = "backlog"
    /\ \A b \in Conns : copying[b] = {}
    /\ conn' = [conn EXCEPT ![c] = "accepted"]
    /\ held' = [held EXCEPT ![c] = {"upstream"}]
    /\ late' = IF cancel = "cancelled" THEN late \cup {c} ELSE late
    /\ run' = "check"
    /\ UNCHANGED <<ownerVars, moved, copying, endVars>>

\* Accept returns a waiting client, whatever has become of the context meanwhile.
RunAccept(c) ==
    /\ run = "accept" /\ listener = "open"
    /\ conn[c] = "backlog"
    /\ conn' = [conn EXCEPT ![c] = "accepted"]
    /\ held' = [held EXCEPT ![c] = {"upstream"}]
    /\ late' = IF cancel = "cancelled" THEN late \cup {c} ELSE late
    /\ run' = "check"
    /\ UNCHANGED <<ownerVars, moved, copying, endVars>>

\* Mutant: an error of Accept is ignored and the loop goes on.
RunAcceptRetries ==
    /\ run = "accept"
    /\ listener = "closed" \/ "accept" \in Faults
    /\ run' = "accept"
    /\ UNCHANGED <<ownerVars, handleVars, endVars, late>>

\* Accept of a closed listener fails, and any error of Accept ends the goroutine.
RunAcceptFails ==
    /\ run = "accept"
    /\ listener = "closed" \/ "accept" \in Faults
    /\ run' = "ended"
    /\ UNCHANGED <<ownerVars, handleVars, endVars, late>>

-----------------------------------------------------------------------------
(***************************************************************************)
(* handleConnection.                                                       *)
(***************************************************************************)

Dial(c) ==
    /\ conn[c] = "accepted"
    /\ conn' = [conn EXCEPT ![c] = "piping"]
    /\ server' = [server EXCEPT ![c] = "open"]
    /\ copying' = [copying EXCEPT ![c] = Directions]
    /\ held' = [held EXCEPT ![c] = @ \cup {"downstream"}]
    /\ UNCHANGED <<ownerVars, run, moved, client, sent, late>>

\* A failed dial ends the handler, which leaves the client's socket open.
DialFails(c) ==
    /\ "dial" \in Faults
    /\ conn[c] = "accepted"
    /\ conn' = [conn EXCEPT ![c] = "undialed"]
    /\ UNCHANGED <<ownerVars, run, moved, copying, held, endVars, late>>

\* Mutant: a copy writes on without a read that returned data.
CopyUnread(c, d) ==
    /\ d \in copying[c]
    /\ moved[c][d] < MaxChunks
    /\ moved' = [moved EXCEPT ![c][d] = @ + 1]
    /\ UNCHANGED <<ownerVars, run, conn, copying, held, endVars, late>>

\* One read and one write of io.Copy.  A write to an end that has closed may still
\* go into the kernel's buffer.
Copy(c, d) ==
    /\ d \in copying[c]
    /\ moved[c][d] < sent[c][d]
    /\ moved' = [moved EXCEPT ![c][d] = @ + 1]
    /\ UNCHANGED <<ownerVars, run, conn, copying, held, endVars, late>>

\* io.Copy returns at the sender's end of file.  It closes nothing.
CopyEnds(c, d) ==
    /\ d \in copying[c]
    /\ moved[c][d] = sent[c][d]
    /\ Sender(c, d) \in Finished
    /\ copying' = [copying EXCEPT ![c] = @ \ {d}]
    /\ UNCHANGED <<ownerVars, run, conn, moved, held, endVars, late>>

\* An end that has closed resets the connection: a read from it, or a write to it, fails.
CopyBreaks(c, d) ==
    /\ d \in copying[c]
    /\ \/ Sender(c, d) = "closed"
       \/ /\ moved[c][d] < sent[c][d]
          /\ \E e \in Directions \ {d} : Sender(c, e) = "closed"
    /\ copying' = [copying EXCEPT ![c] = @ \ {d}]
    /\ UNCHANGED <<ownerVars, run, conn, moved, held, endVars, late>>

\* Mutant: the handler waits for one of its two copies only.
CloseDownstreamEarly(c) ==
    /\ conn[c] = "piping"
    /\ copying[c] # Directions
    /\ copying' = [copying EXCEPT ![c] = {}]
    /\ held' = [held EXCEPT ![c] = @ \ {"downstream"}]
    /\ conn' = [conn EXCEPT ![c] = "closing"]
    /\ UNCHANGED <<ownerVars, run, moved, endVars, late>>

\* Mutant: the handler does not wait, and closes under the running copies.
CloseDownstreamUnwaited(c) ==
    /\ conn[c] = "piping"
    /\ held' = [held EXCEPT ![c] = @ \ {"downstream"}]
    /\ conn' = [conn EXCEPT ![c] = "closing"]
    /\ UNCHANGED <<ownerVars, run, moved, copying, endVars, late>>

\* wg.Wait: both copies have returned.  An error of this Close skips the next one.
CloseDownstream(c) ==
    /\ conn[c] = "piping"
    /\ copying[c] = {}
    /\ held' = [held EXCEPT ![c] = @ \ {"downstream"}]
    /\ \/ conn' = [conn EXCEPT ![c] = "closing"]
       \/ "close" \in Faults /\ conn' = [conn EXCEPT ![c] = "ended"]
    /\ UNCHANGED <<ownerVars, run, moved, copying, endVars, late>>

\* Mutant: the handler leaves the client's socket to the client.
CloseUpstreamNever(c) ==
    /\ conn[c] = "closing"
    /\ conn' = [conn EXCEPT ![c] = "ended"]
    /\ UNCHANGED <<ownerVars, run, held, moved, copying, endVars, late>>

CloseUpstream(c) ==
    /\ conn[c] = "closing"
    /\ held' = [held EXCEPT ![c] = @ \ {"upstream"}]
    /\ conn' = [conn EXCEPT ![c] = "ended"]
    /\ UNCHANGED <<ownerVars, run, moved, copying, endVars, late>>

-----------------------------------------------------------------------------
(***************************************************************************)
(* The environment: clients and the target.                                *)
(***************************************************************************)

\* The kernel completes the handshake of a client while the listener is open.
Connect(c) ==
    /\ listener = "open"
    /\ conn[c] = "none"
    /\ conn' = [conn EXCEPT ![c] = "backlog"]
    /\ client' = [client EXCEPT ![c] = "open"]
    /\ UNCHANGED <<ownerVars, run, moved, copying, held, server, sent, late>>

\* An end sends while the proxy's socket on its side is open.
Reachable(c, d) ==
    IF d = "request" THEN conn[c] = "backlog" \/ "upstream" \in held[c]
    ELSE "downstream" \in held[c]

Send(c, d) ==
    /\ Sender(c, d) = "open"
    /\ Reachable(c, d)
    /\ sent[c][d] < MaxChunks
    /\ sent' = [sent EXCEPT ![c][d] = @ + 1]
    /\ UNCHANGED <<ownerVars, run, handleVars, client, server, late>>

Finish(c, d) ==
    /\ Sender(c, d) \in {"open", "fin"}
    /\ \E to \in Finished \ {Sender(c, d)} :
        IF d = "request"
        THEN client' = [client EXCEPT ![c] = to] /\ UNCHANGED server
        ELSE server' = [server EXCEPT ![c] = to] /\ UNCHANGED client
    /\ UNCHANGED <<ownerVars, run, handleVars, sent, late>>

-----------------------------------------------------------------------------
RunStep == RunCheck \/ RunAcceptFails \/ \E c \in Conns : RunAccept(c)

CopyStep(c, d) == Copy(c, d) \/ CopyEnds(c, d) \/ CopyBreaks(c, d)

HandlerStep(c) == Dial(c) \/ DialFails(c) \/ CloseDownstream(c) \/ CloseUpstream(c)

OwnerStep == Start \/ CloseCancels \/ CloseUnstarted

Environment(c) == Connect(c) \/ \E d \in Directions : Send(c, d) \/ Finish(c, d)

\* The owner may leave a proxy it has closed alone for ever.
Next ==
    \/ OwnerStep
    \/ CloseListener
    \/ RunStep
    \/ \E c \in Conns : HandlerStep(c) \/ Environment(c)
    \/ \E c \in Conns, d \in Directions : CopyStep(c, d)

Spec == Init /\ [][Next]_vars

\* The Go scheduler runs every goroutine that can run: Run, each handler and each
\* copy; a Close that was begun finishes.  Nothing is asked of clients and target.
FairSpec ==
    /\ Spec
    /\ WF_vars(CloseListener)
    /\ WF_vars(RunStep)
    /\ \A c \in Conns : WF_vars(HandlerStep(c))
    /\ \A c \in Conns, d \in Directions : WF_vars(CopyStep(c, d))

-----------------------------------------------------------------------------
\* What one end sends reaches the other: a handler that has ended has copied all that
\* was sent, unless one of the ends closed under it (proxy.go:62-70).
Lossless ==
    \A c \in Conns :
        conn[c] = "ended" /\ "closed" \notin {client[c], server[c]} =>
            moved[c] = sent[c]

\* What a connection is to its ends, by how far its handler is.
LinkOf ==
    [none |-> "idle", backlog |-> "waiting", accepted |-> "waiting", piping |-> "answered",
     reset |-> "refused", undialed |-> "refused", closing |-> "over", ended |-> "over"]

Abstract ==
    INSTANCE Relay WITH link <- [c \in Conns |-> LinkOf[conn[c]]], received <- moved

\* What clients and target see of the proxy is a relay: nothing is invented, delivered
\* twice or delivered to the target before the client is answered, a client that was
\* answered is never refused, and the handler hangs up only on a connection that is
\* drained after both ends, or that was closed under it (proxy.go:52-78).
IsRelay == Abstract!Spec

\* A Close in progress lets at most one more client in: the one Accept was waiting
\* for when the context was cancelled (proxy.go:96-100 against 106-113).
OneLateClient == Cardinality(late) <= 1

\* A handler never reads or writes a socket it has closed: while a copy runs, both
\* sockets are open (proxy.go:62-76).
NoUseAfterClose ==
    \A c \in Conns : copying[c] # {} => held[c] = {"upstream", "downstream"}

\* A client the kernel let in does not wait for ever: it is accepted, or reset by
\* Close, however busy the other connections are (proxy.go:103-113).
Answered == \A c \in Conns : conn[c] = "backlog" ~> conn[c] # "backlog"

\* Once closed, the proxy stops accepting for good: the Run goroutine ends.
CloseEndsRun == cancel = "cancelled" ~> run = "ended"

\* When both ends have finished, the handler ends and gives both sockets back.
Releases ==
    \A c \in Conns :
        conn[c] = "piping" /\ {client[c], server[c]} \subseteq Finished ~> held[c] = {}

\* hydra/proxy.go:22, "forwards local traffic to the Hydra container": the end of a
\* client's data is forwarded like the data, as it is on a direct connection.
EndForwarded ==
    \A c \in Conns :
        conn[c] = "piping" /\ client[c] = "fin" ~>
            "downstream" \notin held[c] \/ server[c] = "closed"
=============================================================================
