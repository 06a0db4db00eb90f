----------------------------- MODULE ProxyProofs -----------------------------
(***************************************************************************)
(* Proofs about Proxy, for any number of connections and any amount of     *)
(* data: who may use a socket, what a Close in progress lets in, and that  *)
(* nothing sent is lost.                                                   *)
(***************************************************************************)
EXTENDS Proxy, FiniteSetTheorems, TLAPS

\* While a copy runs its handler is piping, and has both sockets.
Owned ==
    /\ conn \in [Conns -> {"none", "backlog", "reset", "accepted", "undialed", "piping",
                           "closing", "ended"}]
    /\ copying \in [Conns -> SUBSET Directions]
    /\ held \in [Conns -> SUBSET {"upstream", "downstream"}]
    /\ \A c \in Conns : conn[c] # "piping" => copying[c] = {}
    /\ \A c \in Conns : conn[c] \in {"none", "backlog"} => held[c] = {}
    /\ \A c \in Conns : conn[c] = "accepted" => held[c] = {"upstream"}
    /\ \A c \in Conns : conn[c] = "piping" => held[c] = {"upstream", "downstream"}

\* No handler, and no other goroutine, takes a socket from a running copy.
LEMMA OwnedStep == Owned /\ [Next]_vars => Owned'
<1> SUFFICES ASSUME Owned, [Next]_vars PROVE Owned'
  OBVIOUS
<1> USE DEF Owned, vars, ownerVars, handleVars, endVars, Directions
<1>1. CASE OwnerStep
  BY <1>1 DEF OwnerStep, Start, CloseCancels, CloseUnstarted
<1>2. CASE CloseListener
  BY <1>2 DEF CloseListener
<1>3. CASE RunStep
  <2>1. CASE RunCheck \/ RunAcceptFails
    BY <2>1 DEF RunCheck, RunAcceptFails
  <2>2. ASSUME NEW c \in Conns, RunAccept(c) PROVE Owned'
    BY <2>2 DEF RunAccept
  <2>3. QED
    BY <1>3, <2>1, <2>2 DEF RunStep
<1>4. ASSUME NEW c \in Conns, HandlerStep(c) PROVE Owned'
  <2>1. CASE Dial(c)
    BY <2>1 DEF Dial
  <2>2. CASE DialFails(c)
    BY <2>2 DEF DialFails
  <2>3. CASE CloseDownstream(c)
    BY <2>3 DEF CloseDownstream
  <2>4. CASE CloseUpstream(c)
    BY <2>4 DEF CloseUpstream
  <2>5. QED
    BY <1>4, <2>1, <2>2, <2>3, <2>4 DEF HandlerStep
<1>5. ASSUME NEW c \in Conns, Environment(c) PROVE Owned'
  BY <1>5 DEF Environment, Connect, Send, Finish
<1>6. ASSUME NEW c \in Conns, NEW d \in Directions, CopyStep(c, d) PROVE Owned'
  BY <1>6 DEF CopyStep, Copy, CopyEnds, CopyBreaks
<1>7. CASE UNCHANGED vars
  BY <1>7
<1>8. QED
  BY <1>1, <1>2, <1>3, <1>4, <1>5, <1>6, <1>7 DEF Next

\* A handler never reads or writes a socket it has closed.
THEOREM NeverUsedAfterClose == Spec => []NoUseAfterClose
<1>1. Init => Owned
  BY DEF Init, Owned
<1>2. Owned => NoUseAfterClose
  BY DEF Owned, NoUseAfterClose
<1>3. QED
  BY <1>1, <1>2, OwnedStep, PTL DEF Spec

-----------------------------------------------------------------------------
\* Once a client has slipped in, Run has left Accept and will find the context cancelled.
Latest ==
    late # {} => /\ cancel = "cancelled" /\ run # "accept" /\ listener # "nil"
                 /\ \E c \in Conns : late = {c}

\* Accept is entered only with a live context, and left with each client.
LEMMA LatestStep == Latest /\ [Next]_vars => Latest'
<1> SUFFICES ASSUME Latest, [Next]_vars PROVE Latest'
  OBVIOUS
<1> USE DEF Latest, vars, ownerVars, handleVars, endVars
<1>1. CASE OwnerStep
  BY <1>1 DEF OwnerStep, Start, CloseCancels, CloseUnstarted
<1>2. CASE CloseListener
  BY <1>2 DEF CloseListener
<1>3. CASE RunStep
  <2>1. CASE RunCheck \/ RunAcceptFails
    BY <2>1 DEF RunCheck, RunAcceptFails
  <2>2. ASSUME NEW c \in Conns, RunAccept(c) PROVE Latest'
    <3>1. late = {} /\ run' = "check" /\ UNCHANGED <<cancel, listener>> /\ listener = "open"
      BY <2>2 DEF RunAccept
    <3>2. CASE cancel = "cancelled"
      <4>1. late' = {c}
        BY <2>2, <3>1, <3>2 DEF RunAccept
      <4>2. run' # "accept" /\ listener' # "nil" /\ cancel' = "cancelled"
        BY <3>1, <3>2
      <4>3. QED
        BY <4>1, <4>2
    <3>3. CASE cancel # "cancelled"
      <4>1. late' = {}
        BY <2>2, <3>1, <3>3 DEF RunAccept
      <4>2. QED
        BY <4>1
    <3>4. QED
      BY <3>2, <3>3
  <2>3. QED
    BY <1>3, <2>1, <2>2 DEF RunStep
<1>4. ASSUME NEW c \in Conns, HandlerStep(c) PROVE Latest'
  BY <1>4 DEF HandlerStep, Dial, DialFails, CloseDownstream, CloseUpstream
<1>5. ASSUME NEW c \in Conns, Environment(c) PROVE Latest'
  BY <1>5 DEF Environment, Connect, Send, Finish
<1>6. ASSUME NEW c \in Conns, NEW d \in Directions, CopyStep(c, d) PROVE Latest'
  BY <1>6 DEF CopyStep, Copy, CopyEnds, CopyBreaks
<1>7. CASE UNCHANGED vars
  BY <1>7
<1>8. QED
  BY <1>1, <1>2, <1>3, <1>4, <1>5, <1>6, <1>7 DEF Next

\* A Close in progress lets at most one more client in, however many wait.
THEOREM AtMostOneLate == Spec => []OneLateClient
<1>1. Init => Latest
  BY DEF Init, Latest
<1>2. Latest => OneLateClient
  <2> SUFFICES ASSUME Latest PROVE Cardinality(late) <= 1
    BY DEF OneLateClient
  <2>1. CASE late = {}
    BY <2>1, FS_EmptySet
  <2>2. ASSUME NEW c \in Conns, late = {c} PROVE Cardinality(late) <= 1
    <3>1. Cardinality({c}) = 1
      BY FS_Singleton
    <3>2. QED
      BY <2>2, <3>1
  <2>3. QED
    BY <2>1, <2>2 DEF Latest
<1>3. QED
  BY <1>1, <1>2, LatestStep, PTL DEF Spec
-----------------------------------------------------------------------------
\* A Close that was begun found a listener, which is still there.
Typed == TypeOK /\ (closing => listener # "nil")

\* Every step keeps the types, and only a started proxy is closed.
LEMMA TypedStep == Typed /\ [Next]_vars => Typed'
<1> SUFFICES ASSUME Typed, [Next]_vars PROVE Typed'
  OBVIOUS
<1> USE ChunksAssumption DEF Typed, TypeOK, vars, ownerVars, handleVars, endVars
<1>1. CASE OwnerStep
  <2>1. CASE Start
    BY <2>1 DEF Start
  <2>2. CASE CloseCancels
    BY <2>2 DEF CloseCancels
  <2>3. CASE CloseUnstarted
    BY <2>3 DEF CloseUnstarted
  <2>4. QED
    BY <1>1, <2>1, <2>2, <2>3 DEF OwnerStep
<1>2. CASE CloseListener
  BY <1>2 DEF CloseListener
<1>3. CASE RunStep
  <2>1. CASE RunCheck \/ RunAcceptFails
    BY <2>1 DEF RunCheck, RunAcceptFails
  <2>2. ASSUME NEW c \in Conns, RunAccept(c) PROVE Typed'
    BY <2>2 DEF RunAccept
  <2>3. QED
    BY <1>3, <2>1, <2>2 DEF RunStep
<1>4. ASSUME NEW c \in Conns, HandlerStep(c) PROVE Typed'
  <2>1. CASE Dial(c)
    BY <2>1 DEF Dial
  <2>2. CASE DialFails(c)
    BY <2>2 DEF DialFails
  <2>3. CASE CloseDownstream(c)
    BY <2>3 DEF CloseDownstream
  <2>4. CASE CloseUpstream(c)
    BY <2>4 DEF CloseUpstream
  <2>5. QED
    BY <1>4, <2>1, <2>2, <2>3, <2>4 DEF HandlerStep
<1>5. ASSUME NEW c \in Conns, Environment(c) PROVE Typed'
  <2>1. CASE Connect(c)
    BY <2>1 DEF Connect
  <2>2. ASSUME NEW d \in Directions, Send(c, d) PROVE Typed'
    BY <2>2 DEF Send
  <2>3. ASSUME NEW d \in Directions, Finish(c, d) PROVE Typed'
    BY <2>3 DEF Finish, Finished
  <2>4. QED
    BY <1>5, <2>1, <2>2, <2>3 DEF Environment
<1>6. ASSUME NEW c \in Conns, NEW d \in Directions, CopyStep(c, d) PROVE Typed'
  <2>1. CASE Copy(c, d)
    BY <2>1 DEF Copy
  <2>2. CASE CopyEnds(c, d)
    BY <2>2 DEF CopyEnds
  <2>3. CASE CopyBreaks(c, d)
    BY <2>3 DEF CopyBreaks
  <2>4. QED
    BY <1>6, <2>1, <2>2, <2>3 DEF CopyStep
<1>7. CASE UNCHANGED vars
  BY <1>7
<1>8. QED
  BY <1>1, <1>2, <1>3, <1>4, <1>5, <1>6, <1>7 DEF Next

\* Typed is inductive by itself.
LEMMA TypedHolds == Spec => []Typed
<1>1. Init => Typed
  <2> SUFFICES ASSUME Init PROVE Typed
    OBVIOUS
  <2>1. 0 \in 0 .. MaxChunks
    BY ChunksAssumption
  <2>2. /\ sent \in [Conns -> [Directions -> 0 .. MaxChunks]]
        /\ moved \in [Conns -> [Directions -> 0 .. MaxChunks]]
        /\ \A c \in Conns : \A d \in Directions : moved[c][d] <= sent[c][d]
    BY <2>1 DEF Init
  <2>3. QED
    BY <2>2 DEF Init, Typed, TypeOK
<1>2. QED
  BY <1>1, TypedStep, PTL DEF Spec

\* Every reachable state of a proxy is well typed; no copy moves what was not sent.
THEOREM TypeCorrect == Spec => []TypeOK
<1>1. Typed => TypeOK
  BY DEF Typed
<1>2. QED
  BY <1>1, TypedHolds, PTL

-----------------------------------------------------------------------------
\* A copy that has returned on a connection nobody closed saw its sender's end of file,
\* with nothing left to move.
Drained ==
    \A c \in Conns :
        conn[c] \in {"piping", "closing", "ended"} /\ client[c] # "closed" /\ server[c] # "closed" =>
            \A d \in Directions \ copying[c] :
                moved[c][d] = sent[c][d] /\ Sender(c, d) \in Finished

\* Nothing is sent after the end of file, so what a copy drained stays drained.
LEMMA DrainedStep == Typed /\ Owned /\ Drained /\ [Next]_vars => Drained'
<1> SUFFICES ASSUME Typed, Owned, Drained, [Next]_vars PROVE Drained'
  OBVIOUS
<1> USE ChunksAssumption
        DEF Typed, TypeOK, Drained, Sender, Finished, Directions, vars, ownerVars, handleVars, endVars
<1>1. CASE OwnerStep
  BY <1>1 DEF OwnerStep, Start, CloseCancels, CloseUnstarted
<1>2. CASE CloseListener
  BY <1>2 DEF CloseListener
<1>3. CASE RunStep
  <2>1. CASE RunCheck \/ RunAcceptFails
    BY <2>1 DEF RunCheck, RunAcceptFails
  <2>2. ASSUME NEW c \in Conns, RunAccept(c) PROVE Drained'
    BY <2>2 DEF RunAccept
  <2>3. QED
    BY <1>3, <2>1, <2>2 DEF RunStep
<1>4. ASSUME NEW c \in Conns, HandlerStep(c) PROVE Drained'
  <2>1. CASE Dial(c)
    BY <2>1 DEF Dial
  <2>2. CASE DialFails(c)
    BY <2>2 DEF DialFails
  <2>3. CASE CloseDownstream(c)
    BY <2>3 DEF CloseDownstream
  <2>4. CASE CloseUpstream(c)
    BY <2>4 DEF CloseUpstream
  <2>5. QED
    BY <1>4, <2>1, <2>2, <2>3, <2>4 DEF HandlerStep
<1>5. ASSUME NEW c \in Conns, Environment(c) PROVE Drained'
  <2>1. CASE Connect(c)
    BY <2>1 DEF Connect
  <2>2. ASSUME NEW d \in Directions, Send(c, d) PROVE Drained'
    BY <2>2 DEF Send
  <2>3. ASSUME NEW d \in Directions, Finish(c, d) PROVE Drained'
    BY <2>3 DEF Finish
  <2>4. QED
    BY <1>5, <2>1, <2>2, <2>3 DEF Environment
<1>6. ASSUME NEW c \in Conns, NEW d \in Directions, CopyStep(c, d) PROVE Drained'
  <2>1. CASE Copy(c, d)
    BY <2>1 DEF Copy
  <2>2. CASE CopyEnds(c, d)
    BY <2>2 DEF CopyEnds
  <2>3. CASE CopyBreaks(c, d)
    BY <2>3 DEF CopyBreaks
  <2>4. QED
    BY <1>6, <2>1, <2>2, <2>3 DEF CopyStep
<1>7. CASE UNCHANGED vars
  BY <1>7
<1>8. QED
  BY <1>1, <1>2, <1>3, <1>4, <1>5, <1>6, <1>7 DEF Next

\* What one end sends reaches the other, however long it is and whatever else runs.
THEOREM NothingLost == Spec => []Lossless
<1>1. Init => Owned /\ Drained
  BY DEF Init, Owned, Drained
<1>2. Typed /\ Owned /\ Drained => Lossless
  <2> SUFFICES ASSUME Typed, Owned, Drained, NEW c \in Conns,
                      conn[c] = "ended", "closed" \notin {client[c], server[c]}
               PROVE  moved[c] = sent[c]
    BY DEF Lossless
  <2>1. copying[c] = {}
    BY DEF Owned
  <2>2. \A d \in Directions : moved[c][d] = sent[c][d]
    BY <2>1 DEF Drained
  <2>3. QED
    BY <2>2 DEF Typed, TypeOK
<1>3. QED
  BY <1>1, <1>2, TypedHolds, OwnedStep, DrainedStep, PTL DEF Spec

-----------------------------------------------------------------------------
(* The relay *)

Links == [c \in Conns |-> LinkOf[conn[c]]]

RelayVars == <<Links, client, server, sent, moved>>

LEMMA LinkValues ==
  /\ LinkOf["none"] = "idle" /\ LinkOf["backlog"] = "waiting" /\ LinkOf["accepted"] = "waiting"
  /\ LinkOf["piping"] = "answered" /\ LinkOf["undialed"] = "refused"
  /\ LinkOf["closing"] = "over" /\ LinkOf["ended"] = "over"
  BY DEF LinkOf

\* A step of one handler changes one link.
LEMMA LinkMoves ==
  ASSUME Typed, NEW c \in Conns, NEW to, conn' = [conn EXCEPT ![c] = to]
  PROVE  Links' = [Links EXCEPT ![c] = LinkOf[to]] /\ Links[c] = LinkOf[conn[c]]
<1>1. conn \in [Conns -> {"none", "backlog", "reset", "accepted", "undialed", "piping",
                          "closing", "ended"}]
  BY DEF Typed, TypeOK
<1>2. QED
  BY <1>1 DEF Links

\* Some steps of a handler are none of the ends' business.
LEMMA LinkStays ==
  ASSUME Typed, NEW c \in Conns, NEW to, conn' = [conn EXCEPT ![c] = to],
         LinkOf[to] = LinkOf[conn[c]], UNCHANGED endVars, UNCHANGED moved
  PROVE  UNCHANGED RelayVars
<1>1. Links' = [Links EXCEPT ![c] = Links[c]]
  BY LinkMoves
<1>2. Links' = Links
  BY <1>1 DEF Links
<1>3. QED
  BY <1>2 DEF RelayVars, endVars

LEMMA RelayStep ==
  ASSUME Typed, Owned, Drained, [Next]_vars
  PROVE  [Abstract!Next]_RelayVars
<1>1. ASSUME UNCHANGED <<conn, moved, endVars>> PROVE UNCHANGED RelayVars
  BY <1>1 DEF RelayVars, Links, endVars
<1>2. CASE OwnerStep
  BY <1>1, <1>2 DEF OwnerStep, Start, CloseCancels, CloseUnstarted, handleVars
<1>3. CASE CloseListener
  <2>0. PICK S \in SUBSET Conns : S = {c \in Conns : conn[c] = "backlog"}
    OBVIOUS
  <2>1. /\ conn' = [c \in Conns |-> IF conn[c] = "backlog" THEN "reset" ELSE conn[c]]
        /\ UNCHANGED <<client, server, sent, moved>>
    BY <1>3 DEF CloseListener, endVars
  <2>2. Links' = [c \in Conns |-> IF c \in S THEN "refused" ELSE Links[c]]
    BY <2>0, <2>1 DEF Links, LinkOf
  <2>3. \A c \in S : Links[c] = "waiting"
    BY <2>0 DEF Links, LinkOf
  <2>4. Abstract!Refuse(S)
    BY <2>1, <2>2, <2>3 DEF Abstract!Refuse, Links
  <2>5. QED
    BY <2>4 DEF Abstract!Next
<1>4. CASE RunStep
  <2>1. CASE RunCheck \/ RunAcceptFails
    BY <1>1, <2>1 DEF RunCheck, RunAcceptFails, handleVars
  <2>2. ASSUME NEW c \in Conns, RunAccept(c) PROVE UNCHANGED RelayVars
    <3>1. /\ conn[c] = "backlog" /\ conn' = [conn EXCEPT ![c] = "accepted"]
          /\ UNCHANGED endVars /\ UNCHANGED moved
      BY <2>2 DEF RunAccept
    <3>2. QED
      BY <3>1, LinkStays, LinkValues
  <2>3. QED
    BY <1>4, <2>1, <2>2 DEF RunStep
<1>5. ASSUME NEW c \in Conns, HandlerStep(c) PROVE [Abstract!Next]_RelayVars
  <2>1. CASE Dial(c)
    <3>1. /\ conn[c] = "accepted" /\ conn' = [conn EXCEPT ![c] = "piping"]
          /\ server' = [server EXCEPT ![c] = "open"] /\ UNCHANGED <<client, sent, moved>>
      BY <2>1 DEF Dial
    <3>2. Links[c] = "waiting" /\ Links' = [Links EXCEPT ![c] = "answered"]
      <4>1. Links' = [Links EXCEPT ![c] = LinkOf["piping"]] /\ Links[c] = LinkOf[conn[c]]
        BY <3>1, LinkMoves
      <4>2. QED
        BY <3>1, <4>1, LinkValues
    <3>3. Abstract!Answer(c)
      BY <3>1, <3>2 DEF Abstract!Answer, Links
    <3>4. QED
      BY <3>3 DEF Abstract!Next
  <2>2. CASE DialFails(c)
    <3>1. /\ conn[c] = "accepted" /\ conn' = [conn EXCEPT ![c] = "undialed"]
          /\ UNCHANGED <<client, server, sent, moved>>
      BY <2>2 DEF DialFails, endVars
    <3>2. Links[c] = "waiting" /\ Links' = [Links EXCEPT ![c] = "refused"]
      <4>1. Links' = [Links EXCEPT ![c] = LinkOf["undialed"]] /\ Links[c] = LinkOf[conn[c]]
        BY <3>1, LinkMoves
      <4>2. QED
        BY <3>1, <4>1, LinkValues
    <3>3. Links' = [b \in Conns |-> IF b \in {c} THEN "refused" ELSE Links[b]]
      BY <3>2 DEF Links
    <3>4. Abstract!Refuse({c})
      BY <3>1, <3>2, <3>3 DEF Abstract!Refuse, Links
    <3>5. QED
      BY <3>4 DEF Abstract!Next
  <2>3. CASE CloseDownstream(c)
    <3>1. /\ conn[c] = "piping" /\ copying[c] = {} /\ UNCHANGED <<client, server, sent, moved>>
          /\ \/ conn' = [conn EXCEPT ![c] = "closing"]
             \/ conn' = [conn EXCEPT ![c] = "ended"]
      BY <2>3 DEF CloseDownstream, endVars
    <3>2. Links[c] = "answered" /\ Links' = [Links EXCEPT ![c] = "over"]
      BY <3>1, LinkMoves, LinkValues
    <3>3. ASSUME "closed" \notin {client[c], server[c]}
          PROVE  client[c] = "fin" /\ server[c] = "fin" /\ moved[c] = sent[c]
      <4>1. \A d \in Directions : moved[c][d] = sent[c][d] /\ Sender(c, d) \in Finished
        BY <3>1, <3>3 DEF Drained
      <4>2. client[c] \in Finished /\ server[c] \in Finished
        BY <4>1 DEF Sender, Directions
      <4>3. moved[c] = sent[c]
        BY <4>1, ChunksAssumption DEF Typed, TypeOK
      <4>4. QED
        BY <3>3, <4>2, <4>3 DEF Finished
    <3>4. Abstract!HangUp(c)
      BY <3>1, <3>2, <3>3 DEF Abstract!HangUp, Links
    <3>5. QED
      BY <3>4 DEF Abstract!Next
  <2>4. CASE CloseUpstream(c)
    <3>1. /\ conn[c] = "closing" /\ conn' = [conn EXCEPT ![c] = "ended"]
          /\ UNCHANGED endVars /\ UNCHANGED moved
      BY <2>4 DEF CloseUpstream
    <3>2. QED
      BY <3>1, LinkStays, LinkValues
  <2>5. QED
    BY <1>5, <2>1, <2>2, <2>3, <2>4 DEF HandlerStep
<1>6. ASSUME NEW c \in Conns, Environment(c) PROVE Abstract!Next
  <2>1. CASE Connect(c)
    <3>1. /\ conn[c] = "none" /\ conn' = [conn EXCEPT ![c] = "backlog"]
          /\ client' = [client EXCEPT ![c] = "open"] /\ UNCHANGED <<server, sent, moved>>
      BY <2>1 DEF Connect
    <3>2. Links[c] = "idle" /\ Links' = [Links EXCEPT ![c] = "waiting"]
      <4>1. Links' = [Links EXCEPT ![c] = LinkOf["backlog"]] /\ Links[c] = LinkOf[conn[c]]
        BY <3>1, LinkMoves
      <4>2. QED
        BY <3>1, <4>1, LinkValues
    <3>3. Abstract!Ask(c)
      BY <3>1, <3>2 DEF Abstract!Ask, Links
    <3>4. QED
      BY <3>3 DEF Abstract!Next
  <2>2. ASSUME NEW d \in Directions, Send(c, d) PROVE Abstract!Next
    <3>1. /\ Sender(c, d) = "open" /\ sent' = [sent EXCEPT ![c][d] = @ + 1]
          /\ UNCHANGED <<Links, client, server, moved>>
      BY <2>2 DEF Send, handleVars, Links
    <3>2. Abstract!Send(c, d)
      BY <3>1 DEF Abstract!Send, Abstract!Source, Sender, Links
    <3>3. QED
      BY <3>2 DEF Abstract!Next, Abstract!Streams, Directions
  <2>3. ASSUME NEW d \in Directions, Finish(c, d) PROVE Abstract!Next
    <3>1. Sender(c, d) \in {"open", "fin"} /\ UNCHANGED <<Links, sent, moved>>
      BY <2>3 DEF Finish, handleVars, Links
    <3>2. PICK to \in Finished :
            IF d = "request"
            THEN client' = [client EXCEPT ![c] = to] /\ UNCHANGED server
            ELSE server' = [server EXCEPT ![c] = to] /\ UNCHANGED client
      BY <2>3 DEF Finish
    <3>3. CASE d = "request"
      <4>1. Abstract!ClientEnds(c)
        BY <3>1, <3>2, <3>3 DEF Abstract!ClientEnds, Sender, Finished, Links
      <4>2. QED
        BY <4>1 DEF Abstract!Next
    <3>4. CASE d # "request"
      <4>1. Abstract!ServerEnds(c)
        BY <3>1, <3>2, <3>4 DEF Abstract!ServerEnds, Sender, Finished, Links
      <4>2. QED
        BY <4>1 DEF Abstract!Next
    <3>5. QED
      BY <3>3, <3>4
  <2>4. QED
    BY <1>6, <2>1, <2>2, <2>3 DEF Environment
<1>7. ASSUME NEW c \in Conns, NEW d \in Directions, CopyStep(c, d)
      PROVE  [Abstract!Next]_RelayVars
  <2>1. CASE Copy(c, d)
    <3>1. /\ moved[c][d] < sent[c][d] /\ moved' = [moved EXCEPT ![c][d] = @ + 1]
          /\ UNCHANGED <<conn, client, server, sent>> /\ d \in copying[c]
      BY <2>1 DEF Copy, endVars
    <3>2. conn[c] = "piping"
      BY <3>1 DEF Owned
    <3>3. Links[c] = "answered" /\ UNCHANGED Links
      BY <3>1, <3>2 DEF Links, LinkOf
    <3>4. Abstract!Deliver(c, d)
      BY <3>1, <3>3 DEF Abstract!Deliver, Links
    <3>5. QED
      BY <3>4 DEF Abstract!Next, Abstract!Streams, Directions
  <2>2. CASE CopyEnds(c, d) \/ CopyBreaks(c, d)
    BY <1>1, <2>2 DEF CopyEnds, CopyBreaks
  <2>3. QED
    BY <1>7, <2>1, <2>2 DEF CopyStep
<1>8. CASE UNCHANGED vars
  BY <1>1, <1>8 DEF vars, handleVars
<1>9. QED
  BY <1>2, <1>3, <1>4, <1>5, <1>6, <1>7, <1>8 DEF Next

\* A proxy is a relay to its clients and its target, however many connections there are
\* and whatever its owner, its Accept and its handlers do meanwhile.
THEOREM ProxyRelays == Spec => IsRelay
<1>1. Init => Owned /\ Drained /\ Abstract!Init
  BY DEF Init, Owned, Drained, Abstract!Init, Abstract!Streams, LinkOf, Sender, Finished, Directions
<1>2. Typed /\ Owned /\ Drained /\ [Next]_vars => [Abstract!Next]_(Abstract!relayVars)
  BY RelayStep DEF RelayVars, Links, Abstract!relayVars
<1>3. QED
  BY <1>1, <1>2, TypedHolds, OwnedStep, DrainedStep, PTL DEF Spec, IsRelay, Abstract!Spec
=============================================================================
