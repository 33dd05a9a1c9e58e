------------------------- MODULE ServerConnections -------------------------
(***************************************************************************)
(* The server: Server (acceptor, list of connections, signals) and         *)
(* Connection (socket, one read and one write outstanding, response        *)
(* queue), all on one thread that runs io_context.run().                   *)
(*                                                                         *)
(* `ready' is the io_context's queue: completion handlers in the order     *)
(* their operations ended, and posted functions, each run to its end.      *)
(* Connections are numbered in the order the clients connect; `at' tells   *)
(* which of them, if any, lives at each heap address, because the posted   *)
(* removal finds its connection by address.                                *)
(***************************************************************************)
EXTENDS Naturals, FiniteSets, Functions, SequencesExt

CONSTANTS
    Addresses,       \* heap addresses a Connection may be given
    MaxConnections,  \* bound: clients that ever connect
    MaxRequests,     \* bound: requests they send in all
    QueueMax         \* RESPONSE_QUEUE_MAX_SIZE

ASSUME ServerAssumption ==
    /\ MaxConnections \in Nat /\ MaxRequests \in Nat
    /\ QueueMax \in Nat \ {0}
    /\ 0 \notin Addresses
    /\ IsFiniteSet(Addresses) /\ Cardinality(Addresses) >= MaxConnections

Conns == 1..MaxConnections

VARIABLES
    ready,         \* handlers the io_context will run, in order
    running,       \* io_context.run() has not returned
    accepting,     \* is an async_accept outstanding?
    arrived,       \* clients that have connected so far
    at,            \* Server::connections: the connection at each address, or 0
    address,       \* the address each connection was given, or 0
    socket,        \* "none" (in the backlog or absent), "open" or "closed"
    reading,       \* connections with an async_read_some outstanding
    writing,       \* connections with an async_write outstanding
    isSending,     \* connections whose sending_state.is_sending is up
    responses,     \* length of each connection's ResponseQueue
    peer,          \* "up" or "gone", for each client
    sent,          \* requests each client has sent
    inbox,         \* of these, the ones in the socket's receive buffer
    delivered,     \* responses written for each client
    dropped,       \* history: responses a full queue refused
    dangling,      \* history: a handler ran for a destroyed connection
    acceptFailed   \* history: an accept ended with an error

connVars == <<socket, reading, writing, isSending, responses>>
listVars == <<at, address>>
peerVars == <<peer, sent, inbox, delivered>>
vars == <<ready, running, accepting, arrived, listVars, connVars, peerVars,
          dropped, dangling, acceptFailed>>

Handler(what, c) == [what |-> what, conn |-> c, size |-> 0, where |-> 0]

Init ==
    /\ ready = <<>> /\ running = TRUE /\ accepting = TRUE
    /\ arrived = 0
    /\ at = [a \in Addresses |-> 0]
    /\ address = [c \in Conns |-> 0]
    /\ socket = [c \in Conns |-> "none"]
    /\ reading = {} /\ writing = {} /\ isSending = {}
    /\ responses = [c \in Conns |-> 0]
    /\ peer = [c \in Conns |-> "up"]
    /\ sent = [c \in Conns |-> 0] /\ inbox = [c \in Conns |-> 0]
    /\ delivered = [c \in Conns |-> 0] /\ dropped = [c \in Conns |-> 0]
    /\ dangling = FALSE /\ acceptFailed = FALSE

Alive(c) == address[c] # 0 /\ at[address[c]] = c

-----------------------------------------------------------------------------
(* Pieces of the handlers.                                                 *)

Runs(what) == running /\ ready # <<>> /\ Head(ready).what = what

\* socket.close() ends the operations outstanding on it with operation_aborted,
\* an error like any other to these handlers.
Aborted(c) ==
    (IF c \in reading THEN <<Handler("read_error", c)>> ELSE <<>>)
    \o (IF c \in writing THEN <<Handler("write_error", c)>> ELSE <<>>)

Close(c) ==
    /\ socket' = [socket EXCEPT ![c] = "closed"]
    /\ reading' = reading \ {c}
    /\ writing' = writing \ {c}

\* on_closed(): the removal is posted with the connection's address.
Removal(c) == [Handler("remove", c) EXCEPT !.where = address[c]]

GiveUp_NoRemoval(c) ==
    /\ ready' = Tail(ready) \o Aborted(c)
    /\ Close(c)

\* on_closed(*this); close();
GiveUp(c) ==
    /\ ready' = Tail(ready) \o <<Removal(c)>> \o Aborted(c)
    /\ Close(c)

\* send_next(), with `n' responses queued and is_sending up if c is in `busy'.
SendNext(c, busy, n) ==
    IF c \notin busy /\ n > 0
    THEN /\ isSending' = busy \cup {c}
         /\ responses' = [responses EXCEPT ![c] = n - 1]
         /\ writing' = IF socket[c] = "open" THEN writing \cup {c} ELSE writing
    ELSE /\ isSending' = busy
         /\ responses' = [responses EXCEPT ![c] = n]
         /\ UNCHANGED writing

\* An operation started on a closed socket fails at once.
FailedStarts(c, writes) ==
    IF socket[c] = "open" THEN <<>>
    ELSE (IF writes THEN <<Handler("write_error", c)>> ELSE <<>>)

-----------------------------------------------------------------------------
(* Handlers.                                                               *)

RunAccept_Once ==
    LET c == Head(ready).conn IN
    /\ Runs("accept")
    /\ ready' = Tail(ready)
    /\ \E a \in Addresses :
          /\ at[a] = 0
          /\ at' = [at EXCEPT ![a] = c]
          /\ address' = [address EXCEPT ![c] = a]
    /\ socket' = [socket EXCEPT ![c] = "open"]
    /\ reading' = reading \cup {c}
    /\ UNCHANGED <<running, accepting, arrived, writing, isSending, responses, peerVars,
                   dropped, dangling, acceptFailed>>

\* accept(): the new connection starts reading, and accept() is called again.
RunAccept ==
    LET c == Head(ready).conn IN
    /\ Runs("accept")
    /\ ready' = Tail(ready)
    /\ \E a \in Addresses :
          /\ at[a] = 0
          /\ at' = [at EXCEPT ![a] = c]
          /\ address' = [address EXCEPT ![c] = a]
    /\ socket' = [socket EXCEPT ![c] = "open"]
    /\ reading' = reading \cup {c}
    /\ accepting' = TRUE
    /\ UNCHANGED <<running, arrived, writing, isSending, responses, peerVars, dropped,
                   dangling, acceptFailed>>

\* The error path returns without calling accept() again.
RunAcceptError ==
    /\ Runs("accept_error")
    /\ ready' = Tail(ready)
    /\ acceptFailed' = TRUE
    /\ UNCHANGED <<running, accepting, arrived, listVars, connVars, peerVars, dropped,
                   dangling>>

\* What is left of n responses in the queue.
Kept(n) == IF n < QueueMax THEN n ELSE QueueMax

RunRead_FirstOnly ==
    LET c == Head(ready).conn
        kept == Kept(responses[c] + 1)
    IN  /\ Runs("read") /\ Alive(c)
        /\ SendNext(c, isSending, kept)
        /\ dropped' = [dropped EXCEPT ![c] = @ + responses[c] + 1 - kept]
        /\ reading' = IF socket[c] = "open" THEN reading \cup {c} ELSE reading
        /\ ready' = Tail(ready)
        /\ UNCHANGED <<running, accepting, arrived, listVars, socket, peerVars,
                       dangling, acceptFailed>>

\* process_frames() answers every request of the chunk; the result of
\* ResponseQueue::add is ignored.  Bytes are frames here: what parsing them
\* throws in this handler is ServerReceive's, in Protocol.
RunRead ==
    LET c == Head(ready).conn
        n == responses[c] + Head(ready).size
        kept == Kept(n)
        writes == c \notin isSending /\ kept > 0
    IN  /\ Runs("read") /\ Alive(c)
        /\ SendNext(c, isSending, kept)
        /\ dropped' = [dropped EXCEPT ![c] = @ + n - kept]
        /\ reading' = IF socket[c] = "open" THEN reading \cup {c} ELSE reading
        /\ ready' = Tail(ready) \o FailedStarts(c, writes)
                        \o (IF socket[c] = "open" THEN <<>> ELSE <<Handler("read_error", c)>>)
        /\ UNCHANGED <<running, accepting, arrived, listVars, socket, peerVars,
                       dangling, acceptFailed>>

RunWrite_StaysSending ==
    LET c == Head(ready).conn IN
    /\ Runs("write") /\ Alive(c)
    /\ SendNext(c, isSending, responses[c])
    /\ ready' = Tail(ready)
    /\ UNCHANGED <<running, accepting, arrived, listVars, socket, reading, peerVars,
                   dropped, dangling, acceptFailed>>

RunWrite_NoNext ==
    LET c == Head(ready).conn IN
    /\ Runs("write") /\ Alive(c)
    /\ isSending' = isSending \ {c}
    /\ ready' = Tail(ready)
    /\ UNCHANGED <<running, accepting, arrived, listVars, socket, reading, writing,
                   responses, peerVars, dropped, dangling, acceptFailed>>

RunWrite ==
    LET c == Head(ready).conn IN
    /\ Runs("write") /\ Alive(c)
    /\ SendNext(c, isSending \ {c}, responses[c])
    /\ ready' = Tail(ready) \o FailedStarts(c, responses[c] > 0)
    /\ UNCHANGED <<running, accepting, arrived, listVars, socket, reading, peerVars,
                   dropped, dangling, acceptFailed>>

\* End of file, an error, or the abort by a close().
RunError ==
    LET c == Head(ready).conn IN
    /\ Runs("read_error") \/ Runs("write_error")
    /\ Alive(c)
    /\ GiveUp(c)
    /\ UNCHANGED <<running, accepting, arrived, listVars, isSending, responses,
                   peerVars, dropped, dangling, acceptFailed>>

\* A handler of a destroyed Connection uses freed memory.  What a build does
\* is to go on with what is left there, posting the removal again if it was an
\* error handler, or to crash.
RunDangling ==
    LET h == Head(ready) IN
    /\ running /\ ready # <<>>
    /\ h.what \in {"read", "read_error", "write", "write_error"}
    /\ ~Alive(h.conn)
    /\ dangling' = TRUE
    /\ \/ running' = FALSE /\ ready' = Tail(ready)
       \/ /\ UNCHANGED running
          /\ ready' = IF h.what \in {"read_error", "write_error"}
                      THEN Append(Tail(ready), Removal(h.conn)) ELSE Tail(ready)
    /\ UNCHANGED <<accepting, arrived, listVars, connVars, peerVars, dropped, acceptFailed>>

\* remove_connection(): whatever lives at that address now is destroyed, its
\* socket closed with it.
RunRemove ==
    LET a == Head(ready).where
        c == at[a]
    IN  /\ Runs("remove")
        /\ IF c # 0
           THEN /\ at' = [at EXCEPT ![a] = 0]
                /\ ready' = Tail(ready) \o Aborted(c)
                /\ Close(c)
           ELSE /\ ready' = Tail(ready)
                /\ UNCHANGED <<at, socket, reading, writing>>
        /\ UNCHANGED <<running, accepting, arrived, address, isSending, responses,
                       peerVars, dropped, dangling, acceptFailed>>

\* stop(): everything is closed and destroyed, and no handler runs any more.
RunStop ==
    /\ Runs("signal")
    /\ ready' = Tail(ready)
    /\ running' = FALSE
    /\ accepting' = FALSE
    /\ at' = [a \in Addresses |-> 0]
    /\ socket' = [c \in Conns |-> IF Alive(c) THEN "closed" ELSE socket[c]]
    /\ reading' = {} /\ writing' = {}
    /\ UNCHANGED <<arrived, address, isSending, responses, peerVars, dropped,
                   dangling, acceptFailed>>

-----------------------------------------------------------------------------
(* The clients and the operating system.                                   *)

coreVars == <<running, arrived, listVars, socket, isSending, responses, dropped,
              dangling, acceptFailed>>

\* A client connects; it is served when an async_accept takes it.
Connects ==
    /\ arrived < MaxConnections
    /\ arrived' = arrived + 1
    /\ UNCHANGED <<ready, running, accepting, listVars, connVars, peerVars, dropped,
                   dangling, acceptFailed>>

Taken == Cardinality({c \in Conns : address[c] # 0})
             + Cardinality({k \in DOMAIN ready : ready[k].what = "accept"})

AcceptEnds ==
    /\ accepting /\ running
    /\ accepting' = FALSE
    /\ \/ /\ Taken < arrived
          /\ ready' = Append(ready, Handler("accept", Taken + 1))
       \/ ready' = Append(ready, Handler("accept_error", 0))
    /\ UNCHANGED <<coreVars, reading, writing, peerVars>>

Sends(c) ==
    /\ c <= arrived /\ peer[c] = "up" /\ socket[c] = "open"
    /\ FoldFunction(+, 0, sent) < MaxRequests
    /\ sent' = [sent EXCEPT ![c] = @ + 1]
    /\ inbox' = [inbox EXCEPT ![c] = @ + 1]
    /\ UNCHANGED <<coreVars, ready, accepting, reading, writing, peer, delivered>>

Leaves(c) ==
    /\ c <= arrived /\ peer[c] = "up" /\ socket[c] = "open"
    /\ peer' = [peer EXCEPT ![c] = "gone"]
    /\ UNCHANGED <<coreVars, ready, accepting, reading, writing, sent, inbox, delivered>>

\* async_read_some ends with the requests that have arrived, or, once the peer
\* is gone, with end of file or a reset.
ReadEnds(c) ==
    /\ c \in reading /\ running
    /\ reading' = reading \ {c}
    /\ inbox' = [inbox EXCEPT ![c] = 0]
    /\ \/ /\ inbox[c] > 0
          /\ ready' = Append(ready, [Handler("read", c) EXCEPT !.size = inbox[c]])
       \/ /\ peer[c] = "gone"
          /\ ready' = Append(ready, Handler("read_error", c))
    /\ UNCHANGED <<coreVars, accepting, writing, peer, sent, delivered>>

\* async_write ends; a client that does not read stalls it.
WriteEnds(c) ==
    /\ c \in writing /\ running
    /\ writing' = writing \ {c}
    /\ \/ /\ ready' = Append(ready, Handler("write", c))
          /\ delivered' = [delivered EXCEPT ![c] = @ + 1]
       \/ /\ peer[c] = "gone"
          /\ ready' = Append(ready, Handler("write_error", c))
          /\ UNCHANGED delivered
    /\ UNCHANGED <<coreVars, accepting, reading, peer, sent, inbox>>

Signal ==
    /\ running
    /\ \A k \in DOMAIN ready : ready[k].what # "signal"
    /\ ready' = Append(ready, Handler("signal", 0))
    /\ UNCHANGED <<coreVars, accepting, reading, writing, peerVars>>

-----------------------------------------------------------------------------

Run ==
    \/ RunAccept \/ RunAcceptError \/ RunRead \/ RunWrite \/ RunError
    \/ RunDangling \/ RunRemove \/ RunStop

Next ==
    \/ Run
    \/ Connects \/ AcceptEnds \/ Signal
    \/ \E c \in Conns : Sends(c) \/ Leaves(c) \/ ReadEnds(c) \/ WriteEnds(c)

Spec == Init /\ [][Next]_vars

\* The server's thread runs what is ready, the operating system ends what can
\* end, and a client reads what it is sent.  Clients need not send or leave, and
\* nobody has to stop the server.
FairSpec ==
    /\ Spec
    /\ WF_vars(Run)
    /\ WF_vars(AcceptEnds)
    /\ \A c \in Conns : WF_vars(ReadEnds(c)) /\ WF_vars(WriteEnds(c))

-----------------------------------------------------------------------------
(* Properties.                                                             *)

Pending(what, c) == {k \in DOMAIN ready : ready[k].what = what /\ ready[k].conn = c}

\* One async_write at a time on a connection, and no wake-up is lost: whenever
\* responses wait on an open socket a write is outstanding or its handler is due.
WritesNeverIdle ==
    \A c \in Conns :
        LET writes == (IF c \in writing THEN 1 ELSE 0) + Cardinality(Pending("write", c))
        IN  /\ writes <= 1
            /\ Alive(c) /\ socket[c] = "open" /\ peer[c] = "up" =>
                  /\ c \in isSending <=> writes = 1
                  /\ responses[c] > 0 => c \in isSending

\* The requests of a client, with `read' of them read and not processed yet:
\* unread, read, queued as a response, being written, delivered, or refused by
\* the full queue.
Accounted(c, read) ==
    sent[c] = inbox[c] + read + responses[c] + (IF c \in writing THEN 1 ELSE 0)
              + delivered[c] + dropped[c]

\* Every request a connected client sent is in exactly one of these places, and
\* at most one chunk of them has been read and waits for its handler.
RequestsConserved ==
    \A c \in Conns :
        LET reads == Pending("read", c)
        IN  /\ Cardinality(reads) <= 1
            /\ Alive(c) /\ socket[c] = "open" /\ peer[c] = "up" =>
                  /\ reads = {} => Accounted(c, 0)
                  /\ \A k \in reads : Accounted(c, ready[k].size)

\* The connection of a client that left goes away.
DeadConnectionsGo ==
    \A c \in Conns : peer[c] = "gone" /\ Alive(c) ~> ~Alive(c) \/ ~running

\* Every client that connects is taken, as long as no accept fails.
EveryClientTaken ==
    \A c \in Conns : arrived >= c ~> address[c] # 0 \/ acceptFailed \/ ~running

\* Every request of a client that stays is answered, or its response refused.
EveryRequestAnswered ==
    \A c \in Conns, n \in 1..MaxRequests :
        sent[c] >= n ~> delivered[c] + dropped[c] >= n \/ peer[c] = "gone"
                        \/ ~Alive(c) \/ ~running

\* networking/help.md:21 "A client disconnect closes only that connection":
\* no handler runs for a Connection object that was destroyed.
NoDanglingHandler == ~dangling

=============================================================================
