----------------------------- MODULE SdkClient -----------------------------
(***************************************************************************)
(* The C++ SDK's Client: user threads that connect, send and disconnect,   *)
(* the strand on which every posted task and completion handler runs, the  *)
(* socket with at most a read and a write outstanding, and the server at   *)
(* the other end of the connection.                                        *)
(*                                                                         *)
(* One action is one strand handler, one step of a user thread between two *)
(* points where the strand may run, or one event of the network.  Tasks    *)
(* posted to the strand run in FIFO order.  A completion handler reaches   *)
(* the strand through the io_context, so it runs at any time after its     *)
(* operation ended, whatever was posted meanwhile.  The request store is   *)
(* the contract that PendingRequests is shown to implement: one step per   *)
(* call.                                                                   *)
(***************************************************************************)
EXTENDS Naturals, SequencesExt

CONSTANTS
    Ids,             \* request ids; each is sent once (next_request_id.fetch_add)
    QueueMax,        \* MAX_REQUEST_QUEUE_SIZE
    MaxConnects,     \* bound: calls of connect() that reach the network
    MaxDisconnects,  \* bound: calls of disconnect() by the owner
    StopRounds,      \* stop-and-wait rounds before the members are destroyed:
                     \* the destructor's own, and one before it if the owner
                     \* follows docs/SDK.md
    NoId

ASSUME ClientAssumption ==
    /\ QueueMax \in Nat \ {0}
    /\ MaxConnects \in Nat /\ MaxDisconnects \in Nat
    /\ StopRounds \in Nat \ {0}
    /\ NoId \notin Ids

VARIABLES
    connected,    \* Client::connected
    open,         \* is socket_ open?
    conn,         \* how many connections there have been
    tasks,        \* the strand's queue of posted lambdas
    completions,  \* completion handlers whose operation has ended
    reading,      \* async_read_some operations outstanding on the socket
    writing,      \* the request being written by async_write, or NoId
    isSending,    \* sending_state.is_sending
    queue,        \* protocol_session.requests
    ops,          \* current_async_operations_running
    stopped,      \* stopped_new_async_operations
    status,       \* what the request store knows of each request
    registered,   \* the ids it holds
    call,         \* where the user thread of each request is
    owner,        \* where the thread that owns the client is
    round,        \* its stop-and-wait rounds so far
    userCloses,   \* its calls of disconnect() so far
    io,           \* "running", or "dead" after an exception left a handler
    lost,         \* has the peer closed or reset the connection?
    wire,         \* requests the server has received and not answered
    answers,      \* answers that are on their way back
    refused,      \* history: requests a full queue refused
    writeFailed   \* history: a write handler was called with an error

strandVars == <<tasks, completions, io>>
socketVars == <<open, conn, reading, writing>>
sendVars   == <<isSending, queue>>
storeVars  == <<status, registered, call>>
ownerVars  == <<owner, round, userCloses>>
peerVars   == <<lost, wire, answers>>
history    == <<refused, writeFailed>>
vars == <<connected, strandVars, socketVars, sendVars, ops, stopped,
          storeVars, ownerVars, peerVars, history>>

Task(kind) == [kind |-> kind, id |-> NoId]

Handler(op, result, id) == [op |-> op, result |-> result, id |-> id]

Init ==
    /\ connected = FALSE /\ open = FALSE /\ conn = 0
    /\ tasks = <<>> /\ completions = <<>> /\ io = "running"
    /\ reading = 0 /\ writing = NoId
    /\ isSending = FALSE /\ queue = <<>>
    /\ ops = 0 /\ stopped = FALSE
    /\ status = [i \in Ids |-> "unmade"] /\ registered = {}
    /\ call = [i \in Ids |-> "new"]
    /\ owner = "free" /\ round = 0 /\ userCloses = 0
    /\ lost = FALSE /\ wire = <<>> /\ answers = <<>>
    /\ refused = {} /\ writeFailed = FALSE

-----------------------------------------------------------------------------
(* Pieces of the handlers.                                                 *)

Post(kind) == tasks' = Append(tasks, Task(kind))

Send_WhileSending(sending, q, n) ==
    IF connected /\ ~stopped /\ q # <<>>
    THEN /\ isSending' = TRUE
         /\ writing' = Head(q)
         /\ queue' = Tail(q)
         /\ ops' = n + 1
    ELSE /\ isSending' = sending
         /\ queue' = q
         /\ ops' = n
         /\ UNCHANGED writing

Send_KeepsFront(sending, q, n) ==
    IF connected /\ ~sending /\ ~stopped /\ q # <<>>
    THEN /\ isSending' = TRUE
         /\ writing' = Head(q)
         /\ queue' = q
         /\ ops' = n + 1
    ELSE /\ isSending' = sending
         /\ queue' = q
         /\ ops' = n
         /\ UNCHANGED writing

\* Client::send(): starts a write unless one is in progress.  `sending' is
\* is_sending and `n' the operation counter when it is called.
Send(sending, q, n) ==
    IF connected /\ ~sending /\ ~stopped /\ q # <<>>
    THEN /\ isSending' = TRUE
         /\ writing' = Head(q)
         /\ queue' = Tail(q)
         /\ ops' = n + 1
    ELSE /\ isSending' = sending
         /\ queue' = q
         /\ ops' = n
         /\ UNCHANGED writing

Receive_Uncounted(n) ==
    IF stopped
    THEN ops' = n /\ UNCHANGED reading
    ELSE ops' = n /\ reading' = reading + 1

\* Client::receive(): starts a read unless the client is stopping.
Receive(n) ==
    IF stopped
    THEN ops' = n /\ UNCHANGED reading
    ELSE ops' = n + 1 /\ reading' = reading + 1

\* socket_.close() and socket_.cancel() end the outstanding operations of an
\* open socket; those started on a closed one have already failed.
AbortedReads == [k \in 1..reading |-> Handler("read", "aborted", NoId)]
AbortedWrite == IF writing = NoId THEN <<>> ELSE <<Handler("write", "aborted", NoId)>>

AbortOperations ==
    IF open
    THEN /\ completions' = completions \o AbortedReads \o AbortedWrite
         /\ reading' = 0
         /\ writing' = NoId
    ELSE UNCHANGED <<completions, reading, writing>>

\* RequestQueue::add refuses a request.
Full == Len(queue) >= QueueMax

FailAll_Never == UNCHANGED status

\* fail_all_by_disconnection
FailAll == status' = [i \in Ids |-> IF i \in registered /\ status[i] = "open"
                                    THEN "DISCONNECTION" ELSE status[i]]

-----------------------------------------------------------------------------
(* Tasks posted to the strand.                                             *)

Task_Is(kind) ==
    /\ io = "running"
    /\ tasks # <<>>
    /\ Head(tasks).kind = kind

RunDisconnect ==
    /\ Task_Is("disconnect")
    /\ tasks' = Tail(tasks)
    /\ open' = FALSE
    /\ connected' = FALSE
    /\ AbortOperations
    /\ FailAll
    /\ wire' = <<>> /\ answers' = <<>>
    /\ UNCHANGED <<io, conn, sendVars, ops, stopped, registered, call, ownerVars,
                   lost, history>>

RunReceive ==
    /\ Task_Is("receive")
    /\ tasks' = Tail(tasks)
    /\ Receive(ops)
    /\ UNCHANGED <<connected, completions, io, open, conn, writing, sendVars, stopped,
                   storeVars, ownerVars, peerVars, history>>

\* enqueue_request ignores that a full queue refuses the request.
RunEnqueue ==
    /\ Task_Is("enqueue")
    /\ tasks' = Tail(tasks)
    /\ LET i == Head(tasks).id
       IN  /\ Send(isSending, IF Full THEN queue ELSE Append(queue, i), ops)
           /\ refused' = IF Full THEN refused \cup {i} ELSE refused
    /\ UNCHANGED <<connected, completions, io, open, conn, reading, stopped,
                   storeVars, ownerVars, peerVars, writeFailed>>

RunStop_NoCancel ==
    /\ Task_Is("stop")
    /\ tasks' = Tail(tasks)
    /\ stopped' = TRUE
    /\ owner' = "draining"
    /\ UNCHANGED <<connected, completions, io, socketVars, sendVars, ops, storeVars,
                   round, userCloses, peerVars, history>>

\* The lambda of stop_new_async_operations; its promise releases the owner.
RunStop ==
    /\ Task_Is("stop")
    /\ tasks' = Tail(tasks)
    /\ stopped' = TRUE
    /\ AbortOperations
    /\ owner' = "draining"
    /\ UNCHANGED <<connected, io, open, conn, sendVars, ops, storeVars,
                   round, userCloses, peerVars, history>>

-----------------------------------------------------------------------------
(* Completion handlers.                                                    *)

Complete(k, op, result) ==
    /\ io = "running"
    /\ completions[k].op = op /\ completions[k].result = result
    /\ completions' = RemoveAt(completions, k)

\* The answer reaches the store, which throws if it no longer holds the id:
\* the exception leaves the handler before it reads on or counts down.
ReadOk(k) ==
    LET i == completions[k].id IN
    /\ Complete(k, "read", "ok")
    /\ IF i \in registered
       THEN /\ status' = [status EXCEPT ![i] = IF @ = "open" THEN "answered" ELSE @]
            /\ Receive(ops - 1)
            /\ UNCHANGED io
       ELSE /\ io' = "dead"
            /\ UNCHANGED <<status, reading, ops>>
    /\ UNCHANGED <<connected, tasks, open, conn, writing, sendVars, stopped, registered,
                   call, ownerVars, peerVars, history>>

\* End of file or an error: on_closed() and on_error() post a disconnect.
ReadFailed(k) ==
    /\ \/ Complete(k, "read", "closed")
       \/ Complete(k, "read", "error")
    /\ Post("disconnect")
    /\ ops' = ops - 1
    /\ UNCHANGED <<connected, io, socketVars, sendVars, stopped, storeVars, ownerVars,
                   peerVars, history>>

ReadAborted(k) ==
    /\ Complete(k, "read", "aborted")
    /\ ops' = ops - 1
    /\ UNCHANGED <<connected, tasks, io, socketVars, sendVars, stopped, storeVars,
                   ownerVars, peerVars, history>>

WriteOk_NoNext(k) ==
    /\ Complete(k, "write", "ok")
    /\ isSending' = FALSE
    /\ ops' = ops - 1
    /\ UNCHANGED <<connected, tasks, io, socketVars, queue, stopped, storeVars,
                   ownerVars, peerVars, history>>

WriteOk(k) ==
    /\ Complete(k, "write", "ok")
    /\ Send(FALSE, queue, ops - 1)
    /\ UNCHANGED <<connected, tasks, io, open, conn, reading, stopped, storeVars,
                   ownerVars, peerVars, history>>

\* Neither branch of the error path clears the sending state.
WriteFailed(k) ==
    /\ Complete(k, "write", "error")
    /\ Post("disconnect")
    /\ ops' = ops - 1
    /\ writeFailed' = TRUE
    /\ UNCHANGED <<connected, io, socketVars, sendVars, stopped, storeVars, ownerVars,
                   peerVars, refused>>

WriteAborted(k) ==
    /\ Complete(k, "write", "aborted")
    /\ ops' = ops - 1
    /\ writeFailed' = TRUE
    /\ UNCHANGED <<connected, tasks, io, socketVars, sendVars, stopped, storeVars,
                   ownerVars, peerVars, refused>>

-----------------------------------------------------------------------------
(* The thread that owns the client: connect, disconnect, shut down.        *)

\* connect() throws on a connected client; otherwise it goes to the network,
\* on this thread, while the strand keeps running.
ConnectBegin ==
    /\ owner = "free" /\ ~connected
    /\ conn < MaxConnects
    /\ owner' = "connecting"
    /\ UNCHANGED <<connected, strandVars, socketVars, sendVars, ops, stopped,
                   storeVars, round, userCloses, peerVars, history>>

ConnectRefused ==
    /\ owner = "connecting"
    /\ owner' = "free"
    /\ UNCHANGED <<connected, strandVars, socketVars, sendVars, ops, stopped,
                   storeVars, round, userCloses, peerVars, history>>

\* An operation started on the closed socket failed in the call that started it.
ConnectOpens ==
    /\ owner = "connecting"
    /\ reading = 0 /\ writing = NoId
    /\ owner' = "opened"
    /\ open' = TRUE
    /\ conn' = conn + 1
    /\ lost' = FALSE
    /\ UNCHANGED <<connected, strandVars, reading, writing, sendVars, ops, stopped,
                   storeVars, round, userCloses, wire, answers, history>>

ConnectReturns_ReadsTwice ==
    /\ owner = "opened"
    /\ owner' = "free"
    /\ connected' = TRUE
    /\ tasks' = tasks \o <<Task("receive"), Task("receive")>>
    /\ UNCHANGED <<completions, io, socketVars, sendVars, ops, stopped,
                   storeVars, round, userCloses, peerVars, history>>

\* connected = true, then receive() is posted.
ConnectReturns ==
    /\ owner = "opened"
    /\ owner' = "free"
    /\ connected' = TRUE
    /\ Post("receive")
    /\ UNCHANGED <<completions, io, socketVars, sendVars, ops, stopped,
                   storeVars, round, userCloses, peerVars, history>>

Disconnect ==
    /\ owner = "free"
    /\ userCloses < MaxDisconnects
    /\ userCloses' = userCloses + 1
    /\ Post("disconnect")
    /\ UNCHANGED <<connected, completions, io, socketVars, sendVars, ops, stopped,
                   storeVars, owner, round, peerVars, history>>

InCall(i) == call[i] \in {"validated", "registered", "awaiting"}

\* stop_new_async_operations() posts its task and blocks until it has run.  The
\* owner stops a client only when no other thread is inside a call of it.
Stop ==
    /\ owner = "free"
    /\ \A i \in Ids : ~InCall(i)
    /\ owner' = "stop_posted"
    /\ round' = round + 1
    /\ Post("stop")
    /\ UNCHANGED <<connected, completions, io, socketVars, sendVars, ops, stopped,
                   storeVars, userCloses, peerVars, history>>

Drained_NoWait ==
    /\ owner = "draining"
    /\ IF round < StopRounds
       THEN owner' = "stop_posted" /\ round' = round + 1 /\ Post("stop")
       ELSE owner' = "destroyed" /\ UNCHANGED <<round, tasks>>
    /\ UNCHANGED <<connected, completions, io, socketVars, sendVars, ops, stopped,
                   storeVars, userCloses, peerVars, history>>

\* wait_until_zero_async_operations() returns: another round, or the end of
\* the destructor and of the members.
Drained ==
    /\ owner = "draining"
    /\ ops = 0
    /\ IF round < StopRounds
       THEN owner' = "stop_posted" /\ round' = round + 1 /\ Post("stop")
       ELSE owner' = "destroyed" /\ UNCHANGED <<round, tasks>>
    /\ UNCHANGED <<connected, completions, io, socketVars, sendVars, ops, stopped,
                   storeVars, userCloses, peerVars, history>>

-----------------------------------------------------------------------------
(* The threads that send requests: request() and send_without_waiting().   *)

Using == owner \in {"free", "connecting", "opened"}

clientVars == <<connected, completions, io, socketVars, sendVars, ops, stopped,
                ownerVars, peerVars, history>>

\* validate_is_connected
Validate(i) ==
    /\ call[i] = "new"
    /\ Using /\ connected
    /\ call' = [call EXCEPT ![i] = "validated"]
    /\ UNCHANGED <<clientVars, tasks, status, registered>>

Register(i) ==
    /\ call[i] = "validated"
    /\ call' = [call EXCEPT ![i] = "registered"]
    /\ status' = [status EXCEPT ![i] = "open"]
    /\ registered' = registered \cup {i}
    /\ UNCHANGED <<clientVars, tasks>>

\* The frame is posted; request() then waits, send_without_waiting() returns.
PostRequest(i) ==
    /\ call[i] = "registered"
    /\ tasks' = Append(tasks, [Task("enqueue") EXCEPT !.id = i])
    /\ \E next \in {"awaiting", "polling"} : call' = [call EXCEPT ![i] = next]
    /\ UNCHANGED <<clientVars, status, registered>>

Conclude(i) ==
    /\ registered' = registered \ {i}
    /\ call' = [call EXCEPT ![i] = "done"]
    /\ UNCHANGED <<clientVars, tasks>>

\* await_response() or pop_response() finds a response, or a failure.
Collect(i) ==
    /\ call[i] = "awaiting" \/ (call[i] = "polling" /\ Using)
    /\ status[i] \in {"answered", "DISCONNECTION"}
    /\ status' = [status EXCEPT ![i] = IF @ = "answered" THEN "delivered" ELSE @]
    /\ Conclude(i)

AwaitTimeout(i) ==
    /\ call[i] = "awaiting"
    /\ status[i] = "open"
    /\ status' = [status EXCEPT ![i] = "CANCEL"]
    /\ Conclude(i)

-----------------------------------------------------------------------------
(* The socket's operations and the server behind it.                       *)

localVars == <<connected, tasks, io, open, conn, sendVars, ops, stopped, storeVars,
               ownerVars, history>>

\* async_write ends.  Bytes the kernel accepts may still be lost with the peer.
WriteEnds ==
    /\ writing # NoId
    /\ open
    /\ writing' = NoId
    /\ \/ /\ completions' = Append(completions, Handler("write", "ok", NoId))
          /\ wire' = IF lost THEN wire ELSE Append(wire, writing)
       \/ /\ lost
          /\ completions' = Append(completions, Handler("write", "error", NoId))
          /\ UNCHANGED wire
    /\ UNCHANGED <<localVars, reading, lost, answers>>

\* async_read_some ends: with one answer, at the end of the stream, or reset.
ReadEnds ==
    /\ reading > 0
    /\ open
    /\ reading' = reading - 1
    /\ \/ /\ answers # <<>>
          /\ completions' = Append(completions, Handler("read", "ok", Head(answers)))
          /\ answers' = Tail(answers)
       \/ /\ lost /\ answers = <<>>
          /\ completions' = Append(completions, Handler("read", "closed", NoId))
          /\ UNCHANGED answers
       \/ /\ lost
          /\ completions' = Append(completions, Handler("read", "error", NoId))
          /\ answers' = <<>>
    /\ UNCHANGED <<localVars, writing, lost, wire>>

\* An operation started on a closed socket fails at once.
ReadOnClosed ==
    /\ reading > 0 /\ ~open
    /\ reading' = reading - 1
    /\ completions' = Append(completions, Handler("read", "error", NoId))
    /\ UNCHANGED <<localVars, writing, peerVars>>

WriteOnClosed ==
    /\ writing # NoId /\ ~open
    /\ writing' = NoId
    /\ completions' = Append(completions, Handler("write", "error", NoId))
    /\ UNCHANGED <<localVars, reading, peerVars>>

\* The server answers in the order it received.
Answer ==
    /\ wire # <<>> /\ ~lost
    /\ wire' = Tail(wire)
    /\ answers' = Append(answers, Head(wire))
    /\ UNCHANGED <<localVars, reading, writing, completions, lost>>

PeerCloses ==
    /\ open /\ ~lost
    /\ lost' = TRUE
    /\ wire' = <<>>
    /\ UNCHANGED <<localVars, reading, writing, completions, answers>>

-----------------------------------------------------------------------------

RunTask == RunDisconnect \/ RunReceive \/ RunEnqueue \/ RunStop

RunHandler ==
    \E k \in DOMAIN completions :
        \/ ReadOk(k) \/ ReadFailed(k) \/ ReadAborted(k)
        \/ WriteOk(k) \/ WriteFailed(k) \/ WriteAborted(k)

Owner ==
    \/ ConnectBegin \/ ConnectRefused \/ ConnectOpens \/ ConnectReturns
    \/ Disconnect \/ Stop \/ Drained

Requester(i) == Validate(i) \/ Register(i) \/ PostRequest(i) \/ Collect(i) \/ AwaitTimeout(i)

Socket == WriteEnds \/ ReadEnds \/ ReadOnClosed \/ WriteOnClosed

Next ==
    \/ RunTask \/ RunHandler
    \/ Owner
    \/ \E i \in Ids : Requester(i)
    \/ Socket \/ Answer \/ PeerCloses

Spec == Init /\ [][Next]_vars

\* The io_context's thread runs what is ready as long as it lives; an operation
\* that can end does; a thread inside connect() or the shutdown goes on.  Nobody
\* has to connect, send, disconnect or stop, and the server may stay silent.
FairSpec ==
    /\ Spec
    /\ WF_vars(RunTask) /\ WF_vars(RunHandler)
    /\ WF_vars(Socket)
    /\ WF_vars(ConnectReturns) /\ WF_vars(Drained)

-----------------------------------------------------------------------------
(* Properties.                                                             *)

HandlersOf(op) == {k \in DOMAIN completions : completions[k].op = op}
ReadsInFlight == reading + Cardinality(HandlersOf("read"))
WritesInFlight == (IF writing = NoId THEN 0 ELSE 1) + Cardinality(HandlersOf("write"))

\* current_async_operations_running, on which the destructor waits, counts the
\* operations whose handler has not run to its end: outstanding or completed,
\* aborted, failed, and one more once an exception skipped a decrement.
OpsCounted ==
    ops = ReadsInFlight + WritesInFlight + (IF io = "dead" THEN 1 ELSE 0)

\* At most one async_write at a time, so that frames never interleave on the
\* socket, and is_sending is up exactly while there is one -- or for ever once
\* a write has failed, after which this client writes nothing any more; and on
\* a client's first connection one read uses temporary_responses at a time.
OneAtATime ==
    /\ WritesInFlight <= (IF writeFailed THEN 0 ELSE 1)
    /\ isSending <=> writeFailed \/ WritesInFlight = 1
    /\ conn <= 1 => ReadsInFlight <= 1

\* Where the frame or the answer of a request is.
PlacesOf(i) ==
    Cardinality({k \in DOMAIN tasks : tasks[k].id = i})
    + Cardinality({k \in DOMAIN queue : queue[k] = i})
    + (IF writing = i THEN 1 ELSE 0)
    + Cardinality({k \in DOMAIN wire : wire[k] = i})
    + Cardinality({k \in DOMAIN answers : answers[k] = i})
    + Cardinality({k \in DOMAIN completions : completions[k].id = i})

\* A request is never written twice nor answered twice; and while the first
\* connection lasts, an open request whose frame was posted is on its way,
\* unless the full queue refused it (which nobody is told).
FramesConserved ==
    \A i \in Ids :
        /\ PlacesOf(i) <= 1
        /\ conn = 1 /\ connected /\ open /\ ~lost /\ ~stopped /\ ~writeFailed /\ io = "running"
           /\ call[i] \in {"awaiting", "polling"} /\ status[i] = "open"
           => PlacesOf(i) = 1 \/ i \in refused

\* Once the members are gone no task or handler that captured `this' is left
\* to run: true of an owner that stops and waits before the destructor does it
\* again (StopRounds = 2), as docs/SDK.md asks.
NothingAfterDestruction ==
    owner = "destroyed" => tasks = <<>> /\ completions = <<>>
                           /\ reading = 0 /\ writing = NoId

\* Shutting down terminates, whatever the server, the queue and the connection
\* are doing, as long as no exception has left a handler.
ShutdownEnds == owner = "stop_posted" ~> owner = "destroyed" \/ io = "dead"

\* A connection lost under a read is reported to every request still open, the
\* polled ones included, which no timeout ends.
LossIsReported ==
    \A i \in Ids :
        lost /\ reading > 0 /\ status[i] = "open"
            ~> status[i] # "open" \/ stopped \/ io = "dead"

\* What is queued behind a write in progress is written after it, or the
\* connection or the client ends first, or an earlier write had failed.  (A
\* request queued between two connections waits for the next one: connect()
\* reads but does not send.)
QueueDrains ==
    queue # <<>> /\ connected /\ open /\ writing # NoId
        ~> queue = <<>> \/ ~connected \/ stopped \/ io = "dead" \/ writeFailed

\* client.cpp:94 "Disconnection is a normal condition, so don't throw: an
\* exception escaping a handler would terminate the io_context thread."
NoHandlerThrows == io = "running"

=============================================================================
