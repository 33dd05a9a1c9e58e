-------------------------- MODULE PendingRequests --------------------------
(***************************************************************************)
(* The store of unanswered requests of the C++ SDK client:                 *)
(* PendingRequests (id -> shared FutureRequest) and FutureRequest          *)
(* (promise, future, failure, wait_in_progress), each behind a mutex of    *)
(* its own, called by the strand and by any number of user threads.        *)
(*                                                                         *)
(* One action is one critical section.  Between two of them a thread holds *)
(* no lock, only its shared_ptr to the FutureRequest it found, and any     *)
(* other thread may run.  FutureRequests are modelled as objects, so that  *)
(* an id registered again gets a new one while an old one is still held.   *)
(***************************************************************************)

CONSTANTS
    Ids,         \* request ids
    Requests,    \* FutureRequest objects that may be created (a bound)
    Threads,
    Responses,   \* distinguishable response frames
    NoRequest,
    NoResponse,
    NoId

ASSUME PendingAssumption ==
    /\ NoRequest \notin Requests
    /\ NoResponse \notin Responses
    /\ NoId \notin Ids

VARIABLES
    pendings,    \* PendingRequests::pendings
    promise,     \* does the FutureRequest still hold its promise?
    future,      \* state of fut_response
    content,     \* the response put into the promise
    failure,     \* FutureRequest::failure
    waiting,     \* FutureRequest::wait_in_progress
    pc,          \* where each thread is between two critical sections
    arg,         \* the id it was called with
    req,         \* the shared_ptr it found
    frame,       \* the response add_response was called with
    batch,       \* what fail_all_by_disconnection still has to fail
    told         \* the result of the call, until the call returns

objVars == <<promise, future, content, failure, waiting>>
thrVars == <<arg, req, frame, batch>>
vars == <<pendings, objVars, pc, thrVars, told>>

Failures == {"CANCEL", "DISCONNECTION"}

PCs == {"idle", "set_response", "try_get", "await_begin", "waiting",
        "timed_out", "finish", "erase", "return", "failing"}

Verdicts == {"blank", "response", "nothing", "accepted", "rejected"} \cup Failures

Verdict == [of : Requests \cup {NoRequest},
            what : Verdicts,
            response : Responses \cup {NoResponse}]

Blank == [of |-> NoRequest, what |-> "blank", response |-> NoResponse]

About(r, what) == [of |-> r, what |-> what, response |-> NoResponse]

\* Every variable stays in its type, and a thread inside a call on one request
\* has found one: the lookups of pending_request.cpp never go on with end().
TypeOK ==
    /\ pendings \in [Ids -> Requests \cup {NoRequest}]
    /\ promise \in [Requests -> BOOLEAN]
    /\ future \in [Requests -> {"unmade", "empty", "ready", "broken", "taken"}]
    /\ content \in [Requests -> Responses \cup {NoResponse}]
    /\ failure \in [Requests -> Failures \cup {"none"}]
    /\ waiting \in [Requests -> BOOLEAN]
    /\ pc \in [Threads -> PCs]
    /\ arg \in [Threads -> Ids \cup {NoId}]
    /\ req \in [Threads -> Requests \cup {NoRequest}]
    /\ frame \in [Threads -> Responses \cup {NoResponse}]
    /\ batch \in [Threads -> SUBSET Requests]
    /\ told \in [Threads -> Verdict]
    /\ \A t \in Threads :
          pc[t] \notin {"idle", "failing"} => arg[t] \in Ids /\ req[t] \in Requests

Init ==
    /\ pendings = [i \in Ids |-> NoRequest]
    /\ promise = [r \in Requests |-> FALSE]
    /\ future = [r \in Requests |-> "unmade"]
    /\ content = [r \in Requests |-> NoResponse]
    /\ failure = [r \in Requests |-> "none"]
    /\ waiting = [r \in Requests |-> FALSE]
    /\ pc = [t \in Threads |-> "idle"]
    /\ arg = [t \in Threads |-> NoId]
    /\ req = [t \in Threads |-> NoRequest]
    /\ frame = [t \in Threads |-> NoResponse]
    /\ batch = [t \in Threads |-> {}]
    /\ told = [t \in Threads |-> Blank]

-----------------------------------------------------------------------------
(* Pieces of the critical sections.                                        *)

\* failure.has_value() || !promise.has_value(): the request is settled.
Closed(r) == failure[r] # "none" \/ ~promise[r]

FailRequest_Answered(r, kind) ==
    IF failure[r] # "none"
    THEN UNCHANGED <<failure, promise, future>>
    ELSE /\ failure' = [failure EXCEPT ![r] = kind]
         /\ promise' = [promise EXCEPT ![r] = FALSE]
         /\ future' = [future EXCEPT ![r] = IF promise[r] THEN "broken" ELSE @]

\* FutureRequest::fail: refused once closed; destroying the promise without a
\* value makes the future ready with broken_promise, which wakes the waiter.
FailRequest(r, kind) ==
    IF Closed(r)
    THEN UNCHANGED <<failure, promise, future>>
    ELSE /\ failure' = [failure EXCEPT ![r] = kind]
         /\ promise' = [promise EXCEPT ![r] = FALSE]
         /\ future' = [future EXCEPT ![r] = "broken"]

\* What the caller gets of a request it may read: the failure, else
\* fut_response.get(), else nullopt.
Result(r, readable) ==
    IF failure[r] # "none" THEN About(r, failure[r])
    ELSE IF readable THEN [of |-> r, what |-> "response", response |-> content[r]]
    ELSE About(r, "nothing")

\* fut_response.get() invalidates the future.
Take_Copy(r, readable) == future' = future

Take(r, readable) ==
    future' = IF failure[r] = "none" /\ readable
              THEN [future EXCEPT ![r] = "taken"] ELSE future

Goto(t, label) == pc' = [pc EXCEPT ![t] = label]

\* The thread leaves the call: it drops its shared_ptr and its result.
Leave(t) ==
    /\ Goto(t, "idle")
    /\ told' = [told EXCEPT ![t] = Blank]
    /\ arg' = [arg EXCEPT ![t] = NoId]
    /\ req' = [req EXCEPT ![t] = NoRequest]
    /\ frame' = [frame EXCEPT ![t] = NoResponse]

-----------------------------------------------------------------------------
(* PendingRequests, the critical sections on the map.                      *)

\* add_request: emplace refuses an id that is there, and changes nothing.
AddRequest(t, i) ==
    /\ pc[t] = "idle"
    /\ pendings[i] = NoRequest
    /\ \E r \in Requests :
          /\ future[r] = "unmade"
          /\ pendings' = [pendings EXCEPT ![i] = r]
          /\ promise' = [promise EXCEPT ![r] = TRUE]
          /\ future' = [future EXCEPT ![r] = "empty"]
    /\ UNCHANGED <<content, failure, waiting, pc, thrVars, told>>

Find_Absent(t, i, label) ==
    /\ pc[t] = "idle"
    /\ Goto(t, label)
    /\ arg' = [arg EXCEPT ![t] = i]
    /\ req' = [req EXCEPT ![t] = pendings[i]]
    /\ UNCHANGED <<pendings, objVars, batch, told>>

\* The lookup that starts add_response, pop_response and await_response.  Of
\* an absent id it throws, which changes nothing here.
Find(t, i, label) ==
    /\ pc[t] = "idle"
    /\ pendings[i] # NoRequest
    /\ Goto(t, label)
    /\ arg' = [arg EXCEPT ![t] = i]
    /\ req' = [req EXCEPT ![t] = pendings[i]]
    /\ UNCHANGED <<pendings, objVars, batch, told>>

AddResponse(t, i, v) ==
    /\ Find(t, i, "set_response")
    /\ frame' = [frame EXCEPT ![t] = v]

PopResponse(t, i) == Find(t, i, "try_get") /\ UNCHANGED frame

AwaitResponse(t, i) == Find(t, i, "await_begin") /\ UNCHANGED frame

EraseRequest_ById(t) ==
    /\ pc[t] = "erase"
    /\ pendings' = [pendings EXCEPT ![arg[t]] = NoRequest]
    /\ Leave(t)
    /\ UNCHANGED <<objVars, batch>>

\* erase_request: only the registration this thread found is removed.
EraseRequest(t) ==
    /\ pc[t] = "erase"
    /\ pendings' = IF pendings[arg[t]] = req[t]
                   THEN [pendings EXCEPT ![arg[t]] = NoRequest] ELSE pendings
    /\ Leave(t)
    /\ UNCHANGED <<objVars, batch>>

\* The call returns without touching the map.
Return(t) ==
    /\ pc[t] = "return"
    /\ Leave(t)
    /\ UNCHANGED <<pendings, objVars, batch>>

\* fail_all_by_disconnection copies the map under its lock ...
FailAll(t) ==
    /\ pc[t] = "idle"
    /\ batch' = [batch EXCEPT ![t] = {pendings[i] : i \in Ids} \ {NoRequest}]
    /\ batch'[t] # {}
    /\ Goto(t, "failing")
    /\ UNCHANGED <<pendings, objVars, arg, req, frame, told>>

FailNext_OnlyOne(t) ==
    /\ pc[t] = "failing"
    /\ \E r \in batch[t] : FailRequest(r, "DISCONNECTION")
    /\ batch' = [batch EXCEPT ![t] = {}]
    /\ Goto(t, "idle")
    /\ UNCHANGED <<pendings, content, waiting, arg, req, frame, told>>

\* ... and fails the copies one by one after releasing it.
FailNext(t) ==
    /\ pc[t] = "failing"
    /\ \E r \in batch[t] :
          /\ FailRequest(r, "DISCONNECTION")
          /\ batch' = [batch EXCEPT ![t] = @ \ {r}]
    /\ Goto(t, IF batch'[t] = {} THEN "idle" ELSE "failing")
    /\ UNCHANGED <<pendings, content, waiting, arg, req, frame, told>>

-----------------------------------------------------------------------------
(* FutureRequest, the critical sections on one request.                    *)

SetResponse(t) ==
    LET r == req[t] IN
    /\ pc[t] = "set_response"
    /\ IF Closed(r)
       THEN /\ told' = [told EXCEPT ![t] = About(r, "rejected")]
            /\ UNCHANGED <<promise, future, content>>
       ELSE /\ told' = [told EXCEPT ![t] = About(r, "accepted")]
            /\ promise' = [promise EXCEPT ![r] = FALSE]
            /\ future' = [future EXCEPT ![r] = "ready"]
            /\ content' = [content EXCEPT ![r] = frame[t]]
    /\ Goto(t, "return")
    /\ UNCHANGED <<pendings, failure, waiting, thrVars>>

TryGet_AlwaysErase(t) ==
    LET r == req[t]
        readable == ~waiting[r] /\ future[r] = "ready"
    IN  /\ pc[t] = "try_get"
        /\ told' = [told EXCEPT ![t] = Result(r, readable)]
        /\ Take(r, readable)
        /\ Goto(t, "erase")
        /\ UNCHANGED <<pendings, promise, content, failure, waiting, thrVars>>

\* try_get leaves a ready response to the thread that waits for it, and
\* pop_response then keeps the registration.
TryGet(t) ==
    LET r == req[t]
        readable == ~waiting[r] /\ future[r] = "ready"
    IN  /\ pc[t] = "try_get"
        /\ told' = [told EXCEPT ![t] = Result(r, readable)]
        /\ Take(r, readable)
        /\ Goto(t, IF told'[t].what = "nothing" THEN "return" ELSE "erase")
        /\ UNCHANGED <<pendings, promise, content, failure, waiting, thrVars>>

\* await_response, first critical section: there is a failure or there is no
\* future any more, so there is nothing to wait for.
AwaitNothing(t) ==
    LET r == req[t] IN
    /\ pc[t] = "await_begin"
    /\ failure[r] # "none" \/ (~waiting[r] /\ future[r] = "taken")
    /\ told' = [told EXCEPT ![t] = Result(r, FALSE)]
    /\ Goto(t, "erase")
    /\ UNCHANGED <<pendings, objVars, thrVars>>

\* Somebody else waits: std::logic_error, past the erase.
AwaitRefused(t) ==
    LET r == req[t] IN
    /\ pc[t] = "await_begin"
    /\ failure[r] = "none" /\ waiting[r]
    /\ Leave(t)
    /\ UNCHANGED <<pendings, objVars, batch>>

AwaitBegin_AnyWaiter(t) ==
    LET r == req[t] IN
    /\ pc[t] = "await_begin"
    /\ failure[r] = "none" /\ future[r] # "taken"
    /\ waiting' = [waiting EXCEPT ![r] = TRUE]
    /\ Goto(t, "waiting")
    /\ UNCHANGED <<pendings, promise, future, content, failure, thrVars, told>>

AwaitBegin(t) ==
    LET r == req[t] IN
    /\ pc[t] = "await_begin"
    /\ failure[r] = "none" /\ ~waiting[r] /\ future[r] # "taken"
    /\ waiting' = [waiting EXCEPT ![r] = TRUE]
    /\ Goto(t, "waiting")
    /\ UNCHANGED <<pendings, promise, future, content, failure, thrVars, told>>

\* wait_for returns ready: the promise was fulfilled or destroyed.
Wake(t) ==
    /\ pc[t] = "waiting"
    /\ future[req[t]] \in {"ready", "broken"}
    /\ Goto(t, "finish")
    /\ UNCHANGED <<pendings, objVars, thrVars, told>>

\* wait_for returns timeout: no lock is held until the CANCEL below.
Timeout(t) ==
    /\ pc[t] = "waiting"
    /\ future[req[t]] = "empty"
    /\ Goto(t, "timed_out")
    /\ UNCHANGED <<pendings, objVars, thrVars, told>>

Cancel_WaitAgain(t) ==
    /\ pc[t] = "timed_out"
    /\ Goto(t, "waiting")
    /\ UNCHANGED <<pendings, objVars, thrVars, told>>

Cancel(t) ==
    /\ pc[t] = "timed_out"
    /\ FailRequest(req[t], "CANCEL")
    /\ Goto(t, "finish")
    /\ UNCHANGED <<pendings, content, waiting, thrVars, told>>

Finish(t) ==
    LET r == req[t]
        readable == future[r] # "taken"
    IN  /\ pc[t] = "finish"
        /\ waiting' = [waiting EXCEPT ![r] = FALSE]
        /\ told' = [told EXCEPT ![t] = Result(r, readable)]
        /\ Take(r, readable)
        /\ Goto(t, "erase")
        /\ UNCHANGED <<pendings, promise, content, failure, thrVars>>

-----------------------------------------------------------------------------

Call(t) ==
    \/ \E i \in Ids : \/ AddRequest(t, i)
                      \/ \E v \in Responses : AddResponse(t, i, v)
                      \/ PopResponse(t, i)
                      \/ AwaitResponse(t, i)
    \/ FailAll(t)

Continue(t) ==
    \/ EraseRequest(t) \/ Return(t) \/ FailNext(t)
    \/ SetResponse(t) \/ TryGet(t)
    \/ AwaitNothing(t) \/ AwaitRefused(t) \/ AwaitBegin(t)
    \/ Wake(t) \/ Timeout(t) \/ Cancel(t) \/ Finish(t)

Next == \E t \in Threads : Call(t) \/ Continue(t)

Spec == Init /\ [][Next]_vars

\* A thread inside a call keeps running: the mutexes guard a few straight-line
\* statements and wait_for is bounded.  Nobody has to start a call.
FairSpec == Spec /\ \A t \in Threads : WF_vars(Continue(t))

-----------------------------------------------------------------------------
(* Properties.                                                             *)

Registered(r) == \E i \in Ids : pendings[i] = r

InWait(t) == pc[t] \in {"waiting", "timed_out", "finish"}

\* A request that is still open, or whose response was accepted and not yet
\* handed out, can be found by its id: no interleaving of pop, await, timeout,
\* disconnection and a new registration of the id makes an accepted response
\* unreachable.
NothingOrphaned ==
    \A r \in Requests : future[r] \in {"empty", "ready"} => Registered(r)

\* "Only one waiter for request is allowed", and wait_in_progress is up exactly
\* while that waiter is between the two critical sections of await_response.
OneWaiter ==
    /\ \A r \in Requests : waiting[r] <=> \E t \in Threads : InWait(t) /\ req[t] = r
    /\ \A t, u \in Threads : InWait(t) /\ InWait(u) /\ req[t] = req[u] => t = u

\* A timeout that races the answer, or the disconnection, settles the request
\* once: no request carries both a failure and a response, and no future is
\* left with broken_promise and no failure to report instead of the exception.
SettledOnce ==
    \A r \in Requests : failure[r] # "none" <=> future[r] = "broken"

\* What ties the threads' local state to the shared state, and makes the three
\* invariants above inductive: the promise is held exactly while the future is
\* empty; every shared_ptr points to a request add_request made; nobody takes
\* the future from under the waiter; a thread erases a request only after its
\* outcome was taken, and has a verdict to return exactly then.
HoldsMade ==
    /\ \A r \in Requests : promise[r] <=> future[r] = "empty"
    /\ \A i \in Ids : pendings[i] # NoRequest => future[pendings[i]] # "unmade"
    /\ \A t \in Threads :
          /\ pc[t] \notin {"idle", "failing"} => future[req[t]] # "unmade"
          /\ \A r \in batch[t] : future[r] # "unmade"

Outcomes ==
    \A t \in Threads :
        /\ InWait(t) => future[req[t]] # "taken"
        /\ pc[t] = "finish" => future[req[t]] # "empty"
        /\ pc[t] = "erase" => future[req[t]] \in {"broken", "taken"}
        /\ pc[t] = "set_response" => frame[t] \in Responses
        /\ told[t] # Blank <=> pc[t] \in {"erase", "return"}

IInv == TypeOK /\ HoldsMade /\ Outcomes /\ SettledOnce /\ OneWaiter /\ NothingOrphaned

\* A registration is removed only once its request is settled and a caller has
\* been given the outcome; in particular a slow caller never removes the newer
\* registration of the same id.
ErasesOnlySettled ==
    [][\A i \in Ids : LET r == pendings[i] IN
          r # NoRequest /\ pendings'[i] # r => future[r] \in {"broken", "taken"}]_vars

\* The store implements the contract of RequestContract.
Status(r) ==
    CASE future[r] = "unmade" -> "unmade"
      [] future[r] = "empty"  -> "open"
      [] future[r] = "ready"  -> "answered"
      [] future[r] = "taken"  -> "delivered"
      [] OTHER -> failure[r]

Contract == INSTANCE RequestContract
    WITH Callers <- Threads, status <- [r \in Requests |-> Status(r)]

ContractHolds == Contract!ContractSpec

\* What callers rely on when they race, taken from the contract: of the threads
\* that pop and await one request one gets its response, and of the answers to
\* it one is accepted.
OneWinner == Contract!OneWinner

\* Every call on the store returns: a pop or an answer at once, an await by the
\* timeout at the latest, a disconnection after its last request.
EveryCallReturns == \A t \in Threads : pc[t] # "idle" ~> pc[t] = "idle"

\* What a disconnection found in the map is settled when it is through.
DisconnectionSettles ==
    \A r \in Requests :
        (\E t \in Threads : r \in batch[t]) ~> future[r] \in {"ready", "broken", "taken"}

=============================================================================
