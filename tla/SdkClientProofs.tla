-------------------------- MODULE SdkClientProofs ---------------------------
(***************************************************************************)
(* The SDK client counts its asynchronous operations exactly, never has    *)
(* two writes outstanding, neither loses nor doubles a frame, and runs     *)
(* nothing after its destruction: for any number of requests, connections, *)
(* and rounds of the drain.                                                *)
(*                                                                         *)
(* `tasks' and `completions' are queues of which any element may come      *)
(* next, so the invariant speaks of tallies: how many handlers of reads,   *)
(* of writes, of each request are in a queue.  A step that takes one       *)
(* element and adds others changes each tally by what Tallies says  *)
(* of it.                                                                  *)
(***************************************************************************)
EXTENDS SdkClient, Tallies, Integers, TLAPS

\* What the client posts to its strand, and the handlers its operations end in.
Tasks == [kind : {"disconnect", "receive", "stop"}, id : {NoId}] \cup [kind : {"enqueue"}, id : Ids]

Handlers == [op : {"read", "write"}, result : {"ok", "closed", "error", "aborted"}, id : {NoId}]
            \cup [op : {"read"}, result : {"ok"}, id : Ids]

\* The type of each variable: the bounds of the model are not part of it.
Types ==
    /\ connected \in BOOLEAN /\ open \in BOOLEAN /\ conn \in Nat
    /\ tasks \in Seq(Tasks) /\ completions \in Seq(Handlers) /\ io \in {"running", "dead"}
    /\ reading \in Nat /\ writing \in Ids \cup {NoId}
    /\ isSending \in BOOLEAN /\ queue \in Seq(Ids)
    /\ ops \in Int /\ stopped \in BOOLEAN
    /\ status \in [Ids -> {"unmade", "open", "answered", "DISCONNECTION", "delivered", "CANCEL"}]
    /\ registered \in SUBSET Ids
    /\ call \in [Ids -> {"new", "validated", "registered", "awaiting", "polling", "done"}]
    /\ owner \in {"free", "connecting", "opened", "stop_posted", "draining", "destroyed"}
    /\ round \in Nat /\ userCloses \in Nat
    /\ lost \in BOOLEAN /\ wire \in Seq(Ids) /\ answers \in Seq(Ids)
    /\ refused \in SUBSET Ids /\ writeFailed \in BOOLEAN

\* The kinds of handlers and tasks the tallies tell apart.
Reads    == {h \in Handlers : h.op = "read"}
Writes   == {h \in Handlers : h.op = "write"}
Receives == {t \in Tasks : t.kind = "receive"}
Stops    == {t \in Tasks : t.kind = "stop"}
TasksOf(i)    == {t \in Tasks : t.id = i}
HandlersFor(i) == {h \in Handlers : h.id = i}

Flag(b) == IF b THEN 1 ELSE 0

\* The tallies of the two queues: what waits in them of each kind, and for each request.
ReadsDone      == Count(completions, Reads)
WritesDone     == Count(completions, Writes)
ReceivesDue    == Count(tasks, Receives)
StopsDue       == Count(tasks, Stops)
FramesDue(i)   == Count(tasks, TasksOf(i))
AnswersDone(i) == Count(completions, HandlersFor(i))

\* Operations that have begun and whose handler has not run.
ReadCount  == reading + ReadsDone
WriteCount == Flag(writing # NoId) + WritesDone

\* The places the frame of request i, or its answer, is in.
Place(i) ==
    FramesDue(i) + Count(queue, {i}) + Flag(writing = i)
        + Count(wire, {i}) + Count(answers, {i}) + AnswersDone(i)

\* The counter counts the operations.  A failed write leaves is_sending up and
\* no write follows; and a connection brings one read, which is either to be
\* posted, or posted, or outstanding, or ended.
Counted ==
    /\ ops = ReadCount + WriteCount + Flag(io = "dead")
    /\ WriteCount <= Flag(~writeFailed)
    /\ isSending <=> writeFailed \/ WriteCount = 1
    /\ ReadCount + ReceivesDue + Flag(owner = "opened") <= conn

\* While the first connection lasts, an open request whose frame was posted is on
\* its way.
Expected(i) ==
    /\ conn = 1 /\ open /\ ~lost /\ ~stopped /\ ~writeFailed /\ io = "running"
    /\ call[i] \in {"awaiting", "polling"} /\ status[i] = "open"

\* Nothing of a request is anywhere before its frame is posted, and then it is in
\* one place at most.
FrameKept(i) ==
    /\ conn = 0 => call[i] = "new"
    /\ Place(i) <= 1
    /\ call[i] \in {"new", "validated", "registered"} => Place(i) = 0
    /\ Expected(i) => Place(i) = 1 \/ i \in refused

Frames ==
    /\ conn = 0 => ~connected
    /\ \A i \in Ids : FrameKept(i)

\* The owner is giving the client up.
Leaving == owner \in {"stop_posted", "draining", "destroyed"}

\* No operation is left, and no task but the stop just posted, which is the last.
Quiet ==
    /\ stopped
    /\ ReadCount = 0 /\ WriteCount = 0
    /\ owner = "stop_posted" => \A k \in DOMAIN tasks : tasks[k] \in Stops => k = Len(tasks)
    /\ owner # "stop_posted" => tasks = <<>>

\* A stop task is queued exactly while the owner waits for one, nobody is inside a
\* call, and from the second round on the client is quiet: the first stop() lets
\* the tasks before it start operations, the second finds none that could.
Shutdown ==
    /\ StopsDue = Flag(owner = "stop_posted")
    /\ Leaving => \A i \in Ids : ~InCall(i)
    /\ ~Leaving => round = 0
    /\ owner \in {"draining", "destroyed"} => stopped
    /\ owner = "destroyed" => round >= StopRounds
    /\ round >= 2 => Quiet

\* The inductive invariant.
IInv == Types /\ Counted /\ Frames /\ Shutdown

-----------------------------------------------------------------------------

\* Which tallies a completion handler belongs to.
LEMMA HandlerInSet ==
    /\ \A result \in {"ok", "closed", "error", "aborted"}, op \in {"read", "write"} :
           /\ Handler(op, result, NoId) \in Handlers
           /\ Handler(op, result, NoId) \in Reads <=> op = "read"
           /\ Handler(op, result, NoId) \in Writes <=> op = "write"
           /\ \A i \in Ids : Handler(op, result, NoId) \notin HandlersFor(i)
    /\ \A i \in Ids : /\ Handler("read", "ok", i) \in Reads
                      /\ Handler("read", "ok", i) \in Handlers
                      /\ Handler("read", "ok", i) \notin Writes
                      /\ \A j \in Ids : Handler("read", "ok", i) \in HandlersFor(j) <=> j = i
  BY ClientAssumption DEF Handlers, Handler, Reads, Writes, HandlersFor

\* Which tallies a posted task belongs to.
LEMMA TaskInSet ==
    /\ \A kind \in {"disconnect", "receive", "stop"} :
           /\ Task(kind) \in Tasks
           /\ Task(kind) \in Receives <=> kind = "receive"
           /\ Task(kind) \in Stops <=> kind = "stop"
           /\ \A i \in Ids : Task(kind) \notin TasksOf(i)
    /\ \A i \in Ids : LET t == [Task("enqueue") EXCEPT !.id = i]
                      IN  /\ t \in Tasks
                          /\ t \notin Receives /\ t \notin Stops
                          /\ \A j \in Ids : t \in TasksOf(j) <=> j = i
  BY ClientAssumption DEF Tasks, Task, Receives, Stops, TasksOf

\* The strand may run any completion: it leaves the others in their order.
LEMMA CompletionRemoved ==
    ASSUME Types, NEW k \in DOMAIN completions, completions' = RemoveAt(completions, k)
    PROVE  /\ completions[k] \in Handlers
           /\ completions' \in Seq(Handlers)
           /\ \A P : Count(completions, P) = Count(completions', P) + Weight(completions[k], P)
<1>1. completions \in Seq(Handlers)
  BY DEF Types
<1>2. completions[k] \in Handlers
  BY <1>1
<1>3. RemoveAt(completions, k) \in Seq(Handlers)
  BY <1>1, CountCutOut DEF RemoveAt, CutOut
<1>4. ASSUME NEW P
      PROVE  Count(completions, P) = Count(completions', P) + Weight(completions[k], P)
  BY <1>1, CountCutOut DEF RemoveAt, CutOut
<1> QED
  BY <1>2, <1>3, <1>4

\* The handlers of the operations a close() aborts.
LEMMA AbortedCounts ==
    ASSUME Types
    PROVE  /\ AbortedReads \in Seq(Handlers) /\ AbortedWrite \in Seq(Handlers)
           /\ Count(AbortedReads, Reads) = reading /\ Count(AbortedReads, Writes) = 0
           /\ Count(AbortedWrite, Reads) = 0 /\ Count(AbortedWrite, Writes) = Flag(writing # NoId)
           /\ \A i \in Ids : /\ Count(AbortedReads, HandlersFor(i)) = 0
                             /\ Count(AbortedWrite, HandlersFor(i)) = 0
<1> DEFINE r == Handler("read", "aborted", NoId)
           w == Handler("write", "aborted", NoId)
<1>1. /\ r \in Handlers /\ r \in Reads /\ r \notin Writes /\ \A i \in Ids : r \notin HandlersFor(i)
      /\ w \in Handlers /\ w \notin Reads /\ w \in Writes /\ \A i \in Ids : w \notin HandlersFor(i)
  BY HandlerInSet
<1> HIDE DEF r, w
<1>2. reading \in Nat
  BY DEF Types
<1>3. AbortedReads = [k \in 1..reading |-> r]
  BY DEF AbortedReads, r
<1>4. AbortedReads \in Seq(Handlers)
  BY <1>1, <1>2, <1>3
<1>5. ASSUME NEW P PROVE Count(AbortedReads, P) = IF r \in P THEN reading ELSE 0
  <2>1. Count([k \in 1..reading |-> r], P) = IF r \in P THEN reading ELSE 0
    BY <1>2, CountConstant, ZenonT(40)
  <2> QED
    BY <2>1, <1>3
<1>6. AbortedWrite = IF writing = NoId THEN <<>> ELSE <<w>>
  BY DEF AbortedWrite, w
<1>7. AbortedWrite \in Seq(Handlers)
  BY <1>1, <1>6
<1>8. ASSUME NEW P PROVE Count(AbortedWrite, P) = IF writing = NoId THEN 0 ELSE Weight(w, P)
  <2>1. Count(<<>>, P) = 0 /\ Count(<<w>>, P) = Weight(w, P)
    BY CountEmpty, CountSingle
  <2> QED
    BY <2>1, <1>6
<1> QED
  BY <1>1, <1>4, <1>5, <1>7, <1>8 DEF Weight, Flag, ReadsDone, WritesDone, ReceivesDue, StopsDue, FramesDue, AnswersDone

\* close() turns outstanding operations into handlers: none is lost and none
\* counted twice.
LEMMA Aborting ==
    ASSUME Types, AbortOperations
    PROVE  /\ completions' \in Seq(Handlers) /\ reading' \in Nat /\ writing' \in {writing, NoId}
           /\ ReadCount' = ReadCount
           /\ WriteCount' = WriteCount
           /\ \A i \in Ids : AnswersDone(i)' = AnswersDone(i)
<1>1. CASE ~open
  <2>1. completions' = completions /\ reading' = reading /\ writing' = writing
    BY <1>1 DEF AbortOperations
  <2> QED
    BY <2>1 DEF Types, ReadCount, WriteCount, Flag, ReadsDone, WritesDone, AnswersDone
<1>2. CASE open
  <2>1. completions' = (completions \o AbortedReads) \o AbortedWrite /\ reading' = 0 /\ writing' = NoId
    BY <1>2 DEF AbortOperations
  <2>2. completions \in Seq(Handlers) /\ reading \in Nat
    BY DEF Types
  <2>3. AbortedReads \in Seq(Handlers) /\ AbortedWrite \in Seq(Handlers)
    BY AbortedCounts
  <2>4. completions \o AbortedReads \in Seq(Handlers)
    BY <2>2, <2>3
  <2>5. \A P : Count(completions', P) = Count(completions, P) + Count(AbortedReads, P) + Count(AbortedWrite, P)
    <3> TAKE P
    <3>1. Count(completions', P) = Count(completions \o AbortedReads, P) + Count(AbortedWrite, P)
      BY <2>1, <2>3, <2>4, CountConcat
    <3>2. Count(completions \o AbortedReads, P) = Count(completions, P) + Count(AbortedReads, P)
      BY <2>2, <2>3, CountConcat
    <3> QED
      BY <3>1, <3>2
  <2>6. \A P : Count(completions, P) \in Nat
    BY <2>2, CountFinite
  <2>7. completions' \in Seq(Handlers)
    BY <2>1, <2>3, <2>4
  <2> QED
    BY <2>1, <2>2, <2>5, <2>6, <2>7, AbortedCounts, ClientAssumption
      DEF ReadCount, WriteCount, Flag, ReadsDone, WritesDone, AnswersDone
<1> QED
  BY <1>1, <1>2

\* A handler that carries no id is added.
LEMMA Ending ==
    ASSUME Types, NEW op \in {"read", "write"}, NEW result \in {"ok", "closed", "error", "aborted"},
           completions' = Append(completions, Handler(op, result, NoId))
    PROVE  /\ completions' \in Seq(Handlers)
           /\ ReadsDone' = ReadsDone + Flag(op = "read")
           /\ WritesDone' = WritesDone + Flag(op = "write")
           /\ \A i \in Ids : AnswersDone(i)' = AnswersDone(i)
<1> DEFINE h == Handler(op, result, NoId)
<1>1. /\ h \in Handlers
      /\ h \in Reads <=> op = "read"
      /\ h \in Writes <=> op = "write"
      /\ \A i \in Ids : h \notin HandlersFor(i)
  BY HandlerInSet
<1> HIDE DEF h
<1>2. completions \in Seq(Handlers) /\ completions' = Append(completions, h)
  BY DEF Types, h
<1>3. ASSUME NEW P
      PROVE  Count(completions', P) = Count(completions, P) + Weight(h, P) /\ Count(completions, P) \in Nat
  BY <1>1, <1>2, CountAppend, CountFinite
<1>4. completions' \in Seq(Handlers)
  BY <1>1, <1>2
<1> QED
  BY <1>1, <1>3, <1>4 DEF Weight, Flag, ReadsDone, WritesDone, ReceivesDue, StopsDue, FramesDue, AnswersDone

\* A task that carries no id is posted.
LEMMA Posting ==
    ASSUME Types, NEW kind \in {"disconnect", "receive", "stop"}, Post(kind)
    PROVE  /\ tasks' \in Seq(Tasks)
           /\ ReceivesDue' = ReceivesDue + Flag(kind = "receive")
           /\ StopsDue' = StopsDue + Flag(kind = "stop")
           /\ \A i \in Ids : FramesDue(i)' = FramesDue(i)
<1> DEFINE t == Task(kind)
<1>1. /\ t \in Tasks
      /\ t \in Receives <=> kind = "receive"
      /\ t \in Stops <=> kind = "stop"
      /\ \A i \in Ids : t \notin TasksOf(i)
  BY TaskInSet
<1> HIDE DEF t
<1>2. tasks \in Seq(Tasks) /\ tasks' = Append(tasks, t)
  BY DEF Types, Post, t
<1>3. ASSUME NEW P
      PROVE  Count(tasks', P) = Count(tasks, P) + Weight(t, P) /\ Count(tasks, P) \in Nat
  BY <1>1, <1>2, CountAppend, CountFinite
<1>4. tasks' \in Seq(Tasks)
  BY <1>1, <1>2
<1> QED
  BY <1>1, <1>3, <1>4 DEF Weight, Flag, ReadsDone, WritesDone, ReceivesDue, StopsDue, FramesDue, AnswersDone

\* The strand takes a task.
LEMMA Taking ==
    ASSUME Types, NEW kind \in {"disconnect", "receive", "stop", "enqueue"}, Task_Is(kind),
           tasks' = Tail(tasks)
    PROVE  /\ tasks' \in Seq(Tasks)
           /\ kind = "enqueue" => Head(tasks).id \in Ids
           /\ ReceivesDue' = IF kind = "receive" THEN ReceivesDue - 1 ELSE ReceivesDue
           /\ StopsDue' = IF kind = "stop" THEN StopsDue - 1 ELSE StopsDue
           /\ \A i \in Ids : FramesDue(i)' = IF kind = "enqueue" /\ i = Head(tasks).id
                                             THEN FramesDue(i) - 1 ELSE FramesDue(i)
<1> DEFINE t == Head(tasks)
<1>1. tasks \in Seq(Tasks) /\ tasks # <<>> /\ t.kind = kind
  BY DEF Types, Task_Is
<1>2. t \in Tasks /\ tasks' \in Seq(Tasks)
  BY <1>1
<1>3. ASSUME NEW P
      PROVE  Count(tasks, P) = Count(tasks', P) + Weight(t, P) /\ Count(tasks', P) \in Nat
  BY <1>1, <1>2, CountTail, CountFinite
<1> HIDE DEF t
<1>4. /\ kind = "enqueue" => t.id \in Ids
      /\ t \in Receives <=> kind = "receive"
      /\ t \in Stops <=> kind = "stop"
      /\ \A i \in Ids : t \in TasksOf(i) <=> kind = "enqueue" /\ i = t.id
  BY <1>1, <1>2, ClientAssumption DEF Tasks, Receives, Stops, TasksOf
<1>5. \A i \in Ids : FramesDue(i)' = IF kind = "enqueue" /\ i = t.id THEN FramesDue(i) - 1 ELSE FramesDue(i)
  BY <1>3, <1>4 DEF Weight, Flag, ReadsDone, WritesDone, ReceivesDue, StopsDue, FramesDue, AnswersDone
<1>6. /\ ReceivesDue' = IF kind = "receive" THEN ReceivesDue - 1 ELSE ReceivesDue
      /\ StopsDue' = IF kind = "stop" THEN StopsDue - 1 ELSE StopsDue
  BY <1>3, <1>4 DEF Weight, Flag, ReadsDone, WritesDone, ReceivesDue, StopsDue, FramesDue, AnswersDone
<1> QED
  BY <1>2, <1>4, <1>5, <1>6 DEF t

\* send_next() starts a write from the queue, or does nothing: a frame stays in
\* one place, and the counter follows.
LEMMA Sending ==
    ASSUME Types, NEW sending \in BOOLEAN, NEW q \in Seq(Ids), NEW n \in Int,
           ~sending => writing = NoId, Send(sending, q, n)
    PROVE  /\ queue' \in Seq(Ids) /\ writing' \in Ids \cup {NoId} /\ isSending' \in BOOLEAN
           /\ ops' = n + Flag(writing' # NoId) - Flag(writing # NoId)
           /\ isSending' <=> sending \/ writing' # NoId
           /\ sending \/ stopped => writing' = writing
           /\ \A i \in Ids : Count(queue', {i}) + Flag(writing' = i) = Count(q, {i}) + Flag(writing = i)
<1>1. writing \in Ids \cup {NoId}
  BY DEF Types
<1>2. CASE connected /\ ~sending /\ ~stopped /\ q # <<>>
  <2>1. isSending' = TRUE /\ writing' = Head(q) /\ queue' = Tail(q) /\ ops' = n + 1 /\ writing = NoId
    BY <1>2 DEF Send
  <2>2. Head(q) \in Ids /\ Tail(q) \in Seq(Ids)
    BY <1>2
  <2>3. ASSUME NEW i \in Ids
        PROVE  Count(q, {i}) = Count(queue', {i}) + Weight(writing', {i}) /\ Count(queue', {i}) \in Nat
    BY <1>2, <2>1, <2>2, CountTail, CountFinite
  <2> QED
    BY <1>2, <2>1, <2>2, <2>3, ClientAssumption DEF Flag, Weight
<1>3. CASE ~(connected /\ ~sending /\ ~stopped /\ q # <<>>)
  <2>1. isSending' = sending /\ queue' = q /\ ops' = n /\ writing' = writing
    BY <1>3 DEF Send
  <2>2. \A i \in Ids : Count(q, {i}) \in Nat
    BY CountFinite
  <2> QED
    BY <1>1, <2>1, <2>2 DEF Flag
<1> QED
  BY <1>2, <1>3

\* The strand runs a handler.
LEMMA Completing ==
    ASSUME Types, NEW op \in {"read", "write"}, NEW result, NEW k \in DOMAIN completions,
           Complete(k, op, result)
    PROVE  /\ completions' \in Seq(Handlers)
           /\ completions[k].id = NoId \/ (op = "read" /\ result = "ok" /\ completions[k].id \in Ids)
           /\ ReadsDone' = ReadsDone - Flag(op = "read")
           /\ WritesDone' = WritesDone - Flag(op = "write")
           /\ \A i \in Ids : AnswersDone(i)' = AnswersDone(i)
                                 - Flag(i = completions[k].id)
<1> DEFINE h == completions[k]
<1>1. h.op = op /\ h.result = result /\ completions' = RemoveAt(completions, k)
  BY DEF Complete
<1>2. h \in Handlers /\ completions' \in Seq(Handlers)
  BY <1>1, CompletionRemoved
<1>3. ASSUME NEW P
      PROVE  Count(completions, P) = Count(completions', P) + Weight(h, P) /\ Count(completions', P) \in Nat
  BY <1>1, <1>2, CompletionRemoved, CountFinite
<1> HIDE DEF h
<1>4. /\ h.id = NoId \/ (op = "read" /\ result = "ok" /\ h.id \in Ids)
      /\ h \in Reads <=> op = "read"
      /\ h \in Writes <=> op = "write"
      /\ \A i \in Ids : h \in HandlersFor(i) <=> i = h.id
  <2>1. /\ h.id = NoId \/ (op = "read" /\ result = "ok" /\ h.id \in Ids)
        /\ op \in {"read", "write"}
    BY <1>1, <1>2 DEF Handlers
  <2>2. h \in Reads <=> op = "read"
    BY <1>1, <1>2 DEF Reads
  <2>3. h \in Writes <=> op = "write"
    BY <1>1, <1>2 DEF Writes
  <2>4. \A i \in Ids : h \in HandlersFor(i) <=> i = h.id
    BY <1>2 DEF HandlersFor
  <2> QED
    BY <2>1, <2>2, <2>3, <2>4
<1>5. \A i \in Ids : AnswersDone(i)' = AnswersDone(i) - Flag(i = h.id)
  BY <1>3, <1>4 DEF Weight, Flag, ReadsDone, WritesDone, ReceivesDue, StopsDue, FramesDue, AnswersDone
<1>6. /\ ReadsDone' = ReadsDone - Flag(op = "read")
      /\ WritesDone' = WritesDone - Flag(op = "write")
  BY <1>3, <1>4 DEF Weight, Flag, ReadsDone, WritesDone, ReceivesDue, StopsDue, FramesDue, AnswersDone
<1> QED
  BY <1>2, <1>4, <1>5, <1>6 DEF h

\* Every tally is a natural number.
Natural ==
    /\ ReadsDone \in Nat /\ WritesDone \in Nat /\ ReceivesDue \in Nat /\ StopsDue \in Nat
    /\ ReadCount \in Nat /\ WriteCount \in Nat
    /\ \A i \in Ids : /\ FramesDue(i) \in Nat /\ AnswersDone(i) \in Nat /\ Count(queue, {i}) \in Nat
                      /\ Count(wire, {i}) \in Nat /\ Count(answers, {i}) \in Nat
                      /\ Place(i) \in Nat

\* Every tally is a natural number.
LEMMA Numbers == Types => Natural
<1> SUFFICES ASSUME Types PROVE Natural
  OBVIOUS
<1>1. /\ \A P : Count(completions, P) \in Nat
      /\ \A P : Count(tasks, P) \in Nat
      /\ \A P : Count(queue, P) \in Nat /\ Count(wire, P) \in Nat /\ Count(answers, P) \in Nat
  BY CountFinite DEF Types
<1>2. /\ ReadsDone \in Nat /\ WritesDone \in Nat /\ ReceivesDue \in Nat /\ StopsDue \in Nat
      /\ \A i : FramesDue(i) \in Nat /\ AnswersDone(i) \in Nat
  BY <1>1 DEF ReadsDone, WritesDone, ReceivesDue, StopsDue, FramesDue, AnswersDone
<1>3. ReadCount \in Nat /\ WriteCount \in Nat
  BY <1>2 DEF Types, ReadCount, WriteCount, Flag
<1>4. \A i : Place(i) \in Nat
  BY <1>1, <1>2 DEF Place, Flag
<1> QED
  BY <1>1, <1>2, <1>3, <1>4 DEF Natural

\* So it is after a step.
LEMMA NumbersNext == Types' => Natural'
  BY Numbers, PTL

\* The bounds that the counts alone give: at most one write at a time.
LEMMA Sizes ==
    ASSUME Types, Counted
    PROVE  /\ ReadCount \in Nat /\ WriteCount \in {0, 1}
           /\ ReadsDone \in Nat /\ WritesDone \in {0, 1}
           /\ ReceivesDue \in Nat /\ StopsDue \in Nat
           /\ writing # NoId => WriteCount = 1 /\ WritesDone = 0
           /\ Flag(io = "dead") \in {0, 1} /\ Flag(~writeFailed) \in {0, 1}
           /\ Flag(owner = "opened") \in {0, 1} /\ Flag(writing # NoId) \in {0, 1}
<1>1. /\ ReadCount \in Nat /\ WriteCount \in Nat /\ ReadsDone \in Nat /\ WritesDone \in Nat
      /\ ReceivesDue \in Nat /\ StopsDue \in Nat
  BY Numbers DEF Natural
<1>2. Flag(~writeFailed) \in {0, 1} /\ Flag(io = "dead") \in {0, 1} /\ Flag(owner = "opened") \in {0, 1}
      /\ Flag(writing # NoId) \in {0, 1}
  BY DEF Flag
<1>3. WriteCount <= Flag(~writeFailed)
  BY DEF Counted
<1>4. WriteCount \in {0, 1}
  BY <1>1, <1>2, <1>3
<1>5. WritesDone \in {0, 1} /\ (writing # NoId => WriteCount = 1 /\ WritesDone = 0)
  BY <1>1, <1>4 DEF WriteCount, Flag
<1> QED
  BY <1>1, <1>2, <1>4, <1>5

\* is_sending is down only while nothing is written.
LEMMA IdleWriter ==
    ASSUME Types, Counted, ~isSending
    PROVE  writing = NoId
  BY Numbers, SMTT(20) DEF Natural, Counted, WriteCount, Flag, Types

\* What a step that leaves a queue alone leaves of its tallies.
LEMMA SameTallies ==
    /\ UNCHANGED completions => /\ ReadsDone' = ReadsDone /\ WritesDone' = WritesDone
                                /\ \A i \in Ids : AnswersDone(i)' = AnswersDone(i)
    /\ UNCHANGED tasks => /\ ReceivesDue' = ReceivesDue /\ StopsDue' = StopsDue
                          /\ \A i \in Ids : FramesDue(i)' = FramesDue(i)
  BY DEF ReadsDone, WritesDone, ReceivesDue, StopsDue, FramesDue, AnswersDone

\* Taking a task keeps the stop task the last one, if it was.
LEMMA Rest ==
    ASSUME Types, tasks # <<>>, tasks' = Tail(tasks),
           \A k \in DOMAIN tasks : tasks[k] \in Stops => k = Len(tasks)
    PROVE  \A k \in DOMAIN tasks' : tasks'[k] \in Stops => k = Len(tasks')
<1>1. tasks \in Seq(Tasks)
  BY DEF Types
<1> QED
  BY <1>1

-----------------------------------------------------------------------------
(* The inductive invariant holds at the beginning and through each action. *)

\* The inductive invariant holds at the beginning.
LEMMA InitIInv == Init => IInv
<1> SUFFICES ASSUME Init PROVE IInv
  OBVIOUS
<1>1. Types
  <2>1. \A S : <<>> \in Seq(S)
    OBVIOUS
  <2>2. tasks \in Seq(Tasks) /\ completions \in Seq(Handlers) /\ queue \in Seq(Ids)
        /\ wire \in Seq(Ids) /\ answers \in Seq(Ids)
    BY <2>1 DEF Init
  <2>3. status \in [Ids -> {"unmade", "open", "answered", "DISCONNECTION", "delivered", "CANCEL"}]
        /\ call \in [Ids -> {"new", "validated", "registered", "awaiting", "polling", "done"}]
    BY DEF Init
  <2>4. /\ connected \in BOOLEAN /\ open \in BOOLEAN /\ isSending \in BOOLEAN /\ stopped \in BOOLEAN
        /\ lost \in BOOLEAN /\ writeFailed \in BOOLEAN
    BY DEF Init
  <2>5. /\ conn \in Nat /\ io \in {"running", "dead"} /\ reading \in Nat /\ writing \in Ids \cup {NoId}
        /\ ops \in Int /\ registered \in SUBSET Ids /\ refused \in SUBSET Ids
        /\ owner \in {"free", "connecting", "opened", "stop_posted", "draining", "destroyed"}
        /\ round \in Nat /\ userCloses \in Nat
    BY DEF Init
  <2> QED
    BY <2>2, <2>3, <2>4, <2>5 DEF Types
<1>2. \A P : Count(<<>>, P) = 0
  BY CountEmpty
<1>3. /\ ReadsDone = 0 /\ WritesDone = 0 /\ ReceivesDue = 0 /\ StopsDue = 0
      /\ \A i \in Ids : Place(i) = 0
  BY <1>2, ClientAssumption
     DEF Init, ReadsDone, WritesDone, ReceivesDue, StopsDue, FramesDue, AnswersDone, Place, Flag
<1>4. Counted
  BY <1>3 DEF Init, Counted, ReadCount, WriteCount, Flag
<1>5. Frames
  BY <1>3 DEF Init, Frames, FrameKept, Expected
<1>6. Shutdown
  BY <1>3 DEF Init, Shutdown, Flag, Leaving
<1> QED
  BY <1>1, <1>4, <1>5, <1>6 DEF IInv


\* A step that moves no frame and breaks no expectation.
LEMMA SameFrames ==
    ASSUME Frames, UNCHANGED <<queue, writing, wire, answers, conn, connected, call, refused>>,
           \A i \in Ids : FramesDue(i)' = FramesDue(i),
           \A i \in Ids : AnswersDone(i)' = AnswersDone(i),
           \A i \in Ids : Expected(i)' => Expected(i)
    PROVE  Frames'
<1>1. \A i \in Ids : Place(i)' = Place(i)
  BY DEF Place
<1> QED
  BY <1>1 DEF Frames, FrameKept

\* The tallies after a step, each named.
LEMMA CountedStep ==
    ASSUME NEW r \in Nat, NEW w \in {0, 1}, NEW d \in Nat,
           ReadCount' = r, WriteCount' = w, ReceivesDue' = d,
           ops' = r + w + Flag(io' = "dead"),
           w <= Flag(~writeFailed'),
           isSending' <=> writeFailed' \/ w = 1,
           r + d + Flag(owner' = "opened") <= conn'
    PROVE  Counted'
  BY DEF Counted

\* The places of a frame after a step, each named.
LEMMA PlaceStep ==
    ASSUME NEW i \in Ids, NEW f, NEW q, NEW v, NEW s, NEW a, NEW d,
           FramesDue(i)' = f, Count(queue', {i}) = q, Flag(writing' = i) = v,
           Count(wire', {i}) = s, Count(answers', {i}) = a, AnswersDone(i)' = d
    PROVE  Place(i)' = f + q + v + s + a + d
  BY DEF Place

\* A step that neither stops the client nor changes what is left to run.
LEMMA SameShutdown ==
    ASSUME Shutdown, UNCHANGED <<owner, round, stopped, tasks>>,
           ReadCount' = ReadCount, WriteCount' = WriteCount,
           \A i \in Ids : ~InCall(i) => ~InCall(i)'
    PROVE  Shutdown'
<1>1. StopsDue' = StopsDue
  BY SameTallies
<1> QED
  BY <1>1 DEF Shutdown, Leaving, Quiet

\* A task other than the stop task, which starts nothing once the client has stopped.
LEMMA TaskShutdown ==
    ASSUME Types, Shutdown, UNCHANGED <<owner, round, stopped, call>>,
           tasks # <<>>, tasks' = Tail(tasks), StopsDue' = StopsDue,
           stopped => ReadCount' = ReadCount /\ WriteCount' = WriteCount
    PROVE  Shutdown'
<1>1. ASSUME round' >= 2 PROVE Quiet'
  <2>1. Quiet
    BY <1>1 DEF Shutdown
  <2> QED
    BY <2>1, Rest DEF Quiet
<1> QED
  BY <1>1 DEF Shutdown, Leaving, InCall

\* A step after which the frame of `i' is in no more places, and no longer expected.
LEMMA FrameLess ==
    ASSUME Types, Types', NEW i \in Ids, FrameKept(i), UNCHANGED <<conn, call, queue>>,
           FramesDue(i)' = FramesDue(i), AnswersDone(i)' = AnswersDone(i),
           writing' \in {writing, NoId}, wire' \in {wire, <<>>}, answers' \in {answers, <<>>},
           ~Expected(i)'
    PROVE  FrameKept(i)'
<1>1. /\ FramesDue(i) \in Nat /\ Count(queue, {i}) \in Nat /\ Flag(writing = i) \in {0, 1}
      /\ Count(wire, {i}) \in Nat /\ Count(answers, {i}) \in Nat /\ AnswersDone(i) \in Nat
  BY Numbers DEF Natural, Flag
<1>2. PICK v \in {0, 1} : Flag(writing' = i) = v /\ v <= Flag(writing = i)
  BY ClientAssumption DEF Flag
<1>3. PICK s \in Nat : Count(wire', {i}) = s /\ s <= Count(wire, {i})
  BY <1>1, CountEmpty
<1>4. PICK a \in Nat : Count(answers', {i}) = a /\ a <= Count(answers, {i})
  BY <1>1, CountEmpty
<1>5. Place(i)' = FramesDue(i) + Count(queue, {i}) + v + s + a + AnswersDone(i)
  BY <1>1, <1>2, <1>3, <1>4, PlaceStep
<1>6. Place(i) = FramesDue(i) + Count(queue, {i}) + Flag(writing = i) + Count(wire, {i})
                 + Count(answers, {i}) + AnswersDone(i)
  BY DEF Place
<1>7. PICK p \in Nat : Place(i)' = p /\ p <= Place(i)
  <2> DEFINE p == FramesDue(i) + Count(queue, {i}) + v + s + a + AnswersDone(i)
  <2>1. PICK u \in {0, 1} : u = Flag(writing = i)
    BY <1>1
  <2>2. p \in Nat
    BY <1>1, <1>2, <1>3, <1>4, SMTT(30)
  <2>3. p <= FramesDue(i) + Count(queue, {i}) + u + Count(wire, {i}) + Count(answers, {i}) + AnswersDone(i)
    BY <1>1, <1>2, <1>3, <1>4, <2>1, SMTT(20)
  <2> QED
    BY <1>5, <1>6, <2>1, <2>2, <2>3
<1> QED
  BY <1>1, <1>6, <1>7 DEF FrameKept

\* A step after which it is where it was, or in as many places, and expected
\* only if it was.
LEMMA FrameSame ==
    ASSUME NEW i \in Ids, FrameKept(i), UNCHANGED <<conn, call>>, Place(i)' = Place(i),
           Expected(i)' => Expected(i), i \in refused => i \in refused'
    PROVE  FrameKept(i)'
  BY DEF FrameKept

\* A step that leaves every operation counted as it was.
LEMMA SameCounted ==
    ASSUME Types, Counted, UNCHANGED <<ops, io, writeFailed, isSending, conn>>,
           ReceivesDue' = ReceivesDue, ReadCount' = ReadCount, WriteCount' = WriteCount,
           owner' # "opened"  \/ owner = "opened"
    PROVE  Counted'
<1>1. /\ ReadCount \in Nat /\ WriteCount \in {0, 1} /\ ReceivesDue \in Nat
      /\ Flag(owner = "opened") \in {0, 1} /\ conn \in Nat
  BY Sizes DEF Types
<1>2. ReadCount + ReceivesDue + Flag(owner' = "opened") <= conn
  <2>1. CASE owner = "opened"
    BY <1>1, <2>1 DEF Counted, Flag
  <2>2. CASE owner' # "opened"
    BY <1>1, <2>2 DEF Counted, Flag
  <2> QED
    BY <2>1, <2>2
<1> QED
  BY <1>1, <1>2, CountedStep DEF Counted

\* A handler runs: the client was not quiet.
LEMMA HandlerShutdown ==
    ASSUME Shutdown, UNCHANGED <<owner, round, stopped, call>>, StopsDue' = StopsDue,
           ReadCount # 0 \/ WriteCount # 0
    PROVE  Shutdown'
  BY DEF Shutdown, Quiet, Leaving, InCall

\* A step of a client that is not being shut down, and of none that is.
LEMMA UsedShutdown ==
    ASSUME Shutdown, ~Leaving, owner' \in {"free", "connecting", "opened"}, round' = round,
           StopsDue' = StopsDue
    PROVE  Shutdown'
<1>1. round = 0 /\ StopsDue = 0
  BY DEF Shutdown, Leaving, Flag
<1>2. ~Leaving' /\ ~(round' >= 2)
  BY <1>1 DEF Leaving
<1> QED
  BY <1>1, <1>2 DEF Shutdown, Flag, Leaving

\* The posted disconnect: the socket is closed and its operations aborted.
LEMMA RunDisconnectKeeps ==
    ASSUME IInv, RunDisconnect
    PROVE  IInv'
<1>1. /\ tasks' \in Seq(Tasks) /\ ReceivesDue' = ReceivesDue /\ StopsDue' = StopsDue
      /\ \A i \in Ids : FramesDue(i)' = FramesDue(i)
  BY Taking DEF IInv, RunDisconnect
<1>2. /\ completions' \in Seq(Handlers) /\ reading' \in Nat /\ writing' \in {writing, NoId}
      /\ ReadCount' = ReadCount /\ WriteCount' = WriteCount
      /\ \A i \in Ids : AnswersDone(i)' = AnswersDone(i)
  BY Aborting DEF IInv, RunDisconnect
<1>3. Types'
  <2>1. status' \in [Ids -> {"unmade", "open", "answered", "DISCONNECTION", "delivered", "CANCEL"}]
    BY DEF IInv, Types, RunDisconnect, FailAll
  <2>2. (wire \in Seq(Ids) /\ answers \in Seq(Ids))'
    BY DEF RunDisconnect
  <2>3. (connected \in BOOLEAN /\ open \in BOOLEAN)'
    BY DEF RunDisconnect
  <2>4. UNCHANGED <<io, conn, isSending, queue, ops, stopped, registered, call, owner, round, userCloses, lost, refused, writeFailed>>
    BY DEF RunDisconnect, sendVars, ownerVars, history
  <2> QED
    BY <1>1, <1>2, <2>1, <2>2, <2>3, <2>4 DEF IInv, Types
<1>4. Counted'
  BY <1>1, <1>2 DEF IInv, Counted, RunDisconnect, sendVars, ownerVars, history
<1>5. Frames'
  <2>1. ASSUME NEW i \in Ids PROVE FrameKept(i)'
    BY <1>1, <1>2, <1>3, FrameLess DEF IInv, Frames, RunDisconnect, Expected, sendVars
  <2> QED
    BY <2>1 DEF IInv, Frames, RunDisconnect
<1>6. Shutdown'
  BY <1>1, <1>2, TaskShutdown DEF IInv, InCall, RunDisconnect, Task_Is, ownerVars
<1> QED
  BY <1>3, <1>4, <1>5, <1>6 DEF IInv

\* The posted receive: a read begins, unless the client has stopped.
LEMMA RunReceiveKeeps ==
    ASSUME IInv, RunReceive
    PROVE  IInv'
<1>1. /\ tasks' \in Seq(Tasks) /\ ReceivesDue' = ReceivesDue - 1 /\ StopsDue' = StopsDue
      /\ \A i \in Ids : FramesDue(i)' = FramesDue(i)
  BY Taking DEF IInv, RunReceive
<1>2. PICK d \in {0, 1} : ops' = ops + d /\ reading' = reading + d /\ (stopped => d = 0)
  BY DEF IInv, Types, RunReceive, Receive
<1>3. UNCHANGED <<connected, completions, io, open, conn, writing, isSending, queue, stopped, status, registered,
                  call, owner, round, userCloses, lost, wire, answers, refused, writeFailed>>
  BY DEF RunReceive, sendVars, storeVars, ownerVars, peerVars, history
<1>4. Types'
  BY <1>1, <1>2, <1>3 DEF IInv, Types
<1>5. ReadCount' = ReadCount + d /\ WriteCount' = WriteCount
  BY <1>2, <1>3, SameTallies, Numbers DEF IInv, Types, Natural, ReadCount, WriteCount
<1>6. Counted'
  <2>1. ReceivesDue - 1 \in Nat
    BY <1>1, <1>4, NumbersNext DEF Natural
  <2>2. ReadCount + d \in Nat /\ WriteCount \in {0, 1} /\ Flag(owner = "opened") \in {0, 1} /\ conn \in Nat
        /\ Flag(io = "dead") \in {0, 1} /\ ops \in Int /\ ReceivesDue \in Nat /\ ReadCount \in Nat
    BY Sizes DEF IInv, Types
  <2>3. (ReadCount + d) + (ReceivesDue - 1) + Flag(owner = "opened") <= conn
    BY <2>1, <2>2 DEF IInv, Counted
  <2>4. ops' = (ReadCount + d) + WriteCount + Flag(io = "dead")
    BY <1>2, <2>2 DEF IInv, Counted
  <2> QED
    BY <1>1, <1>3, <1>5, <2>1, <2>2, <2>3, <2>4, CountedStep DEF IInv, Counted
<1>7. Frames'
  BY <1>1, <1>3, SameTallies, SameFrames DEF IInv, Expected
<1>8. Shutdown'
  BY <1>1, <1>2, <1>3, <1>5, Numbers, TaskShutdown DEF IInv, Natural, RunReceive, Task_Is
<1> QED
  BY <1>4, <1>6, <1>7, <1>8 DEF IInv

\* The posted request: its frame is queued, or refused by the full queue.
LEMMA RunEnqueueKeeps ==
    ASSUME IInv, RunEnqueue
    PROVE  IInv'
<1> DEFINE t == Head(tasks).id
           q == IF Full THEN queue ELSE Append(queue, t)
<1>1. /\ tasks' \in Seq(Tasks) /\ ReceivesDue' = ReceivesDue /\ StopsDue' = StopsDue /\ t \in Ids
      /\ \A i \in Ids : FramesDue(i)' = IF i = t THEN FramesDue(i) - 1 ELSE FramesDue(i)
  BY Taking DEF IInv, RunEnqueue
<1>2. /\ tasks # <<>> /\ tasks' = Tail(tasks)
      /\ Send(isSending, q, ops)
      /\ refused' = IF Full THEN refused \cup {t} ELSE refused
  BY DEF RunEnqueue, Task_Is
<1> HIDE DEF t
<1>3. UNCHANGED <<connected, completions, io, open, conn, reading, stopped, status, registered,
                  call, owner, round, userCloses, lost, wire, answers, writeFailed>>
  BY DEF RunEnqueue, storeVars, ownerVars, peerVars
<1>4. q \in Seq(Ids) /\ \A i \in Ids : Count(q, {i}) = Count(queue, {i}) + (IF ~Full /\ i = t THEN 1 ELSE 0)
  <2>1. queue \in Seq(Ids)
    BY DEF IInv, Types
  <2>2. ASSUME NEW i \in Ids
        PROVE  Count(Append(queue, t), {i}) = Count(queue, {i}) + Weight(t, {i}) /\ Count(queue, {i}) \in Nat
    BY <1>1, <2>1, CountAppend, CountFinite
  <2> QED
    BY <1>1, <2>1, <2>2 DEF Weight
<1> HIDE DEF q
<1>5. /\ isSending \in BOOLEAN /\ ops \in Int /\ writing \in Ids \cup {NoId}
      /\ ~isSending => writing = NoId
  BY IdleWriter DEF IInv, Types
<1>6. /\ queue' \in Seq(Ids) /\ writing' \in Ids \cup {NoId} /\ isSending' \in BOOLEAN
      /\ ops' = ops + Flag(writing' # NoId) - Flag(writing # NoId)
      /\ isSending' <=> isSending \/ writing' # NoId
      /\ isSending \/ stopped => writing' = writing
      /\ \A i \in Ids : Count(queue', {i}) + Flag(writing' = i) = Count(q, {i}) + Flag(writing = i)
  BY <1>2, <1>4, <1>5, Sending DEF IInv
<1>7. Types'
  <2>1. ops' \in Int
    BY <1>5, <1>6 DEF Flag
  <2>2. refused' \in SUBSET Ids
    BY <1>1, <1>2 DEF IInv, Types
  <2> QED
    BY <1>1, <1>3, <1>6, <2>1, <2>2 DEF IInv, Types
<1>8. PICK w \in {0, 1} : /\ Flag(writing' # NoId) = w
                          /\ w = 1 <=> writing' # NoId
                          /\ isSending \/ stopped => w = Flag(writing # NoId)
  BY <1>6 DEF Flag
<1>9. /\ ops' = ops + w - Flag(writing # NoId)
      /\ ReadCount' = ReadCount /\ WriteCount' = w + WritesDone
  <2>1. ops' = ops + w - Flag(writing # NoId)
    BY <1>6, <1>8
  <2>2. reading' = reading /\ ReadsDone' = ReadsDone /\ WritesDone' = WritesDone
    BY <1>3, SameTallies
  <2> QED
    BY <1>8, <2>1, <2>2 DEF ReadCount, WriteCount
<1>10. Counted'
  <2>1. /\ ReadCount \in Nat /\ WritesDone \in {0, 1} /\ WriteCount \in {0, 1}
        /\ Flag(owner = "opened") \in {0, 1} /\ conn \in Nat
        /\ Flag(io = "dead") \in {0, 1} /\ ops \in Int /\ ReceivesDue \in Nat
        /\ Flag(writing # NoId) \in {0, 1}
    BY Sizes DEF IInv, Types
  <2>2. w + WritesDone \in {0, 1} /\ w + WritesDone <= Flag(~writeFailed)
    BY <1>5, <1>8, <2>1 DEF IInv, Counted, WriteCount, Flag
  <2>3. ops' = ReadCount + (w + WritesDone) + Flag(io = "dead")
    BY <1>9, <2>1 DEF IInv, Counted, WriteCount
  <2>4. isSending' <=> writeFailed \/ w + WritesDone = 1
    BY <1>5, <1>6, <1>8, <2>1 DEF IInv, Counted, WriteCount, Flag
  <2> QED
    BY <1>1, <1>3, <1>9, <2>1, <2>2, <2>3, <2>4, CountedStep DEF IInv, Counted
<1>11. Frames'
  <2>1. ASSUME NEW i \in Ids PROVE FrameKept(i)'
    <3>1. PICK c \in Nat, v \in {0, 1} : /\ Count(queue', {i}) = c /\ Flag(writing' = i) = v
                                         /\ c + v = Count(q, {i}) + Flag(writing = i)
      BY <1>6, CountFinite DEF Flag
    <3>2. Place(i)' = IF Full /\ i = t THEN Place(i) - 1 ELSE Place(i)
      <4>0. PICK f \in Nat : FramesDue(i)' = f
        BY <1>7, NumbersNext DEF Natural
      <4>1. Place(i)' = f + c + v + Count(wire, {i}) + Count(answers, {i}) + AnswersDone(i)
        BY <1>3, <3>1, <4>0, SameTallies DEF Place
      <4>2. /\ f = IF i = t THEN FramesDue(i) - 1 ELSE FramesDue(i)
            /\ c + v = Count(queue, {i}) + (IF ~Full /\ i = t THEN 1 ELSE 0) + Flag(writing = i)
        BY <1>1, <1>4, <3>1, <4>0
      <4>3. /\ Flag(writing = i) \in {0, 1} /\ FramesDue(i) \in Nat /\ Count(queue, {i}) \in Nat
            /\ Count(wire, {i}) \in Nat /\ Count(answers, {i}) \in Nat /\ AnswersDone(i) \in Nat
        BY Numbers DEF IInv, Natural, Flag
      <4> QED
        BY <4>1, <4>2, <4>3 DEF Place
    <3>3. Place(i)' \in Nat /\ Place(i) \in Nat
      BY <1>7, Numbers, NumbersNext DEF IInv, Natural
    <3>4. FrameKept(i) /\ (Expected(i)' => Expected(i))
      BY <1>3 DEF IInv, Frames, Expected
    <3> QED
      BY <1>2, <1>3, <3>2, <3>3, <3>4 DEF FrameKept
  <2> QED
    BY <2>1, <1>3 DEF IInv, Frames
<1>12. stopped => WriteCount' = WriteCount
  BY <1>8, <1>9 DEF WriteCount
<1>13. Shutdown'
  BY <1>1, <1>2, <1>3, <1>9, <1>12, TaskShutdown DEF IInv
<1> QED
  BY <1>7, <1>10, <1>11, <1>13 DEF IInv

\* The posted stop: no operation starts from now on.
LEMMA RunStopKeeps ==
    ASSUME IInv, RunStop
    PROVE  IInv'
<1>1. /\ tasks' \in Seq(Tasks) /\ ReceivesDue' = ReceivesDue /\ StopsDue' = StopsDue - 1
      /\ \A i \in Ids : FramesDue(i)' = FramesDue(i)
  BY Taking DEF IInv, RunStop
<1>2. /\ completions' \in Seq(Handlers) /\ reading' \in Nat /\ writing' \in {writing, NoId}
      /\ ReadCount' = ReadCount /\ WriteCount' = WriteCount
      /\ \A i \in Ids : AnswersDone(i)' = AnswersDone(i)
  BY Aborting DEF IInv, RunStop
<1>3. /\ UNCHANGED <<connected, io, open, conn, isSending, queue, ops, status, registered, call,
                     round, userCloses, lost, wire, answers, refused, writeFailed>>
      /\ stopped' = TRUE /\ owner' = "draining" /\ tasks # <<>> /\ tasks' = Tail(tasks)
      /\ Head(tasks).kind = "stop"
  BY DEF RunStop, Task_Is, sendVars, storeVars, peerVars, history
<1>4. Types'
  BY <1>1, <1>2, <1>3 DEF IInv, Types
<1>5. owner = "stop_posted" /\ StopsDue' = 0
  <2>1. StopsDue \in Nat /\ StopsDue - 1 \in Nat
    BY <1>1, <1>4, Numbers, NumbersNext DEF IInv, Natural
  <2> QED
    BY <1>1, <2>1 DEF IInv, Shutdown, Flag
<1>6. Counted'
  BY <1>1, <1>2, <1>3, SameCounted DEF IInv
<1>7. Frames'
  <2>1. ASSUME NEW i \in Ids PROVE FrameKept(i)'
    BY <1>1, <1>2, <1>3, <1>4, FrameLess DEF IInv, Frames, Expected
  <2> QED
    BY <2>1, <1>3 DEF IInv, Frames
<1>8. Shutdown'
  <2>1. ASSUME round' >= 2 PROVE Quiet'
    <3>1. Quiet
      BY <2>1, <1>3 DEF IInv, Shutdown
    <3>2. tasks \in Seq(Tasks)
      BY DEF IInv, Types
    <3>3. tasks[1] \in Stops
      BY <1>3, <3>2 DEF Stops
    <3>4. Len(tasks) = 1
      <4>1. 1 \in DOMAIN tasks
        BY <1>3, <3>2
      <4> QED
        BY <1>5, <3>1, <3>3, <4>1 DEF Quiet
    <3>5. tasks' = <<>>
      BY <1>3, <3>2, <3>4
    <3> QED
      BY <1>2, <1>3, <3>1, <3>5 DEF Quiet
  <2> QED
    BY <1>3, <1>5, <2>1 DEF IInv, Shutdown, Leaving, InCall, Flag
<1> QED
  BY <1>4, <1>6, <1>7, <1>8 DEF IInv

\* A handler that carries no answer.
LEMMA CompletingPlain ==
    ASSUME Types, NEW op \in {"read", "write"}, NEW result \in {"ok", "closed", "error", "aborted"},
           NEW k \in DOMAIN completions, Complete(k, op, result), op = "write" \/ result # "ok"
    PROVE  /\ completions' \in Seq(Handlers)
           /\ ReadsDone' = IF op = "read" THEN ReadsDone - 1 ELSE ReadsDone
           /\ WritesDone' = IF op = "write" THEN WritesDone - 1 ELSE WritesDone
           /\ \A i \in Ids : AnswersDone(i)' = AnswersDone(i)
<1>1. /\ completions' \in Seq(Handlers)
      /\ completions[k].id = NoId
      /\ ReadsDone' = ReadsDone - Flag(op = "read")
      /\ WritesDone' = WritesDone - Flag(op = "write")
      /\ \A i \in Ids : AnswersDone(i)' = AnswersDone(i) - Flag(i = completions[k].id)
  BY Completing
<1>2. /\ ReadsDone \in Nat /\ WritesDone \in Nat
      /\ \A i \in Ids : AnswersDone(i) \in Nat
  BY Numbers DEF Natural
<1>3. \A i \in Ids : AnswersDone(i)' = AnswersDone(i)
  BY <1>1, <1>2, ClientAssumption DEF Flag
<1> QED
  BY <1>1, <1>2, <1>3 DEF Flag

\* A disconnect is posted.
LEMMA PostingDisconnect ==
    ASSUME Types, Post("disconnect")
    PROVE  /\ tasks' \in Seq(Tasks) /\ ReceivesDue' = ReceivesDue /\ StopsDue' = StopsDue
           /\ \A i \in Ids : FramesDue(i)' = FramesDue(i)
<1>1. /\ tasks' \in Seq(Tasks)
      /\ ReceivesDue' = ReceivesDue + Flag("disconnect" = "receive")
      /\ StopsDue' = StopsDue + Flag("disconnect" = "stop")
      /\ \A i \in Ids : FramesDue(i)' = FramesDue(i)
  BY Posting
<1>2. ReceivesDue \in Nat /\ StopsDue \in Nat
  BY Numbers DEF Natural
<1> QED
  BY <1>1, <1>2 DEF Flag

\* A read is counted down by its handler.
LEMMA ReadEnded ==
    ASSUME Types, Types', Counted,
           UNCHANGED <<io, conn, reading, writing, isSending, owner, writeFailed>>,
           ops' = ops - 1, ReadsDone' = ReadsDone - 1, WritesDone' = WritesDone,
           ReceivesDue' = ReceivesDue
    PROVE  Counted' /\ ReadCount # 0
<1>1. ReadCount' = ReadCount - 1 /\ WriteCount' = WriteCount /\ ReadCount - 1 \in Nat
  <2>1. ReadCount' = reading + (ReadsDone - 1) /\ WriteCount' = WriteCount
    BY DEF ReadCount, WriteCount
  <2>2. ReadsDone - 1 \in Nat /\ reading \in Nat /\ ReadsDone \in Nat
    BY Numbers, NumbersNext DEF Natural, Types
  <2> QED
    BY <2>1, <2>2 DEF ReadCount
<1>2. Counted'
  <2>1. /\ ReadCount \in Nat /\ WriteCount \in {0, 1} /\ ReceivesDue \in Nat /\ conn \in Nat
        /\ Flag(owner = "opened") \in {0, 1} /\ Flag(io = "dead") \in {0, 1}
    BY Sizes DEF Types
  <2>2. (ReadCount - 1) + ReceivesDue + Flag(owner = "opened") <= conn
    BY <1>1, <2>1 DEF Counted
  <2>3. ops' = (ReadCount - 1) + WriteCount + Flag(io = "dead")
    BY <2>1 DEF Counted
  <2> QED
    BY <1>1, <2>1, <2>2, <2>3, CountedStep DEF Counted
<1> QED
  BY <1>1, <1>2

\* A read ended with end of file or an error.
LEMMA ReadFailedKeeps ==
    ASSUME IInv, NEW k \in DOMAIN completions, ReadFailed(k)
    PROVE  IInv'
<1>1. /\ completions' \in Seq(Handlers) /\ ReadsDone' = ReadsDone - 1 /\ WritesDone' = WritesDone
      /\ \A i \in Ids : AnswersDone(i)' = AnswersDone(i)
  <2>1. PICK result \in {"closed", "error"} : Complete(k, "read", result)
    BY DEF ReadFailed
  <2> QED
    BY <2>1, CompletingPlain DEF IInv
<1>2. /\ tasks' \in Seq(Tasks) /\ ReceivesDue' = ReceivesDue /\ StopsDue' = StopsDue
      /\ \A i \in Ids : FramesDue(i)' = FramesDue(i)
  BY PostingDisconnect DEF IInv, ReadFailed
<1>3. /\ UNCHANGED <<connected, io, open, conn, reading, writing, isSending, queue, stopped, status,
                     registered, call, owner, round, userCloses, lost, wire, answers, refused,
                     writeFailed>>
      /\ ops' = ops - 1
  BY DEF ReadFailed, socketVars, sendVars, storeVars, ownerVars, peerVars, history
<1>4. Types'
  BY <1>1, <1>2, <1>3 DEF IInv, Types
<1>5. Counted' /\ ReadCount # 0
  BY <1>1, <1>2, <1>3, <1>4, ReadEnded DEF IInv
<1>6. Frames'
  BY <1>1, <1>2, <1>3, SameFrames DEF IInv, Expected
<1>7. Shutdown'
  BY <1>2, <1>3, <1>5, HandlerShutdown DEF IInv
<1> QED
  BY <1>4, <1>5, <1>6, <1>7 DEF IInv

\* A read was aborted by a close.
LEMMA ReadAbortedKeeps ==
    ASSUME IInv, NEW k \in DOMAIN completions, ReadAborted(k)
    PROVE  IInv'
<1>1. /\ completions' \in Seq(Handlers) /\ ReadsDone' = ReadsDone - 1 /\ WritesDone' = WritesDone
      /\ \A i \in Ids : AnswersDone(i)' = AnswersDone(i)
  <2>1. Complete(k, "read", "aborted")
    BY DEF ReadAborted
  <2> QED
    BY <2>1, CompletingPlain DEF IInv
<1>2. /\ UNCHANGED <<connected, tasks, io, open, conn, reading, writing, isSending, queue, stopped,
                     status, registered, call, owner, round, userCloses, lost, wire, answers, refused,
                     writeFailed>>
      /\ ops' = ops - 1
  BY DEF ReadAborted, socketVars, sendVars, storeVars, ownerVars, peerVars, history
<1>3. /\ ReceivesDue' = ReceivesDue /\ StopsDue' = StopsDue
      /\ \A i \in Ids : FramesDue(i)' = FramesDue(i)
  BY <1>2, SameTallies
<1>4. Types'
  BY <1>1, <1>2 DEF IInv, Types
<1>5. Counted' /\ ReadCount # 0
  BY <1>1, <1>2, <1>3, <1>4, ReadEnded DEF IInv
<1>6. Frames'
  BY <1>1, <1>2, <1>3, SameFrames DEF IInv, Expected
<1>7. Shutdown'
  BY <1>2, <1>3, <1>5, HandlerShutdown DEF IInv
<1> QED
  BY <1>4, <1>5, <1>6, <1>7 DEF IInv

\* A write that failed is counted down by its handler.
LEMMA WriteEnded ==
    ASSUME Types, Types', Counted,
           UNCHANGED <<io, conn, reading, writing, isSending, owner>>, writeFailed' = TRUE,
           ops' = ops - 1, ReadsDone' = ReadsDone, WritesDone' = WritesDone - 1,
           ReceivesDue' = ReceivesDue
    PROVE  Counted' /\ WriteCount # 0
<1>1. WritesDone = 1 /\ writing = NoId /\ WriteCount = 1
  <2>1. WritesDone - 1 \in Nat
    BY NumbersNext DEF Natural
  <2> QED
    BY <2>1, Sizes DEF WriteCount, Flag
<1>2. ReadCount' = ReadCount /\ WriteCount' = 0
  BY <1>1 DEF ReadCount, WriteCount, Flag
<1>3. /\ ReadCount \in Nat /\ ReceivesDue \in Nat /\ conn \in Nat
      /\ Flag(owner = "opened") \in {0, 1} /\ Flag(io = "dead") \in {0, 1} /\ isSending = TRUE
  BY <1>1, Sizes DEF Types, Counted
<1>4. ops' = ReadCount + 0 + Flag(io = "dead")
  BY <1>1, <1>3 DEF Counted
<1>5. Flag(~writeFailed') = 0
  BY DEF Flag
<1> QED
  BY <1>1, <1>2, <1>3, <1>4, <1>5, CountedStep DEF Counted

\* A write failed.
LEMMA WriteFailedKeeps ==
    ASSUME IInv, NEW k \in DOMAIN completions, WriteFailed(k)
    PROVE  IInv'
<1>1. /\ completions' \in Seq(Handlers) /\ ReadsDone' = ReadsDone /\ WritesDone' = WritesDone - 1
      /\ \A i \in Ids : AnswersDone(i)' = AnswersDone(i)
  <2>1. Complete(k, "write", "error")
    BY DEF WriteFailed
  <2> QED
    BY <2>1, CompletingPlain DEF IInv
<1>2. /\ tasks' \in Seq(Tasks) /\ ReceivesDue' = ReceivesDue /\ StopsDue' = StopsDue
      /\ \A i \in Ids : FramesDue(i)' = FramesDue(i)
  BY PostingDisconnect DEF IInv, WriteFailed
<1>3. /\ UNCHANGED <<connected, io, open, conn, reading, writing, isSending, queue, stopped, status,
                     registered, call, owner, round, userCloses, lost, wire, answers, refused>>
      /\ ops' = ops - 1 /\ writeFailed' = TRUE
  BY DEF WriteFailed, socketVars, sendVars, storeVars, ownerVars, peerVars
<1>4. Types'
  BY <1>1, <1>2, <1>3 DEF IInv, Types
<1>5. Counted' /\ WriteCount # 0
  BY <1>1, <1>2, <1>3, <1>4, WriteEnded DEF IInv
<1>6. Frames'
  BY <1>1, <1>2, <1>3, SameFrames DEF IInv, Expected
<1>7. Shutdown'
  BY <1>2, <1>3, <1>5, HandlerShutdown DEF IInv
<1> QED
  BY <1>4, <1>5, <1>6, <1>7 DEF IInv

\* A write was aborted by a close.
LEMMA WriteAbortedKeeps ==
    ASSUME IInv, NEW k \in DOMAIN completions, WriteAborted(k)
    PROVE  IInv'
<1>1. /\ completions' \in Seq(Handlers) /\ ReadsDone' = ReadsDone /\ WritesDone' = WritesDone - 1
      /\ \A i \in Ids : AnswersDone(i)' = AnswersDone(i)
  <2>1. Complete(k, "write", "aborted")
    BY DEF WriteAborted
  <2> QED
    BY <2>1, CompletingPlain DEF IInv
<1>2. /\ UNCHANGED <<connected, tasks, io, open, conn, reading, writing, isSending, queue, stopped,
                     status, registered, call, owner, round, userCloses, lost, wire, answers, refused>>
      /\ ops' = ops - 1 /\ writeFailed' = TRUE
  BY DEF WriteAborted, socketVars, sendVars, storeVars, ownerVars, peerVars
<1>3. /\ ReceivesDue' = ReceivesDue /\ StopsDue' = StopsDue
      /\ \A i \in Ids : FramesDue(i)' = FramesDue(i)
  BY <1>2, SameTallies
<1>4. Types'
  BY <1>1, <1>2 DEF IInv, Types
<1>5. Counted' /\ WriteCount # 0
  BY <1>1, <1>2, <1>3, <1>4, WriteEnded DEF IInv
<1>6. Frames'
  BY <1>1, <1>2, <1>3, SameFrames DEF IInv, Expected
<1>7. Shutdown'
  BY <1>2, <1>3, <1>5, HandlerShutdown DEF IInv
<1> QED
  BY <1>4, <1>5, <1>6, <1>7 DEF IInv

\* A read delivered an answer, and the next read begins.
LEMMA ReadOkKeeps ==
    ASSUME IInv, NEW k \in DOMAIN completions, ReadOk(k)
    PROVE  IInv'
<1> DEFINE a == completions[k].id
<1>1. /\ completions' \in Seq(Handlers) /\ a \in Ids \cup {NoId}
      /\ ReadsDone' = ReadsDone - 1 /\ WritesDone' = WritesDone
      /\ \A i \in Ids : AnswersDone(i)' = AnswersDone(i) - Flag(i = a)
  <2>1. Complete(k, "read", "ok")
    BY DEF ReadOk
  <2>2. /\ completions' \in Seq(Handlers) /\ a \in Ids \cup {NoId}
        /\ ReadsDone' = ReadsDone - Flag("read" = "read")
        /\ WritesDone' = WritesDone - Flag("read" = "write")
        /\ \A i \in Ids : AnswersDone(i)' = AnswersDone(i) - Flag(i = a)
    BY <2>1, Completing DEF IInv
  <2>3. ReadsDone \in Nat /\ WritesDone \in Nat
    BY Numbers DEF IInv, Natural
  <2> QED
    BY <2>2, <2>3 DEF Flag
<1>2. PICK d \in {0, 1} :
          /\ reading' = reading + d
          /\ stopped => d = 0
          /\ \/ /\ a \in registered /\ io' = io /\ ops' = (ops - 1) + d
                /\ status' = [status EXCEPT ![a] = IF @ = "open" THEN "answered" ELSE @]
             \/ /\ a \notin registered /\ io' = "dead" /\ ops' = ops /\ d = 0 /\ status' = status
  BY DEF IInv, Types, ReadOk, Receive
<1>3. /\ UNCHANGED <<connected, tasks, open, conn, writing, isSending, queue, stopped, registered,
                     call, owner, round, userCloses, lost, wire, answers, refused, writeFailed>>
      /\ io = "running"
  BY DEF ReadOk, Complete, sendVars, ownerVars, peerVars, history
<1> HIDE DEF a
<1>4. Types'
  <2>1. status' \in [Ids -> {"unmade", "open", "answered", "DISCONNECTION", "delivered", "CANCEL"}]
    BY <1>2 DEF IInv, Types
  <2>2. io' \in {"running", "dead"} /\ reading' \in Nat /\ ops' \in Int
    BY <1>2, <1>3 DEF IInv, Types
  <2> QED
    BY <1>1, <1>3, <2>1, <2>2 DEF IInv, Types
<1>5. /\ ReadCount' = (ReadCount - 1) + d /\ WriteCount' = WriteCount
      /\ ReadCount - 1 \in Nat /\ ReadCount \in Nat
  <2>1. ReadCount' = (reading + d) + (ReadsDone - 1) /\ WriteCount' = WriteCount
    BY <1>1, <1>2, <1>3 DEF ReadCount, WriteCount
  <2>2. ReadsDone - 1 \in Nat /\ reading \in Nat /\ ReadsDone \in Nat
    BY <1>1, <1>4, Numbers, NumbersNext DEF IInv, Natural, Types
  <2> QED
    BY <2>1, <2>2 DEF ReadCount
<1>6. /\ ReceivesDue' = ReceivesDue /\ StopsDue' = StopsDue
      /\ \A i \in Ids : FramesDue(i)' = FramesDue(i)
  BY <1>3, SameTallies
<1>7. Counted'
  <2>1. /\ ReadCount \in Nat /\ WriteCount \in {0, 1} /\ ReceivesDue \in Nat /\ conn \in Nat
        /\ Flag(owner = "opened") \in {0, 1} /\ (ReadCount - 1) + d \in Nat
    BY <1>5, Sizes DEF IInv, Types
  <2>2. ((ReadCount - 1) + d) + ReceivesDue + Flag(owner = "opened") <= conn
    BY <1>5, <2>1 DEF IInv, Counted
  <2>3. ops' = ((ReadCount - 1) + d) + WriteCount + Flag(io' = "dead")
    <3>1. ops = ReadCount + WriteCount
      BY <1>3, <2>1 DEF IInv, Counted, Flag
    <3> QED
      BY <1>2, <1>3, <2>1, <3>1 DEF Flag
  <2> QED
    BY <1>3, <1>5, <1>6, <2>1, <2>2, <2>3, CountedStep DEF IInv, Counted
<1>8. Frames'
  <2>1. ASSUME NEW i \in Ids PROVE FrameKept(i)'
    <3>1. /\ FramesDue(i) \in Nat /\ Count(queue, {i}) \in Nat /\ Flag(writing = i) \in {0, 1}
          /\ Count(wire, {i}) \in Nat /\ Count(answers, {i}) \in Nat /\ AnswersDone(i) \in Nat
      BY Numbers DEF IInv, Natural, Flag
    <3>2. CASE i # a
      <4>1. AnswersDone(i)' = AnswersDone(i)
        BY <1>1, <3>1, <3>2 DEF Flag
      <4>2. Place(i)' = Place(i)
        BY <1>3, <1>6, <4>1 DEF Place
      <4>3. status'[i] = status[i]
        BY <1>2, <3>2 DEF IInv, Types
      <4>4. Expected(i)' => Expected(i)
        BY <1>3, <4>3 DEF Expected
      <4> QED
        BY <1>3, <4>2, <4>4, FrameSame DEF IInv, Frames
    <3>3. CASE i = a
      <4>1. AnswersDone(i)' = AnswersDone(i) - 1
        BY <1>1, <3>3 DEF Flag
      <4>2. AnswersDone(i) - 1 \in Nat
        BY <1>4, <4>1, NumbersNext DEF Natural
      <4>3. Place(i)' = FramesDue(i) + Count(queue, {i}) + Flag(writing = i) + Count(wire, {i})
                        + Count(answers, {i}) + (AnswersDone(i) - 1)
        BY <1>3, <1>6, <4>1, PlaceStep
      <4>4. Place(i) = FramesDue(i) + Count(queue, {i}) + Flag(writing = i) + Count(wire, {i})
                        + Count(answers, {i}) + AnswersDone(i)
        BY DEF Place
      <4>5. Place(i) <= 1 /\ (call[i] \in {"new", "validated", "registered"} => Place(i) = 0)
        BY DEF IInv, Frames, FrameKept
      <4>6. Place(i) = 1 /\ Place(i)' = 0
        BY <3>1, <4>2, <4>3, <4>4, <4>5
      <4>7. ~Expected(i)'
        BY <1>2, <3>3 DEF IInv, Types, Expected
      <4> QED
        BY <1>3, <4>5, <4>6, <4>7 DEF IInv, Frames, FrameKept
    <3> QED
      BY <3>2, <3>3
  <2> QED
    BY <1>3, <2>1 DEF IInv, Frames
<1>9. Shutdown'
  BY <1>3, <1>5, <1>6, HandlerShutdown DEF IInv
<1> QED
  BY <1>4, <1>7, <1>8, <1>9 DEF IInv

\* A write ended, and the next frame is written.
LEMMA WriteOkKeeps ==
    ASSUME IInv, NEW k \in DOMAIN completions, WriteOk(k)
    PROVE  IInv'
<1>1. /\ completions' \in Seq(Handlers) /\ ReadsDone' = ReadsDone /\ WritesDone' = WritesDone - 1
      /\ \A i \in Ids : AnswersDone(i)' = AnswersDone(i)
  <2>1. Complete(k, "write", "ok")
    BY DEF WriteOk
  <2> QED
    BY <2>1, CompletingPlain DEF IInv
<1>2. UNCHANGED <<connected, tasks, io, open, conn, reading, stopped, status, registered, call, owner,
                  round, userCloses, lost, wire, answers, refused, writeFailed>>
  BY DEF WriteOk, storeVars, ownerVars, peerVars, history
<1>3. WritesDone = 1 /\ writing = NoId /\ WriteCount = 1 /\ writeFailed = FALSE
  <2>1. WritesDone - 1 \in Nat
    <3>1. \A P : Count(completions', P) \in Nat
      BY <1>1, CountFinite
    <3> QED
      BY <1>1, <3>1 DEF WritesDone
  <2>2. WritesDone = 1 /\ writing = NoId /\ WriteCount = 1
    BY <2>1, Sizes DEF IInv, WriteCount, Flag
  <2>3. WriteCount <= Flag(~writeFailed) /\ writeFailed \in BOOLEAN
    BY DEF IInv, Counted, Types
  <2> QED
    BY <2>2, <2>3 DEF Flag
<1>4. /\ queue' \in Seq(Ids) /\ writing' \in Ids \cup {NoId} /\ isSending' \in BOOLEAN
      /\ ops' = (ops - 1) + Flag(writing' # NoId) - Flag(writing # NoId)
      /\ isSending' <=> FALSE \/ writing' # NoId
      /\ \A i \in Ids : Count(queue', {i}) + Flag(writing' = i) = Count(queue, {i}) + Flag(writing = i)
  <2>1. queue \in Seq(Ids) /\ ops \in Int /\ Types
    BY DEF IInv, Types
  <2>2. ops - 1 \in Int
    BY <2>1
  <2>3. Send(FALSE, queue, ops - 1)
    BY DEF WriteOk
  <2> QED
    BY <1>3, <2>1, <2>2, <2>3, Sending
<1>5. PICK w \in {0, 1} : Flag(writing' # NoId) = w /\ (w = 1 <=> writing' # NoId)
  BY DEF Flag
<1>6. ops' = (ops - 1) + w
  <2>1. ops' = (ops - 1) + w - 0
    BY <1>3, <1>4, <1>5 DEF Flag
  <2> QED
    BY <2>1 DEF IInv, Types
<1>7. Types'
  <2>1. ops' \in Int
    BY <1>6 DEF IInv, Types
  <2> QED
    BY <1>1, <1>2, <1>4, <2>1 DEF IInv, Types
<1>8. ReadCount' = ReadCount /\ WriteCount' = w
  <2>1. ReadCount' = ReadCount
    BY <1>1, <1>2 DEF ReadCount
  <2>2. WriteCount' = w + (WritesDone - 1)
    BY <1>1, <1>5 DEF WriteCount
  <2> QED
    BY <1>3, <2>1, <2>2
<1>9. /\ ReceivesDue' = ReceivesDue /\ StopsDue' = StopsDue
      /\ \A i \in Ids : FramesDue(i)' = FramesDue(i)
  BY <1>2, SameTallies
<1>10. Counted'
  <2>1. /\ ReadCount \in Nat /\ ReceivesDue \in Nat
        /\ Flag(io = "dead") \in {0, 1} /\ ops = ReadCount + 1 + Flag(io = "dead")
    BY <1>3, Sizes DEF IInv, Counted
  <2>2. ops' = ReadCount + w + Flag(io = "dead")
    BY <1>6, <2>1
  <2>3. w <= Flag(~writeFailed) /\ (isSending' <=> writeFailed \/ w = 1)
    BY <1>3, <1>4, <1>5 DEF Flag
  <2> QED
    BY <1>2, <1>8, <1>9, <2>1, <2>2, <2>3, CountedStep DEF IInv, Counted
<1>11. Frames'
  <2>1. ASSUME NEW i \in Ids PROVE FrameKept(i)'
    <3>1. PICK c \in Nat, v \in {0, 1} : /\ Count(queue', {i}) = c /\ Flag(writing' = i) = v
                                         /\ c + v = Count(queue, {i}) + Flag(writing = i)
      BY <1>4, CountFinite DEF Flag
    <3>2. Place(i)' = FramesDue(i) + c + v + Count(wire, {i}) + Count(answers, {i}) + AnswersDone(i)
      BY <1>1, <1>2, <1>9, <3>1, PlaceStep
    <3>3. /\ Flag(writing = i) \in {0, 1} /\ FramesDue(i) \in Nat /\ Count(queue, {i}) \in Nat
          /\ Count(wire, {i}) \in Nat /\ Count(answers, {i}) \in Nat /\ AnswersDone(i) \in Nat
      BY Numbers DEF IInv, Natural, Flag
    <3>4. Place(i)' = Place(i)
      BY <3>1, <3>2, <3>3 DEF Place
    <3>5. Expected(i)' => Expected(i)
      BY <1>2 DEF Expected
    <3> QED
      BY <1>2, <3>4, <3>5, FrameSame DEF IInv, Frames
  <2> QED
    BY <1>2, <2>1 DEF IInv, Frames
<1>12. Shutdown'
  <2>1. WriteCount # 0
    BY <1>3
  <2> QED
    BY <1>2, <1>9, <2>1, HandlerShutdown DEF IInv
<1> QED
  BY <1>7, <1>10, <1>11, <1>12 DEF IInv

\* connect() begins, or the network refuses.
LEMMA ConnectingKeeps ==
    ASSUME IInv, ConnectBegin \/ ConnectRefused
    PROVE  IInv'
<1>1. /\ UNCHANGED <<connected, tasks, completions, io, open, conn, reading, writing, isSending, queue,
                     ops, stopped, status, registered, call, round, userCloses, lost, wire, answers,
                     refused, writeFailed>>
      /\ owner' \in {"connecting", "free"} /\ owner \in {"connecting", "free"}
  BY DEF ConnectBegin, ConnectRefused, strandVars, socketVars, sendVars, storeVars, peerVars, history
<1>2. Types'
  BY <1>1 DEF IInv, Types
<1>3. /\ ReadCount' = ReadCount /\ WriteCount' = WriteCount
      /\ ReceivesDue' = ReceivesDue /\ StopsDue' = StopsDue
      /\ \A i \in Ids : FramesDue(i)' = FramesDue(i)
      /\ \A i \in Ids : AnswersDone(i)' = AnswersDone(i)
  BY <1>1, SameTallies DEF ReadCount, WriteCount
<1>4. Counted'
  BY <1>1, <1>3, SameCounted DEF IInv
<1>5. Frames'
  BY <1>1, <1>3, SameFrames DEF IInv, Expected
<1>6. Shutdown'
  BY <1>1, <1>3, UsedShutdown DEF IInv, Leaving
<1> QED
  BY <1>2, <1>4, <1>5, <1>6 DEF IInv

\* connect() has opened the socket.
LEMMA ConnectOpensKeeps ==
    ASSUME IInv, ConnectOpens
    PROVE  IInv'
<1>1. /\ UNCHANGED <<connected, tasks, completions, io, reading, writing, isSending, queue,
                     ops, stopped, status, registered, call, round, userCloses, wire, answers,
                     refused, writeFailed>>
      /\ owner' = "opened" /\ owner = "connecting" /\ open' = TRUE /\ conn' = conn + 1 /\ lost' = FALSE
  BY DEF ConnectOpens, strandVars, sendVars, storeVars, history
<1>2. Types'
  <2>1. conn \in Nat
    BY DEF IInv, Types
  <2>2. conn' \in Nat
    BY <1>1, <2>1
  <2>3. open' \in BOOLEAN /\ lost' \in BOOLEAN
    BY <1>1
  <2> QED
    BY <1>1, <2>2, <2>3 DEF IInv, Types
<1>3. /\ ReadCount' = ReadCount /\ WriteCount' = WriteCount
      /\ ReceivesDue' = ReceivesDue /\ StopsDue' = StopsDue
      /\ \A i \in Ids : FramesDue(i)' = FramesDue(i)
      /\ \A i \in Ids : AnswersDone(i)' = AnswersDone(i)
  BY <1>1, SameTallies DEF ReadCount, WriteCount
<1>4. Counted'
  <2>1. /\ ReadCount \in Nat /\ WriteCount \in {0, 1} /\ ReceivesDue \in Nat /\ conn \in Nat
    BY Sizes DEF IInv, Types
  <2>2. Flag(owner' = "opened") = 1 /\ Flag(owner = "opened") = 0
    BY <1>1 DEF Flag
  <2>3. ReadCount + ReceivesDue + 1 <= conn + 1
    BY <2>1, <2>2 DEF IInv, Counted
  <2> QED
    BY <1>1, <1>3, <2>1, <2>2, <2>3, CountedStep DEF IInv, Counted
<1>5. Frames'
  <2>1. conn \in Nat /\ ~(conn' = 0)
    BY <1>1 DEF IInv, Types
  <2>2. ASSUME NEW i \in Ids PROVE FrameKept(i)'
    <3>1. Place(i)' = Place(i)
      BY <1>1, <1>3 DEF Place
    <3>2. FrameKept(i)
      BY DEF IInv, Frames
    <3>3. ~Expected(i)'
      <4>1. conn' = 1 => conn = 0
        BY <1>1, <2>1
      <4> QED
        BY <1>1, <3>2, <4>1 DEF FrameKept, Expected
    <3> QED
      BY <1>1, <2>1, <3>1, <3>2, <3>3 DEF FrameKept
  <2> QED
    BY <2>1, <2>2 DEF Frames
<1>6. Shutdown'
  BY <1>1, <1>3, UsedShutdown DEF IInv, Leaving
<1> QED
  BY <1>2, <1>4, <1>5, <1>6 DEF IInv

\* connect() returns: its receive task is posted.
LEMMA ConnectReturnsKeeps ==
    ASSUME IInv, ConnectReturns
    PROVE  IInv'
<1>1. /\ UNCHANGED <<completions, io, open, conn, reading, writing, isSending, queue,
                     ops, stopped, status, registered, call, round, userCloses, lost, wire, answers,
                     refused, writeFailed>>
      /\ owner' = "free" /\ owner = "opened" /\ connected' = TRUE
  BY DEF ConnectReturns, socketVars, sendVars, storeVars, peerVars, history
<1>2. /\ tasks' \in Seq(Tasks)
      /\ ReceivesDue' = ReceivesDue + 1 /\ StopsDue' = StopsDue
      /\ \A i \in Ids : FramesDue(i)' = FramesDue(i)
  <2>1. Post("receive")
    BY DEF ConnectReturns
  <2>2. /\ tasks' \in Seq(Tasks)
        /\ ReceivesDue' = ReceivesDue + Flag("receive" = "receive")
        /\ StopsDue' = StopsDue + Flag("receive" = "stop")
        /\ \A i \in Ids : FramesDue(i)' = FramesDue(i)
    BY <2>1, Posting DEF IInv
  <2>3. ReceivesDue \in Nat /\ StopsDue \in Nat
    BY Numbers DEF IInv, Natural
  <2> QED
    BY <2>2, <2>3 DEF Flag
<1>3. Types'
  <2>1. connected' \in BOOLEAN
    BY <1>1
  <2> QED
    BY <1>1, <1>2, <2>1 DEF IInv, Types
<1>4. /\ ReadCount' = ReadCount /\ WriteCount' = WriteCount
      /\ \A i \in Ids : AnswersDone(i)' = AnswersDone(i)
  BY <1>1, SameTallies DEF ReadCount, WriteCount
<1>5. Counted' /\ conn # 0
  <2>1. /\ ReadCount \in Nat /\ WriteCount \in {0, 1} /\ ReceivesDue \in Nat /\ conn \in Nat
    BY Sizes DEF IInv, Types
  <2>2. Flag(owner' = "opened") = 0 /\ Flag(owner = "opened") = 1
    BY <1>1 DEF Flag
  <2>3. ReadCount + ReceivesDue + 1 <= conn
    BY <2>1, <2>2 DEF IInv, Counted
  <2>4. ReadCount + (ReceivesDue + 1) + 0 <= conn /\ conn # 0 /\ ReceivesDue + 1 \in Nat
    BY <2>1, <2>3
  <2> QED
    BY <1>1, <1>2, <1>4, <2>1, <2>2, <2>4, CountedStep DEF IInv, Counted
<1>6. Frames'
  <2>1. ASSUME NEW i \in Ids PROVE FrameKept(i)'
    <3>1. Place(i)' = Place(i)
      BY <1>1, <1>2, <1>4 DEF Place
    <3>2. Expected(i)' => Expected(i)
      BY <1>1 DEF Expected
    <3> QED
      BY <1>1, <3>1, <3>2, FrameSame DEF IInv, Frames
  <2> QED
    BY <1>1, <1>5, <2>1 DEF Frames
<1>7. Shutdown'
  BY <1>1, <1>2, UsedShutdown DEF IInv, Leaving
<1> QED
  BY <1>3, <1>5, <1>6, <1>7 DEF IInv

\* The user disconnects.
LEMMA DisconnectKeeps ==
    ASSUME IInv, Disconnect
    PROVE  IInv'
<1>1. /\ UNCHANGED <<connected, completions, io, open, conn, reading, writing, isSending, queue,
                     ops, stopped, status, registered, call, owner, round, lost, wire, answers,
                     refused, writeFailed>>
      /\ owner = "free" /\ userCloses' = userCloses + 1
  BY DEF Disconnect, socketVars, sendVars, storeVars, peerVars, history
<1>2. /\ tasks' \in Seq(Tasks) /\ ReceivesDue' = ReceivesDue /\ StopsDue' = StopsDue
      /\ \A i \in Ids : FramesDue(i)' = FramesDue(i)
  BY PostingDisconnect DEF IInv, Disconnect
<1>3. Types'
  <2>1. userCloses' \in Nat
    BY <1>1 DEF IInv, Types
  <2> QED
    BY <1>1, <1>2, <2>1 DEF IInv, Types
<1>4. /\ ReadCount' = ReadCount /\ WriteCount' = WriteCount
      /\ \A i \in Ids : AnswersDone(i)' = AnswersDone(i)
  BY <1>1, SameTallies DEF ReadCount, WriteCount
<1>5. Counted'
  BY <1>1, <1>2, <1>4, SameCounted DEF IInv
<1>6. Frames'
  BY <1>1, <1>2, <1>4, SameFrames DEF IInv, Expected
<1>7. Shutdown'
  BY <1>1, <1>2, UsedShutdown DEF IInv, Leaving
<1> QED
  BY <1>3, <1>5, <1>6, <1>7 DEF IInv

\* A stop is posted.
LEMMA PostingStop ==
    ASSUME Types, Post("stop")
    PROVE  /\ tasks' \in Seq(Tasks) /\ ReceivesDue' = ReceivesDue /\ StopsDue' = StopsDue + 1
           /\ \A i \in Ids : FramesDue(i)' = FramesDue(i)
<1>1. /\ tasks' \in Seq(Tasks)
      /\ ReceivesDue' = ReceivesDue + Flag("stop" = "receive")
      /\ StopsDue' = StopsDue + Flag("stop" = "stop")
      /\ \A i \in Ids : FramesDue(i)' = FramesDue(i)
  BY Posting
<1>2. ReceivesDue \in Nat /\ StopsDue \in Nat
  BY Numbers DEF Natural
<1> QED
  BY <1>1, <1>2 DEF Flag

\* The owner stops the client and begins to wait.
LEMMA StopKeeps ==
    ASSUME IInv, Stop
    PROVE  IInv'
<1>1. /\ UNCHANGED <<connected, completions, io, open, conn, reading, writing, isSending, queue,
                     ops, stopped, status, registered, call, userCloses, lost, wire, answers,
                     refused, writeFailed>>
      /\ owner = "free" /\ owner' = "stop_posted" /\ round' = round + 1
      /\ \A i \in Ids : ~InCall(i)
  BY DEF Stop, socketVars, sendVars, storeVars, peerVars, history
<1>2. /\ tasks' \in Seq(Tasks) /\ ReceivesDue' = ReceivesDue /\ StopsDue' = StopsDue + 1
      /\ \A i \in Ids : FramesDue(i)' = FramesDue(i)
  BY PostingStop DEF IInv, Stop
<1>3. round = 0 /\ StopsDue = 0
  BY <1>1 DEF IInv, Shutdown, Leaving, Flag
<1>4. Types'
  <2>1. round' \in Nat
    BY <1>1, <1>3
  <2> QED
    BY <1>1, <1>2, <2>1 DEF IInv, Types
<1>5. /\ ReadCount' = ReadCount /\ WriteCount' = WriteCount
      /\ \A i \in Ids : AnswersDone(i)' = AnswersDone(i)
  BY <1>1, SameTallies DEF ReadCount, WriteCount
<1>6. Counted'
  BY <1>1, <1>2, <1>5, SameCounted DEF IInv
<1>7. Frames'
  BY <1>1, <1>2, <1>5, SameFrames DEF IInv, Expected
<1>8. Shutdown'
  <2>1. round' = 1 /\ StopsDue' = 1
    BY <1>1, <1>2, <1>3
  <2> QED
    BY <1>1, <2>1 DEF Shutdown, Leaving, InCall, Flag
<1> QED
  BY <1>4, <1>6, <1>7, <1>8 DEF IInv

\* The owner saw the counter at zero: another round, or the destruction.
LEMMA DrainedKeeps ==
    ASSUME IInv, Drained
    PROVE  IInv'
<1>1. /\ UNCHANGED <<connected, completions, io, open, conn, reading, writing, isSending, queue,
                     ops, stopped, status, registered, call, userCloses, lost, wire, answers,
                     refused, writeFailed>>
      /\ owner = "draining" /\ ops = 0
  BY DEF Drained, socketVars, sendVars, storeVars, peerVars, history
<1>2. /\ ReadCount' = ReadCount /\ WriteCount' = WriteCount
      /\ \A i \in Ids : AnswersDone(i)' = AnswersDone(i)
  BY <1>1, SameTallies DEF ReadCount, WriteCount
<1>3. ReadCount = 0 /\ WriteCount = 0
  <2>1. ReadCount \in Nat /\ WriteCount \in {0, 1} /\ Flag(io = "dead") \in {0, 1}
    BY Sizes DEF IInv
  <2>2. PICK f \in {0, 1} : f = Flag(io = "dead")
    BY <2>1
  <2>3. ReadCount + WriteCount + f = 0
    BY <1>1, <2>2 DEF IInv, Counted
  <2> QED
    BY <2>1, <2>3
<1>4. StopsDue = 0 /\ stopped /\ \A i \in Ids : ~InCall(i)
  BY <1>1 DEF IInv, Shutdown, Leaving, Flag
<1>5. CASE round < StopRounds
  <2>1. owner' = "stop_posted" /\ round' = round + 1 /\ Post("stop")
    BY <1>5 DEF Drained
  <2>2. /\ tasks' \in Seq(Tasks) /\ ReceivesDue' = ReceivesDue /\ StopsDue' = StopsDue + 1
        /\ \A i \in Ids : FramesDue(i)' = FramesDue(i)
    BY <2>1, PostingStop DEF IInv
  <2>3. Types'
    <3>1. round \in Nat
      BY DEF IInv, Types
    <3>2. round' \in Nat
      BY <2>1, <3>1
    <3> QED
      BY <1>1, <2>1, <2>2, <3>2 DEF IInv, Types
  <2>4. Counted'
    BY <1>1, <1>2, <2>1, <2>2, SameCounted DEF IInv
  <2>5. Frames'
    BY <1>1, <1>2, <2>2, SameFrames DEF IInv, Expected
  <2>6. \A k \in DOMAIN tasks' : tasks'[k] \in Stops => k = Len(tasks')
    <3>1. tasks \in Seq(Tasks) /\ tasks' = Append(tasks, Task("stop")) /\ Task("stop") \in Tasks
      BY <2>1, TaskInSet DEF IInv, Types, Post
    <3>2. \A k \in DOMAIN tasks : tasks[k] \notin Stops
      BY <1>4, <3>1, CountZero DEF StopsDue
    <3> QED
      BY <3>1, <3>2
  <2>7. Shutdown'
    <3>1. Quiet'
      BY <1>1, <1>2, <1>3, <1>4, <2>1, <2>6 DEF Quiet
    <3>2. StopsDue' = 1
      BY <1>4, <2>2
    <3> QED
      BY <1>1, <1>4, <2>1, <3>1, <3>2 DEF Shutdown, Leaving, InCall, Flag
  <2> QED
    BY <2>3, <2>4, <2>5, <2>7 DEF IInv
<1>6. CASE ~(round < StopRounds)
  <2>1. owner' = "destroyed" /\ UNCHANGED <<round, tasks>>
    BY <1>6 DEF Drained
  <2>2. /\ ReceivesDue' = ReceivesDue /\ StopsDue' = StopsDue
        /\ \A i \in Ids : FramesDue(i)' = FramesDue(i)
    BY <2>1, SameTallies
  <2>3. Types'
    BY <1>1, <2>1 DEF IInv, Types
  <2>4. Counted'
    BY <1>1, <1>2, <2>1, <2>2, SameCounted DEF IInv
  <2>5. Frames'
    BY <1>1, <1>2, <2>2, SameFrames DEF IInv, Expected
  <2>6. Shutdown'
    <3>1. round >= StopRounds
      BY <1>6, ClientAssumption DEF IInv, Types
    <3>2. round' >= 2 => Quiet'
      BY <1>1, <1>2, <2>1 DEF IInv, Shutdown, Quiet
    <3> QED
      BY <1>1, <1>4, <2>1, <2>2, <3>1, <3>2 DEF Shutdown, Leaving, InCall, Flag
  <2> QED
    BY <2>3, <2>4, <2>5, <2>6 DEF IInv
<1> QED
  BY <1>5, <1>6

\* A request's thread steps forward without posting anything.
LEMMA RequestStep ==
    ASSUME IInv, NEW i \in Ids, NEW c \in {"validated", "registered", "done"},
           UNCHANGED <<clientVars, tasks>>,
           status' \in [Ids -> {"unmade", "open", "answered", "DISCONNECTION", "delivered", "CANCEL"}],
           registered' \in SUBSET Ids,
           call' = [call EXCEPT ![i] = c],
           \A j \in Ids \ {i} : status'[j] = status[j],
           c = "done" \/ call[i] \in {"new", "validated"},
           conn # 0, ~Leaving
    PROVE  IInv'
<1>1. UNCHANGED <<connected, tasks, completions, io, open, conn, reading, writing, isSending, queue,
                  ops, stopped, owner, round, userCloses, lost, wire, answers, refused, writeFailed>>
  BY DEF clientVars, socketVars, sendVars, ownerVars, peerVars, history
<1>2. call' \in [Ids -> {"new", "validated", "registered", "awaiting", "polling", "done"}]
  BY DEF IInv, Types
<1>3. Types'
  BY <1>1, <1>2 DEF IInv, Types
<1>4. /\ ReadCount' = ReadCount /\ WriteCount' = WriteCount
      /\ ReceivesDue' = ReceivesDue /\ StopsDue' = StopsDue
      /\ \A j \in Ids : FramesDue(j)' = FramesDue(j)
      /\ \A j \in Ids : AnswersDone(j)' = AnswersDone(j)
  BY <1>1, SameTallies DEF ReadCount, WriteCount
<1>5. Counted'
  BY <1>1, <1>4, SameCounted DEF IInv
<1>6. Frames'
  <2>1. ASSUME NEW j \in Ids PROVE FrameKept(j)'
    <3>1. Place(j)' = Place(j)
      BY <1>1, <1>4 DEF Place
    <3>2. FrameKept(j)
      BY DEF IInv, Frames
    <3>3. CASE j # i
      <4>1. call'[j] = call[j] /\ status'[j] = status[j]
        BY <3>3 DEF IInv, Types
      <4> QED
        BY <1>1, <3>1, <3>2, <4>1 DEF FrameKept, Expected
    <3>4. CASE j = i
      <4>1. call'[i] = c
        BY DEF IInv, Types
      <4> QED
        BY <1>1, <3>1, <3>2, <3>4, <4>1 DEF FrameKept, Expected
    <3> QED
      BY <3>3, <3>4
  <2> QED
    BY <1>1, <2>1 DEF Frames
<1>7. Shutdown'
  <2>1. owner' \in {"free", "connecting", "opened"}
    BY <1>1 DEF IInv, Types, Leaving
  <2> QED
    BY <1>1, <1>4, <2>1, UsedShutdown DEF IInv
<1> QED
  BY <1>3, <1>5, <1>6, <1>7 DEF IInv

\* A thread inside a call: the client has been connected and is not being shut down.
LEMMA InUse ==
    ASSUME IInv, NEW i \in Ids
    PROVE  /\ InCall(i) => conn # 0 /\ ~Leaving
           /\ call[i] = "polling" => conn # 0
           /\ Using => ~Leaving
           /\ connected => conn # 0
  BY DEF IInv, Frames, FrameKept, Shutdown, InCall, Using, Leaving

\* A request is validated.
LEMMA ValidateKeeps ==
    ASSUME IInv, NEW i \in Ids, Validate(i)
    PROVE  IInv'
<1>1. /\ status' = status /\ registered' = registered /\ call' = [call EXCEPT ![i] = "validated"]
      /\ UNCHANGED <<clientVars, tasks>> /\ call[i] = "new" /\ conn # 0 /\ ~Leaving
  BY InUse DEF Validate
<1>2. /\ status' \in [Ids -> {"unmade", "open", "answered", "DISCONNECTION", "delivered", "CANCEL"}]
      /\ registered' \in SUBSET Ids
  BY <1>1 DEF IInv, Types
<1> QED
  BY <1>1, <1>2, RequestStep

\* A request is registered.
LEMMA RegisterKeeps ==
    ASSUME IInv, NEW i \in Ids, Register(i)
    PROVE  IInv'
<1>1. /\ status' = [status EXCEPT ![i] = "open"] /\ registered' = registered \cup {i}
      /\ call' = [call EXCEPT ![i] = "registered"]
      /\ UNCHANGED <<clientVars, tasks>> /\ call[i] = "validated" /\ conn # 0 /\ ~Leaving
  BY InUse DEF Register, InCall
<1>2. /\ status' \in [Ids -> {"unmade", "open", "answered", "DISCONNECTION", "delivered", "CANCEL"}]
      /\ registered' \in SUBSET Ids
      /\ \A j \in Ids \ {i} : status'[j] = status[j]
  BY <1>1 DEF IInv, Types
<1> QED
  BY <1>1, <1>2, RequestStep

\* A request's thread takes its result.
LEMMA ConcludeKeeps ==
    ASSUME IInv, NEW i \in Ids, Collect(i) \/ AwaitTimeout(i)
    PROVE  IInv'
<1>1. /\ registered' = registered \ {i} /\ call' = [call EXCEPT ![i] = "done"]
      /\ UNCHANGED <<clientVars, tasks>> /\ conn # 0 /\ ~Leaving
  BY InUse DEF Collect, AwaitTimeout, Conclude, InCall
<1>2. /\ status' \in [Ids -> {"unmade", "open", "answered", "DISCONNECTION", "delivered", "CANCEL"}]
      /\ \A j \in Ids \ {i} : status'[j] = status[j]
  BY DEF IInv, Types, Collect, AwaitTimeout
<1>3. registered' \in SUBSET Ids
  BY <1>1 DEF IInv, Types
<1> QED
  BY <1>1, <1>2, <1>3, RequestStep

\* A request's frame is posted to the strand.
LEMMA PostRequestKeeps ==
    ASSUME IInv, NEW i \in Ids, PostRequest(i)
    PROVE  IInv'
<1> DEFINE t == [Task("enqueue") EXCEPT !.id = i]
<1>1. /\ UNCHANGED <<connected, completions, io, open, conn, reading, writing, isSending, queue,
                     ops, stopped, status, registered, owner, round, userCloses, lost, wire, answers,
                     refused, writeFailed>>
      /\ call[i] = "registered" /\ tasks' = Append(tasks, t)
  BY DEF PostRequest, clientVars, socketVars, sendVars, ownerVars, peerVars, history
<1>2. PICK next \in {"awaiting", "polling"} : call' = [call EXCEPT ![i] = next]
  BY DEF PostRequest
<1>3. /\ t \in Tasks /\ t \notin Receives /\ t \notin Stops
      /\ \A j \in Ids : t \in TasksOf(j) <=> j = i
  BY TaskInSet
<1> HIDE DEF t
<1>4. /\ tasks' \in Seq(Tasks) /\ ReceivesDue' = ReceivesDue /\ StopsDue' = StopsDue
      /\ \A j \in Ids : FramesDue(j)' = IF j = i THEN FramesDue(j) + 1 ELSE FramesDue(j)
  <2>1. tasks \in Seq(Tasks)
    BY DEF IInv, Types
  <2>2. ASSUME NEW P
        PROVE  Count(tasks', P) = Count(tasks, P) + Weight(t, P) /\ Count(tasks, P) \in Nat
    BY <1>1, <1>3, <2>1, CountAppend, CountFinite
  <2>3. ReceivesDue' = ReceivesDue /\ StopsDue' = StopsDue
    BY <1>3, <2>2 DEF Weight, ReceivesDue, StopsDue
  <2>4. \A j \in Ids : FramesDue(j)' = IF j = i THEN FramesDue(j) + 1 ELSE FramesDue(j)
    BY <1>3, <2>2 DEF Weight, FramesDue
  <2> QED
    BY <1>1, <1>3, <2>1, <2>3, <2>4
<1>5. Types'
  <2>1. call' \in [Ids -> {"new", "validated", "registered", "awaiting", "polling", "done"}]
    BY <1>2 DEF IInv, Types
  <2> QED
    BY <1>1, <1>4, <2>1 DEF IInv, Types
<1>6. /\ ReadCount' = ReadCount /\ WriteCount' = WriteCount
      /\ \A j \in Ids : AnswersDone(j)' = AnswersDone(j)
  BY <1>1, SameTallies DEF ReadCount, WriteCount
<1>7. conn # 0 /\ ~Leaving
  BY <1>1, InUse DEF InCall
<1>8. Counted'
  BY <1>1, <1>4, <1>6, SameCounted DEF IInv
<1>9. Frames'
  <2>1. ASSUME NEW j \in Ids PROVE FrameKept(j)'
    <3>1. FrameKept(j)
      BY DEF IInv, Frames
    <3>2. CASE j # i
      <4>1. call'[j] = call[j]
        BY <1>2, <3>2 DEF IInv, Types
      <4>2. Place(j)' = Place(j)
        BY <1>1, <1>4, <1>6, <3>2 DEF Place
      <4> QED
        BY <1>1, <3>1, <4>1, <4>2 DEF FrameKept, Expected
    <3>3. CASE j = i
      <4>1. call'[i] \in {"awaiting", "polling"}
        BY <1>2 DEF IInv, Types
      <4>2. /\ FramesDue(i) \in Nat /\ Count(queue, {i}) \in Nat /\ Flag(writing = i) \in {0, 1}
            /\ Count(wire, {i}) \in Nat /\ Count(answers, {i}) \in Nat /\ AnswersDone(i) \in Nat
        BY Numbers DEF IInv, Natural, Flag
      <4>3. Place(i)' = (FramesDue(i) + 1) + Count(queue, {i}) + Flag(writing = i) + Count(wire, {i})
                        + Count(answers, {i}) + AnswersDone(i)
        BY <1>1, <1>4, <1>6, PlaceStep
      <4>4. FramesDue(i) + Count(queue, {i}) + Flag(writing = i) + Count(wire, {i})
                + Count(answers, {i}) + AnswersDone(i) = 0
        BY <1>1, <3>1, <3>3 DEF FrameKept, Place
      <4>5. Place(i)' = 1
        BY <4>2, <4>3, <4>4
      <4> QED
        BY <1>1, <1>7, <3>3, <4>1, <4>5 DEF FrameKept
    <3> QED
      BY <3>2, <3>3
  <2> QED
    BY <1>1, <1>7, <2>1 DEF Frames
<1>10. Shutdown'
  <2>1. owner' \in {"free", "connecting", "opened"}
    BY <1>1, <1>7 DEF IInv, Types, Leaving
  <2> QED
    BY <1>1, <1>4, <1>7, <2>1, UsedShutdown DEF IInv
<1> QED
  BY <1>5, <1>8, <1>9, <1>10 DEF IInv

\* An event of the socket or of the peer: it moves frames, and the handlers it
\* adds stand for the operations it ends.
LEMMA SocketStep ==
    ASSUME IInv, UNCHANGED localVars,
           completions' \in Seq(Handlers), reading' \in Nat, writing' \in Ids \cup {NoId},
           lost' \in BOOLEAN, wire' \in Seq(Ids), answers' \in Seq(Ids),
           ReadCount' = ReadCount, WriteCount' = WriteCount,
           \A i \in Ids : FrameKept(i)'
    PROVE  IInv'
<1>1. UNCHANGED <<connected, tasks, io, open, conn, isSending, queue, ops, stopped, status, registered,
                  call, owner, round, userCloses, refused, writeFailed>>
  BY DEF localVars, sendVars, storeVars, ownerVars, history
<1>2. Types'
  BY <1>1 DEF IInv, Types
<1>3. Counted'
  BY <1>1, SameTallies, SameCounted DEF IInv
<1>4. Frames'
  BY <1>1 DEF IInv, Frames
<1>5. Shutdown'
  BY <1>1, SameShutdown DEF IInv, InCall
<1> QED
  BY <1>2, <1>3, <1>4, <1>5 DEF IInv

\* The server answers a request it received.
LEMMA AnswerKeeps ==
    ASSUME IInv, Answer
    PROVE  IInv'
<1>1. /\ UNCHANGED localVars /\ UNCHANGED <<reading, writing, completions, lost>>
      /\ wire # <<>> /\ wire' = Tail(wire) /\ answers' = Append(answers, Head(wire))
  BY DEF Answer
<1>2. wire \in Seq(Ids) /\ answers \in Seq(Ids) /\ Head(wire) \in Ids
  BY <1>1 DEF IInv, Types
<1>3. wire' \in Seq(Ids) /\ answers' \in Seq(Ids)
  BY <1>1, <1>2
<1>4. UNCHANGED <<tasks, queue, conn, call, open, stopped, writeFailed, io, status, refused>>
  BY <1>1 DEF localVars, sendVars, storeVars, history
<1>5. ASSUME NEW i \in Ids PROVE FrameKept(i)'
  <2>1. /\ Count(wire, {i}) = Count(wire', {i}) + Weight(Head(wire), {i})
        /\ Count(answers', {i}) = Count(answers, {i}) + Weight(Head(wire), {i})
    BY <1>1, <1>2, CountTail, CountAppend
  <2>2. /\ Count(wire', {i}) \in Nat /\ Count(answers, {i}) \in Nat /\ Weight(Head(wire), {i}) \in {0, 1}
    BY <1>2, <1>3, CountFinite DEF Weight
  <2>3. PICK s \in Nat, u \in {0, 1} : s = Count(wire', {i}) /\ u = Weight(Head(wire), {i})
    BY <2>2
  <2>4. Place(i)' = FramesDue(i) + Count(queue, {i}) + Flag(writing = i) + s
                    + (Count(answers, {i}) + u) + AnswersDone(i)
    BY <1>1, <1>4, <2>1, <2>3, SameTallies, PlaceStep
  <2>5. FramesDue(i) \in Nat /\ Count(queue, {i}) \in Nat /\ Flag(writing = i) \in {0, 1} /\ AnswersDone(i) \in Nat
    BY Numbers DEF IInv, Natural, Flag
  <2>6. Place(i)' = Place(i)
    BY <2>1, <2>2, <2>3, <2>4, <2>5 DEF Place
  <2> QED
    BY <1>1, <1>4, <2>6, FrameSame DEF IInv, Frames, Expected
<1>6. ReadCount' = ReadCount /\ WriteCount' = WriteCount
  BY <1>1, SameTallies DEF ReadCount, WriteCount
<1> QED
  BY <1>1, <1>3, <1>5, <1>6, SocketStep DEF IInv, Types

\* The server closes the connection.
LEMMA PeerClosesKeeps ==
    ASSUME IInv, PeerCloses
    PROVE  IInv'
<1>1. /\ UNCHANGED localVars /\ UNCHANGED <<reading, writing, completions, answers>>
      /\ wire' = <<>> /\ lost' = TRUE
  BY DEF PeerCloses
<1>2. UNCHANGED <<tasks, queue, conn, call>>
  BY <1>1 DEF localVars, sendVars, storeVars
<1>3. wire' \in Seq(Ids) /\ lost' \in BOOLEAN
  BY <1>1
<1>4. Types'
  BY <1>1, <1>3 DEF IInv, Types, localVars, sendVars, storeVars, ownerVars, history
<1>5. ASSUME NEW i \in Ids PROVE FrameKept(i)'
  <2>1. ~Expected(i)' /\ FrameKept(i)
    BY <1>1 DEF IInv, Frames, Expected
  <2> QED
    BY <1>1, <1>2, <1>4, <2>1, SameTallies, FrameLess DEF IInv
<1>6. ReadCount' = ReadCount /\ WriteCount' = WriteCount
  BY <1>1, SameTallies DEF ReadCount, WriteCount
<1> QED
  BY <1>1, <1>3, <1>5, <1>6, SocketStep DEF IInv, Types

\* An outstanding write becomes a handler.
LEMMA WriteOver ==
    ASSUME Types, NEW result \in {"ok", "error"}, writing # NoId, writing' = NoId, reading' = reading,
           completions' = Append(completions, Handler("write", result, NoId))
    PROVE  /\ completions' \in Seq(Handlers) /\ ReadCount' = ReadCount /\ WriteCount' = WriteCount
           /\ \A i \in Ids : AnswersDone(i)' = AnswersDone(i)
<1>1. /\ completions' \in Seq(Handlers)
      /\ ReadsDone' = ReadsDone + Flag("write" = "read")
      /\ WritesDone' = WritesDone + Flag("write" = "write")
      /\ \A i \in Ids : AnswersDone(i)' = AnswersDone(i)
  BY Ending
<1>2. ReadsDone \in Nat /\ WritesDone \in Nat
  BY Numbers DEF Natural
<1>3. ReadsDone' = ReadsDone /\ WritesDone' = WritesDone + 1
  BY <1>1, <1>2 DEF Flag
<1>4. ReadCount' = ReadCount
  BY <1>3 DEF ReadCount
<1>5. WriteCount' = 0 + (WritesDone + 1)
  BY <1>3 DEF WriteCount, Flag
<1> QED
  BY <1>1, <1>2, <1>4, <1>5 DEF WriteCount, Flag

\* An outstanding read becomes a handler, without an answer.
LEMMA ReadOver ==
    ASSUME Types, NEW result \in {"closed", "error"}, reading > 0, reading' = reading - 1, writing' = writing,
           completions' = Append(completions, Handler("read", result, NoId))
    PROVE  /\ completions' \in Seq(Handlers) /\ reading' \in Nat
           /\ ReadCount' = ReadCount /\ WriteCount' = WriteCount
           /\ \A i \in Ids : AnswersDone(i)' = AnswersDone(i)
<1>1. /\ completions' \in Seq(Handlers)
      /\ ReadsDone' = ReadsDone + Flag("read" = "read")
      /\ WritesDone' = WritesDone + Flag("read" = "write")
      /\ \A i \in Ids : AnswersDone(i)' = AnswersDone(i)
  BY Ending
<1>2. ReadsDone \in Nat /\ WritesDone \in Nat /\ reading \in Nat
  BY Numbers DEF Natural, Types
<1>3. ReadsDone' = ReadsDone + 1 /\ WritesDone' = WritesDone
  BY <1>1, <1>2 DEF Flag
<1>4. WriteCount' = WriteCount
  BY <1>3 DEF WriteCount
<1>5. ReadCount' = (reading - 1) + (ReadsDone + 1)
  BY <1>3 DEF ReadCount
<1>6. reading - 1 \in Nat /\ ReadCount' = ReadCount
  BY <1>2, <1>5 DEF ReadCount
<1> QED
  BY <1>1, <1>4, <1>6

\* An outstanding read becomes a handler that carries the answer of `a'.
LEMMA ReadAnswered ==
    ASSUME Types, NEW a \in Ids, reading > 0, reading' = reading - 1, writing' = writing,
           completions' = Append(completions, Handler("read", "ok", a))
    PROVE  /\ completions' \in Seq(Handlers) /\ reading' \in Nat
           /\ ReadCount' = ReadCount /\ WriteCount' = WriteCount
           /\ \A i \in Ids : AnswersDone(i)' = AnswersDone(i) + Weight(a, {i})
<1> DEFINE h == Handler("read", "ok", a)
<1>1. /\ h \in Handlers /\ h \in Reads /\ h \notin Writes
      /\ \A i \in Ids : h \in HandlersFor(i) <=> i = a
  BY HandlerInSet
<1>2. completions \in Seq(Handlers) /\ reading \in Nat /\ completions' = Append(completions, h)
  BY DEF Types
<1> HIDE DEF h
<1>3. ASSUME NEW P
      PROVE  Count(completions', P) = Count(completions, P) + Weight(h, P) /\ Count(completions, P) \in Nat
  BY <1>1, <1>2, CountAppend, CountFinite
<1>4. ReadsDone' = ReadsDone + 1 /\ WritesDone' = WritesDone /\ ReadsDone \in Nat
  BY <1>1, <1>3 DEF Weight, ReadsDone, WritesDone
<1>5. \A i \in Ids : AnswersDone(i)' = AnswersDone(i) + Weight(a, {i})
  BY <1>1, <1>3 DEF Weight, AnswersDone
<1>6. WriteCount' = WriteCount
  BY <1>4 DEF WriteCount
<1>7. ReadCount' = (reading - 1) + (ReadsDone + 1)
  BY <1>4 DEF ReadCount
<1>8. reading - 1 \in Nat /\ ReadCount' = ReadCount
  BY <1>2, <1>4, <1>7 DEF ReadCount
<1>9. completions' \in Seq(Handlers)
  BY <1>1, <1>2
<1> QED
  BY <1>5, <1>6, <1>8, <1>9

\* A write outstanding on a closed socket ends with an error.
LEMMA WriteOnClosedKeeps ==
    ASSUME IInv, WriteOnClosed
    PROVE  IInv'
<1>1. /\ UNCHANGED localVars /\ UNCHANGED <<reading, lost, wire, answers>>
      /\ writing # NoId /\ ~open /\ writing' = NoId
      /\ completions' = Append(completions, Handler("write", "error", NoId))
  BY DEF WriteOnClosed, peerVars
<1>2. UNCHANGED <<tasks, queue, conn, call, open>>
  BY <1>1 DEF localVars, sendVars, storeVars
<1>3. /\ completions' \in Seq(Handlers) /\ ReadCount' = ReadCount /\ WriteCount' = WriteCount
      /\ \A i \in Ids : AnswersDone(i)' = AnswersDone(i)
  BY <1>1, WriteOver DEF IInv
<1>4. Types'
  BY <1>1, <1>3 DEF IInv, Types, localVars, sendVars, storeVars, ownerVars, history
<1>5. ASSUME NEW i \in Ids PROVE FrameKept(i)'
  <2>1. ~Expected(i)' /\ FrameKept(i)
    BY <1>1, <1>2 DEF IInv, Frames, Expected
  <2> QED
    BY <1>1, <1>2, <1>3, <1>4, <2>1, SameTallies, FrameLess DEF IInv
<1> QED
  BY <1>1, <1>3, <1>5, SocketStep DEF IInv, Types

\* A read outstanding on a closed socket ends with an error.
LEMMA ReadOnClosedKeeps ==
    ASSUME IInv, ReadOnClosed
    PROVE  IInv'
<1>1. /\ UNCHANGED localVars /\ UNCHANGED <<writing, lost, wire, answers>>
      /\ reading > 0 /\ reading' = reading - 1
      /\ completions' = Append(completions, Handler("read", "error", NoId))
  BY DEF ReadOnClosed, peerVars
<1>2. UNCHANGED <<tasks, queue, conn, call, open, stopped, writeFailed, io, status, refused>>
  BY <1>1 DEF localVars, sendVars, storeVars, history
<1>3. /\ completions' \in Seq(Handlers) /\ reading' \in Nat
      /\ ReadCount' = ReadCount /\ WriteCount' = WriteCount
      /\ \A i \in Ids : AnswersDone(i)' = AnswersDone(i)
  BY <1>1, ReadOver DEF IInv
<1>4. ASSUME NEW i \in Ids PROVE FrameKept(i)'
  <2>1. Place(i)' = Place(i)
    BY <1>1, <1>2, <1>3, SameTallies DEF Place
  <2> QED
    BY <1>1, <1>2, <2>1, FrameSame DEF IInv, Frames, Expected
<1> QED
  BY <1>1, <1>3, <1>4, SocketStep DEF IInv, Types

\* A write ends: its frame is on the wire, or the connection is lost.
LEMMA WriteEndsKeeps ==
    ASSUME IInv, WriteEnds
    PROVE  IInv'
<1>1. /\ UNCHANGED localVars /\ UNCHANGED <<reading, lost, answers>>
      /\ writing # NoId /\ writing' = NoId
  BY DEF WriteEnds
<1>2. UNCHANGED <<tasks, queue, conn, call, open, stopped, writeFailed, io, status, refused>>
  BY <1>1 DEF localVars, sendVars, storeVars, history
<1>3. PICK result \in {"ok", "error"} :
          /\ completions' = Append(completions, Handler("write", result, NoId))
          /\ IF lost THEN wire' = wire ELSE wire' = Append(wire, writing)
  BY DEF WriteEnds
<1>4. /\ completions' \in Seq(Handlers) /\ ReadCount' = ReadCount /\ WriteCount' = WriteCount
      /\ \A i \in Ids : AnswersDone(i)' = AnswersDone(i)
  BY <1>1, <1>3, WriteOver DEF IInv
<1>5. writing \in Ids /\ wire \in Seq(Ids) /\ wire' \in Seq(Ids)
  <2>1. writing \in Ids /\ wire \in Seq(Ids)
    BY <1>1 DEF IInv, Types
  <2>2. wire' = wire \/ wire' = Append(wire, writing)
    BY <1>3
  <2>3. Append(wire, writing) \in Seq(Ids)
    BY <2>1
  <2> QED
    BY <2>1, <2>2, <2>3
<1>6. Types'
  BY <1>1, <1>4, <1>5 DEF IInv, Types, localVars, sendVars, storeVars, ownerVars, history
<1>7. CASE lost
  <2>1. ASSUME NEW i \in Ids PROVE FrameKept(i)'
    <3>1. ~Expected(i)' /\ FrameKept(i)
      BY <1>1, <1>7 DEF IInv, Frames, Expected
    <3>2. wire' = wire
      BY <1>3, <1>7
    <3> QED
      BY <1>1, <1>2, <1>4, <1>6, <3>1, <3>2, SameTallies, FrameLess DEF IInv
  <2> QED
    BY <1>1, <1>4, <1>5, <2>1, SocketStep DEF IInv, Types
<1>8. CASE ~lost
  <2>1. ASSUME NEW i \in Ids PROVE FrameKept(i)'
    <3>1. PICK u \in {0, 1} : u = Flag(writing = i)
      BY DEF Flag
    <3>2. Count(wire', {i}) = Count(wire, {i}) + u
      <4>1. Count(wire', {i}) = Count(wire, {i}) + Weight(writing, {i})
        BY <1>3, <1>5, <1>8, CountAppend
      <4> QED
        BY <3>1, <4>1 DEF Weight, Flag
    <3>3. Flag(writing' = i) = 0
      BY <1>1, ClientAssumption DEF Flag
    <3>4. Place(i)' = FramesDue(i) + Count(queue, {i}) + 0 + (Count(wire, {i}) + u)
                      + Count(answers, {i}) + AnswersDone(i)
      BY <1>1, <1>2, <1>4, <3>2, <3>3, SameTallies, PlaceStep
    <3>5. /\ FramesDue(i) \in Nat /\ Count(queue, {i}) \in Nat /\ Count(wire, {i}) \in Nat
          /\ Count(answers, {i}) \in Nat /\ AnswersDone(i) \in Nat
      BY Numbers DEF IInv, Natural
    <3>6. Place(i)' = Place(i)
      BY <3>1, <3>4, <3>5 DEF Place
    <3> QED
      BY <1>1, <1>2, <3>6, FrameSame DEF IInv, Frames, Expected
  <2> QED
    BY <1>1, <1>4, <1>5, <2>1, SocketStep DEF IInv, Types
<1> QED
  BY <1>7, <1>8

\* A read ends: with an answer, or with the end of the connection.
LEMMA ReadEndsKeeps ==
    ASSUME IInv, ReadEnds
    PROVE  IInv'
<1>1. /\ UNCHANGED localVars /\ UNCHANGED <<writing, lost, wire>>
      /\ reading > 0 /\ reading' = reading - 1
  BY DEF ReadEnds
<1>2. UNCHANGED <<tasks, queue, conn, call, open, stopped, writeFailed, io, status, refused>>
  BY <1>1 DEF localVars, sendVars, storeVars, history
<1>3. CASE /\ answers # <<>> /\ answers' = Tail(answers)
           /\ completions' = Append(completions, Handler("read", "ok", Head(answers)))
  <2> DEFINE a == Head(answers)
  <2>1. answers \in Seq(Ids) /\ a \in Ids /\ answers' \in Seq(Ids)
    BY <1>3 DEF IInv, Types
  <2>2. /\ completions' \in Seq(Handlers) /\ reading' \in Nat
        /\ ReadCount' = ReadCount /\ WriteCount' = WriteCount
        /\ \A i \in Ids : AnswersDone(i)' = AnswersDone(i) + Weight(a, {i})
    BY <1>1, <1>3, <2>1, ReadAnswered DEF IInv
  <2>3. ASSUME NEW i \in Ids PROVE FrameKept(i)'
    <3>1. Count(answers, {i}) = Count(answers', {i}) + Weight(a, {i})
      BY <1>3, <2>1, CountTail
    <3>2. PICK u \in {0, 1} : u = Weight(a, {i})
      BY DEF Weight
    <3>3. PICK n \in Nat : n = Count(answers', {i})
      BY <2>1, CountFinite
    <3>4. Place(i)' = FramesDue(i) + Count(queue, {i}) + Flag(writing = i) + Count(wire, {i})
                      + n + (AnswersDone(i) + u)
      BY <1>1, <1>2, <2>2, <3>2, <3>3, SameTallies, PlaceStep
    <3>5. /\ FramesDue(i) \in Nat /\ Count(queue, {i}) \in Nat /\ Count(wire, {i}) \in Nat
          /\ Flag(writing = i) \in {0, 1} /\ AnswersDone(i) \in Nat
      BY Numbers DEF IInv, Natural, Flag
    <3>6. Place(i)' = Place(i)
      BY <3>1, <3>2, <3>3, <3>4, <3>5 DEF Place
    <3> QED
      BY <1>1, <1>2, <3>6, FrameSame DEF IInv, Frames, Expected
  <2> QED
    BY <1>1, <2>1, <2>2, <2>3, SocketStep DEF IInv, Types
<1>4. CASE \E result \in {"closed", "error"} :
               /\ lost /\ answers' \in {answers, <<>>}
               /\ completions' = Append(completions, Handler("read", result, NoId))
  <2>1. /\ completions' \in Seq(Handlers) /\ reading' \in Nat
        /\ ReadCount' = ReadCount /\ WriteCount' = WriteCount
        /\ \A i \in Ids : AnswersDone(i)' = AnswersDone(i)
    BY <1>1, <1>4, ReadOver DEF IInv
  <2>2. answers' \in Seq(Ids) /\ lost = TRUE
    <3>1. answers \in Seq(Ids) /\ lost \in BOOLEAN
      BY DEF IInv, Types
    <3>2. <<>> \in Seq(Ids)
      OBVIOUS
    <3> QED
      BY <1>4, <3>1, <3>2
  <2>3. Types'
    BY <1>1, <2>1, <2>2 DEF IInv, Types, localVars, sendVars, storeVars, ownerVars, history
  <2>4. ASSUME NEW i \in Ids PROVE FrameKept(i)'
    <3>1. ~Expected(i)' /\ FrameKept(i)
      BY <1>1, <2>2 DEF IInv, Frames, Expected
    <3> QED
      BY <1>1, <1>2, <1>4, <2>1, <2>3, <3>1, SameTallies, FrameLess DEF IInv
  <2> QED
    BY <1>1, <2>1, <2>2, <2>4, SocketStep DEF IInv, Types
<1>5. \/ /\ answers # <<>> /\ answers' = Tail(answers)
         /\ completions' = Append(completions, Handler("read", "ok", Head(answers)))
      \/ \E result \in {"closed", "error"} :
             /\ lost /\ answers' \in {answers, <<>>}
             /\ completions' = Append(completions, Handler("read", result, NoId))
  BY DEF ReadEnds
<1> QED
  BY <1>3, <1>4, <1>5

-----------------------------------------------------------------------------

\* Nothing changes.
LEMMA StutterKeeps ==
    ASSUME IInv, UNCHANGED vars
    PROVE  IInv'
<1>1. UNCHANGED <<localVars, completions, reading, writing, lost, wire, answers>>
  BY DEF vars, localVars, strandVars, socketVars, sendVars, storeVars, ownerVars, peerVars, history
<1>2. UNCHANGED <<tasks, queue, conn, call, open, stopped, writeFailed, io, status, refused>>
  BY <1>1 DEF localVars, sendVars, storeVars, history
<1>3. ReadCount' = ReadCount /\ WriteCount' = WriteCount
  BY <1>1, SameTallies DEF ReadCount, WriteCount
<1>4. ASSUME NEW i \in Ids PROVE FrameKept(i)'
  <2>1. Place(i)' = Place(i)
    BY <1>1, <1>2, SameTallies DEF Place
  <2> QED
    BY <1>1, <1>2, <2>1, FrameSame DEF IInv, Frames, Expected
<1> QED
  BY <1>1, <1>3, <1>4, SocketStep DEF IInv, Types

\* The inductive invariant holds through every step.
LEMMA StepKeeps == IInv /\ [Next]_vars => IInv'
<1> SUFFICES ASSUME IInv, [Next]_vars PROVE IInv'
  OBVIOUS
<1>1. CASE RunTask
  BY <1>1, RunDisconnectKeeps, RunReceiveKeeps, RunEnqueueKeeps, RunStopKeeps DEF RunTask
<1>2. CASE RunHandler
  BY <1>2, ReadOkKeeps, ReadFailedKeeps, ReadAbortedKeeps, WriteOkKeeps, WriteFailedKeeps,
     WriteAbortedKeeps DEF RunHandler
<1>3. CASE Owner
  BY <1>3, ConnectingKeeps, ConnectOpensKeeps, ConnectReturnsKeeps, DisconnectKeeps, StopKeeps,
     DrainedKeeps DEF Owner
<1>4. CASE \E i \in Ids : Requester(i)
  BY <1>4, ValidateKeeps, RegisterKeeps, PostRequestKeeps, ConcludeKeeps DEF Requester
<1>5. CASE Socket
  BY <1>5, WriteEndsKeeps, ReadEndsKeeps, ReadOnClosedKeeps, WriteOnClosedKeeps DEF Socket
<1>6. CASE Answer \/ PeerCloses
  BY <1>6, AnswerKeeps, PeerClosesKeeps
<1>7. CASE UNCHANGED vars
  BY <1>7, StutterKeeps
<1> QED
  BY <1>1, <1>2, <1>3, <1>4, <1>5, <1>6, <1>7 DEF Next

\* The inductive invariant holds in every reachable state.
THEOREM Invariance == Spec => []IInv
<1> QED
  BY InitIInv, StepKeeps, PTL DEF Spec

-----------------------------------------------------------------------------
(* The properties the runs check.                                          *)

\* The counts of the properties are the tallies of the invariant.
LEMMA InFlight ==
    ASSUME Types
    PROVE  /\ ReadsInFlight = ReadCount /\ WritesInFlight = WriteCount
           /\ \A i \in Ids : PlacesOf(i) = Place(i)
<1>1. \A k \in DOMAIN completions : completions[k] \in Handlers
  BY DEF Types
<1>2. \A k \in DOMAIN tasks : tasks[k] \in Tasks
  BY DEF Types
<1>3. HandlersOf("read") = PlacesIn(completions, Reads) /\ HandlersOf("write") = PlacesIn(completions, Writes)
  BY <1>1 DEF HandlersOf, PlacesIn, Reads, Writes
<1>4. ReadsInFlight = ReadCount
  BY <1>3 DEF ReadsInFlight, ReadCount, ReadsDone, Count
<1>5. WritesInFlight = WriteCount
  BY <1>3 DEF WritesInFlight, WriteCount, WritesDone, Count, Flag
<1>6. ASSUME NEW i \in Ids PROVE PlacesOf(i) = Place(i)
  <2>1. {k \in DOMAIN tasks : tasks[k].id = i} = PlacesIn(tasks, TasksOf(i))
    BY <1>2 DEF PlacesIn, TasksOf
  <2>2. {k \in DOMAIN completions : completions[k].id = i} = PlacesIn(completions, HandlersFor(i))
    BY <1>1 DEF PlacesIn, HandlersFor
  <2>3. /\ {k \in DOMAIN queue : queue[k] = i} = PlacesIn(queue, {i})
        /\ {k \in DOMAIN wire : wire[k] = i} = PlacesIn(wire, {i})
        /\ {k \in DOMAIN answers : answers[k] = i} = PlacesIn(answers, {i})
    BY DEF PlacesIn
  <2> QED
    BY <2>1, <2>2, <2>3 DEF PlacesOf, Place, FramesDue, AnswersDone, Count, Flag
<1> QED
  BY <1>4, <1>5, <1>6

\* current_async_operations_running, on which the destructor waits, is exact.
THEOREM CounterIsExact == Spec => []OpsCounted
<1>1. IInv => OpsCounted
  BY InFlight DEF IInv, Counted, OpsCounted, Flag
<1> QED
  BY <1>1, Invariance, PTL

\* No two async_writes are outstanding at once, is_sending says whether one is,
\* and the first connection has one read at a time.
THEOREM SingleWriter == Spec => []OneAtATime
<1>1. IInv => OneAtATime
  <2> SUFFICES ASSUME IInv PROVE OneAtATime
    OBVIOUS
  <2>1. ReadsInFlight = ReadCount /\ WritesInFlight = WriteCount
    BY InFlight DEF IInv
  <2>2. WriteCount <= (IF writeFailed THEN 0 ELSE 1) /\ (isSending <=> writeFailed \/ WriteCount = 1)
    BY DEF IInv, Counted, Flag
  <2>3. conn <= 1 => ReadCount <= 1
    <3>1. ReadCount \in Nat /\ ReceivesDue \in Nat /\ Flag(owner = "opened") \in {0, 1} /\ conn \in Nat
      BY Sizes DEF IInv, Types
    <3>2. ReadCount + ReceivesDue + Flag(owner = "opened") <= conn
      BY DEF IInv, Counted
    <3>3. PICK f \in {0, 1} : f = Flag(owner = "opened")
      BY <3>1
    <3> QED
      BY <3>1, <3>2, <3>3
  <2> QED
    BY <2>1, <2>2, <2>3 DEF OneAtATime
<1> QED
  BY <1>1, Invariance, PTL

\* A frame is in one place at most, and the frame of an open request of the
\* first connection is in one place unless the full queue refused it.
THEOREM FramesAreKept == Spec => []FramesConserved
<1>1. IInv => FramesConserved
  BY InFlight DEF IInv, Frames, FrameKept, Expected, FramesConserved
<1> QED
  BY <1>1, Invariance, PTL

\* An owner that stops and waits at least twice destroys a client that nothing
\* uses any more.  With one round it does not: a run shows that.
THEOREM DestructionIsLast ==
    ASSUME StopRounds >= 2
    PROVE  Spec => []NothingAfterDestruction
<1>1. IInv => NothingAfterDestruction
  <2> SUFFICES ASSUME IInv, owner = "destroyed"
               PROVE  tasks = <<>> /\ completions = <<>> /\ reading = 0 /\ writing = NoId
    BY DEF NothingAfterDestruction
  <2>1. Quiet
    <3>1. round >= StopRounds /\ round \in Nat /\ StopRounds \in Nat
      BY ClientAssumption DEF IInv, Shutdown, Types
    <3>2. round >= 2
      BY <3>1
    <3> QED
      BY <3>2 DEF IInv, Shutdown
  <2>2. reading = 0 /\ ReadsDone = 0 /\ writing = NoId /\ WritesDone = 0
    <3>1. reading \in Nat /\ ReadsDone \in Nat /\ WritesDone \in Nat
      BY Numbers DEF IInv, Types, Natural
    <3> QED
      BY <2>1, <3>1 DEF Quiet, ReadCount, WriteCount, Flag
  <2>3. completions = <<>>
    <3>1. completions \in Seq(Handlers)
      BY DEF IInv, Types
    <3>2. \A k \in DOMAIN completions : completions[k] \notin Reads /\ completions[k] \notin Writes
      BY <2>2, <3>1, CountZero DEF ReadsDone, WritesDone
    <3>3. \A h \in Handlers : h \in Reads \/ h \in Writes
      BY DEF Handlers, Reads, Writes
    <3> QED
      BY <3>1, <3>2, <3>3
  <2> QED
    BY <2>1, <2>2, <2>3 DEF Quiet
<1> QED
  BY <1>1, Invariance, PTL

=============================================================================
