----------------------- MODULE PendingRequestsProofs -----------------------
(***************************************************************************)
(* PendingRequests keeps its types and IInv, for any numbers of ids,       *)
(* requests, threads and responses, and implements RequestContract.        *)
(***************************************************************************)
EXTENDS PendingRequests, TLAPS

-----------------------------------------------------------------------------
(* Types.                                                                  *)

LEMMA VerdictTypes ==
    /\ Blank \in Verdict
    /\ \A r \in Requests : \A what \in Verdicts : About(r, what) \in Verdict
  BY DEF Blank, About, Verdict, Verdicts, Failures

LEMMA ResultType ==
    ASSUME TypeOK, NEW r \in Requests, NEW readable \in BOOLEAN
    PROVE  Result(r, readable) \in Verdict
  BY VerdictTypes DEF TypeOK, Result, Verdict, Verdicts, About, Failures

LEMMA InitTypeOK == Init => TypeOK
  BY VerdictTypes DEF Init, TypeOK, PCs, Failures

LEMMA NextTypeOK == TypeOK /\ [Next]_vars => TypeOK'
<1> SUFFICES ASSUME TypeOK, [Next]_vars PROVE TypeOK'
  OBVIOUS
<1>1. CASE UNCHANGED vars
  BY <1>1 DEF vars, objVars, thrVars, TypeOK
<1>2. CASE Next
  <2> PICK t \in Threads : Call(t) \/ Continue(t)
    BY <1>2 DEF Next
  <2> USE PendingAssumption, VerdictTypes DEF TypeOK, PCs, Failures, Goto, objVars, thrVars
  <2>1. ASSUME NEW i \in Ids, AddRequest(t, i) PROVE TypeOK'
    BY <2>1 DEF AddRequest
  <2>2. ASSUME NEW i \in Ids, NEW v \in Responses, AddResponse(t, i, v) PROVE TypeOK'
    BY <2>2 DEF AddResponse, Find
  <2>3. ASSUME NEW i \in Ids, PopResponse(t, i) PROVE TypeOK'
    BY <2>3 DEF PopResponse, Find
  <2>4. ASSUME NEW i \in Ids, AwaitResponse(t, i) PROVE TypeOK'
    BY <2>4 DEF AwaitResponse, Find
  <2>5. CASE FailAll(t)
    BY <2>5 DEF FailAll
  <2>6. CASE EraseRequest(t)
    BY <2>6 DEF EraseRequest, Leave
  <2>7. CASE Return(t)
    BY <2>7 DEF Return, Leave
  <2>8. CASE FailNext(t)
    <3>1. PICK r \in batch[t] : /\ FailRequest(r, "DISCONNECTION")
                               /\ batch' = [batch EXCEPT ![t] = @ \ {r}]
      BY <2>8 DEF FailNext
    <3>2. failure' \in [Requests -> Failures \cup {"none"}]
      BY <3>1 DEF FailRequest
    <3>3. /\ promise' \in [Requests -> BOOLEAN]
          /\ future' \in [Requests -> {"unmade", "empty", "ready", "broken", "taken"}]
      BY <3>1 DEF FailRequest
    <3>4. batch' \in [Threads -> SUBSET Requests]
      BY <3>1
    <3>5. /\ pc' \in [Threads -> PCs]
          /\ \A u \in Threads : pc'[u] # pc[u] => pc'[u] = "idle"
      BY <2>8 DEF FailNext
    <3> QED
      BY <2>8, <3>2, <3>3, <3>4, <3>5 DEF FailNext
  <2>9. CASE SetResponse(t)
    <3>1. req[t] \in Requests /\ frame[t] \in Responses \cup {NoResponse}
      BY <2>9 DEF SetResponse
    <3>2. About(req[t], "rejected") \in Verdict /\ About(req[t], "accepted") \in Verdict
      BY <3>1 DEF About, Verdict, Verdicts
    <3>3. told' \in [Threads -> Verdict]
      BY <2>9, <3>2 DEF SetResponse
    <3>4. /\ promise' \in [Requests -> BOOLEAN]
          /\ future' \in [Requests -> {"unmade", "empty", "ready", "broken", "taken"}]
          /\ content' \in [Requests -> Responses \cup {NoResponse}]
      BY <2>9, <3>1 DEF SetResponse
    <3> QED
      BY <2>9, <3>3, <3>4 DEF SetResponse
  <2>10. CASE TryGet(t)
    BY <2>10, ResultType DEF TryGet, Take
  <2>11. CASE AwaitNothing(t)
    BY <2>11, ResultType DEF AwaitNothing
  <2>12. CASE AwaitRefused(t)
    BY <2>12 DEF AwaitRefused, Leave
  <2>13. CASE AwaitBegin(t)
    BY <2>13 DEF AwaitBegin
  <2>14. CASE Wake(t)
    BY <2>14 DEF Wake
  <2>15. CASE Timeout(t)
    BY <2>15 DEF Timeout
  <2>16. CASE Cancel(t)
    BY <2>16, ZenonT(40) DEF Cancel, FailRequest
  <2>17. CASE Finish(t)
    BY <2>17, ResultType DEF Finish, Take
  <2> QED
    BY <2>1, <2>2, <2>3, <2>4, <2>5, <2>6, <2>7, <2>8, <2>9, <2>10, <2>11,
       <2>12, <2>13, <2>14, <2>15, <2>16, <2>17 DEF Call, Continue
<1> QED
  BY <1>1, <1>2

\* Every variable stays in its type, and a call that goes on has found its
\* request.
THEOREM TypeCorrect == Spec => []TypeOK
<1>1. Init => TypeOK
  BY InitTypeOK
<1>2. TypeOK /\ [Next]_vars => TypeOK'
  BY NextTypeOK
<1> QED
  BY <1>1, <1>2, PTL DEF Spec

-----------------------------------------------------------------------------
(* The inductive invariant.                                                *)

LEMMA NextSettledOnce ==
    ASSUME TypeOK, TypeOK', SettledOnce, HoldsMade, [Next]_vars
    PROVE  SettledOnce'
<1> USE PendingAssumption DEF TypeOK, objVars, thrVars, Goto, SettledOnce, HoldsMade, Failures
<1>1. CASE UNCHANGED vars
  BY <1>1 DEF vars
<1>2. CASE Next
  <2> PICK t \in Threads : Call(t) \/ Continue(t)
    BY <1>2 DEF Next
  <2>1. ASSUME NEW i \in Ids, AddRequest(t, i) PROVE SettledOnce'
    BY <2>1 DEF AddRequest
  <2>2. ASSUME NEW i \in Ids, NEW v \in Responses, AddResponse(t, i, v) PROVE SettledOnce'
    BY <2>2 DEF AddResponse, Find
  <2>3. ASSUME NEW i \in Ids, PopResponse(t, i) PROVE SettledOnce'
    BY <2>3 DEF PopResponse, Find
  <2>4. ASSUME NEW i \in Ids, AwaitResponse(t, i) PROVE SettledOnce'
    BY <2>4 DEF AwaitResponse, Find
  <2>5. CASE FailAll(t)
    BY <2>5 DEF FailAll
  <2>6. CASE EraseRequest(t)
    BY <2>6 DEF EraseRequest, Leave
  <2>7. CASE Return(t)
    BY <2>7 DEF Return, Leave
  <2>8. CASE FailNext(t)
    BY <2>8 DEF FailNext, FailRequest, Closed
  <2>9. CASE SetResponse(t)
    BY <2>9 DEF SetResponse, Closed, About, Blank
  <2>10. CASE TryGet(t)
    BY <2>10 DEF TryGet, Take, Result, About, Blank
  <2>11. CASE AwaitNothing(t)
    BY <2>11 DEF AwaitNothing, Result, About, Blank
  <2>12. CASE AwaitRefused(t)
    BY <2>12 DEF AwaitRefused, Leave
  <2>13. CASE AwaitBegin(t)
    BY <2>13 DEF AwaitBegin
  <2>14. CASE Wake(t)
    BY <2>14 DEF Wake
  <2>15. CASE Timeout(t)
    BY <2>15 DEF Timeout
  <2>16. CASE Cancel(t)
    BY <2>16 DEF Cancel, FailRequest, Closed
  <2>17. CASE Finish(t)
    BY <2>17 DEF Finish, Take, Result, About, Blank
  <2> QED
    BY <2>1, <2>2, <2>3, <2>4, <2>5, <2>6, <2>7, <2>8, <2>9, <2>10, <2>11,
       <2>12, <2>13, <2>14, <2>15, <2>16, <2>17 DEF Call, Continue
<1> QED
  BY <1>1, <1>2

LEMMA NextHoldsMade ==
    ASSUME TypeOK, TypeOK', SettledOnce, HoldsMade, Outcomes, [Next]_vars
    PROVE  HoldsMade'
<1> USE PendingAssumption DEF TypeOK, objVars, thrVars, Goto, HoldsMade, Outcomes, SettledOnce
<1>1. CASE UNCHANGED vars
  BY <1>1 DEF vars
<1>2. CASE Next
  <2> PICK t \in Threads : Call(t) \/ Continue(t)
    BY <1>2 DEF Next
  <2>1. ASSUME NEW i \in Ids, AddRequest(t, i) PROVE HoldsMade'
    BY <2>1 DEF AddRequest
  <2>2. ASSUME NEW i \in Ids, NEW v \in Responses, AddResponse(t, i, v) PROVE HoldsMade'
    BY <2>2 DEF AddResponse, Find
  <2>3. ASSUME NEW i \in Ids, PopResponse(t, i) PROVE HoldsMade'
    BY <2>3 DEF PopResponse, Find
  <2>4. ASSUME NEW i \in Ids, AwaitResponse(t, i) PROVE HoldsMade'
    BY <2>4 DEF AwaitResponse, Find
  <2>5. CASE FailAll(t)
    BY <2>5 DEF FailAll
  <2>6. CASE EraseRequest(t)
    BY <2>6 DEF EraseRequest, Leave
  <2>7. CASE Return(t)
    BY <2>7 DEF Return, Leave
  <2>8. CASE FailNext(t)
    BY <2>8 DEF FailNext, FailRequest, Closed
  <2>9. CASE SetResponse(t)
    BY <2>9 DEF SetResponse, Closed, About, Blank
  <2>10. CASE TryGet(t)
    BY <2>10 DEF TryGet, Take, Result, About, Blank
  <2>11. CASE AwaitNothing(t)
    BY <2>11 DEF AwaitNothing, Result, About, Blank
  <2>12. CASE AwaitRefused(t)
    BY <2>12 DEF AwaitRefused, Leave
  <2>13. CASE AwaitBegin(t)
    BY <2>13 DEF AwaitBegin
  <2>14. CASE Wake(t)
    BY <2>14 DEF Wake
  <2>15. CASE Timeout(t)
    BY <2>15 DEF Timeout
  <2>16. CASE Cancel(t)
    BY <2>16 DEF Cancel, FailRequest, Closed
  <2>17. CASE Finish(t)
    BY <2>17 DEF Finish, Take, Result, About, Blank
  <2> QED
    BY <2>1, <2>2, <2>3, <2>4, <2>5, <2>6, <2>7, <2>8, <2>9, <2>10, <2>11,
       <2>12, <2>13, <2>14, <2>15, <2>16, <2>17 DEF Call, Continue
<1> QED
  BY <1>1, <1>2

LEMMA NextOutcomes ==
    ASSUME TypeOK, TypeOK', SettledOnce, HoldsMade, Outcomes, OneWaiter, [Next]_vars
    PROVE  Outcomes'
<1> USE PendingAssumption DEF TypeOK, objVars, thrVars, Goto, HoldsMade, Outcomes, OneWaiter, SettledOnce, InWait
<1>1. CASE UNCHANGED vars
  BY <1>1 DEF vars
<1>2. CASE Next
  <2> PICK t \in Threads : Call(t) \/ Continue(t)
    BY <1>2 DEF Next
  <2>1. ASSUME NEW i \in Ids, AddRequest(t, i) PROVE Outcomes'
    BY <2>1 DEF AddRequest
  <2>2. ASSUME NEW i \in Ids, NEW v \in Responses, AddResponse(t, i, v) PROVE Outcomes'
    BY <2>2 DEF AddResponse, Find
  <2>3. ASSUME NEW i \in Ids, PopResponse(t, i) PROVE Outcomes'
    BY <2>3 DEF PopResponse, Find
  <2>4. ASSUME NEW i \in Ids, AwaitResponse(t, i) PROVE Outcomes'
    BY <2>4 DEF AwaitResponse, Find
  <2>5. CASE FailAll(t)
    BY <2>5 DEF FailAll
  <2>6. CASE EraseRequest(t)
    BY <2>6 DEF EraseRequest, Leave
  <2>7. CASE Return(t)
    BY <2>7 DEF Return, Leave
  <2>8. CASE FailNext(t)
    BY <2>8 DEF FailNext, FailRequest, Closed
  <2>9. CASE SetResponse(t)
    BY <2>9 DEF SetResponse, Closed, About, Blank
  <2>10. CASE TryGet(t)
    BY <2>10 DEF TryGet, Take, Result, About, Blank
  <2>11. CASE AwaitNothing(t)
    BY <2>11 DEF AwaitNothing, Result, About, Blank
  <2>12. CASE AwaitRefused(t)
    BY <2>12 DEF AwaitRefused, Leave
  <2>13. CASE AwaitBegin(t)
    BY <2>13 DEF AwaitBegin
  <2>14. CASE Wake(t)
    BY <2>14 DEF Wake
  <2>15. CASE Timeout(t)
    BY <2>15 DEF Timeout
  <2>16. CASE Cancel(t)
    BY <2>16 DEF Cancel, FailRequest, Closed
  <2>17. CASE Finish(t)
    BY <2>17 DEF Finish, Take, Result, About, Blank
  <2> QED
    BY <2>1, <2>2, <2>3, <2>4, <2>5, <2>6, <2>7, <2>8, <2>9, <2>10, <2>11,
       <2>12, <2>13, <2>14, <2>15, <2>16, <2>17 DEF Call, Continue
<1> QED
  BY <1>1, <1>2

LEMMA NextOneWaiter ==
    ASSUME TypeOK, TypeOK', OneWaiter, [Next]_vars
    PROVE  OneWaiter'
<1> USE PendingAssumption DEF TypeOK, objVars, thrVars, Goto, OneWaiter, InWait
<1>1. CASE UNCHANGED vars
  BY <1>1 DEF vars
<1>2. CASE Next
  <2> PICK t \in Threads : Call(t) \/ Continue(t)
    BY <1>2 DEF Next
  <2>1. ASSUME NEW i \in Ids, AddRequest(t, i) PROVE OneWaiter'
    BY <2>1 DEF AddRequest
  <2>2. ASSUME NEW i \in Ids, NEW v \in Responses, AddResponse(t, i, v) PROVE OneWaiter'
    BY <2>2 DEF AddResponse, Find
  <2>3. ASSUME NEW i \in Ids, PopResponse(t, i) PROVE OneWaiter'
    BY <2>3 DEF PopResponse, Find
  <2>4. ASSUME NEW i \in Ids, AwaitResponse(t, i) PROVE OneWaiter'
    BY <2>4 DEF AwaitResponse, Find
  <2>5. CASE FailAll(t)
    BY <2>5 DEF FailAll
  <2>6. CASE EraseRequest(t)
    BY <2>6 DEF EraseRequest, Leave
  <2>7. CASE Return(t)
    BY <2>7 DEF Return, Leave
  <2>8. CASE FailNext(t)
    BY <2>8 DEF FailNext, FailRequest, Closed
  <2>9. CASE SetResponse(t)
    BY <2>9 DEF SetResponse, Closed, About, Blank
  <2>10. CASE TryGet(t)
    BY <2>10 DEF TryGet, Take, Result, About, Blank
  <2>11. CASE AwaitNothing(t)
    BY <2>11 DEF AwaitNothing, Result, About, Blank
  <2>12. CASE AwaitRefused(t)
    BY <2>12 DEF AwaitRefused, Leave
  <2>13. CASE AwaitBegin(t)
    BY <2>13 DEF AwaitBegin
  <2>14. CASE Wake(t)
    BY <2>14 DEF Wake
  <2>15. CASE Timeout(t)
    BY <2>15 DEF Timeout
  <2>16. CASE Cancel(t)
    BY <2>16 DEF Cancel, FailRequest, Closed
  <2>17. CASE Finish(t)
    BY <2>17 DEF Finish, Take, Result, About, Blank
  <2> QED
    BY <2>1, <2>2, <2>3, <2>4, <2>5, <2>6, <2>7, <2>8, <2>9, <2>10, <2>11,
       <2>12, <2>13, <2>14, <2>15, <2>16, <2>17 DEF Call, Continue
<1> QED
  BY <1>1, <1>2

LEMMA NextNothingOrphaned ==
    ASSUME TypeOK, TypeOK', HoldsMade, Outcomes, NothingOrphaned, [Next]_vars
    PROVE  NothingOrphaned'
<1> USE PendingAssumption DEF TypeOK, objVars, thrVars, Goto, HoldsMade, Outcomes, NothingOrphaned, Registered
<1>1. CASE UNCHANGED vars
  BY <1>1 DEF vars
<1>2. CASE Next
  <2> PICK t \in Threads : Call(t) \/ Continue(t)
    BY <1>2 DEF Next
  <2>1. ASSUME NEW i \in Ids, AddRequest(t, i) PROVE NothingOrphaned'
    BY <2>1 DEF AddRequest
  <2>2. ASSUME NEW i \in Ids, NEW v \in Responses, AddResponse(t, i, v) PROVE NothingOrphaned'
    BY <2>2 DEF AddResponse, Find
  <2>3. ASSUME NEW i \in Ids, PopResponse(t, i) PROVE NothingOrphaned'
    BY <2>3 DEF PopResponse, Find
  <2>4. ASSUME NEW i \in Ids, AwaitResponse(t, i) PROVE NothingOrphaned'
    BY <2>4 DEF AwaitResponse, Find
  <2>5. CASE FailAll(t)
    BY <2>5 DEF FailAll
  <2>6. CASE EraseRequest(t)
    BY <2>6 DEF EraseRequest, Leave
  <2>7. CASE Return(t)
    BY <2>7 DEF Return, Leave
  <2>8. CASE FailNext(t)
    BY <2>8 DEF FailNext, FailRequest, Closed
  <2>9. CASE SetResponse(t)
    BY <2>9 DEF SetResponse, Closed, About, Blank
  <2>10. CASE TryGet(t)
    BY <2>10 DEF TryGet, Take, Result, About, Blank
  <2>11. CASE AwaitNothing(t)
    BY <2>11 DEF AwaitNothing, Result, About, Blank
  <2>12. CASE AwaitRefused(t)
    BY <2>12 DEF AwaitRefused, Leave
  <2>13. CASE AwaitBegin(t)
    BY <2>13 DEF AwaitBegin
  <2>14. CASE Wake(t)
    BY <2>14 DEF Wake
  <2>15. CASE Timeout(t)
    BY <2>15 DEF Timeout
  <2>16. CASE Cancel(t)
    BY <2>16 DEF Cancel, FailRequest, Closed
  <2>17. CASE Finish(t)
    BY <2>17 DEF Finish, Take, Result, About, Blank
  <2> QED
    BY <2>1, <2>2, <2>3, <2>4, <2>5, <2>6, <2>7, <2>8, <2>9, <2>10, <2>11,
       <2>12, <2>13, <2>14, <2>15, <2>16, <2>17 DEF Call, Continue
<1> QED
  BY <1>1, <1>2

LEMMA InitIInv == Init => IInv
  BY InitTypeOK DEF Init, IInv, HoldsMade, Outcomes, SettledOnce, OneWaiter,
                    NothingOrphaned, InWait, Blank

LEMMA NextIInv == IInv /\ [Next]_vars => IInv'
  BY NextTypeOK, NextSettledOnce, NextHoldsMade, NextOutcomes, NextOneWaiter,
     NextNothingOrphaned DEF IInv

LEMMA Invariance == Spec => []IInv
<1>1. Init => IInv
  BY InitIInv
<1>2. IInv /\ [Next]_vars => IInv'
  BY NextIInv
<1> QED
  BY <1>1, <1>2, PTL DEF Spec

\* An accepted response can be reached by its id until it is handed out.
THEOREM NeverOrphaned == Spec => []NothingOrphaned
<1>1. IInv => NothingOrphaned
  BY DEF IInv
<1> QED
  BY <1>1, Invariance, PTL

\* There is one waiter per request, and wait_in_progress tells whether.
THEOREM WaitersExclude == Spec => []OneWaiter
<1>1. IInv => OneWaiter
  BY DEF IInv
<1> QED
  BY <1>1, Invariance, PTL

\* A request is never both answered and failed.
THEOREM NeverBoth == Spec => []SettledOnce
<1>1. IInv => SettledOnce
  BY DEF IInv
<1> QED
  BY <1>1, Invariance, PTL

\* Only a settled request is unregistered.
LEMMA StepErasesOnlySettled ==
    ASSUME IInv, [Next]_vars
    PROVE  [\A i \in Ids : LET r == pendings[i] IN
               r # NoRequest /\ pendings'[i] # r => future[r] \in {"broken", "taken"}]_vars
<1> SUFFICES ASSUME Next,
                    NEW i \in Ids, pendings[i] # NoRequest, pendings'[i] # pendings[i]
             PROVE  future[pendings[i]] \in {"broken", "taken"}
  OBVIOUS
<1> PICK t \in Threads : Call(t) \/ Continue(t)
  BY DEF Next
<1>1. ASSUME NEW j \in Ids, AddRequest(t, j) PROVE FALSE
  BY <1>1 DEF AddRequest, IInv, TypeOK
<1>2. CASE EraseRequest(t)
  BY <1>2 DEF EraseRequest, IInv, TypeOK, Outcomes
<1>3. CASE UNCHANGED pendings
  BY <1>3
<1>4. \/ \E j \in Ids : AddRequest(t, j)
      \/ EraseRequest(t)
      \/ UNCHANGED pendings
  BY DEF Call, Continue, AddResponse, PopResponse, AwaitResponse, Find, FailAll,
         Return, FailNext, SetResponse, TryGet, AwaitNothing, AwaitRefused,
         AwaitBegin, Wake, Timeout, Cancel, Finish
<1> QED
  BY <1>1, <1>2, <1>3, <1>4

\* No registration is removed before its request is settled and its outcome
\* given to a caller, whoever registers the id again in the meantime.
THEOREM ErasureIsSafe == Spec => ErasesOnlySettled
<1>1. IInv /\ [Next]_vars
      => [\A i \in Ids : LET r == pendings[i] IN
             r # NoRequest /\ pendings'[i] # r => future[r] \in {"broken", "taken"}]_vars
  BY StepErasesOnlySettled
<1> QED
  BY <1>1, Invariance, PTL DEF Spec, ErasesOnlySettled

-----------------------------------------------------------------------------
(* Refinement.                                                             *)

CStatus == [r \in Requests |-> Status(r)]

LEMMA InitContract == Init => Contract!Init
  BY DEF Init, Contract!Init, Status, Blank, Contract!Blank

\* The abstract state does not move when the variables it reads do not.
LEMMA Stutter ==
    ASSUME UNCHANGED <<future, failure, content, told>>
    PROVE  UNCHANGED Contract!contractVars
  BY DEF Contract!contractVars, Status

\* Failing a request is the contract's Fail, or nothing once it is settled.
LEMMA FailImplementsFail ==
    ASSUME TypeOK, HoldsMade, SettledOnce, NEW r \in Requests, future[r] # "unmade",
           NEW kind \in Failures, FailRequest(r, kind), UNCHANGED <<content, told>>
    PROVE  Contract!Fail(r, kind) \/ UNCHANGED Contract!contractVars
<1>1. CASE Closed(r)
  BY <1>1, Stutter DEF FailRequest
<1>2. CASE ~Closed(r)
  <2>1. future[r] = "empty"
    BY <1>2 DEF Closed, HoldsMade
  <2>2. /\ future' = [future EXCEPT ![r] = "broken"]
        /\ failure' = [failure EXCEPT ![r] = kind]
    BY <1>2 DEF FailRequest
  <2>3. CStatus[r] = "open"
    BY <2>1 DEF CStatus, Status
  <2>4. CStatus' = [CStatus EXCEPT ![r] = kind]
    BY <2>2 DEF CStatus, Status, TypeOK
  <2> QED
    BY <2>3, <2>4 DEF Contract!Fail, CStatus
<1> QED
  BY <1>1, <1>2

\* Reading a request's outcome under its lock delivers its response, or reports
\* its failure, or reports that there is nothing to deliver.
LEMMA ResultImplementsTell ==
    ASSUME TypeOK, HoldsMade, SettledOnce, NEW t \in Threads, NEW r \in Requests,
           NEW readable \in BOOLEAN,
           future[r] # "unmade", readable /\ failure[r] = "none" => future[r] = "ready",
           told[t] = Blank,
           told' = [told EXCEPT ![t] = Result(r, readable)], Take(r, readable),
           UNCHANGED <<failure, content>>
    PROVE  Contract!Deliver(t, r) \/ Contract!ReportFailure(t, r) \/ Contract!ReportNothing(t, r)
<1>1. CASE failure[r] # "none"
  <2>1. CStatus[r] = failure[r] /\ failure[r] \in Failures
    BY <1>1 DEF CStatus, Status, SettledOnce, TypeOK
  <2>2. future' = future /\ told' = [told EXCEPT ![t] = About(r, failure[r])]
    BY <1>1 DEF Take, Result
  <2>3. CStatus' = CStatus
    BY <2>2 DEF CStatus, Status
  <2> QED
    BY <2>1, <2>2, <2>3 DEF Contract!ReportFailure, Contract!Tell, CStatus, Failures,
       Contract!Failures, About, Contract!About, Blank, Contract!Blank
<1>2. CASE failure[r] = "none" /\ readable
  <2>1. CStatus[r] = "answered"
    BY <1>2 DEF CStatus, Status
  <2>2. future' = [future EXCEPT ![r] = "taken"]
    BY <1>2 DEF Take
  <2>3. told' = [told EXCEPT ![t] = [of |-> r, what |-> "response", response |-> content[r]]]
    BY <1>2 DEF Result
  <2>4. CStatus' = [CStatus EXCEPT ![r] = "delivered"]
    BY <2>2 DEF CStatus, Status, TypeOK
  <2> QED
    BY <2>1, <2>3, <2>4 DEF Contract!Deliver, Contract!Tell, CStatus, Blank, Contract!Blank
<1>3. CASE failure[r] = "none" /\ ~readable
  <2>1. CStatus[r] \in {"open", "answered", "delivered"}
    BY <1>3 DEF CStatus, Status, SettledOnce, TypeOK
  <2>2. future' = future /\ told' = [told EXCEPT ![t] = About(r, "nothing")]
    BY <1>3 DEF Take, Result
  <2>3. CStatus' = CStatus
    BY <2>2 DEF CStatus, Status
  <2> QED
    BY <2>1, <2>2, <2>3 DEF Contract!ReportNothing, Contract!Tell, CStatus,
       About, Contract!About, Blank, Contract!Blank
<1> QED
  BY <1>1, <1>2, <1>3

LEMMA LeaveImplementsReturn ==
    ASSUME NEW t \in Threads, told[t] # Blank, Leave(t),
           UNCHANGED <<future, failure, content>>
    PROVE  Contract!Return(t)
  BY DEF Leave, Contract!Return, Blank, Contract!Blank, Status

LEMMA SetResponseImplements ==
    ASSUME IInv, NEW t \in Threads, SetResponse(t)
    PROVE  \/ \E v \in Responses : Contract!Accept(t, req[t], v)
           \/ Contract!Reject(t, req[t])
<1> DEFINE r == req[t]
<1>1. r \in Requests /\ future[r] # "unmade" /\ frame[t] \in Responses /\ told[t] = Blank
  BY DEF SetResponse, IInv, TypeOK, HoldsMade, Outcomes
<1>2. CASE Closed(r)
  <2>1. future[r] \in {"ready", "broken", "taken"}
    BY <1>1, <1>2 DEF Closed, IInv, HoldsMade, SettledOnce, TypeOK
  <2>2. CStatus[r] \in {"answered", "delivered"} \cup Failures
    BY <1>1, <2>1 DEF CStatus, Status, IInv, TypeOK, SettledOnce
  <2>3. told' = [told EXCEPT ![t] = About(r, "rejected")]
    BY <1>2 DEF SetResponse
  <2>4. CStatus' = CStatus /\ content' = content
    BY <1>2 DEF SetResponse, CStatus, Status
  <2> QED
    BY <1>1, <2>2, <2>3, <2>4 DEF Contract!Reject, Contract!Settled, Contract!Tell, CStatus,
       Failures, Contract!Failures, About, Contract!About, Blank, Contract!Blank
<1>3. CASE ~Closed(r)
  <2>1. future[r] = "empty"
    BY <1>1, <1>3 DEF Closed, IInv, HoldsMade
  <2>2. CStatus[r] = "open"
    BY <1>1, <2>1 DEF CStatus, Status
  <2>3. /\ told' = [told EXCEPT ![t] = About(r, "accepted")]
        /\ future' = [future EXCEPT ![r] = "ready"]
        /\ content' = [content EXCEPT ![r] = frame[t]]
        /\ failure' = failure
    BY <1>3 DEF SetResponse
  <2>4. CStatus' = [CStatus EXCEPT ![r] = "answered"]
    BY <1>1, <2>3 DEF CStatus, Status, IInv, TypeOK
  <2> QED
    BY <1>1, <2>2, <2>3, <2>4 DEF Contract!Accept, Contract!Tell, CStatus,
       About, Contract!About, Blank, Contract!Blank
<1> QED
  BY <1>2, <1>3

LEMMA NextContract ==
    ASSUME IInv, [Next]_vars
    PROVE  [Contract!ContractNext]_(Contract!contractVars)
<1>1. CASE UNCHANGED vars
  BY <1>1, Stutter DEF vars, objVars
<1>2. CASE Next
  <2> PICK t \in Threads : Call(t) \/ Continue(t)
    BY <1>2 DEF Next
  <2>1. ASSUME NEW i \in Ids, AddRequest(t, i) PROVE Contract!ContractNext
    <3>1. PICK r \in Requests : /\ future[r] = "unmade"
                                /\ future' = [future EXCEPT ![r] = "empty"]
      BY <2>1 DEF AddRequest
    <3>2. CStatus[r] = "unmade" /\ CStatus' = [CStatus EXCEPT ![r] = "open"]
      BY <2>1, <3>1 DEF AddRequest, CStatus, Status, IInv, TypeOK
    <3>3. Contract!Make(r)
      BY <2>1, <3>2 DEF AddRequest, Contract!Make, CStatus
    <3> QED
      BY <3>3 DEF Contract!ContractNext
  <2>2. CASE EraseRequest(t) \/ Return(t)
    <3>1. told[t] # Blank
      BY <2>2 DEF EraseRequest, Return, IInv, Outcomes
    <3>2. Contract!Return(t)
      BY <2>2, <3>1, LeaveImplementsReturn DEF EraseRequest, Return, objVars
    <3> QED
      BY <3>2 DEF Contract!ContractNext
  <2>3. CASE FailNext(t)
    <3>1. PICK r \in batch[t] : FailRequest(r, "DISCONNECTION")
      BY <2>3 DEF FailNext
    <3>2. r \in Requests /\ future[r] # "unmade"
      BY DEF IInv, TypeOK, HoldsMade
    <3>3. Contract!Fail(r, "DISCONNECTION") \/ UNCHANGED Contract!contractVars
      BY <2>3, <3>1, <3>2, FailImplementsFail DEF FailNext, IInv, Failures
    <3> QED
      BY <3>2, <3>3 DEF Contract!ContractNext, Contract!Failures
  <2>4. CASE Cancel(t)
    <3>1. req[t] \in Requests /\ future[req[t]] # "unmade" /\ FailRequest(req[t], "CANCEL")
      BY <2>4 DEF Cancel, IInv, TypeOK, HoldsMade
    <3>2. Contract!Fail(req[t], "CANCEL") \/ UNCHANGED Contract!contractVars
      BY <2>4, <3>1, FailImplementsFail DEF Cancel, IInv, Failures
    <3> QED
      BY <3>1, <3>2 DEF Contract!ContractNext, Contract!Failures
  <2>5. CASE SetResponse(t)
    <3>1. req[t] \in Requests
      BY <2>5 DEF SetResponse, IInv, TypeOK
    <3> QED
      BY <2>5, <3>1, SetResponseImplements DEF Contract!ContractNext
  <2>6. CASE TryGet(t) \/ AwaitNothing(t) \/ Finish(t)
    <3>1. req[t] \in Requests /\ future[req[t]] # "unmade" /\ told[t] = Blank
      BY <2>6 DEF TryGet, AwaitNothing, Finish, IInv, TypeOK, HoldsMade, Outcomes
    <3>2. PICK readable \in BOOLEAN :
              /\ told' = [told EXCEPT ![t] = Result(req[t], readable)]
              /\ Take(req[t], readable)
              /\ readable /\ failure[req[t]] = "none" => future[req[t]] = "ready"
      <4>1. CASE TryGet(t)
        BY <4>1 DEF TryGet
      <4>2. CASE AwaitNothing(t)
        BY <4>2 DEF AwaitNothing, Take, objVars
      <4>3. CASE Finish(t)
        <5>1. future[req[t]] \in {"ready", "broken"}
          BY <4>3, <3>1 DEF Finish, IInv, TypeOK, Outcomes, InWait
        <5>2. failure[req[t]] = "none" => future[req[t]] = "ready"
          BY <5>1, <3>1 DEF IInv, SettledOnce
        <5> QED
          BY <4>3, <5>1, <5>2 DEF Finish
      <4> QED
        BY <2>6, <4>1, <4>2, <4>3
    <3>3. UNCHANGED <<failure, content>>
      BY <2>6 DEF TryGet, AwaitNothing, Finish, objVars
    <3>4. \/ Contract!Deliver(t, req[t])
          \/ Contract!ReportFailure(t, req[t])
          \/ Contract!ReportNothing(t, req[t])
      BY <3>1, <3>2, <3>3, ResultImplementsTell DEF IInv
    <3> QED
      BY <3>1, <3>4 DEF Contract!ContractNext
  <2>7. CASE AwaitRefused(t)
    <3>1. told[t] = Blank
      BY <2>7 DEF AwaitRefused, IInv, Outcomes
    <3>2. told' = told
      BY <2>7, <3>1 DEF AwaitRefused, Leave, IInv, TypeOK
    <3> QED
      BY <2>7, <3>2, Stutter DEF AwaitRefused, objVars
  <2>8. ASSUME UNCHANGED <<objVars, told>> PROVE UNCHANGED Contract!contractVars
    BY <2>8, Stutter DEF objVars
  <2>9. ASSUME UNCHANGED <<promise, future, content, failure, told>>
        PROVE  UNCHANGED Contract!contractVars
    BY <2>9, Stutter
  <2>10. \/ \E i \in Ids : AddRequest(t, i)
         \/ EraseRequest(t) \/ Return(t) \/ FailNext(t) \/ Cancel(t) \/ SetResponse(t)
         \/ TryGet(t) \/ AwaitNothing(t) \/ Finish(t) \/ AwaitRefused(t)
         \/ UNCHANGED <<objVars, told>>
         \/ UNCHANGED <<promise, future, content, failure, told>>
    BY DEF Call, Continue, AddResponse, PopResponse, AwaitResponse, Find, FailAll,
           AwaitBegin, Wake, Timeout
  <2> QED
    BY <2>1, <2>2, <2>3, <2>4, <2>5, <2>6, <2>7, <2>8, <2>9, <2>10
<1> QED
  BY <1>1, <1>2

\* Every interleaving of the critical sections is a behaviour of the contract:
\* requests settle once, responses are handed to one caller, failures reach
\* every caller that asks.
THEOREM ImplementsContract == Spec => ContractHolds
<1>1. Init => Contract!Init
  BY InitContract
<1>2. IInv /\ [Next]_vars => [Contract!ContractNext]_(Contract!contractVars)
  BY NextContract
<1> QED
  BY <1>1, <1>2, Invariance, PTL DEF Spec, ContractHolds, Contract!ContractSpec

\* However many callers race for one response, one of them gets it: a fact of
\* the contract, which the store has by implementing it.
THEOREM RacesHaveOneWinner == Spec => []OneWinner
<1>1. Spec => Contract!ContractSpec
  BY ImplementsContract DEF ContractHolds
<1>2. Contract!ContractSpec => []Contract!OneWinner
  BY Contract!OneWinnerHolds
<1> QED
  BY <1>1, <1>2, PTL DEF OneWinner

=============================================================================
