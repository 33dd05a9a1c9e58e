-------------------------- MODULE RequestContract --------------------------
(***************************************************************************)
(* What the SDK's pending-request store promises to its callers, with no   *)
(* map, promise, future, lock or timer in it: every request is settled at  *)
(* most once, by an answer or by a failure; an answer is handed to at most *)
(* one caller; a failure is reported to everyone who asks; a caller is     *)
(* told "accepted" exactly when its answer is the one that settled the     *)
(* request.  PendingRequests implements this module.                       *)
(***************************************************************************)
EXTENDS TLAPS

CONSTANTS
    Requests,    \* the FutureRequest objects a store may create
    Callers,     \* the threads that call the store
    Responses,   \* the response frames the server may send
    NoRequest,
    NoResponse

VARIABLES
    status,      \* what has become of each request
    content,     \* the response that answered it
    told         \* the verdict of the call each caller is in

contractVars == <<status, content, told>>

Failures == {"CANCEL", "DISCONNECTION"}

Statuses == {"unmade", "open", "answered", "delivered"} \cup Failures

Verdicts == {"blank", "response", "nothing", "accepted", "rejected"} \cup Failures

Verdict == [of : Requests \cup {NoRequest},
            what : Verdicts,
            response : Responses \cup {NoResponse}]

Blank == [of |-> NoRequest, what |-> "blank", response |-> NoResponse]

About(r, what) == [of |-> r, what |-> what, response |-> NoResponse]

ContractTypeOK ==
    /\ status \in [Requests -> Statuses]
    /\ content \in [Requests -> Responses \cup {NoResponse}]
    /\ told \in [Callers -> Verdict]

Settled(r) == status[r] \in {"answered", "delivered"} \cup Failures

-----------------------------------------------------------------------------

Init ==
    /\ status = [r \in Requests |-> "unmade"]
    /\ content = [r \in Requests |-> NoResponse]
    /\ told = [c \in Callers |-> Blank]

Make(r) ==
    /\ status[r] = "unmade"
    /\ status' = [status EXCEPT ![r] = "open"]
    /\ UNCHANGED <<content, told>>

Fail(r, kind) ==
    /\ status[r] = "open"
    /\ status' = [status EXCEPT ![r] = kind]
    /\ UNCHANGED <<content, told>>

\* Telling a caller something ends its call but for the return.
Tell(c, verdict) ==
    /\ told[c] = Blank
    /\ told' = [told EXCEPT ![c] = verdict]

Accept(c, r, v) ==
    /\ status[r] = "open"
    /\ Tell(c, About(r, "accepted"))
    /\ status' = [status EXCEPT ![r] = "answered"]
    /\ content' = [content EXCEPT ![r] = v]

Reject(c, r) ==
    /\ Settled(r)
    /\ Tell(c, About(r, "rejected"))
    /\ UNCHANGED <<status, content>>

Deliver(c, r) ==
    /\ status[r] = "answered"
    /\ Tell(c, [of |-> r, what |-> "response", response |-> content[r]])
    /\ status' = [status EXCEPT ![r] = "delivered"]
    /\ UNCHANGED content

ReportFailure(c, r) ==
    /\ status[r] \in Failures
    /\ Tell(c, About(r, status[r]))
    /\ UNCHANGED <<status, content>>

\* "Nothing yet, or nothing any more"; never said of a failed request.
ReportNothing(c, r) ==
    /\ status[r] \in {"open", "answered", "delivered"}
    /\ Tell(c, About(r, "nothing"))
    /\ UNCHANGED <<status, content>>

Return(c) ==
    /\ told[c] # Blank
    /\ told' = [told EXCEPT ![c] = Blank]
    /\ UNCHANGED <<status, content>>

ContractNext ==
    \/ \E r \in Requests : Make(r)
    \/ \E r \in Requests, kind \in Failures : Fail(r, kind)
    \/ \E c \in Callers, r \in Requests :
          \/ \E v \in Responses : Accept(c, r, v)
          \/ Reject(c, r)
          \/ Deliver(c, r)
          \/ ReportFailure(c, r)
          \/ ReportNothing(c, r)
    \/ \E c \in Callers : Return(c)

ContractSpec == Init /\ [][ContractNext]_contractVars

-----------------------------------------------------------------------------

\* Of all callers that race for one request's response, popping or waiting, at
\* most one is handed it; of all that race to answer it, at most one is told
\* that its answer was accepted.
OneWinner ==
    \A c, d \in Callers :
        /\ told[c].what \in {"response", "accepted"}
        /\ told[d].what = told[c].what /\ told[d].of = told[c].of
        => c = d

\* The first settlement stands: neither a disconnection nor a cancellation
\* overwrites an answer, and no later answer replaces the first.
FirstSettlementStands ==
    [][\A r \in Requests : Settled(r) =>
          /\ status'[r] # status[r] => status[r] = "answered" /\ status'[r] = "delivered"
          /\ content'[r] = content[r]]_contractVars

-----------------------------------------------------------------------------
(* The contract keeps its own word.                                        *)

\* Every variable of the contract stays in its type.
THEOREM ContractTypes == ContractSpec => []ContractTypeOK
<1> USE DEF Statuses, Failures, Verdict, Verdicts, Blank, About
<1>1. Init => ContractTypeOK
  BY DEF Init, ContractTypeOK
<1>2. ContractTypeOK /\ [ContractNext]_contractVars => ContractTypeOK'
  BY DEF ContractTypeOK, ContractNext, contractVars, Make, Fail, Accept, Reject, Deliver,
         ReportFailure, ReportNothing, Return, Tell
<1> QED
  BY <1>1, <1>2, PTL DEF ContractSpec

\* Whoever was told that an answer was accepted, or was handed one, is the
\* first: afterwards the request's status lets nobody else be told so.
Winners ==
    \A c \in Callers : LET r == told[c].of IN
        /\ told[c].what = "accepted" => r \in Requests /\ Settled(r)
        /\ told[c].what = "response" => r \in Requests /\ status[r] = "delivered"

\* One caller at a time holds a request's response, and one the news that its
\* answer was the one accepted, whichever callers race.
THEOREM OneWinnerHolds == ContractSpec => []OneWinner
<1> DEFINE WInv == ContractTypeOK /\ Winners /\ OneWinner
<1>1. Init => WInv
  BY DEF Init, ContractTypeOK, Winners, OneWinner, Statuses, Failures, Verdict, Verdicts, Blank
<1>2. WInv /\ [ContractNext]_contractVars => WInv'
  BY DEF ContractTypeOK, Winners, OneWinner, Settled, ContractNext, contractVars, Make, Fail,
         Accept, Reject, Deliver, ReportFailure, ReportNothing, Return, Tell,
         Statuses, Failures, Verdict, Verdicts, Blank, About
<1> QED
  BY <1>1, <1>2, PTL DEF ContractSpec

\* The first settlement of a request is its last, but for being handed out.
THEOREM FirstSettlementHolds == ContractSpec => FirstSettlementStands
<1>1. ContractTypeOK /\ [ContractNext]_contractVars =>
          [\A r \in Requests : Settled(r) =>
              /\ status'[r] # status[r] => status[r] = "answered" /\ status'[r] = "delivered"
              /\ content'[r] = content[r]]_contractVars
  BY DEF ContractTypeOK, Settled, ContractNext, contractVars, Make, Fail, Accept, Reject,
         Deliver, ReportFailure, ReportNothing, Return, Tell, Failures, Statuses
<1> QED
  BY <1>1, ContractTypes, PTL DEF ContractSpec, FirstSettlementStands

=============================================================================
