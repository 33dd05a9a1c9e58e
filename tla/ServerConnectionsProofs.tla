---------------------- MODULE ServerConnectionsProofs -----------------------
(***************************************************************************)
(* A connection of the server has one read and one write outstanding at    *)
(* most, is_sending says whether it has a write, no wake-up is lost, and   *)
(* every request a connected client sent is in exactly one place: for any  *)
(* number of addresses, clients and requests and any limit of the response *)
(* queue.                                                                  *)
(*                                                                         *)
(* The properties count positions of `ready'; the proofs reason about its  *)
(* tallies, which Tallies follows through each step.  What makes    *)
(* the properties inductive is that each connection owns one token of      *)
(* either operation: it is outstanding, or ended and its handler due, or   *)
(* failed and its handler due, and only the handler that takes the token   *)
(* starts the operation again.  It matters that a handler may run for a    *)
(* Connection that is destroyed already (RunDangling), or destroyed by the *)
(* removal of another that had its address: the proofs follow what those   *)
(* steps do, too.                                                          *)
(***************************************************************************)
EXTENDS ServerConnections, Tallies, Integers, TLAPS

\* The handlers of a connection's reads and writes.
Ops == {"read", "read_error", "write", "write_error"}

OfConnection == Ops \cup {"accept"}

\* What the io_context's queue may hold.
Handlers ==
    [what : OfConnection, conn : Conns, size : Nat, where : {0}]
    \cup [what : {"remove"}, conn : Conns, size : {0}, where : Addresses]
    \cup [what : {"accept_error", "signal"}, conn : {0}, size : {0}, where : {0}]

\* The type of each variable.  The number of requests is not bounded here.
Types ==
    /\ ready \in Seq(Handlers) /\ running \in BOOLEAN /\ accepting \in BOOLEAN
    /\ arrived \in Nat /\ arrived <= MaxConnections
    /\ at \in [Addresses -> Conns \cup {0}] /\ address \in [Conns -> Addresses \cup {0}]
    /\ socket \in [Conns -> {"none", "open", "closed"}]
    /\ reading \in SUBSET Conns /\ writing \in SUBSET Conns /\ isSending \in SUBSET Conns
    /\ responses \in [Conns -> Nat]
    /\ peer \in [Conns -> {"up", "gone"}]
    /\ sent \in [Conns -> Nat] /\ inbox \in [Conns -> Nat]
    /\ delivered \in [Conns -> Nat] /\ dropped \in [Conns -> Nat]
    /\ dangling \in BOOLEAN /\ acceptFailed \in BOOLEAN

Flag(b) == IF b THEN 1 ELSE 0

\* The handlers due to connection c, and to any accept.
Due(what, c) == {h \in Handlers : h.what = what /\ h.conn = c}

Accepting == {h \in Handlers : h.what = "accept"}

\* How many of them are queued.
Tally(what, c) == Count(ready, Due(what, c))
Accepts == Count(ready, Accepting)

\* The read and the write of a connection, wherever they are.
ReadTokens(c)  == Flag(c \in reading) + Tally("read", c) + Tally("read_error", c)
WriteTokens(c) == Flag(c \in writing) + Tally("write", c) + Tally("write_error", c)

Queued == {ready[k] : k \in DOMAIN ready}

\* A connection lives at the address it was given.  Connections are taken in the
\* order of their numbers, by one accept at a time, whose handler carries the next
\* number.
Listed ==
    /\ \A a \in Addresses : at[a] # 0 => address[at[a]] = a
    /\ \E n \in Nat : {c \in Conns : address[c] # 0} = 1..n
    /\ Accepts + Flag(accepting) <= 1
    /\ \A h \in Queued : h.what = "accept" => \A c \in Conns : address[c] # 0 <=> c < h.conn

\* Nothing has happened on a connection that has not been taken.
Fresh(c) ==
    /\ c \notin reading /\ c \notin writing /\ c \notin isSending /\ socket[c] # "open"
    /\ responses[c] = 0 /\ sent[c] = 0 /\ inbox[c] = 0 /\ delivered[c] = 0 /\ dropped[c] = 0
    /\ Tally("read", c) = 0 /\ Tally("read_error", c) = 0
    /\ Tally("write", c) = 0 /\ Tally("write_error", c) = 0

\* The connection of a client that is there.
Served(c) == Alive(c) /\ socket[c] = "open" /\ peer[c] = "up"

\* One token of either operation.  A write in progress shows in is_sending as long
\* as the connection lives; while its client is there, also the other way round.
Tokens(c) ==
    /\ ReadTokens(c) <= 1 /\ WriteTokens(c) <= 1
    /\ Alive(c) /\ WriteTokens(c) = 1 => c \in isSending
    /\ Served(c) => /\ Tally("write_error", c) = 0
                    /\ c \in isSending => WriteTokens(c) = 1
                    /\ responses[c] > 0 => c \in isSending

\* The requests of a client that is there are accounted for, with those of the
\* chunk whose handler is due.
Accounts(c) ==
    Served(c) => /\ Tally("read", c) = 0 => Accounted(c, 0)
                 /\ \A h \in Queued : h \in Due("read", c) => Accounted(c, h.size)

\* What holds of each connection.
Consistent(c) ==
    /\ address[c] = 0 => Fresh(c)
    /\ Tokens(c)
    /\ Accounts(c)

\* The inductive invariant.
IInv == Types /\ Listed /\ \A c \in Conns : Consistent(c)

-----------------------------------------------------------------------------
(* The io_context's queue.                                                 *)

\* A handler counts in the tally of its kind and connection.
LEMMA OneDue ==
    ASSUME NEW h \in Handlers, NEW what, NEW c
    PROVE  Weight(h, Due(what, c)) = IF h.what = what /\ h.conn = c THEN 1 ELSE 0
  BY DEF Weight, Due

\* A handler counts among the accepts if it is one.
LEMMA OneAccept ==
    ASSUME NEW h \in Handlers
    PROVE  Weight(h, Accepting) = IF h.what = "accept" THEN 1 ELSE 0
  BY DEF Weight, Accepting

\* What the fields of a handler hold.
LEMMA HandlerFields ==
    ASSUME NEW h \in Handlers
    PROVE  /\ h.what \in OfConnection \cup {"remove"} => h.conn \in Conns
           /\ h.size \in Nat
           /\ h.what = "remove" => h.where \in Addresses
           /\ h.what = "accept_error" \/ h.what = "signal" => h.conn = 0
  BY DEF Handlers, OfConnection, Ops

\* The handlers the steps add.
LEMMA NewHandlers ==
    /\ \A c \in Conns : \A what \in OfConnection :
           /\ Handler(what, c) \in Handlers
           /\ Handler(what, c).what = what /\ Handler(what, c).conn = c
    /\ \A what \in {"accept_error", "signal"} :
           /\ Handler(what, 0) \in Handlers
           /\ Handler(what, 0).what = what
    /\ \A c \in Conns : \A n \in Nat :
           LET h == [Handler("read", c) EXCEPT !.size = n]
           IN  h \in Handlers /\ h.what = "read" /\ h.conn = c /\ h.size = n
    /\ \A c \in Conns : address[c] \in Addresses =>
           /\ Removal(c) \in Handlers /\ Removal(c).what = "remove"
<1>1. \A c \in Conns : \A what \in OfConnection :
         /\ Handler(what, c) \in Handlers
         /\ Handler(what, c).what = what /\ Handler(what, c).conn = c
  BY DEF Handlers, Handler
<1>2. \A what \in {"accept_error", "signal"} :
         /\ Handler(what, 0) \in Handlers
         /\ Handler(what, 0).what = what
  BY DEF Handlers, Handler
<1>3. \A c \in Conns : \A n \in Nat :
         LET h == [Handler("read", c) EXCEPT !.size = n]
         IN  h \in Handlers /\ h.what = "read" /\ h.conn = c /\ h.size = n
  BY DEF Handlers, Handler, OfConnection, Ops
<1>4. \A c \in Conns : address[c] \in Addresses =>
         /\ Removal(c) \in Handlers /\ Removal(c).what = "remove"
  BY DEF Handlers, Handler, Removal
<1> QED
  BY <1>1, <1>2, <1>3, <1>4

\* Every tally is a natural number.
LEMMA TallyNat ==
    ASSUME Types
    PROVE  /\ \A what, c : Tally(what, c) \in Nat
           /\ Accepts \in Nat
  BY CountFinite DEF Types, Tally, Accepts

\* The handlers queued are handlers, and count in their tally.
LEMMA InQueue ==
    ASSUME Types
    PROVE  /\ Queued \in SUBSET Handlers
           /\ \A what, c : \A h \in Queued : h \in Due(what, c) => Tally(what, c) # 0
           /\ ready # <<>> => Head(ready) \in Queued
<1>1. ready \in Seq(Handlers)
  BY DEF Types
<1>2. \A what, c : \A h \in Queued : h \in Due(what, c) => Tally(what, c) # 0
  BY <1>1, CountZero DEF Queued, Tally
<1> QED
  BY <1>1, <1>2 DEF Queued

\* One handler ends its operation.
LEMMA Added ==
    ASSUME Types, NEW h \in Handlers, ready' = Append(ready, h)
    PROVE  /\ ready' \in Seq(Handlers)
           /\ Queued' = Queued \cup {h}
           /\ \A what, c : Tally(what, c)' = IF h.what = what /\ h.conn = c
                                            THEN Tally(what, c) + 1 ELSE Tally(what, c)
           /\ Accepts' = IF h.what = "accept" THEN Accepts + 1 ELSE Accepts
<1>1. ready \in Seq(Handlers)
  BY DEF Types
<1>2. ready' \in Seq(Handlers)
  BY <1>1
<1>3. Queued' = Queued \cup {h}
  BY <1>1 DEF Queued
<1>4. ASSUME NEW P PROVE Count(ready', P) = Count(ready, P) + Weight(h, P) /\ Count(ready, P) \in Nat
  BY <1>1, CountAppend, CountFinite
<1>5. \A what, c : Tally(what, c)' = IF h.what = what /\ h.conn = c
                                    THEN Tally(what, c) + 1 ELSE Tally(what, c)
  BY <1>4, OneDue DEF Tally
<1>6. Accepts' = IF h.what = "accept" THEN Accepts + 1 ELSE Accepts
  BY <1>4, OneAccept DEF Accepts
<1> QED
  BY <1>2, <1>3, <1>5, <1>6

\* A handler runs and adds x, then y.
LEMMA Ran ==
    ASSUME Types, ready # <<>>, NEW x \in Seq(Handlers), NEW y \in Seq(Handlers),
           ready' = Tail(ready) \o x \o y
    PROVE  /\ ready' \in Seq(Handlers)
           /\ \A h \in Queued' : \/ h \in Queued
                                 \/ \E k \in DOMAIN x : h = x[k]
                                 \/ \E k \in DOMAIN y : h = y[k]
           /\ \A P : \E n \in Nat : /\ Count(ready, P) = n + Weight(Head(ready), P)
                                    /\ Count(ready', P) = n + Count(x, P) + Count(y, P)
<1>1. ready \in Seq(Handlers) /\ Tail(ready) \in Seq(Handlers)
  BY DEF Types
<1>2. Tail(ready) \o x \in Seq(Handlers)
  BY <1>1
<1>3. ready' \in Seq(Handlers)
  BY <1>2
<1>4. ASSUME NEW P
      PROVE  \E n \in Nat : /\ Count(ready, P) = n + Weight(Head(ready), P)
                            /\ Count(ready', P) = n + Count(x, P) + Count(y, P)
  <2>1. Count(ready, P) = Count(Tail(ready), P) + Weight(Head(ready), P) /\ Count(Tail(ready), P) \in Nat
    BY <1>1, CountTail, CountFinite
  <2>2. Count(Tail(ready) \o x, P) = Count(Tail(ready), P) + Count(x, P)
    BY <1>1, CountConcat
  <2>3. Count(ready', P) = Count(Tail(ready) \o x, P) + Count(y, P)
    BY <1>2, CountConcat
  <2> QED
    BY <2>1, <2>2, <2>3
<1>5. ASSUME NEW h \in Queued'
      PROVE  h \in Queued \/ (\E k \in DOMAIN x : h = x[k]) \/ (\E k \in DOMAIN y : h = y[k])
  <2>1. PICK k \in DOMAIN ready' : h = ready'[k]
    BY DEF Queued
  <2> DEFINE m == Len(Tail(ready))
  <2>2. /\ k \in 1..Len(ready') /\ Len(ready') = m + Len(x) + Len(y)
        /\ m \in Nat /\ Len(x) \in Nat /\ Len(y) \in Nat
    BY <1>1, <1>2, <1>3, <2>1
  <2>3. CASE k <= m
    <3>1. h = Tail(ready)[k]
      BY <1>1, <1>2, <2>1, <2>2, <2>3
    <3>2. Tail(ready)[k] = ready[k + 1] /\ k + 1 \in DOMAIN ready
      BY <1>1, <2>2, <2>3
    <3> QED
      BY <3>1, <3>2 DEF Queued
  <2>4. CASE k > m /\ k <= m + Len(x)
    <3>1. h = x[k - m] /\ k - m \in DOMAIN x
      BY <1>1, <1>2, <2>1, <2>2, <2>4
    <3> QED
      BY <3>1
  <2>5. CASE k > m + Len(x)
    <3>1. h = y[k - (m + Len(x))] /\ k - (m + Len(x)) \in DOMAIN y
      BY <1>1, <1>2, <2>1, <2>2, <2>5
    <3> QED
      BY <3>1
  <2> QED
    BY <2>2, <2>3, <2>4, <2>5
<1> QED
  BY <1>3, <1>4, <1>5

\* The same in tallies.
LEMMA RanTally ==
    ASSUME Types, ready # <<>>, NEW x \in Seq(Handlers), NEW y \in Seq(Handlers),
           ready' = Tail(ready) \o x \o y,
           \A k \in DOMAIN x : x[k] \notin Accepting, \A k \in DOMAIN y : y[k] \notin Accepting
    PROVE  LET h == Head(ready)
               Spent(what, d) == IF h.what = what /\ h.conn = d THEN 1 ELSE 0
           IN  /\ \A what, d : /\ Tally(what, d) - Spent(what, d) \in Nat
                               /\ Tally(what, d)' = (Tally(what, d) - Spent(what, d))
                                         + Count(x, Due(what, d)) + Count(y, Due(what, d))
               /\ Accepts' = Accepts - (IF h.what = "accept" THEN 1 ELSE 0)
<1> DEFINE h == Head(ready)
           T(what, d) == IF h.what = what /\ h.conn = d THEN 1 ELSE 0
<1>1. h \in Handlers
  BY DEF Types
<1>2. ASSUME NEW what, NEW d
      PROVE  /\ Tally(what, d) - T(what, d) \in Nat
             /\ Tally(what, d)' = (Tally(what, d) - T(what, d))
                        + Count(x, Due(what, d)) + Count(y, Due(what, d))
  <2>1. PICK n \in Nat : /\ Count(ready, Due(what, d)) = n + Weight(h, Due(what, d))
                         /\ Count(ready', Due(what, d)) = n + Count(x, Due(what, d)) + Count(y, Due(what, d))
    BY Ran, ZenonT(40)
  <2>2. Weight(h, Due(what, d)) = T(what, d)
    BY <1>1, OneDue
  <2>3. T(what, d) \in {0, 1}
    OBVIOUS
  <2> HIDE DEF T
  <2>4. Tally(what, d) = n + T(what, d)
    BY <2>1, <2>2 DEF Tally
  <2>5. n = Tally(what, d) - T(what, d)
    BY <2>3, <2>4
  <2> QED
    BY <2>1, <2>5 DEF Tally
<1>3. Accepts' = Accepts - (IF h.what = "accept" THEN 1 ELSE 0)
  <2>1. PICK n \in Nat : /\ Count(ready, Accepting) = n + Weight(h, Accepting)
                         /\ Count(ready', Accepting) = n + Count(x, Accepting) + Count(y, Accepting)
    BY Ran, ZenonT(40)
  <2>2. Count(x, Accepting) = 0 /\ Count(y, Accepting) = 0
    BY CountZero
  <2> QED
    BY <1>1, <2>1, <2>2, OneAccept DEF Accepts
<1> QED
  BY <1>2, <1>3

\* The handlers that a close() adds.
LEMMA AbortedTally ==
    ASSUME NEW c \in Conns
    PROVE  /\ Aborted(c) \in Seq(Handlers)
           /\ \A k \in DOMAIN Aborted(c) : Aborted(c)[k].what \in {"read_error", "write_error"}
           /\ \A what, d : Count(Aborted(c), Due(what, d)) =
                    IF d # c THEN 0
                    ELSE IF what = "read_error" THEN Flag(c \in reading)
                    ELSE IF what = "write_error" THEN Flag(c \in writing)
                    ELSE 0
<1> DEFINE r == Handler("read_error", c)
           w == Handler("write_error", c)
           R == IF c \in reading THEN <<r>> ELSE <<>>
           W == IF c \in writing THEN <<w>> ELSE <<>>
<1>1. /\ r \in Handlers /\ r.what = "read_error" /\ r.conn = c
      /\ w \in Handlers /\ w.what = "write_error" /\ w.conn = c
  BY NewHandlers DEF OfConnection, Ops
<1>2. Aborted(c) = R \o W
  BY DEF Aborted
<1> HIDE DEF r, w
<1>3. R \in Seq(Handlers) /\ W \in Seq(Handlers)
  BY <1>1
<1>4. ASSUME NEW what, NEW d
      PROVE  /\ Count(R, Due(what, d)) = IF c \in reading /\ what = "read_error" /\ d = c THEN 1 ELSE 0
             /\ Count(W, Due(what, d)) = IF c \in writing /\ what = "write_error" /\ d = c THEN 1 ELSE 0
  <2>1. /\ Count(<<>>, Due(what, d)) = 0
        /\ Count(<<r>>, Due(what, d)) = Weight(r, Due(what, d))
        /\ Count(<<w>>, Due(what, d)) = Weight(w, Due(what, d))
    BY CountEmpty, CountSingle
  <2>2. /\ Weight(r, Due(what, d)) = IF what = "read_error" /\ d = c THEN 1 ELSE 0
        /\ Weight(w, Due(what, d)) = IF what = "write_error" /\ d = c THEN 1 ELSE 0
    BY <1>1, OneDue
  <2> QED
    BY <2>1, <2>2
<1>5. \A k \in DOMAIN Aborted(c) : Aborted(c)[k].what \in {"read_error", "write_error"}
  <2>1. (\A k \in DOMAIN R : R[k] = r) /\ (\A k \in DOMAIN W : W[k] = w)
    <3>1. \A h : \A k \in DOMAIN <<h>> : <<h>>[k] = h
      OBVIOUS
    <3>2. DOMAIN <<>> = {}
      OBVIOUS
    <3>3. (R = <<>> \/ R = <<r>>) /\ (W = <<>> \/ W = <<w>>)
      OBVIOUS
    <3> QED
      BY <3>1, <3>2, <3>3
  <2> HIDE DEF R, W
  <2>2. \A k \in DOMAIN (R \o W) : (R \o W)[k] \in {r, w}
    BY <1>3, <2>1
  <2> QED
    BY <1>1, <1>2, <2>2
<1> HIDE DEF R, W
<1>6. ASSUME NEW what, NEW d PROVE Count(Aborted(c), Due(what, d)) = Count(R, Due(what, d)) + Count(W, Due(what, d))
  BY <1>2, <1>3, CountConcat
<1>7. ASSUME NEW what, NEW d
      PROVE  Count(Aborted(c), Due(what, d)) =
                    IF d # c THEN 0
                    ELSE IF what = "read_error" THEN Flag(c \in reading)
                    ELSE IF what = "write_error" THEN Flag(c \in writing)
                    ELSE 0
  BY <1>4, <1>6 DEF Flag
<1> QED
  BY <1>2, <1>3, <1>5, <1>7

-----------------------------------------------------------------------------
(* What a step may do to a connection.                                     *)

\* Nothing: its part of the state is as it was.
LEMMA KeptSame ==
    ASSUME NEW d \in Conns, Consistent(d),
           address'[d] = address[d], Alive(d)' => Alive(d), socket'[d] = socket[d], peer'[d] = peer[d],
           d \in reading' <=> d \in reading, d \in writing' <=> d \in writing,
           d \in isSending' <=> d \in isSending,
           responses'[d] = responses[d], sent'[d] = sent[d], inbox'[d] = inbox[d],
           delivered'[d] = delivered[d], dropped'[d] = dropped[d],
           \A what \in Ops : Tally(what, d)' = Tally(what, d),
           \A h \in Queued' : h \in Due("read", d) => h \in Queued
    PROVE  Consistent(d)'
<1>1. ReadTokens(d)' = ReadTokens(d) /\ WriteTokens(d)' = WriteTokens(d)
  BY DEF ReadTokens, WriteTokens, Ops, Flag
<1>2. Served(d)' => Served(d)
  BY DEF Served
<1>3. (address[d] = 0 => Fresh(d)) => (address[d] = 0 => Fresh(d))'
  BY DEF Fresh, Ops
<1>4. Tokens(d)'
  BY <1>1, <1>2 DEF Consistent, Tokens, Ops
<1>5. \A n : Accounted(d, n) => Accounted(d, n)'
  BY DEF Accounted
<1>6. Accounts(d)'
  <2>1. Accounts(d)
    BY DEF Consistent
  <2>2. ASSUME Served(d)' PROVE Tally("read", d)' = 0 => Accounted(d, 0)'
    BY <1>2, <1>5, <2>1, <2>2 DEF Accounts, Ops
  <2>3. ASSUME Served(d)', NEW h \in Queued', h \in Due("read", d)' PROVE Accounted(d, h.size)'
    <3>1. h \in Due("read", d) /\ h \in Queued
      BY <2>3 DEF Due
    <3> QED
      BY <1>2, <1>5, <2>1, <2>3, <3>1 DEF Accounts
  <2> QED
    BY <2>2, <2>3 DEF Accounts
<1> QED
  BY <1>3, <1>4, <1>6 DEF Consistent

\* It is no longer served, and its operations have at most gone on.
LEMMA KeptClosed ==
    ASSUME Types, NEW d \in Conns, Consistent(d), address[d] # 0,
           address'[d] = address[d], Alive(d)' => Alive(d), ~Served(d)',
           d \in isSending' <=> d \in isSending,
           NEW r \in Nat, NEW w \in Nat, ReadTokens(d)' = r, WriteTokens(d)' = w,
           r <= ReadTokens(d), w <= WriteTokens(d)
    PROVE  Consistent(d)'
<1>1. ReadTokens(d) \in Nat /\ WriteTokens(d) \in Nat /\ ReadTokens(d) <= 1 /\ WriteTokens(d) <= 1
  BY TallyNat DEF Consistent, Tokens, ReadTokens, WriteTokens, Flag
<1>2. r <= 1 /\ w <= 1 /\ (w = 1 => WriteTokens(d) = 1)
  BY <1>1
<1>3. Tokens(d)'
  BY <1>2 DEF Consistent, Tokens
<1> QED
  BY <1>3 DEF Consistent, Accounts

\* A handler runs and adds none.
LEMMA RanAlone ==
    ASSUME Types, ready # <<>>, ready' = Tail(ready)
    PROVE  LET h == Head(ready)
               Spent(what, d) == IF h.what = what /\ h.conn = d THEN 1 ELSE 0
           IN  /\ ready' \in Seq(Handlers) /\ Queued' \in SUBSET Queued
               /\ \A what, d : /\ Tally(what, d) - Spent(what, d) \in Nat
                               /\ Tally(what, d)' = Tally(what, d) - Spent(what, d)
               /\ Accepts' = Accepts - (IF h.what = "accept" THEN 1 ELSE 0)
<1> DEFINE h == Head(ready)
           T(what, d) == IF h.what = what /\ h.conn = d THEN 1 ELSE 0
           e == <<>>
<1>1. ready \in Seq(Handlers) /\ Tail(ready) \in Seq(Handlers)
  BY DEF Types
<1>2. /\ e \in Seq(Handlers) /\ ready' = Tail(ready) \o e \o e
      /\ \A k \in DOMAIN e : FALSE
      /\ \A P : Count(e, P) = 0
  BY <1>1, CountEmpty
<1> HIDE DEF e
<1>3. ready' \in Seq(Handlers) /\ Queued' \in SUBSET Queued
  BY <1>2, Ran
<1>4. /\ \A what, d : /\ Tally(what, d) - T(what, d) \in Nat
                      /\ Tally(what, d)' = (Tally(what, d) - T(what, d))
                                 + Count(e, Due(what, d)) + Count(e, Due(what, d))
      /\ Accepts' = Accepts - (IF h.what = "accept" THEN 1 ELSE 0)
  BY <1>2, RanTally
<1>5. ASSUME NEW what, NEW d PROVE Tally(what, d)' = Tally(what, d) - T(what, d)
  <2> HIDE DEF T
  <2> QED
    BY <1>2, <1>4
<1> QED
  BY <1>3, <1>4, <1>5

\* The list of connections is as it was, and no accept was added.
LEMMA ListedSame ==
    ASSUME Listed, UNCHANGED <<at, address>>, NEW n \in {0, 1},
           Accepts' + Flag(accepting') = n,
           \A h \in Queued' : h.what = "accept" => h \in Queued
    PROVE  Listed'
  BY DEF Listed

\* A client connects to the backlog.
LEMMA ConnectsKeeps ==
    ASSUME IInv, Connects
    PROVE  IInv'
<1>1. /\ UNCHANGED <<ready, running, accepting, at, address, socket, reading, writing, isSending,
                     responses, peer, sent, inbox, delivered, dropped, dangling, acceptFailed>>
      /\ arrived' = arrived + 1 /\ arrived < MaxConnections
  BY DEF Connects, listVars, connVars, peerVars
<1>2. Types'
  <2>1. arrived' \in Nat /\ arrived' <= MaxConnections
    BY <1>1, ServerAssumption DEF IInv, Types
  <2> QED
    BY <1>1, <2>1 DEF IInv, Types
<1>3. Listed'
  BY <1>1 DEF IInv, Listed, Accepts, Queued
<1>4. ASSUME NEW d \in Conns PROVE Consistent(d)'
  BY <1>1, KeptSame DEF IInv, Alive, Tally, Queued
<1> QED
  BY <1>2, <1>3, <1>4 DEF IInv

\* A signal arrives.
LEMMA SignalKeeps ==
    ASSUME IInv, Signal
    PROVE  IInv'
<1>1. /\ UNCHANGED <<running, arrived, accepting, at, address, socket, reading, writing, isSending,
                     responses, peer, sent, inbox, delivered, dropped, dangling, acceptFailed>>
      /\ ready' = Append(ready, Handler("signal", 0))
  BY DEF Signal, listVars, coreVars, peerVars
<1>2. /\ ready' \in Seq(Handlers)
      /\ \A h \in Queued' : h.what # "signal" => h \in Queued
      /\ \A what \in Ops : \A c : Tally(what, c)' = Tally(what, c)
      /\ Accepts' = Accepts
  <2>1. Handler("signal", 0) \in Handlers /\ Handler("signal", 0).what = "signal"
    BY NewHandlers
  <2> QED
    BY <1>1, <2>1, Added DEF IInv, Ops
<1>3. Types'
  BY <1>1, <1>2 DEF IInv, Types
<1>4. Listed'
  BY <1>1, <1>2 DEF IInv, Listed
<1>5. ASSUME NEW d \in Conns PROVE Consistent(d)'
  BY <1>1, <1>2, KeptSame DEF IInv, Alive, Due
<1> QED
  BY <1>3, <1>4, <1>5 DEF IInv

\* The handler of an accept that failed.
LEMMA RunAcceptErrorKeeps ==
    ASSUME IInv, RunAcceptError
    PROVE  IInv'
<1>1. /\ UNCHANGED <<running, arrived, accepting, at, address, socket, reading, writing, isSending,
                     responses, peer, sent, inbox, delivered, dropped, dangling>>
      /\ ready # <<>> /\ ready' = Tail(ready) /\ Head(ready).what = "accept_error"
      /\ acceptFailed' = TRUE
  BY DEF RunAcceptError, Runs, listVars, connVars, peerVars
<1>2. /\ ready' \in Seq(Handlers) /\ Queued' \in SUBSET Queued
      /\ \A what \in Ops : \A c : Tally(what, c)' = Tally(what, c) - 0
      /\ Accepts' = Accepts - 0
  BY <1>1, RanAlone DEF IInv, Ops
<1>3. /\ \A what \in Ops : \A c : Tally(what, c)' = Tally(what, c)
      /\ Accepts' = Accepts
  BY <1>2, TallyNat DEF IInv
<1>4. Types'
  <2>1. acceptFailed' \in BOOLEAN
    BY <1>1
  <2> QED
    BY <1>1, <1>2, <2>1 DEF IInv, Types
<1>5. Listed'
  BY <1>1, <1>2, <1>3 DEF IInv, Listed
<1>6. ASSUME NEW d \in Conns PROVE Consistent(d)'
  BY <1>1, <1>2, <1>3, KeptSame DEF IInv, Alive
<1> QED
  BY <1>4, <1>5, <1>6 DEF IInv

\* An accept ends: its handler names the first client that was not taken.
LEMMA AcceptEndsKeeps ==
    ASSUME IInv, AcceptEnds
    PROVE  IInv'
<1>1. /\ UNCHANGED <<running, arrived, at, address, socket, reading, writing, isSending,
                     responses, peer, sent, inbox, delivered, dropped, dangling, acceptFailed>>
      /\ accepting /\ accepting' = FALSE
  BY DEF AcceptEnds, listVars, coreVars, peerVars
<1>2. Accepts = 0 /\ \A h \in Queued : h.what # "accept"
  <2>1. Accepts = 0
    BY <1>1, TallyNat DEF IInv, Listed, Flag
  <2>2. ready \in Seq(Handlers)
    BY DEF IInv, Types
  <2>3. \A k \in DOMAIN ready : ready[k] \notin Accepting /\ ready[k] \in Handlers
    BY <2>1, <2>2, CountZero DEF Accepts
  <2> QED
    BY <2>1, <2>3 DEF Queued, Accepting
<1>3. PICK n \in Nat : {c \in Conns : address[c] # 0} = 1..n
  BY DEF IInv, Listed
<1>4. Taken = n
  <2> DEFINE A == {c \in Conns : address[c] # 0}
             B == {k \in DOMAIN ready : ready[k].what = "accept"}
  <2>1. Taken = Cardinality(A) + Cardinality(B)
    BY DEF Taken
  <2>2. A = 1..n /\ B = {}
    BY <1>2, <1>3 DEF Queued
  <2> HIDE DEF A, B
  <2>3. Cardinality(1..n) = n /\ Cardinality({}) = 0
    BY FS_Interval, FS_EmptySet
  <2> QED
    BY <2>1, <2>2, <2>3
<1>5. PICK h \in Handlers : /\ ready' = Append(ready, h)
                            /\ h.what \in {"accept", "accept_error"}
                            /\ h.what = "accept" => \A c \in Conns : address[c] # 0 <=> c < h.conn
  <2>1. CASE Taken < arrived /\ ready' = Append(ready, Handler("accept", Taken + 1))
    <3>1. n + 1 \in Conns
      BY <1>4, <2>1, ServerAssumption DEF IInv, Types, Conns
    <3>2. /\ Handler("accept", n + 1) \in Handlers
          /\ Handler("accept", n + 1).what = "accept" /\ Handler("accept", n + 1).conn = n + 1
      BY <3>1, NewHandlers DEF OfConnection
    <3>3. \A c \in Conns : address[c] # 0 <=> c < n + 1
      <4>1. \A c \in Conns : c \in 1..n <=> c < n + 1
        BY ServerAssumption DEF Conns
      <4> QED
        BY <1>3, <4>1
    <3> QED
      BY <1>4, <2>1, <3>2, <3>3
  <2>2. CASE ready' = Append(ready, Handler("accept_error", 0))
    BY <2>2, NewHandlers
  <2> QED
    BY <2>1, <2>2 DEF AcceptEnds
<1>6. /\ ready' \in Seq(Handlers) /\ Queued' = Queued \cup {h}
      /\ \A what \in Ops : \A c : Tally(what, c)' = Tally(what, c)
      /\ Accepts' = IF h.what = "accept" THEN Accepts + 1 ELSE Accepts
  BY <1>5, Added DEF IInv, Ops
<1>7. Types'
  <2>1. accepting' \in BOOLEAN
    BY <1>1
  <2> QED
    BY <1>1, <1>6, <2>1 DEF IInv, Types
<1>8. Listed'
  <2>1. Accepts' + Flag(accepting') <= 1
    <3>1. Flag(accepting') = 0
      BY <1>1 DEF Flag
    <3>2. PICK a \in {0, 1} : Accepts' = a
      BY <1>2, <1>6
    <3> QED
      BY <3>1, <3>2
  <2>2. \A g \in Queued' : g.what = "accept" => \A c \in Conns : address[c] # 0 <=> c < g.conn
    BY <1>2, <1>5, <1>6
  <2> QED
    BY <1>1, <2>1, <2>2 DEF IInv, Listed
<1>9. ASSUME NEW d \in Conns PROVE Consistent(d)'
  BY <1>1, <1>5, <1>6, KeptSame DEF IInv, Alive, Due
<1> QED
  BY <1>7, <1>8, <1>9 DEF IInv

\* A client sends a request.
LEMMA SendsKeeps ==
    ASSUME IInv, NEW c \in Conns, Sends(c)
    PROVE  IInv'
<1>1. /\ UNCHANGED <<ready, accepting, running, arrived, at, address, socket, reading, writing, isSending,
                     responses, peer, delivered, dropped, dangling, acceptFailed>>
      /\ sent' = [sent EXCEPT ![c] = @ + 1] /\ inbox' = [inbox EXCEPT ![c] = @ + 1]
      /\ socket[c] = "open"
  BY DEF Sends, listVars, coreVars
<1>2. sent' \in [Conns -> Nat] /\ inbox' \in [Conns -> Nat]
  BY <1>1 DEF IInv, Types
<1>3. Types'
  BY <1>1, <1>2 DEF IInv, Types
<1>4. Listed'
  BY <1>1 DEF IInv, Listed, Accepts, Queued
<1>5. \A what, d : Tally(what, d)' = Tally(what, d)
  BY <1>1 DEF Tally
<1>6. ASSUME NEW d \in Conns, d # c PROVE Consistent(d)'
  <2>1. sent'[d] = sent[d] /\ inbox'[d] = inbox[d]
    BY <1>1, <1>6 DEF IInv, Types
  <2> QED
    BY <1>1, <1>5, <2>1, KeptSame DEF IInv, Alive, Queued
<1>7. Consistent(c)'
  <2>1. address[c] # 0 /\ Consistent(c)
    BY <1>1 DEF IInv, Consistent, Fresh
  <2>2. ReadTokens(c)' = ReadTokens(c) /\ WriteTokens(c)' = WriteTokens(c)
    BY <1>1, <1>5 DEF ReadTokens, WriteTokens
  <2>3. Tokens(c)'
    BY <1>1, <1>5, <2>1, <2>2 DEF Consistent, Tokens, Served, Alive
  <2>4. ASSUME NEW n \in Nat, Accounted(c, n) PROVE Accounted(c, n)'
    <3>1. sent'[c] = sent[c] + 1 /\ inbox'[c] = inbox[c] + 1
      BY <1>1 DEF IInv, Types
    <3>2. PICK f \in {0, 1} : f = IF c \in writing THEN 1 ELSE 0
      OBVIOUS
    <3>3. sent[c] = inbox[c] + n + responses[c] + f + delivered[c] + dropped[c]
      BY <2>4, <3>2 DEF Accounted
    <3>4. /\ inbox[c] \in Nat /\ responses[c] \in Nat /\ delivered[c] \in Nat /\ dropped[c] \in Nat
          /\ sent[c] \in Nat
      BY DEF IInv, Types
    <3>5. sent[c] + 1 = (inbox[c] + 1) + n + responses[c] + f + delivered[c] + dropped[c]
      BY <3>3, <3>4
    <3> QED
      BY <1>1, <3>1, <3>2, <3>5 DEF Accounted
  <2>5. Accounts(c)'
    <3>1. Served(c)' => Accounts(c) /\ Served(c)
      BY <1>1, <2>1 DEF Consistent, Served, Alive
    <3>2. \A h \in Queued : h.size \in Nat
      BY InQueue, HandlerFields DEF IInv
    <3>3. Queued' = Queued
      BY <1>1 DEF Queued
    <3> QED
      BY <1>5, <2>4, <3>1, <3>2, <3>3 DEF Accounts, Due
  <2> QED
    BY <1>1, <2>1, <2>3, <2>5 DEF Consistent
<1>8. \A d \in Conns : Consistent(d)'
  BY <1>6, <1>7
<1> QED
  BY <1>3, <1>4, <1>8 DEF IInv

\* A client leaves.
LEMMA LeavesKeeps ==
    ASSUME IInv, NEW c \in Conns, Leaves(c)
    PROVE  IInv'
<1>1. /\ UNCHANGED <<ready, accepting, running, arrived, at, address, socket, reading, writing, isSending,
                     responses, sent, inbox, delivered, dropped, dangling, acceptFailed>>
      /\ peer' = [peer EXCEPT ![c] = "gone"]
      /\ socket[c] = "open"
  BY DEF Leaves, listVars, coreVars
<1>2. peer' \in [Conns -> {"up", "gone"}]
  BY <1>1 DEF IInv, Types
<1>3. Types'
  BY <1>1, <1>2 DEF IInv, Types
<1>4. Listed'
  BY <1>1 DEF IInv, Listed, Accepts, Queued
<1>5. \A what, d : Tally(what, d)' = Tally(what, d)
  BY <1>1 DEF Tally
<1>6. ASSUME NEW d \in Conns, d # c PROVE Consistent(d)'
  <2>1. peer'[d] = peer[d]
    BY <1>1, <1>6 DEF IInv, Types
  <2> QED
    BY <1>1, <1>5, <2>1, KeptSame DEF IInv, Alive, Queued
<1>7. Consistent(c)'
  <2>1. address[c] # 0 /\ Consistent(c)
    BY <1>1 DEF IInv, Consistent, Fresh
  <2>2. ReadTokens(c)' = ReadTokens(c) /\ WriteTokens(c)' = WriteTokens(c)
    BY <1>1, <1>5 DEF ReadTokens, WriteTokens
  <2>3. ~Served(c)'
    BY <1>1 DEF IInv, Types, Served
  <2>4. ReadTokens(c) \in Nat /\ WriteTokens(c) \in Nat
    BY TallyNat DEF IInv, ReadTokens, WriteTokens, Flag
  <2> QED
    BY <1>1, <2>1, <2>2, <2>3, <2>4, KeptClosed DEF IInv, Alive
<1>8. \A d \in Conns : Consistent(d)'
  BY <1>6, <1>7
<1> QED
  BY <1>3, <1>4, <1>8 DEF IInv

\* A connection with an operation outstanding has one token of it.
LEMMA Outstanding ==
    ASSUME Types, NEW c \in Conns, Consistent(c)
    PROVE  /\ c \in reading => /\ address[c] # 0 /\ ReadTokens(c) = 1
                               /\ Tally("read", c) = 0 /\ Tally("read_error", c) = 0
           /\ c \in writing => /\ address[c] # 0 /\ WriteTokens(c) = 1
                               /\ Tally("write", c) = 0 /\ Tally("write_error", c) = 0
  BY TallyNat DEF Consistent, Fresh, Tokens, ReadTokens, WriteTokens, Flag

\* A read ends: its token passes to a handler, and the chunk with it.
LEMMA ReadEndsKeeps ==
    ASSUME IInv, NEW c \in Conns, ReadEnds(c)
    PROVE  IInv'
<1>1. /\ UNCHANGED <<accepting, running, arrived, at, address, socket, writing, isSending,
                     responses, peer, sent, delivered, dropped, dangling, acceptFailed>>
      /\ c \in reading /\ reading' = reading \ {c} /\ inbox' = [inbox EXCEPT ![c] = 0]
  BY DEF ReadEnds, listVars, coreVars
<1>2. PICK h \in Handlers :
          /\ ready' = Append(ready, h) /\ h.conn = c
          /\ \/ h.what = "read" /\ h.size = inbox[c]
             \/ h.what = "read_error" /\ peer[c] = "gone"
  <2>1. inbox[c] \in Nat
    BY DEF IInv, Types
  <2>2. CASE ready' = Append(ready, [Handler("read", c) EXCEPT !.size = inbox[c]])
    <3> DEFINE g == [Handler("read", c) EXCEPT !.size = inbox[c]]
    <3>1. g \in Handlers /\ g.what = "read" /\ g.conn = c /\ g.size = inbox[c]
      BY <2>1, NewHandlers
    <3> HIDE DEF g
    <3>2. ready' = Append(ready, g)
      BY <2>2 DEF g
    <3> QED
      BY <3>1, <3>2
  <2>3. CASE peer[c] = "gone" /\ ready' = Append(ready, Handler("read_error", c))
    BY <2>3, NewHandlers DEF OfConnection, Ops
  <2> QED
    BY <2>2, <2>3 DEF ReadEnds
<1>3. /\ ready' \in Seq(Handlers) /\ Queued' = Queued \cup {h}
      /\ \A what, d : Tally(what, d)' = IF h.what = what /\ h.conn = d
                                       THEN Tally(what, d) + 1 ELSE Tally(what, d)
      /\ Accepts' = IF h.what = "accept" THEN Accepts + 1 ELSE Accepts
  BY <1>2, Added DEF IInv
<1>4. Types'
  <2>1. reading' \in SUBSET Conns /\ inbox' \in [Conns -> Nat]
    BY <1>1 DEF IInv, Types
  <2> QED
    BY <1>1, <1>3, <2>1 DEF IInv, Types
<1>5. Listed'
  <2>1. Accepts' = Accepts /\ \A g \in Queued' : g.what = "accept" => g \in Queued
    BY <1>2, <1>3
  <2> QED
    BY <1>1, <2>1 DEF IInv, Listed
<1>6. ASSUME NEW d \in Conns, d # c PROVE Consistent(d)'
  <2>1. inbox'[d] = inbox[d] /\ (d \in reading' <=> d \in reading)
    BY <1>1, <1>6 DEF IInv, Types
  <2>2. \A what \in Ops : Tally(what, d)' = Tally(what, d)
    BY <1>2, <1>3, <1>6
  <2>3. \A g \in Queued' : g \in Due("read", d) => g \in Queued
    BY <1>2, <1>3, <1>6 DEF Due
  <2> QED
    BY <1>1, <2>1, <2>2, <2>3, KeptSame DEF IInv, Alive
<1>7. Consistent(c)'
  <2>1. /\ address[c] # 0 /\ ReadTokens(c) = 1
        /\ Tally("read", c) = 0 /\ Tally("read_error", c) = 0 /\ Consistent(c)
    BY <1>1, Outstanding DEF IInv
  <2>2. Tally("write", c)' = Tally("write", c) /\ Tally("write_error", c)' = Tally("write_error", c)
    BY <1>2, <1>3
  <2>3. WriteTokens(c)' = WriteTokens(c)
    BY <1>1, <2>2 DEF WriteTokens
  <2>4. ReadTokens(c)' = 1
    <3>1. Flag(c \in reading') = 0
      BY <1>1 DEF Flag
    <3>2. PICK m \in {0, 1} : Tally("read", c)' = m /\ Tally("read_error", c)' = 1 - m
      BY <1>2, <1>3, <2>1
    <3> QED
      BY <3>1, <3>2 DEF ReadTokens
  <2>5. CASE h.what = "read_error" /\ peer[c] = "gone"
    <3>1. WriteTokens(c) \in Nat /\ ~Served(c)'
      BY <1>1, <2>5, TallyNat DEF IInv, WriteTokens, Flag, Served
    <3> QED
      BY <1>1, <2>1, <2>3, <2>4, <3>1, KeptClosed DEF IInv, Alive
  <2>6. CASE h.what = "read" /\ h.size = inbox[c]
    <3>1. Tally("read", c)' = 1
      BY <1>2, <1>3, <2>1, <2>6
    <3>2. Tokens(c)'
      BY <1>1, <2>1, <2>2, <2>3, <2>4 DEF Consistent, Tokens, Served, Alive
    <3>3. \A g \in Queued' : g \in Due("read", c) => g = h
      BY <1>3, <2>1, InQueue DEF IInv
    <3>4. ASSUME Accounted(c, 0) PROVE Accounted(c, h.size)'
      <4>1. inbox'[c] = 0 /\ inbox[c] \in Nat
        BY <1>1 DEF IInv, Types
      <4>2. PICK f \in {0, 1} : f = IF c \in writing THEN 1 ELSE 0
        OBVIOUS
      <4>3. sent[c] = inbox[c] + 0 + responses[c] + f + delivered[c] + dropped[c]
        BY <3>4, <4>2 DEF Accounted
      <4>4. responses[c] \in Nat /\ delivered[c] \in Nat /\ dropped[c] \in Nat
        BY DEF IInv, Types
      <4>5. sent[c] = 0 + inbox[c] + responses[c] + f + delivered[c] + dropped[c]
        BY <4>1, <4>3, <4>4
      <4> QED
        BY <1>1, <2>6, <4>1, <4>2, <4>5 DEF Accounted
    <3>5. Served(c)' => Accounted(c, 0)
      BY <1>1, <2>1 DEF Consistent, Accounts, Served, Alive
    <3>6. Accounts(c)'
      BY <3>1, <3>3, <3>4, <3>5 DEF Accounts, Due
    <3> QED
      BY <1>1, <2>1, <3>2, <3>6 DEF Consistent
  <2> QED
    BY <1>2, <2>5, <2>6
<1>8. \A d \in Conns : Consistent(d)'
  BY <1>6, <1>7
<1> QED
  BY <1>4, <1>5, <1>8 DEF IInv

\* A write ends: its token passes to a handler.
LEMMA WriteEndsKeeps ==
    ASSUME IInv, NEW c \in Conns, WriteEnds(c)
    PROVE  IInv'
<1>1. /\ UNCHANGED <<accepting, running, arrived, at, address, socket, reading, isSending,
                     responses, peer, sent, inbox, dropped, dangling, acceptFailed>>
      /\ c \in writing /\ writing' = writing \ {c}
  BY DEF WriteEnds, listVars, coreVars
<1>2. PICK h \in Handlers :
          /\ ready' = Append(ready, h) /\ h.conn = c
          /\ \/ h.what = "write" /\ delivered' = [delivered EXCEPT ![c] = @ + 1]
             \/ h.what = "write_error" /\ peer[c] = "gone" /\ delivered' = delivered
  BY NewHandlers DEF WriteEnds, OfConnection, Ops
<1>3. /\ ready' \in Seq(Handlers) /\ Queued' = Queued \cup {h}
      /\ \A what, d : Tally(what, d)' = IF h.what = what /\ h.conn = d
                                       THEN Tally(what, d) + 1 ELSE Tally(what, d)
      /\ Accepts' = IF h.what = "accept" THEN Accepts + 1 ELSE Accepts
  BY <1>2, Added DEF IInv
<1>4. Types'
  <2>1. writing' \in SUBSET Conns
    BY <1>1 DEF IInv, Types
  <2>2. delivered \in [Conns -> Nat]
    BY DEF IInv, Types
  <2>3. delivered' = delivered \/ delivered' = [delivered EXCEPT ![c] = @ + 1]
    BY <1>2
  <2>4. delivered' \in [Conns -> Nat]
    BY <2>2, <2>3
  <2> QED
    BY <1>1, <1>3, <2>1, <2>4 DEF IInv, Types
<1>5. Listed'
  <2>1. Accepts' = Accepts /\ \A g \in Queued' : g.what = "accept" => g \in Queued
    BY <1>2, <1>3
  <2> QED
    BY <1>1, <2>1 DEF IInv, Listed
<1>6. ASSUME NEW d \in Conns, d # c PROVE Consistent(d)'
  <2>1. delivered'[d] = delivered[d] /\ (d \in writing' <=> d \in writing)
    BY <1>1, <1>2, <1>6 DEF IInv, Types
  <2>2. \A what \in Ops : Tally(what, d)' = Tally(what, d)
    BY <1>2, <1>3, <1>6
  <2>3. \A g \in Queued' : g \in Due("read", d) => g \in Queued
    BY <1>2, <1>3, <1>6 DEF Due
  <2> QED
    BY <1>1, <2>1, <2>2, <2>3, KeptSame DEF IInv, Alive
<1>7. Consistent(c)'
  <2>1. /\ address[c] # 0 /\ WriteTokens(c) = 1
        /\ Tally("write", c) = 0 /\ Tally("write_error", c) = 0 /\ Consistent(c)
    BY <1>1, Outstanding DEF IInv
  <2>2. Tally("read", c)' = Tally("read", c) /\ Tally("read_error", c)' = Tally("read_error", c)
    BY <1>2, <1>3
  <2>3. ReadTokens(c)' = ReadTokens(c)
    BY <1>1, <2>2 DEF ReadTokens
  <2>4. WriteTokens(c)' = 1
    <3>1. Flag(c \in writing') = 0
      BY <1>1 DEF Flag
    <3>2. PICK m \in {0, 1} : Tally("write", c)' = m /\ Tally("write_error", c)' = 1 - m
      BY <1>2, <1>3, <2>1
    <3> QED
      BY <3>1, <3>2 DEF WriteTokens
  <2>5. CASE h.what = "write_error" /\ peer[c] = "gone"
    <3>1. ReadTokens(c) \in Nat /\ ~Served(c)'
      BY <1>1, <2>5, TallyNat DEF IInv, ReadTokens, Flag, Served
    <3> QED
      BY <1>1, <2>1, <2>3, <2>4, <3>1, KeptClosed DEF IInv, Alive
  <2>6. CASE h.what = "write" /\ delivered' = [delivered EXCEPT ![c] = @ + 1]
    <3>1. Tally("write_error", c)' = 0
      BY <1>3, <2>1, <2>6
    <3>2. Tokens(c)'
      BY <1>1, <2>1, <2>3, <2>4, <3>1 DEF Consistent, Tokens, Served, Alive
    <3>3. ASSUME NEW n \in Nat, Accounted(c, n) PROVE Accounted(c, n)'
      <4>1. sent[c] = inbox[c] + n + responses[c] + 1 + delivered[c] + dropped[c]
        BY <1>1, <3>3 DEF Accounted
      <4>2. /\ inbox[c] \in Nat /\ responses[c] \in Nat /\ delivered[c] \in Nat /\ dropped[c] \in Nat
        BY DEF IInv, Types
      <4>3. sent[c] = inbox[c] + n + responses[c] + 0 + (delivered[c] + 1) + dropped[c]
        BY <4>1, <4>2
      <4>4. delivered'[c] = delivered[c] + 1 /\ c \notin writing'
        BY <1>1, <2>6 DEF IInv, Types
      <4> QED
        BY <1>1, <4>3, <4>4 DEF Accounted
    <3>4. Accounts(c)'
      <4>1. Served(c)' => Accounts(c) /\ Served(c)
        BY <1>1, <2>1 DEF Consistent, Served, Alive
      <4>2. \A g \in Queued' : g \in Due("read", c) => g \in Queued /\ g.size \in Nat
        BY <1>3, <2>6, InQueue, HandlerFields DEF IInv, Due
      <4> QED
        BY <2>2, <3>3, <4>1, <4>2 DEF Accounts, Due
    <3> QED
      BY <1>1, <2>1, <3>2, <3>4 DEF Consistent
  <2> QED
    BY <1>2, <2>5, <2>6
<1>8. \A d \in Conns : Consistent(d)'
  BY <1>6, <1>7
<1> QED
  BY <1>4, <1>5, <1>8 DEF IInv

\* What a queue of handlers gives the proofs.
QueueFacts ==
    /\ \A what, c : Tally(what, c) \in Nat
    /\ Accepts \in Nat
    /\ \A what, c : \A h \in Queued : h \in Due(what, c) => Tally(what, c) # 0
    /\ Accepts = 0 => \A h \in Queued : h.what # "accept"

\* What a queue of handlers gives the proofs.
LEMMA TypesFacts == Types => QueueFacts
<1> SUFFICES ASSUME Types PROVE QueueFacts
  OBVIOUS
<1>1. ASSUME Accepts = 0 PROVE \A h \in Queued : h.what # "accept"
  <2>1. \A k \in DOMAIN ready : ready[k] \notin Accepting
    BY <1>1, CountZero DEF Accepts, Types
  <2> QED
    BY <2>1, InQueue DEF Queued, Accepting
<1> QED
  BY <1>1, InQueue, TallyNat DEF QueueFacts

\* So it does after a step.
LEMMA TypesFactsNext == Types' => QueueFacts'
  BY TypesFacts, PTL

\* accept(): a fresh connection gets a free address and its read token.
LEMMA RunAcceptKeeps ==
    ASSUME IInv, RunAccept
    PROVE  IInv'
<1>0. PICK h \in Queued, c \in Conns :
          h = Head(ready) /\ h \in Handlers /\ h.what = "accept" /\ h.conn = c
  <2>1. ready # <<>> /\ Head(ready).what = "accept"
    BY DEF RunAccept, Runs
  <2> QED
    BY <2>1, InQueue, HandlerFields DEF IInv, OfConnection
<1>1. /\ UNCHANGED <<running, arrived, writing, isSending, responses, peer, sent, inbox, delivered, dropped,
                     dangling, acceptFailed>>
      /\ ready # <<>> /\ ready' = Tail(ready)
      /\ socket' = [socket EXCEPT ![c] = "open"]
      /\ reading' = reading \cup {c} /\ accepting' = TRUE
  BY <1>0 DEF RunAccept, Runs, peerVars
<1>2. PICK a \in Addresses : /\ at[a] = 0 /\ at' = [at EXCEPT ![a] = c]
                             /\ address' = [address EXCEPT ![c] = a]
  BY <1>0 DEF RunAccept
<1>4. \A d \in Conns : address[d] # 0 <=> d < c
  BY <1>0 DEF IInv, Listed
<1>5. /\ ready' \in Seq(Handlers) /\ Queued' \in SUBSET Queued
      /\ \A what \in Ops : \A d : Tally(what, d)' = Tally(what, d)
      /\ Accepts' = Accepts - 1
  <2>1. /\ ready' \in Seq(Handlers) /\ Queued' \in SUBSET Queued
        /\ \A what \in Ops : \A d : Tally(what, d)' = Tally(what, d) - 0
        /\ Accepts' = Accepts - 1
    BY <1>0, <1>1, RanAlone DEF IInv, Ops
  <2> QED
    BY <2>1, TallyNat DEF IInv
<1>6. Fresh(c) /\ address[c] = 0 /\ a # 0
  <2>1. ~(c < c)
    BY <1>0 DEF Conns
  <2> QED
    BY <1>0, <1>4, <2>1, ServerAssumption DEF IInv, Consistent
<1>7. /\ at' \in [Addresses -> Conns \cup {0}] /\ address' \in [Conns -> Addresses \cup {0}]
      /\ at'[a] = c /\ \A b \in Addresses : b # a => at'[b] = at[b]
      /\ address'[c] = a /\ \A d \in Conns : d # c => address'[d] = address[d]
  BY <1>2, <1>0 DEF IInv, Types
<1>8. Types'
  <2>1. socket' \in [Conns -> {"none", "open", "closed"}] /\ reading' \in SUBSET Conns
    BY <1>1, <1>0 DEF IInv, Types
  <2>2. accepting' \in BOOLEAN
    BY <1>1
  <2> QED
    BY <1>1, <1>5, <1>7, <2>1, <2>2 DEF IInv, Types
<1>9. Listed'
  <2>1. Accepts' = 0
    <3>1. Accepts - 1 \in Nat
      BY <1>5, <1>8, TypesFactsNext DEF QueueFacts
    <3> QED
      BY <1>5, <3>1, TallyNat DEF IInv, Listed, Flag
  <2>2. \A g \in Queued' : g.what # "accept"
    BY <1>8, <2>1, TypesFactsNext DEF QueueFacts
  <2>3. \A b \in Addresses : at'[b] # 0 => address'[at'[b]] = b
    <3> TAKE b \in Addresses
    <3>1. CASE b = a
      BY <1>7, <3>1
    <3>2. CASE b # a
      <4>1. at[b] # 0 => address[at[b]] = b /\ at[b] \in Conns /\ b # 0
        BY ServerAssumption DEF IInv, Listed, Types
      <4> QED
        BY <1>6, <1>7, <3>2, <4>1
    <3> QED
      BY <3>1, <3>2
  <2>4. {d \in Conns : address'[d] # 0} = 1..c
    <3>1. \A d \in Conns : address'[d] # 0 <=> d <= c
      <4> TAKE d \in Conns
      <4>1. CASE d = c
        BY <1>0, <1>6, <1>7, <4>1 DEF Conns
      <4>2. CASE d # c
        BY <1>0, <1>4, <1>7, <4>2 DEF Conns
      <4> QED
        BY <4>1, <4>2
    <3>2. \A d \in 1..c : d \in Conns /\ d <= c
      BY <1>0, ServerAssumption DEF Conns
    <3>3. \A d \in Conns : d <= c => d \in 1..c
      BY <1>0, ServerAssumption DEF Conns
    <3> QED
      BY <3>1, <3>2, <3>3
  <2>5. c \in Nat /\ Accepts' + Flag(accepting') <= 1
    BY <1>1, <1>0, <2>1 DEF Conns, Flag
  <2> QED
    BY <2>2, <2>3, <2>4, <2>5 DEF Listed
<1>10. ASSUME NEW d \in Conns, d # c PROVE Consistent(d)'
  <2>1. address'[d] = address[d] /\ socket'[d] = socket[d] /\ (d \in reading' <=> d \in reading)
    BY <1>1, <1>7, <1>10 DEF IInv, Types
  <2>2. Alive(d)' => Alive(d)
    <3>1. address[d] \in Addresses \cup {0}
      BY DEF IInv, Types
    <3> QED
      BY <1>7, <1>10, <2>1, <3>1 DEF Alive
  <2> QED
    BY <1>1, <1>5, <2>1, <2>2, KeptSame DEF IInv
<1>11. Consistent(c)'
  <2>1. address'[c] # 0
    BY <1>6, <1>7
  <2>2. \A what \in Ops : Tally(what, c)' = 0
    BY <1>5, <1>6 DEF Fresh, Ops
  <2>3. ReadTokens(c)' = 1 /\ WriteTokens(c)' = 0
    <3>1. Flag(c \in reading') = 1 /\ Flag(c \in writing') = 0
      BY <1>1, <1>6 DEF Fresh, Flag
    <3> QED
      BY <2>2, <3>1 DEF ReadTokens, WriteTokens, Ops
  <2>4. c \notin isSending' /\ responses'[c] = 0
    BY <1>1, <1>6 DEF Fresh
  <2>5. Tokens(c)'
    BY <2>2, <2>3, <2>4 DEF Tokens, Ops
  <2>6. Accounted(c, 0)'
    BY <1>1, <1>6 DEF Fresh, Accounted
  <2>7. \A g \in Queued' : g \notin Due("read", c)
    BY <1>5, <1>6, InQueue DEF IInv, Fresh
  <2>8. Accounts(c)'
    BY <2>6, <2>7 DEF Accounts, Due
  <2> QED
    BY <2>1, <2>5, <2>8 DEF Consistent
<1>12. \A d \in Conns : Consistent(d)'
  BY <1>10, <1>11
<1> QED
  BY <1>8, <1>9, <1>12 DEF IInv

\* A handler runs that closes connection c, after it has posted x.
LEMMA Closing ==
    ASSUME Types, ready # <<>>, NEW c \in Conns, NEW x \in Seq(Handlers),
           \A k \in DOMAIN x : x[k].what = "remove",
           ready' = Tail(ready) \o x \o Aborted(c), Close(c)
    PROVE  LET h == Head(ready)
               Spent(what, d) == IF h.what = what /\ h.conn = d THEN 1 ELSE 0
           IN  /\ ready' \in Seq(Handlers)
               /\ socket' \in [Conns -> {"none", "open", "closed"}]
               /\ reading' \in SUBSET Conns /\ writing' \in SUBSET Conns
               /\ \A g \in Queued' : g.what \in {"accept", "read"} => g \in Queued
               /\ Accepts' = Accepts - (IF h.what = "accept" THEN 1 ELSE 0)
               /\ socket'[c] = "closed"
               /\ \A d \in Conns : d # c => /\ socket'[d] = socket[d]
                                            /\ d \in reading' <=> d \in reading
                                            /\ d \in writing' <=> d \in writing
                                            /\ \A what \in Ops : Tally(what, d)' = Tally(what, d) - Spent(what, d)
               /\ \E r \in Nat : ReadTokens(c)' = r /\ r <= ReadTokens(c)
               /\ \E w \in Nat : WriteTokens(c)' = w /\ w <= WriteTokens(c)
<1> DEFINE h == Head(ready)
           T(what, d) == IF h.what = what /\ h.conn = d THEN 1 ELSE 0
           y == Aborted(c)
<1>1. /\ y \in Seq(Handlers)
      /\ \A k \in DOMAIN y : y[k].what \in {"read_error", "write_error"}
      /\ \A what, d : Count(y, Due(what, d)) =
              IF d # c THEN 0
              ELSE IF what = "read_error" THEN Flag(c \in reading)
              ELSE IF what = "write_error" THEN Flag(c \in writing)
              ELSE 0
  BY AbortedTally
<1>2. ready' = Tail(ready) \o x \o y
  OBVIOUS
<1> HIDE DEF y
<1>3. \A what \in Ops : \A d : Count(x, Due(what, d)) = 0
  <2> TAKE what \in Ops
  <2> TAKE d
  <2>1. \A k \in DOMAIN x : x[k] \notin Due(what, d)
    BY DEF Due, Ops
  <2> QED
    BY <2>1, CountZero
<1>4. /\ \A k \in DOMAIN x : x[k] \notin Accepting
      /\ \A k \in DOMAIN y : y[k] \notin Accepting
  BY <1>1 DEF Accepting
<1>5. /\ \A what, d : /\ Tally(what, d) - T(what, d) \in Nat
                      /\ Tally(what, d)' = (Tally(what, d) - T(what, d))
                                 + Count(x, Due(what, d)) + Count(y, Due(what, d))
      /\ Accepts' = Accepts - (IF h.what = "accept" THEN 1 ELSE 0)
  BY <1>1, <1>2, <1>4, RanTally
<1>6. /\ ready' \in Seq(Handlers)
      /\ \A g \in Queued' : g.what \in {"accept", "read"} => g \in Queued
  BY <1>1, <1>2, Ran
<1>7. /\ socket' = [socket EXCEPT ![c] = "closed"]
      /\ reading' = reading \ {c} /\ writing' = writing \ {c}
  BY DEF Close
<1>8. /\ socket' \in [Conns -> {"none", "open", "closed"}]
      /\ reading' \in SUBSET Conns /\ writing' \in SUBSET Conns
      /\ socket'[c] = "closed"
      /\ \A d \in Conns : d # c => /\ socket'[d] = socket[d]
                                   /\ d \in reading' <=> d \in reading
                                   /\ d \in writing' <=> d \in writing
  BY <1>7 DEF Types
<1>9. \A what, d : T(what, d) \in {0, 1}
  OBVIOUS
<1> HIDE DEF T
<1>10. \A d \in Conns : d # c => \A what \in Ops : Tally(what, d)' = Tally(what, d) - T(what, d)
  <2> TAKE d \in Conns
  <2> HAVE d # c
  <2> TAKE what \in Ops
  <2> DEFINE n == Tally(what, d) - T(what, d)
  <2>1. Tally(what, d)' = n + 0 + 0 /\ n \in Nat
    BY <1>1, <1>3, <1>5
  <2> HIDE DEF n
  <2>2. Tally(what, d)' = n
    BY <2>1
  <2> QED
    BY <2>2 DEF n
<1>11. ASSUME NEW what \in {"read", "write"}
       PROVE  \E n \in Nat : Tally(what, c)' = n /\ n <= Tally(what, c)
  <2> DEFINE n == Tally(what, c) - T(what, c)
  <2>1. Tally(what, c)' = n + 0 + 0 /\ n \in Nat
    BY <1>1, <1>3, <1>5 DEF Ops
  <2>2. n <= Tally(what, c)
    BY <1>9, TallyNat
  <2> HIDE DEF n
  <2> QED
    BY <2>1, <2>2
<1>12. ASSUME NEW what \in {"read_error", "write_error"}
       PROVE  \E n \in Nat :
                 /\ n <= Tally(what, c)
                 /\ Tally(what, c)' = n + IF what = "read_error" THEN Flag(c \in reading) ELSE Flag(c \in writing)
  <2> DEFINE n == Tally(what, c) - T(what, c)
             f == IF what = "read_error" THEN Flag(c \in reading) ELSE Flag(c \in writing)
  <2>1. Tally(what, c)' = n + 0 + f /\ n \in Nat
    BY <1>1, <1>3, <1>5 DEF Ops
  <2>2. n <= Tally(what, c)
    BY <1>9, TallyNat
  <2>3. f \in Nat
    BY DEF Flag
  <2> HIDE DEF n, f
  <2>4. Tally(what, c)' = n + f
    BY <2>1, <2>3
  <2>5. \E m \in Nat : m <= Tally(what, c) /\ Tally(what, c)' = m + f
    BY <2>1, <2>2, <2>4
  <2> QED
    BY <2>5 DEF f
<1>13. \E r \in Nat : ReadTokens(c)' = r /\ r <= ReadTokens(c)
  <2>1. PICK n \in Nat : Tally("read", c)' = n /\ n <= Tally("read", c)
    BY <1>11
  <2>2. PICK m \in Nat : m <= Tally("read_error", c) /\ Tally("read_error", c)' = m + Flag(c \in reading)
    BY <1>12
  <2>3. PICK f \in {0, 1} : f = Flag(c \in reading)
    BY DEF Flag
  <2>4. Flag(c \in reading') = 0
    BY <1>7 DEF Flag
  <2>5. ReadTokens(c)' = 0 + n + (m + f)
    BY <2>1, <2>2, <2>3, <2>4 DEF ReadTokens
  <2>6. n + m + f <= ReadTokens(c)
    BY <2>1, <2>2, <2>3, TallyNat DEF ReadTokens
  <2> QED
    BY <2>3, <2>5, <2>6
<1>14. \E w \in Nat : WriteTokens(c)' = w /\ w <= WriteTokens(c)
  <2>1. PICK n \in Nat : Tally("write", c)' = n /\ n <= Tally("write", c)
    BY <1>11
  <2>2. PICK m \in Nat : m <= Tally("write_error", c) /\ Tally("write_error", c)' = m + Flag(c \in writing)
    BY <1>12
  <2>3. PICK f \in {0, 1} : f = Flag(c \in writing)
    BY DEF Flag
  <2>4. Flag(c \in writing') = 0
    BY <1>7 DEF Flag
  <2>5. WriteTokens(c)' = 0 + n + (m + f)
    BY <2>1, <2>2, <2>3, <2>4 DEF WriteTokens
  <2>6. n + m + f <= WriteTokens(c)
    BY <2>1, <2>2, <2>3, TallyNat DEF WriteTokens
  <2> QED
    BY <2>3, <2>5, <2>6
<1> QED
  BY <1>5, <1>6, <1>8, <1>10, <1>13, <1>14 DEF T

\* on_closed() and close(): the removal is posted, the operations aborted.
LEMMA RunErrorKeeps ==
    ASSUME IInv, RunError
    PROVE  IInv'
<1>0. PICK h \in Queued, c \in Conns :
          /\ h = Head(ready) /\ h \in Handlers /\ h.what \in {"read_error", "write_error"} /\ h.conn = c
          /\ ready # <<>>
  <2>1. ready # <<>> /\ Head(ready).what \in {"read_error", "write_error"}
    BY DEF RunError, Runs
  <2> QED
    BY <2>1, InQueue, HandlerFields DEF IInv, OfConnection, Ops
<1>1. /\ UNCHANGED <<running, accepting, arrived, at, address, isSending, responses, peer, sent, inbox,
                     delivered, dropped, dangling, acceptFailed>>
      /\ Alive(c) /\ Close(c)
      /\ ready' = Tail(ready) \o <<Removal(c)>> \o Aborted(c)
  BY <1>0 DEF RunError, GiveUp, peerVars, listVars
<1>2. address[c] \in Addresses /\ address[c] # 0
  BY <1>1 DEF IInv, Types, Alive
<1>3. PICK x \in Seq(Handlers) : /\ ready' = Tail(ready) \o x \o Aborted(c)
                                 /\ \A k \in DOMAIN x : x[k].what = "remove"
  <2>1. Removal(c) \in Handlers /\ Removal(c).what = "remove"
    BY <1>2, NewHandlers
  <2>2. <<Removal(c)>> \in Seq(Handlers) /\ \A k \in DOMAIN <<Removal(c)>> : <<Removal(c)>>[k].what = "remove"
    BY <2>1
  <2> QED
    BY <1>1, <2>2
<1>4. /\ ready' \in Seq(Handlers)
      /\ socket' \in [Conns -> {"none", "open", "closed"}]
      /\ reading' \in SUBSET Conns /\ writing' \in SUBSET Conns
      /\ \A g \in Queued' : g.what \in {"accept", "read"} => g \in Queued
      /\ Accepts' = Accepts - 0
      /\ socket'[c] = "closed"
      /\ \A d \in Conns : d # c => /\ socket'[d] = socket[d]
                                   /\ d \in reading' <=> d \in reading
                                   /\ d \in writing' <=> d \in writing
                                   /\ \A what \in Ops : Tally(what, d)' = Tally(what, d) - 0
      /\ \E r \in Nat : ReadTokens(c)' = r /\ r <= ReadTokens(c)
      /\ \E w \in Nat : WriteTokens(c)' = w /\ w <= WriteTokens(c)
  BY <1>0, <1>1, <1>3, Closing, ZenonT(40) DEF IInv
<1>5. /\ Accepts' = Accepts
      /\ \A d \in Conns : d # c => \A what \in Ops : Tally(what, d)' = Tally(what, d)
  BY <1>4, TallyNat DEF IInv
<1>6. Types'
  BY <1>1, <1>4 DEF IInv, Types
<1>7. Listed'
  BY <1>1, <1>4, <1>5 DEF IInv, Listed
<1>8. ASSUME NEW d \in Conns, d # c PROVE Consistent(d)'
  <2>1. \A g \in Queued' : g \in Due("read", d) => g \in Queued
    BY <1>4 DEF Due
  <2> QED
    BY <1>1, <1>4, <1>5, <1>8, <2>1, KeptSame DEF IInv, Alive
<1>9. Consistent(c)'
  <2>1. ~Served(c)'
    BY <1>4 DEF Served
  <2> QED
    BY <1>1, <1>2, <1>4, <2>1, KeptClosed DEF IInv, Alive
<1>10. \A d \in Conns : Consistent(d)'
  BY <1>8, <1>9
<1> QED
  BY <1>6, <1>7, <1>10 DEF IInv

\* remove_connection(): whoever lives at the address is closed and destroyed.
LEMMA RunRemoveKeeps ==
    ASSUME IInv, RunRemove
    PROVE  IInv'
<1>0. PICK h \in Queued, a \in Addresses :
          /\ h = Head(ready) /\ h \in Handlers /\ h.what = "remove" /\ h.where = a
          /\ ready # <<>>
  <2>1. ready # <<>> /\ Head(ready).what = "remove"
    BY DEF RunRemove, Runs
  <2> QED
    BY <2>1, InQueue, HandlerFields DEF IInv
<1>1. /\ UNCHANGED <<running, accepting, arrived, address, isSending, responses, peer, sent, inbox,
                     delivered, dropped, dangling, acceptFailed>>
  BY DEF RunRemove, peerVars
<1>2. ASSUME at[a] = 0 PROVE IInv'
  <2>1. UNCHANGED <<at, socket, reading, writing>> /\ ready' = Tail(ready)
    BY <1>0, <1>2 DEF RunRemove
  <2>2. /\ ready' \in Seq(Handlers) /\ Queued' \in SUBSET Queued
        /\ \A what \in Ops : \A d : Tally(what, d)' = Tally(what, d) - 0
        /\ Accepts' = Accepts - 0
    BY <1>0, <2>1, RanAlone DEF IInv, Ops
  <2>3. /\ \A what \in Ops : \A d : Tally(what, d)' = Tally(what, d)
        /\ Accepts' = Accepts
    BY <2>2, TallyNat DEF IInv
  <2>4. Types'
    BY <1>1, <2>1, <2>2 DEF IInv, Types
  <2>5. Listed'
    BY <1>1, <2>1, <2>2, <2>3 DEF IInv, Listed
  <2>6. ASSUME NEW d \in Conns PROVE Consistent(d)'
    BY <1>1, <2>1, <2>2, <2>3, KeptSame DEF IInv, Alive
  <2> QED
    BY <2>4, <2>5, <2>6 DEF IInv
<1>3. ASSUME NEW c \in Conns, at[a] = c PROVE IInv'
  <2>1. c # 0 /\ address[c] = a /\ a # 0
    BY <1>3, ServerAssumption DEF Conns, IInv, Listed
  <2>2. at' = [at EXCEPT ![a] = 0] /\ ready' = Tail(ready) \o Aborted(c) /\ Close(c)
    BY <1>0, <1>3, <2>1 DEF RunRemove
  <2>3. PICK x \in Seq(Handlers) : /\ ready' = Tail(ready) \o x \o Aborted(c)
                                   /\ \A k \in DOMAIN x : x[k].what = "remove"
    <3> DEFINE e == <<>>
    <3>1. Tail(ready) \in Seq(Handlers)
      BY <1>0 DEF IInv, Types
    <3>2. Tail(ready) \o e = Tail(ready) /\ e \in Seq(Handlers) /\ \A k \in DOMAIN e : FALSE
      BY <3>1
    <3> HIDE DEF e
    <3> QED
      BY <2>2, <3>2
  <2>4. /\ ready' \in Seq(Handlers)
        /\ socket' \in [Conns -> {"none", "open", "closed"}]
        /\ reading' \in SUBSET Conns /\ writing' \in SUBSET Conns
        /\ \A g \in Queued' : g.what \in {"accept", "read"} => g \in Queued
        /\ Accepts' = Accepts - 0
        /\ socket'[c] = "closed"
        /\ \A d \in Conns : d # c => /\ socket'[d] = socket[d]
                                     /\ d \in reading' <=> d \in reading
                                     /\ d \in writing' <=> d \in writing
                                     /\ \A what \in Ops : Tally(what, d)' = Tally(what, d) - 0
        /\ \E r \in Nat : ReadTokens(c)' = r /\ r <= ReadTokens(c)
        /\ \E w \in Nat : WriteTokens(c)' = w /\ w <= WriteTokens(c)
    BY <1>0, <2>2, <2>3, Closing DEF IInv, Ops
  <2>5. /\ Accepts' = Accepts
        /\ \A d \in Conns : d # c => \A what \in Ops : Tally(what, d)' = Tally(what, d)
    BY <2>4, TallyNat DEF IInv
  <2>6. /\ at' \in [Addresses -> Conns \cup {0}] /\ at'[a] = 0
        /\ \A b \in Addresses : b # a => at'[b] = at[b]
    BY <2>2 DEF IInv, Types
  <2>7. Types'
    BY <1>1, <2>4, <2>6 DEF IInv, Types
  <2>8. Listed'
    <3>1. \A b \in Addresses : at'[b] # 0 => address'[at'[b]] = b
      BY <1>1, <2>6 DEF IInv, Listed
    <3>2. Accepts' + Flag(accepting') <= 1
      BY <1>1, <2>5 DEF IInv, Listed
    <3> QED
      BY <1>1, <2>4, <3>1, <3>2 DEF IInv, Listed
  <2>9. \A d \in Conns : Alive(d)' => Alive(d)
    <3> TAKE d \in Conns
    <3>1. address[d] \in Addresses \cup {0} /\ d # 0
      BY DEF IInv, Types, Conns
    <3> QED
      BY <1>1, <2>6, <3>1 DEF Alive
  <2>10. ASSUME NEW d \in Conns, d # c PROVE Consistent(d)'
    <3>1. \A g \in Queued' : g \in Due("read", d) => g \in Queued
      BY <2>4 DEF Due
    <3> QED
      BY <1>1, <2>4, <2>5, <2>9, <2>10, <3>1, KeptSame DEF IInv
  <2>11. Consistent(c)'
    <3>1. ~Served(c)'
      BY <2>4 DEF Served
    <3> QED
      BY <1>1, <2>1, <2>4, <2>9, <3>1, KeptClosed DEF IInv
  <2>12. \A d \in Conns : Consistent(d)'
    BY <2>10, <2>11
  <2> QED
    BY <2>7, <2>8, <2>12 DEF IInv
<1>4. at[a] \in Conns \cup {0}
  BY DEF IInv, Types
<1> QED
  BY <1>2, <1>3, <1>4

\* The handler of a destroyed connection.
LEMMA RunDanglingKeeps ==
    ASSUME IInv, RunDangling
    PROVE  IInv'
<1>0. PICK h \in Queued, c \in Conns :
          /\ h = Head(ready) /\ h \in Handlers /\ h.what \in Ops /\ h.conn = c
          /\ ready # <<>> /\ ~Alive(c)
  <2>1. ready # <<>> /\ Head(ready).what \in Ops /\ ~Alive(Head(ready).conn)
    BY DEF RunDangling, Ops
  <2> QED
    BY <2>1, InQueue, HandlerFields DEF IInv, OfConnection
<1>1. /\ UNCHANGED <<accepting, arrived, at, address, socket, reading, writing, isSending, responses,
                     peer, sent, inbox, delivered, dropped, acceptFailed>>
      /\ dangling' = TRUE /\ (running' = FALSE \/ running' = running)
  BY DEF RunDangling, peerVars, listVars, connVars
<1>2. Tally(h.what, c) # 0
  BY <1>0, InQueue DEF IInv, Due
<1>3. address[c] \in Addresses /\ address[c] # 0
  BY <1>0, <1>2 DEF IInv, Types, Consistent, Fresh, Ops
<1>4. PICK x \in Seq(Handlers) : /\ ready' = Tail(ready) \o x \o <<>>
                                 /\ \A k \in DOMAIN x : x[k].what = "remove"
  <2> DEFINE e == <<>>
  <2>1. Tail(ready) \in Seq(Handlers)
    BY <1>0 DEF IInv, Types
  <2>2. Tail(ready) \o e \o e = Tail(ready) /\ e \in Seq(Handlers) /\ \A k \in DOMAIN e : FALSE
    BY <2>1
  <2>3. Removal(c) \in Handlers /\ Removal(c).what = "remove"
    BY <1>3, NewHandlers
  <2>4. /\ <<Removal(c)>> \in Seq(Handlers)
        /\ \A k \in DOMAIN <<Removal(c)>> : <<Removal(c)>>[k].what = "remove"
    BY <2>3
  <2>5. Append(Tail(ready), Removal(c)) = Tail(ready) \o <<Removal(c)>> \o e
    BY <2>1, <2>3
  <2>6. ready' = Tail(ready) \/ ready' = Append(Tail(ready), Removal(c))
    BY <1>0 DEF RunDangling
  <2> HIDE DEF e
  <2>7. \E x \in Seq(Handlers) : /\ ready' = Tail(ready) \o x \o e
                                 /\ \A k \in DOMAIN x : x[k].what = "remove"
    BY <2>2, <2>4, <2>5, <2>6
  <2> QED
    BY <2>7 DEF e
<1> DEFINE T(what, d) == IF h.what = what /\ h.conn = d THEN 1 ELSE 0
<1>5. /\ ready' \in Seq(Handlers)
      /\ \A g \in Queued' : g.what \in {"accept", "read"} => g \in Queued
      /\ \A what \in Ops : \A d : /\ Tally(what, d) - T(what, d) \in Nat
                                  /\ Tally(what, d)' = Tally(what, d) - T(what, d)
      /\ Accepts' = Accepts
  <2> DEFINE e == <<>>
  <2>1. e \in Seq(Handlers) /\ (\A k \in DOMAIN e : FALSE) /\ \A P : Count(e, P) = 0
    BY CountEmpty
  <2>2. ready' = Tail(ready) \o x \o e
    BY <1>4
  <2> HIDE DEF e
  <2>3. \A k \in DOMAIN x : x[k] \notin Accepting
    BY <1>4 DEF Accepting
  <2>4. \A what \in Ops : \A d : Count(x, Due(what, d)) = 0
    <3> TAKE what \in Ops
    <3> TAKE d
    <3>1. \A k \in DOMAIN x : x[k] \notin Due(what, d)
      BY <1>4 DEF Due, Ops
    <3> QED
      BY <3>1, CountZero
  <2>5. /\ \A what, d : /\ Tally(what, d) - T(what, d) \in Nat
                        /\ Tally(what, d)' = (Tally(what, d) - T(what, d))
                                   + Count(x, Due(what, d)) + Count(e, Due(what, d))
        /\ Accepts' = Accepts - 0
    <3> DEFINE g == Head(ready)
               S(what, d) == IF g.what = what /\ g.conn = d THEN 1 ELSE 0
    <3>1. h.what # "accept" /\ h = g
      BY <1>0 DEF Ops
    <3>2. /\ \A what, d : /\ Tally(what, d) - S(what, d) \in Nat
                          /\ Tally(what, d)' = (Tally(what, d) - S(what, d))
                                     + Count(x, Due(what, d)) + Count(e, Due(what, d))
          /\ Accepts' = Accepts - (IF g.what = "accept" THEN 1 ELSE 0)
      BY <1>0, <2>1, <2>2, <2>3, RanTally DEF IInv
    <3> HIDE DEF g
    <3>3. \A what, d : S(what, d) = T(what, d)
      BY <3>1
    <3>4. (IF g.what = "accept" THEN 1 ELSE 0) = 0
      BY <3>1
    <3> HIDE DEF S, T
    <3> QED
      BY <3>2, <3>3, <3>4
  <2>6. ready' \in Seq(Handlers) /\ \A g \in Queued' : g.what \in {"accept", "read"} => g \in Queued
    BY <1>0, <1>4, <2>1, <2>2, Ran DEF IInv
  <2> HIDE DEF T
  <2>7. ASSUME NEW what \in Ops, NEW d
        PROVE  /\ Tally(what, d) - T(what, d) \in Nat
               /\ Tally(what, d)' = Tally(what, d) - T(what, d)
    <3> DEFINE n == Tally(what, d) - T(what, d)
    <3>1. n \in Nat /\ Tally(what, d)' = n + 0 + 0
      BY <2>1, <2>4, <2>5
    <3> HIDE DEF n
    <3>2. n \in Nat /\ Tally(what, d)' = n
      BY <3>1
    <3> QED
      BY <3>2 DEF n
  <2>8. Accepts' = Accepts
    BY <2>5, TallyNat DEF IInv
  <2> QED
    BY <2>6, <2>7, <2>8
<1>6. Types'
  <2>1. dangling' \in BOOLEAN /\ running' \in BOOLEAN
    BY <1>1 DEF IInv, Types
  <2> QED
    BY <1>1, <1>5, <2>1 DEF IInv, Types
<1>7. Listed'
  BY <1>1, <1>5 DEF IInv, Listed
<1>8. ASSUME NEW d \in Conns, d # c PROVE Consistent(d)'
  <2>1. \A g \in Queued' : g \in Due("read", d) => g \in Queued
    BY <1>5 DEF Due
  <2>2. \A what \in Ops : Tally(what, d)' = Tally(what, d) - 0
    BY <1>0, <1>5, <1>8
  <2>3. \A what \in Ops : Tally(what, d)' = Tally(what, d)
    BY <2>2, TallyNat DEF IInv
  <2> QED
    BY <1>1, <1>5, <1>8, <2>1, <2>3, KeptSame DEF IInv, Alive
<1>9. Consistent(c)'
  <2>1. ~Served(c)' /\ Alive(c)' => Alive(c)
    BY <1>0, <1>1 DEF Served, Alive
  <2>2. ASSUME NEW what \in Ops
        PROVE  \E n \in Nat : Tally(what, c)' = n /\ n <= Tally(what, c)
    <3> DEFINE n == Tally(what, c) - T(what, c)
    <3>1. Tally(what, c)' = n /\ n \in Nat
      BY <1>5
    <3>2. n <= Tally(what, c)
      BY TallyNat DEF IInv
    <3> HIDE DEF n
    <3> QED
      BY <3>1, <3>2
  <2>3. PICK n \in Nat : Tally("read", c)' = n /\ n <= Tally("read", c)
    BY <2>2 DEF Ops
  <2>4. PICK m \in Nat : Tally("read_error", c)' = m /\ m <= Tally("read_error", c)
    BY <2>2 DEF Ops
  <2>5. PICK n2 \in Nat : Tally("write", c)' = n2 /\ n2 <= Tally("write", c)
    BY <2>2 DEF Ops
  <2>6. PICK m2 \in Nat : Tally("write_error", c)' = m2 /\ m2 <= Tally("write_error", c)
    BY <2>2 DEF Ops
  <2>7. PICK f \in Nat, g \in Nat : f = Flag(c \in reading) /\ g = Flag(c \in writing)
    BY DEF Flag
  <2>8. Flag(c \in reading') = f /\ Flag(c \in writing') = g
    BY <1>1, <2>7 DEF Flag
  <2>9. ReadTokens(c)' = f + n + m /\ WriteTokens(c)' = g + n2 + m2
    BY <2>3, <2>4, <2>5, <2>6, <2>8 DEF ReadTokens, WriteTokens
  <2>10. f + n + m <= ReadTokens(c) /\ f + n + m \in Nat
    BY <2>3, <2>4, <2>7, TallyNat, SMTT(20) DEF IInv, ReadTokens
  <2>11. g + n2 + m2 <= WriteTokens(c) /\ g + n2 + m2 \in Nat
    BY <2>5, <2>6, <2>7, TallyNat DEF IInv, WriteTokens
  <2>12. ~Served(c)'
    BY <1>0, <1>1 DEF Served, Alive
  <2>13. Alive(c)' => Alive(c)
    BY <1>1 DEF Alive
  <2> QED
    BY <1>1, <1>3, <2>9, <2>10, <2>11, <2>12, <2>13, KeptClosed DEF IInv
<1>10. \A d \in Conns : Consistent(d)'
  BY <1>8, <1>9
<1> QED
  BY <1>6, <1>7, <1>10 DEF IInv

\* stop(): every connection is closed and destroyed.
LEMMA RunStopKeeps ==
    ASSUME IInv, RunStop
    PROVE  IInv'
<1>1. /\ UNCHANGED <<arrived, address, isSending, responses, peer, sent, inbox, delivered, dropped,
                     dangling, acceptFailed>>
      /\ ready # <<>> /\ ready' = Tail(ready) /\ Head(ready).what = "signal"
      /\ running' = FALSE /\ accepting' = FALSE
      /\ at' = [a \in Addresses |-> 0]
      /\ socket' = [c \in Conns |-> IF Alive(c) THEN "closed" ELSE socket[c]]
      /\ reading' = {} /\ writing' = {}
  BY DEF RunStop, Runs, peerVars
<1>2. /\ ready' \in Seq(Handlers) /\ Queued' \in SUBSET Queued
      /\ \A what \in Ops : \A c : Tally(what, c)' = Tally(what, c) - 0
      /\ Accepts' = Accepts - 0
  BY <1>1, RanAlone DEF IInv, Ops
<1>3. /\ \A what \in Ops : \A c : Tally(what, c)' = Tally(what, c)
      /\ Accepts' = Accepts
  BY <1>2, TallyNat DEF IInv
<1>4. Types'
  <2>1. at' \in [Addresses -> Conns \cup {0}]
    BY <1>1
  <2>2. socket' \in [Conns -> {"none", "open", "closed"}]
    BY <1>1 DEF IInv, Types
  <2>3. running' \in BOOLEAN /\ accepting' \in BOOLEAN /\ reading' \in SUBSET Conns /\ writing' \in SUBSET Conns
    BY <1>1
  <2> QED
    BY <1>1, <1>2, <2>1, <2>2, <2>3 DEF IInv, Types
<1>5. Listed'
  <2>1. \A a \in Addresses : at'[a] = 0
    BY <1>1
  <2>2. Accepts' + Flag(accepting') <= 1
    <3>1. Accepts <= 1 /\ Accepts \in Nat
      BY TallyNat DEF IInv, Listed, Flag
    <3>2. Flag(accepting') = 0
      BY <1>1 DEF Flag
    <3>3. PICK n \in Nat : Accepts' = n /\ n <= 1
      BY <1>3, <3>1
    <3> QED
      BY <3>2, <3>3
  <2> QED
    BY <1>1, <1>2, <2>1, <2>2 DEF IInv, Listed
<1>6. ASSUME NEW d \in Conns PROVE Consistent(d)'
  <2>1. ~Alive(d)' /\ ~Served(d)'
    <3>1. address[d] \in Addresses \cup {0} /\ d # 0
      BY DEF IInv, Types, Conns
    <3> QED
      BY <1>1, <3>1 DEF Alive, Served
  <2>2. CASE address[d] = 0
    <3>1. Fresh(d) /\ ~Alive(d)
      BY <2>2 DEF IInv, Consistent, Alive
    <3>2. socket'[d] = socket[d]
      BY <1>1, <3>1
    <3>3. Fresh(d)'
      BY <1>1, <1>3, <3>1, <3>2 DEF Fresh, Ops
    <3>4. Flag(d \in reading') = 0 /\ Flag(d \in writing') = 0
      BY <1>1 DEF Flag
    <3>5. ReadTokens(d)' = 0 /\ WriteTokens(d)' = 0
      BY <3>3, <3>4 DEF Fresh, ReadTokens, WriteTokens
    <3> QED
      BY <2>1, <3>3, <3>5 DEF Consistent, Tokens, Accounts
  <2>3. CASE address[d] # 0
    <3>1. Flag(d \in reading') = 0 /\ Flag(d \in writing') = 0
      BY <1>1 DEF Flag
    <3> DEFINE r == Tally("read", d) + Tally("read_error", d)
               w == Tally("write", d) + Tally("write_error", d)
    <3>2. r \in Nat /\ w \in Nat /\ r <= ReadTokens(d) /\ w <= WriteTokens(d)
      BY TallyNat DEF IInv, ReadTokens, WriteTokens, Flag
    <3>3. PICK n1 \in Nat, n2 \in Nat, n3 \in Nat, n4 \in Nat :
              /\ n1 = Tally("read", d) /\ n2 = Tally("read_error", d)
              /\ n3 = Tally("write", d) /\ n4 = Tally("write_error", d)
      BY TallyNat DEF IInv
    <3>4. /\ Tally("read", d)' = n1 /\ Tally("read_error", d)' = n2
          /\ Tally("write", d)' = n3 /\ Tally("write_error", d)' = n4
      BY <1>3, <3>3 DEF Ops
    <3>5. ReadTokens(d)' = n1 + n2 /\ WriteTokens(d)' = n3 + n4
      BY <3>1, <3>4 DEF ReadTokens, WriteTokens
    <3>6. n1 + n2 \in Nat /\ n3 + n4 \in Nat /\ n1 + n2 <= ReadTokens(d) /\ n3 + n4 <= WriteTokens(d)
      BY <3>2, <3>3
    <3> QED
      BY <1>1, <2>1, <2>3, <3>5, <3>6, KeptClosed DEF IInv
  <2> QED
    BY <2>2, <2>3
<1> QED
  BY <1>4, <1>5, <1>6 DEF IInv

\* A handler of connection c runs, and the operations it starts on a closed
\* socket fail at once: the write if b1, the read if b2.
LEMMA Restarted ==
    ASSUME Types, ready # <<>>, NEW c \in Conns, NEW b1 \in BOOLEAN, NEW b2 \in BOOLEAN,
           Head(ready).what \in Ops, Head(ready).conn = c,
           ready' = Tail(ready) \o (IF b1 THEN <<Handler("write_error", c)>> ELSE <<>>)
                         \o (IF b2 THEN <<Handler("read_error", c)>> ELSE <<>>)
    PROVE  LET Failed(what) == IF (what = "write_error" /\ b1) \/ (what = "read_error" /\ b2) THEN 1 ELSE 0
           IN  /\ ready' \in Seq(Handlers)
               /\ \A g \in Queued' : g.what \in {"accept", "read"} => g \in Queued
               /\ Accepts' = Accepts
               /\ \A d \in Conns : d # c => \A what \in Ops : Tally(what, d)' = Tally(what, d)
               /\ \A what \in Ops :
                      IF what = Head(ready).what
                      THEN \E n \in Nat : Tally(what, c) = n + 1 /\ Tally(what, c)' = n + Failed(what)
                      ELSE Tally(what, c)' = Tally(what, c) + Failed(what)
<1> DEFINE h == Head(ready)
           T(what, d) == IF h.what = what /\ h.conn = d THEN 1 ELSE 0
           F(what) == IF (what = "write_error" /\ b1) \/ (what = "read_error" /\ b2) THEN 1 ELSE 0
           x == IF b1 THEN <<Handler("write_error", c)>> ELSE <<>>
           y == IF b2 THEN <<Handler("read_error", c)>> ELSE <<>>
<1>1. ASSUME NEW f \in Ops, NEW b \in BOOLEAN, NEW s, s = IF b THEN <<Handler(f, c)>> ELSE <<>>
      PROVE  /\ s \in Seq(Handlers)
             /\ \A k \in DOMAIN s : s[k].what = f
             /\ \A what, d : Count(s, Due(what, d)) = IF b /\ what = f /\ d = c THEN 1 ELSE 0
  <2> DEFINE g == Handler(f, c)
  <2>1. g \in Handlers /\ g.what = f /\ g.conn = c
    BY NewHandlers DEF OfConnection
  <2> HIDE DEF g
  <2>2. CASE b
    <3>1. s = <<g>>
      BY <1>1, <2>2 DEF g
    <3>2. s \in Seq(Handlers) /\ \A k \in DOMAIN s : s[k].what = f
      BY <2>1, <3>1
    <3>3. \A what, d : Count(s, Due(what, d)) = Weight(g, Due(what, d))
      BY <3>1, CountSingle
    <3> QED
      BY <2>1, <2>2, <3>2, <3>3, OneDue
  <2>3. CASE ~b
    <3>1. s = <<>>
      BY <1>1, <2>3
    <3>2. s \in Seq(Handlers) /\ \A k \in DOMAIN s : s[k].what = f
      BY <3>1
    <3>3. \A what, d : Count(s, Due(what, d)) = 0
      BY <3>1, CountEmpty
    <3> QED
      BY <2>3, <3>2, <3>3
  <2> QED
    BY <2>2, <2>3
<1>2. /\ x \in Seq(Handlers)
      /\ \A k \in DOMAIN x : x[k].what = "write_error"
      /\ \A what, d : Count(x, Due(what, d)) = IF b1 /\ what = "write_error" /\ d = c THEN 1 ELSE 0
  <2>1. x = (IF b1 THEN <<Handler("write_error", c)>> ELSE <<>>) /\ "write_error" \in Ops
    BY DEF Ops
  <2> HIDE DEF x
  <2> QED
    BY <1>1, <2>1
<1>3. /\ y \in Seq(Handlers)
      /\ \A k \in DOMAIN y : y[k].what = "read_error"
      /\ \A what, d : Count(y, Due(what, d)) = IF b2 /\ what = "read_error" /\ d = c THEN 1 ELSE 0
  <2>1. y = (IF b2 THEN <<Handler("read_error", c)>> ELSE <<>>) /\ "read_error" \in Ops
    BY DEF Ops
  <2> HIDE DEF y
  <2> QED
    BY <1>1, <2>1
<1>4. ready' = Tail(ready) \o x \o y
  OBVIOUS
<1> HIDE DEF x, y
<1>5. /\ ready' \in Seq(Handlers)
      /\ \A g \in Queued' : g.what \in {"accept", "read"} => g \in Queued
  BY <1>2, <1>3, <1>4, Ran
<1>6. /\ \A k \in DOMAIN x : x[k] \notin Accepting
      /\ \A k \in DOMAIN y : y[k] \notin Accepting
  BY <1>2, <1>3 DEF Accepting
<1>7. /\ \A what, d : /\ Tally(what, d) - T(what, d) \in Nat
                      /\ Tally(what, d)' = (Tally(what, d) - T(what, d))
                                 + Count(x, Due(what, d)) + Count(y, Due(what, d))
      /\ Accepts' = Accepts - (IF h.what = "accept" THEN 1 ELSE 0)
  BY <1>2, <1>3, <1>4, <1>6, RanTally
<1>8. Accepts' = Accepts
  <2>1. (IF h.what = "accept" THEN 1 ELSE 0) = 0
    BY DEF Ops
  <2> QED
    BY <1>7, <2>1, TallyNat
<1>9. ASSUME NEW d \in Conns, NEW what \in Ops
      PROVE  \E n \in Nat : /\ n = Tally(what, d) - T(what, d)
                            /\ Tally(what, d) = n + T(what, d)
                            /\ Tally(what, d)' = n + IF d = c THEN F(what) ELSE 0
  <2> DEFINE n == Tally(what, d) - T(what, d)
  <2>1. T(what, d) \in {0, 1}
    OBVIOUS
  <2> HIDE DEF T
  <2>2. n \in Nat /\ Tally(what, d) = n + T(what, d)
    BY <1>7, <2>1, TallyNat
  <2>3. Count(x, Due(what, d)) + Count(y, Due(what, d)) = IF d = c THEN F(what) ELSE 0
    <3>1. PICK p \in {0, 1} : /\ Count(x, Due(what, d)) = p
                              /\ p = IF b1 /\ what = "write_error" /\ d = c THEN 1 ELSE 0
      BY <1>2
    <3>2. PICK q \in {0, 1} : /\ Count(y, Due(what, d)) = q
                              /\ q = IF b2 /\ what = "read_error" /\ d = c THEN 1 ELSE 0
      BY <1>3
    <3>3. p + q = IF d = c THEN F(what) ELSE 0
      <4>1. p = 0 \/ q = 0
        BY <3>1, <3>2
      <4>2. (p = 1 \/ q = 1) <=> d = c /\ ((what = "write_error" /\ b1) \/ (what = "read_error" /\ b2))
        BY <3>1, <3>2
      <4> QED
        BY <4>1, <4>2
    <3> QED
      BY <3>1, <3>2, <3>3
  <2>4. Count(x, Due(what, d)) \in Nat /\ Count(y, Due(what, d)) \in Nat
    BY <1>2, <1>3
  <2>5. Tally(what, d)' = n + Count(x, Due(what, d)) + Count(y, Due(what, d))
    BY <1>7
  <2> HIDE DEF F
  <2>6. Tally(what, d)' = n + (Count(x, Due(what, d)) + Count(y, Due(what, d)))
    <3> HIDE DEF n
    <3> QED
      BY <2>2, <2>4, <2>5
  <2>7. Tally(what, d)' = n + IF d = c THEN F(what) ELSE 0
    BY <2>3, <2>6
  <2> QED
    BY <2>2, <2>7
<1>10. ASSUME NEW d \in Conns, d # c, NEW what \in Ops PROVE Tally(what, d)' = Tally(what, d)
  <2>1. T(what, d) = 0
    BY <1>10
  <2>2. PICK n \in Nat : /\ Tally(what, d) = n + T(what, d)
                         /\ Tally(what, d)' = n + IF d = c THEN F(what) ELSE 0
    BY <1>9
  <2> HIDE DEF T, F
  <2> QED
    BY <1>10, <2>1, <2>2
<1>11. ASSUME NEW what \in Ops
       PROVE  IF what = Head(ready).what
              THEN \E n \in Nat : Tally(what, c) = n + 1 /\ Tally(what, c)' = n + F(what)
              ELSE Tally(what, c)' = Tally(what, c) + F(what)
  <2>1. T(what, c) = IF what = Head(ready).what THEN 1 ELSE 0
    OBVIOUS
  <2>2. PICK n \in Nat : /\ Tally(what, c) = n + T(what, c)
                         /\ Tally(what, c)' = n + IF c = c THEN F(what) ELSE 0
    BY <1>9
  <2> HIDE DEF T, F
  <2> QED
    BY <2>1, <2>2
<1> QED
  BY <1>5, <1>8, <1>10, <1>11

\* The handler of a read: its requests are answered, a write starts if none is
\* outstanding, and the read begins again.
LEMMA RunReadKeeps ==
    ASSUME IInv, RunRead
    PROVE  IInv'
<1>0. PICK h \in Queued, c \in Conns :
          /\ h = Head(ready) /\ h \in Handlers /\ h.what = "read" /\ h.conn = c
          /\ ready # <<>> /\ h.size \in Nat
  <2>1. ready # <<>> /\ Head(ready).what = "read"
    BY SMTT(20) DEF RunRead, Runs
  <2> QED
    BY <2>1, InQueue, HandlerFields DEF IInv, OfConnection, Ops
<1> DEFINE n == responses[c] + h.size
           kept == Kept(n)
           writes == c \notin isSending /\ kept > 0
           open == socket[c] = "open"
<1>1. /\ UNCHANGED <<running, accepting, arrived, at, address, socket, peer, sent, inbox, delivered,
                     dangling, acceptFailed>>
      /\ Alive(c)
      /\ SendNext(c, isSending, kept)
      /\ dropped' = [dropped EXCEPT ![c] = @ + n - kept]
      /\ reading' = IF open THEN reading \cup {c} ELSE reading
  BY <1>0 DEF RunRead, peerVars, listVars
<1>2. ready' = Tail(ready) \o (IF writes /\ ~open THEN <<Handler("write_error", c)>> ELSE <<>>)
                      \o (IF ~open THEN <<Handler("read_error", c)>> ELSE <<>>)
  BY <1>0 DEF RunRead, FailedStarts
<1>3. n \in Nat /\ kept \in Nat /\ kept <= n /\ n - kept \in Nat
  BY <1>0, ServerAssumption, SMTT(30) DEF IInv, Types, Kept
<1>4. /\ writes => /\ isSending' = isSending \cup {c}
                   /\ responses' = [responses EXCEPT ![c] = kept - 1]
                   /\ writing' = IF open THEN writing \cup {c} ELSE writing
      /\ ~writes => /\ isSending' = isSending
                    /\ responses' = [responses EXCEPT ![c] = kept]
                    /\ writing' = writing
  BY <1>1 DEF SendNext
<1> HIDE DEF kept, n
<1>5. /\ ready' \in Seq(Handlers)
      /\ \A g \in Queued' : g.what \in {"accept", "read"} => g \in Queued
      /\ Accepts' = Accepts
      /\ \A d \in Conns : d # c => \A what \in Ops : Tally(what, d)' = Tally(what, d)
      /\ \E m \in Nat : Tally("read", c) = m + 1 /\ Tally("read", c)' = m + 0
      /\ Tally("read_error", c)' = Tally("read_error", c) + IF open THEN 0 ELSE 1
      /\ Tally("write", c)' = Tally("write", c) + 0
      /\ Tally("write_error", c)' = Tally("write_error", c) + IF writes /\ ~open THEN 1 ELSE 0
  <2> DEFINE b1 == writes /\ ~open
             b2 == ~open
             F(what) == IF (what = "write_error" /\ b1) \/ (what = "read_error" /\ b2) THEN 1 ELSE 0
  <2>1. b1 \in BOOLEAN /\ b2 \in BOOLEAN
    OBVIOUS
  <2>2. /\ ready' \in Seq(Handlers)
        /\ \A g \in Queued' : g.what \in {"accept", "read"} => g \in Queued
        /\ Accepts' = Accepts
        /\ \A d \in Conns : d # c => \A what \in Ops : Tally(what, d)' = Tally(what, d)
        /\ \A what \in Ops :
               IF what = Head(ready).what
               THEN \E m \in Nat : Tally(what, c) = m + 1 /\ Tally(what, c)' = m + F(what)
               ELSE Tally(what, c)' = Tally(what, c) + F(what)
    <3>1. /\ Head(ready).what \in Ops /\ Head(ready).conn = c
          /\ ready' = Tail(ready) \o (IF b1 THEN <<Handler("write_error", c)>> ELSE <<>>)
                            \o (IF b2 THEN <<Handler("read_error", c)>> ELSE <<>>)
      BY <1>0, <1>2 DEF Ops
    <3>2. Types /\ ready # <<>>
      BY <1>0 DEF IInv
    <3> HIDE DEF b1, b2
    <3> QED
      BY <2>1, <3>1, <3>2, Restarted, ZenonT(40)
  <2>3. /\ F("read") = 0 /\ F("write") = 0
        /\ F("read_error") = IF open THEN 0 ELSE 1
        /\ F("write_error") = IF writes /\ ~open THEN 1 ELSE 0
    OBVIOUS
  <2> HIDE DEF F
  <2>4. \E m \in Nat : Tally("read", c) = m + 1 /\ Tally("read", c)' = m + F("read")
    BY <1>0, <2>2 DEF Ops
  <2>5. /\ Tally("read_error", c)' = Tally("read_error", c) + F("read_error")
        /\ Tally("write", c)' = Tally("write", c) + F("write")
        /\ Tally("write_error", c)' = Tally("write_error", c) + F("write_error")
    BY <1>0, <2>2 DEF Ops
  <2> QED
    BY <2>2, <2>3, <2>4, <2>5
<1>6. /\ responses' \in [Conns -> Nat] /\ dropped' \in [Conns -> Nat]
      /\ responses'[c] = (IF writes THEN kept - 1 ELSE kept)
      /\ dropped'[c] = dropped[c] + (n - kept)
      /\ \A d \in Conns : d # c => responses'[d] = responses[d] /\ dropped'[d] = dropped[d]
  <2>1. responses \in [Conns -> Nat] /\ dropped \in [Conns -> Nat]
    BY DEF IInv, Types
  <2>2. (IF writes THEN kept - 1 ELSE kept) \in Nat
    BY <1>3
  <2>3. dropped[c] + n - kept = dropped[c] + (n - kept) /\ dropped[c] + (n - kept) \in Nat
    BY <1>3, <2>1
  <2>4. responses' = [responses EXCEPT ![c] = IF writes THEN kept - 1 ELSE kept]
    BY <1>4
  <2> HIDE DEF writes
  <2> QED
    BY <1>1, <2>1, <2>2, <2>3, <2>4
<1>7. Types'
  <2>1. reading' \in SUBSET Conns /\ writing' \in SUBSET Conns /\ isSending' \in SUBSET Conns
    BY <1>1, <1>4 DEF IInv, Types
  <2> QED
    BY <1>1, <1>5, <1>6, <2>1 DEF IInv, Types
<1>8. Listed'
  BY <1>1, <1>5 DEF IInv, Listed
<1>9. ASSUME NEW d \in Conns, d # c PROVE Consistent(d)'
  <2>1. \A g \in Queued' : g \in Due("read", d) => g \in Queued
    BY <1>5 DEF Due
  <2>2. /\ d \in reading' <=> d \in reading
        /\ d \in writing' <=> d \in writing
        /\ d \in isSending' <=> d \in isSending
    BY <1>1, <1>4, <1>9
  <2> QED
    BY <1>1, <1>5, <1>6, <1>9, <2>1, <2>2, KeptSame DEF IInv, Alive
<1>10. Consistent(c)'
  <2>1. address[c] # 0 /\ Consistent(c)
    BY <1>1 DEF IInv, Alive
  <2>2. /\ c \notin reading /\ Tally("read_error", c) = 0 /\ Tally("read", c) = 1
        /\ Tally("read", c)' = 0 /\ ReadTokens(c) = 1
    <3>1. PICK m \in Nat : Tally("read", c) = m + 1 /\ Tally("read", c)' = m + 0
      BY <1>5
    <3>2. PICK f \in {0, 1} : f = Flag(c \in reading)
      BY DEF Flag
    <3>3. f + (m + 1) + Tally("read_error", c) <= 1 /\ Tally("read_error", c) \in Nat
      BY <2>1, <3>1, <3>2, TallyNat DEF IInv, Consistent, Tokens, ReadTokens
    <3>4. f = 0 /\ m = 0 /\ Tally("read_error", c) = 0
      BY <3>3
    <3> QED
      BY <3>1, <3>2, <3>4 DEF Flag, ReadTokens
  <2>3. ReadTokens(c)' = 1
    <3>1. CASE open
      <4>1. Flag(c \in reading') = 1 /\ Tally("read_error", c)' = 0
        BY <1>1, <1>5, <2>2, <3>1 DEF Flag
      <4> QED
        BY <2>2, <4>1 DEF ReadTokens
    <3>2. CASE ~open
      <4>1. Flag(c \in reading') = 0 /\ Tally("read_error", c)' = 1
        BY <1>1, <1>5, <2>2, <3>2 DEF Flag
      <4> QED
        BY <2>2, <4>1 DEF ReadTokens
    <3> QED
      BY <3>1, <3>2
  <2>4. /\ WriteTokens(c) \in Nat /\ WriteTokens(c) <= 1
        /\ WriteTokens(c) = 1 => c \in isSending
        /\ Tally("write", c) \in Nat /\ Tally("write_error", c) \in Nat
    BY <1>1, <2>1, TallyNat DEF IInv, Consistent, Tokens, WriteTokens, Flag
  <2>5. CASE writes
    <3>1. c \notin writing /\ Tally("write", c) = 0 /\ Tally("write_error", c) = 0
      <4>1. WriteTokens(c) = 0
        BY <2>4, <2>5
      <4> QED
        BY <2>4, <4>1 DEF WriteTokens, Flag
    <3>2. WriteTokens(c)' = 1 /\ (open => Tally("write_error", c)' = 0)
      <4>1. CASE open
        <5>1. Flag(c \in writing') = 1 /\ Tally("write", c)' = 0 /\ Tally("write_error", c)' = 0
          BY <1>4, <1>5, <2>5, <3>1, <4>1 DEF Flag
        <5> QED
          BY <5>1 DEF WriteTokens
      <4>2. CASE ~open
        <5>1. Flag(c \in writing') = 0 /\ Tally("write", c)' = 0 /\ Tally("write_error", c)' = 1
          BY <1>4, <1>5, <2>5, <3>1, <4>2 DEF Flag
        <5> QED
          BY <4>2, <5>1 DEF WriteTokens
      <4> QED
        BY <4>1, <4>2
    <3>3. c \in isSending' /\ (Served(c)' => open)
      BY <1>1, <1>4, <2>5 DEF Served
    <3>4. Tokens(c)'
      BY <2>3, <3>2, <3>3 DEF Tokens
    <3>5. ASSUME Served(c)' PROVE Accounted(c, 0)'
      <4>1. Served(c)
        BY <1>1, <3>5 DEF Served, Alive
      <4>2. sent[c] = inbox[c] + h.size + responses[c] + 0 + delivered[c] + dropped[c]
        BY <1>0, <2>1, <3>1, <4>1 DEF Consistent, Accounts, Due, Accounted
      <4>3. /\ inbox[c] \in Nat /\ responses[c] \in Nat /\ delivered[c] \in Nat /\ dropped[c] \in Nat
            /\ sent[c] \in Nat
        BY DEF IInv, Types
      <4>4. sent[c] = inbox[c] + 0 + (kept - 1) + 1 + delivered[c] + (dropped[c] + (n - kept))
        <5>1. PICK i \in Nat, r \in Nat, d \in Nat, p \in Nat, z \in Nat :
                  i = inbox[c] /\ r = responses[c] /\ d = delivered[c] /\ p = dropped[c] /\ z = h.size
          BY <1>0, <4>3
        <5>2. sent[c] = i + z + r + 0 + d + p
          BY <4>2, <5>1
        <5>3. n = r + z
          BY <5>1 DEF n
        <5>4. i + z + r + 0 + d + p = i + 0 + (kept - 1) + 1 + d + (p + (n - kept))
          BY <1>3, <5>3
        <5> QED
          BY <5>1, <5>2, <5>4
      <4>5. c \in writing'
        BY <1>4, <2>5, <3>3, <3>5
      <4>6. responses'[c] = kept - 1 /\ dropped'[c] = dropped[c] + (n - kept)
        BY <1>6, <2>5
      <4> QED
        BY <1>1, <4>4, <4>5, <4>6 DEF Accounted
    <3>6. Accounts(c)'
      <4>1. \A g \in Queued' : g \notin Due("read", c)
        BY <1>7, <2>2, TypesFactsNext DEF QueueFacts, Due
      <4> QED
        BY <3>5, <4>1 DEF Accounts, Due
    <3> QED
      BY <1>1, <2>1, <3>4, <3>6 DEF Consistent
  <2>6. CASE ~writes
    <3>1. /\ Tally("write", c)' = Tally("write", c) /\ Tally("write_error", c)' = Tally("write_error", c)
          /\ writing' = writing /\ isSending' = isSending
      BY <1>4, <1>5, <2>4, <2>6
    <3>2. WriteTokens(c)' = WriteTokens(c)
      BY <3>1 DEF WriteTokens
    <3>3. kept > 0 => c \in isSending
      BY <2>6
    <3>4. responses'[c] = kept
      BY <1>6, <2>6
    <3>5. Tokens(c)'
      <4>1. Served(c)' => Served(c)
        BY <1>1 DEF Served, Alive
      <4> QED
        BY <1>1, <2>1, <2>3, <3>1, <3>2, <3>3, <3>4, <4>1 DEF Consistent, Tokens, Alive
    <3>6. ASSUME Served(c)' PROVE Accounted(c, 0)'
      <4>1. Served(c)
        BY <1>1, <3>6 DEF Served, Alive
      <4>2. PICK f \in {0, 1} : f = IF c \in writing THEN 1 ELSE 0
        OBVIOUS
      <4>3. sent[c] = inbox[c] + h.size + responses[c] + f + delivered[c] + dropped[c]
        BY <1>0, <2>1, <4>1, <4>2 DEF Consistent, Accounts, Due, Accounted
      <4>4. /\ inbox[c] \in Nat /\ responses[c] \in Nat /\ delivered[c] \in Nat /\ dropped[c] \in Nat
            /\ sent[c] \in Nat
        BY DEF IInv, Types
      <4>5. sent[c] = inbox[c] + 0 + kept + f + delivered[c] + (dropped[c] + (n - kept))
        <5>1. PICK i \in Nat, r \in Nat, d \in Nat, p \in Nat, z \in Nat :
                  i = inbox[c] /\ r = responses[c] /\ d = delivered[c] /\ p = dropped[c] /\ z = h.size
          BY <1>0, <4>4
        <5>2. sent[c] = i + z + r + f + d + p
          BY <4>3, <5>1
        <5>3. n = r + z
          BY <5>1 DEF n
        <5>4. i + z + r + f + d + p = i + 0 + kept + f + d + (p + (n - kept))
          BY <1>3, <5>3
        <5> QED
          BY <5>1, <5>2, <5>4
      <4>6. dropped'[c] = dropped[c] + (n - kept)
        BY <1>6
      <4>7. f = IF c \in writing' THEN 1 ELSE 0
        BY <3>1, <4>2
      <4> QED
        BY <1>1, <3>4, <4>5, <4>6, <4>7 DEF Accounted
    <3>7. Accounts(c)'
      <4>1. \A g \in Queued' : g \notin Due("read", c)
        BY <1>7, <2>2, TypesFactsNext DEF QueueFacts, Due
      <4> QED
        BY <3>6, <4>1 DEF Accounts, Due
    <3> QED
      BY <1>1, <2>1, <3>5, <3>7 DEF Consistent
  <2> QED
    BY <2>5, <2>6
<1>11. \A d \in Conns : Consistent(d)'
  BY <1>9, <1>10
<1> QED
  BY <1>7, <1>8, <1>11 DEF IInv

\* The handler of a write: the next response is written, or is_sending is put
\* down.
LEMMA RunWriteKeeps ==
    ASSUME IInv, RunWrite
    PROVE  IInv'
<1>0. PICK h \in Queued, c \in Conns :
          /\ h = Head(ready) /\ h \in Handlers /\ h.what = "write" /\ h.conn = c
          /\ ready # <<>>
  <2>1. ready # <<>> /\ Head(ready).what = "write"
    BY DEF RunWrite, Runs
  <2> QED
    BY <2>1, InQueue, HandlerFields DEF IInv, OfConnection, Ops
<1> DEFINE writes == responses[c] > 0
           open == socket[c] = "open"
<1>1. /\ UNCHANGED <<running, accepting, arrived, at, address, socket, reading, peer, sent, inbox,
                     delivered, dropped, dangling, acceptFailed>>
      /\ Alive(c)
      /\ SendNext(c, isSending \ {c}, responses[c])
      /\ ready' = Tail(ready) \o FailedStarts(c, writes)
  BY <1>0 DEF RunWrite, peerVars, listVars
<1>2. ready' = Tail(ready) \o (IF writes /\ ~open THEN <<Handler("write_error", c)>> ELSE <<>>)
                      \o (IF FALSE THEN <<Handler("read_error", c)>> ELSE <<>>)
  <2> DEFINE x == IF writes /\ ~open THEN <<Handler("write_error", c)>> ELSE <<>>
  <2>1. x = FailedStarts(c, writes)
    BY DEF FailedStarts
  <2>2. x \in Seq(Handlers) /\ Tail(ready) \in Seq(Handlers)
    <3>1. Handler("write_error", c) \in Handlers
      BY NewHandlers DEF OfConnection, Ops
    <3> QED
      BY <1>0, <3>1 DEF IInv, Types
  <2> HIDE DEF x
  <2>3. Tail(ready) \o x \o <<>> = Tail(ready) \o x
    BY <2>2
  <2> QED
    BY <1>1, <2>1, <2>3 DEF x
<1>3. responses \in [Conns -> Nat]
  BY DEF IInv, Types
<1>4. /\ writes => /\ isSending' = isSending \cup {c}
                   /\ responses' = [responses EXCEPT ![c] = responses[c] - 1]
                   /\ writing' = IF open THEN writing \cup {c} ELSE writing
      /\ ~writes => /\ isSending' = isSending \ {c}
                    /\ responses' = responses
                    /\ writing' = writing
  <2>1. CASE writes
    BY <1>1, <2>1 DEF SendNext
  <2>2. CASE ~writes
    BY <1>1, <1>3, <2>2 DEF SendNext
  <2> QED
    BY <2>1, <2>2
<1>5. /\ ready' \in Seq(Handlers)
      /\ \A g \in Queued' : g.what \in {"accept", "read"} => g \in Queued
      /\ Accepts' = Accepts
      /\ \A d \in Conns : d # c => \A what \in Ops : Tally(what, d)' = Tally(what, d)
      /\ \E m \in Nat : Tally("write", c) = m + 1 /\ Tally("write", c)' = m + 0
      /\ Tally("read", c)' = Tally("read", c) + 0
      /\ Tally("read_error", c)' = Tally("read_error", c) + 0
      /\ Tally("write_error", c)' = Tally("write_error", c) + IF writes /\ ~open THEN 1 ELSE 0
  <2> DEFINE b1 == writes /\ ~open
             b2 == FALSE
             F(what) == IF (what = "write_error" /\ b1) \/ (what = "read_error" /\ b2) THEN 1 ELSE 0
  <2>1. b1 \in BOOLEAN /\ b2 \in BOOLEAN
    OBVIOUS
  <2>2. /\ ready' \in Seq(Handlers)
        /\ \A g \in Queued' : g.what \in {"accept", "read"} => g \in Queued
        /\ Accepts' = Accepts
        /\ \A d \in Conns : d # c => \A what \in Ops : Tally(what, d)' = Tally(what, d)
        /\ \A what \in Ops :
               IF what = Head(ready).what
               THEN \E m \in Nat : Tally(what, c) = m + 1 /\ Tally(what, c)' = m + F(what)
               ELSE Tally(what, c)' = Tally(what, c) + F(what)
    <3>1. /\ Head(ready).what \in Ops /\ Head(ready).conn = c
          /\ ready' = Tail(ready) \o (IF b1 THEN <<Handler("write_error", c)>> ELSE <<>>)
                            \o (IF b2 THEN <<Handler("read_error", c)>> ELSE <<>>)
      BY <1>0, <1>2 DEF Ops
    <3>2. Types /\ ready # <<>>
      BY <1>0 DEF IInv
    <3> HIDE DEF b1, b2
    <3> QED
      BY <2>1, <3>1, <3>2, Restarted, ZenonT(40)
  <2>3. /\ F("read") = 0 /\ F("write") = 0 /\ F("read_error") = 0
        /\ F("write_error") = IF writes /\ ~open THEN 1 ELSE 0
    OBVIOUS
  <2> HIDE DEF F
  <2>4. \E m \in Nat : Tally("write", c) = m + 1 /\ Tally("write", c)' = m + F("write")
    BY <1>0, <2>2 DEF Ops
  <2>5. /\ Tally("read_error", c)' = Tally("read_error", c) + F("read_error")
        /\ Tally("read", c)' = Tally("read", c) + F("read")
        /\ Tally("write_error", c)' = Tally("write_error", c) + F("write_error")
    BY <1>0, <2>2 DEF Ops
  <2> QED
    BY <2>2, <2>3, <2>4, <2>5
<1>6. /\ responses' \in [Conns -> Nat]
      /\ responses'[c] = (IF writes THEN responses[c] - 1 ELSE 0)
      /\ \A d \in Conns : d # c => responses'[d] = responses[d]
  <2>1. CASE writes
    <3>1. responses[c] - 1 \in Nat
      BY <1>3, <2>1
    <3>2. responses' = [responses EXCEPT ![c] = responses[c] - 1]
      BY <1>4, <2>1
    <3> QED
      BY <1>3, <2>1, <3>1, <3>2
  <2>2. CASE ~writes
    BY <1>3, <1>4, <2>2
  <2> QED
    BY <2>1, <2>2
<1>7. Types'
  <2>1. writing' \in SUBSET Conns /\ isSending' \in SUBSET Conns
    BY <1>4 DEF IInv, Types
  <2> QED
    BY <1>1, <1>5, <1>6, <2>1 DEF IInv, Types
<1>8. Listed'
  BY <1>1, <1>5 DEF IInv, Listed
<1>9. ASSUME NEW d \in Conns, d # c PROVE Consistent(d)'
  <2>1. \A g \in Queued' : g \in Due("read", d) => g \in Queued
    BY <1>5 DEF Due
  <2>2. /\ d \in writing' <=> d \in writing
        /\ d \in isSending' <=> d \in isSending
    BY <1>4, <1>9
  <2> QED
    BY <1>1, <1>5, <1>6, <1>9, <2>1, <2>2, KeptSame DEF IInv, Alive
<1>10. Consistent(c)'
  <2>1. address[c] # 0 /\ Consistent(c)
    BY <1>1 DEF IInv, Alive
  <2>2. /\ c \notin writing /\ Tally("write_error", c) = 0 /\ Tally("write", c) = 1
        /\ Tally("write", c)' = 0 /\ WriteTokens(c) = 1
    <3>1. PICK m \in Nat : Tally("write", c) = m + 1 /\ Tally("write", c)' = m + 0
      BY <1>5
    <3>2. PICK f \in {0, 1} : f = Flag(c \in writing)
      BY DEF Flag
    <3>3. f + (m + 1) + Tally("write_error", c) <= 1 /\ Tally("write_error", c) \in Nat
      BY <2>1, <3>1, <3>2, TallyNat DEF IInv, Consistent, Tokens, WriteTokens
    <3>4. f = 0 /\ m = 0 /\ Tally("write_error", c) = 0
      BY <3>3
    <3> QED
      BY <3>1, <3>2, <3>4 DEF Flag, WriteTokens
  <2>3. /\ Tally("read", c)' = Tally("read", c) /\ Tally("read_error", c)' = Tally("read_error", c)
        /\ ReadTokens(c)' = ReadTokens(c) /\ ReadTokens(c) <= 1
    <3>1. Tally("read", c)' = Tally("read", c) /\ Tally("read_error", c)' = Tally("read_error", c)
      BY <1>5, TallyNat DEF IInv
    <3> QED
      BY <1>1, <2>1, <3>1 DEF ReadTokens, Consistent, Tokens
  <2>4. /\ WriteTokens(c)' = IF writes THEN 1 ELSE 0
        /\ open => Tally("write_error", c)' = 0
    <3>1. CASE writes /\ open
      <4>1. Flag(c \in writing') = 1 /\ Tally("write_error", c)' = 0
        BY <1>4, <1>5, <2>2, <3>1 DEF Flag
      <4> QED
        BY <2>2, <3>1, <4>1 DEF WriteTokens
    <3>2. CASE writes /\ ~open
      <4>1. Flag(c \in writing') = 0 /\ Tally("write_error", c)' = 1
        BY <1>4, <1>5, <2>2, <3>2 DEF Flag
      <4> QED
        BY <2>2, <3>2, <4>1 DEF WriteTokens
    <3>3. CASE ~writes
      <4>1. Flag(c \in writing') = 0 /\ Tally("write_error", c)' = 0
        BY <1>4, <1>5, <2>2, <3>3 DEF Flag
      <4> QED
        BY <2>2, <3>3, <4>1 DEF WriteTokens
    <3> QED
      BY <3>1, <3>2, <3>3
  <2>5. /\ c \in isSending' <=> writes
        /\ responses'[c] > 0 => writes
        /\ Served(c)' => open /\ Served(c)
    BY <1>1, <1>4, <1>6 DEF Served, Alive
  <2>6. Tokens(c)'
    <3> HIDE DEF writes, open
    <3> QED
      BY <2>3, <2>4, <2>5 DEF Tokens
  <2>7. ASSUME NEW n \in Nat, Accounted(c, n), Served(c)' PROVE Accounted(c, n)'
    <3>1. PICK i \in Nat, r \in Nat, d \in Nat, p \in Nat :
              i = inbox[c] /\ r = responses[c] /\ d = delivered[c] /\ p = dropped[c]
      BY DEF IInv, Types
    <3>2. sent[c] = i + n + r + 0 + d + p
      BY <2>2, <2>7, <3>1 DEF Accounted
    <3>3. CASE writes
      <4>1. c \in writing' /\ responses'[c] = r - 1
        BY <1>4, <1>6, <2>5, <2>7, <3>1, <3>3
      <4>2. i + n + r + 0 + d + p = i + n + (r - 1) + 1 + d + p
        OBVIOUS
      <4> QED
        BY <1>1, <3>1, <3>2, <4>1, <4>2 DEF Accounted
    <3>4. CASE ~writes
      <4>1. c \notin writing' /\ responses'[c] = r
        BY <1>4, <2>2, <3>1, <3>4
      <4> QED
        BY <1>1, <3>1, <3>2, <4>1 DEF Accounted
    <3> QED
      BY <3>3, <3>4
  <2>8. Accounts(c)'
    <3>1. \A g \in Queued' : g \in Due("read", c) => g \in Queued /\ g.size \in Nat
      BY <1>5, InQueue, HandlerFields DEF IInv, Due
    <3>2. Served(c)' => Accounts(c) /\ Served(c)
      BY <2>1, <2>5 DEF Consistent
    <3> QED
      BY <2>3, <2>7, <3>1, <3>2 DEF Accounts, Due
  <2> QED
    BY <1>1, <2>1, <2>6, <2>8 DEF Consistent
<1>11. \A d \in Conns : Consistent(d)'
  BY <1>9, <1>10
<1> QED
  BY <1>7, <1>8, <1>11 DEF IInv

-----------------------------------------------------------------------------
(* The theorems.                                                           *)

\* The inductive invariant holds at the beginning.
LEMMA InitIInv ==
    ASSUME Init
    PROVE  IInv
<1>1. Types
  <2>1. ready \in Seq(Handlers)
    BY DEF Init
  <2>2. arrived \in Nat /\ arrived <= MaxConnections
    BY ServerAssumption DEF Init
  <2>3. /\ at \in [Addresses -> Conns \cup {0}] /\ address \in [Conns -> Addresses \cup {0}]
        /\ socket \in [Conns -> {"none", "open", "closed"}]
        /\ responses \in [Conns -> Nat] /\ peer \in [Conns -> {"up", "gone"}]
        /\ sent \in [Conns -> Nat] /\ inbox \in [Conns -> Nat]
        /\ delivered \in [Conns -> Nat] /\ dropped \in [Conns -> Nat]
    BY DEF Init
  <2> QED
    BY <2>1, <2>2, <2>3 DEF Init, Types
<1>2. \A P : Count(ready, P) = 0
  BY CountEmpty DEF Init
<1>3. Accepts = 0 /\ \A what, c : Tally(what, c) = 0
  BY <1>2 DEF Accepts, Tally
<1>4. Listed
  <2>1. {c \in Conns : address[c] # 0} = 1..0
    BY DEF Init
  <2>2. Queued = {}
    BY DEF Init, Queued
  <2>3. Accepts + Flag(accepting) <= 1
    BY <1>3 DEF Flag
  <2>4. \A a \in Addresses : at[a] = 0
    BY DEF Init
  <2>5. \E n \in Nat : {c \in Conns : address[c] # 0} = 1..n
    BY <2>1
  <2> QED
    BY <2>2, <2>3, <2>4, <2>5 DEF Listed
<1>5. ASSUME NEW c \in Conns PROVE Consistent(c)
  <2>1. Fresh(c) /\ ~Served(c)
    BY <1>3 DEF Init, Fresh, Served
  <2>2. ReadTokens(c) = 0 /\ WriteTokens(c) = 0
    BY <1>3, <2>1 DEF Fresh, ReadTokens, WriteTokens, Flag
  <2> QED
    BY <2>1, <2>2 DEF Consistent, Tokens, Accounts
<1> QED
  BY <1>1, <1>4, <1>5 DEF IInv

\* Nothing changes.
LEMMA StutterKeeps ==
    ASSUME IInv, UNCHANGED vars
    PROVE  IInv'
<1>1. UNCHANGED <<ready, running, accepting, arrived, at, address, socket, reading, writing, isSending,
                  responses, peer, sent, inbox, delivered, dropped, dangling, acceptFailed>>
  BY DEF vars, listVars, connVars, peerVars
<1>2. Types'
  BY <1>1 DEF IInv, Types
<1>3. Listed'
  BY <1>1 DEF IInv, Listed, Accepts, Queued
<1>4. ASSUME NEW d \in Conns PROVE Consistent(d)'
  BY <1>1, KeptSame DEF IInv, Alive, Tally, Queued
<1> QED
  BY <1>2, <1>3, <1>4 DEF IInv

\* The inductive invariant holds through every step.
LEMMA StepKeeps ==
    ASSUME IInv, [Next]_vars
    PROVE  IInv'
<1>1. ASSUME Run PROVE IInv'
  BY <1>1, RunAcceptKeeps, RunAcceptErrorKeeps, RunReadKeeps, RunWriteKeeps, RunErrorKeeps,
     RunDanglingKeeps, RunRemoveKeeps, RunStopKeeps DEF Run
<1>2. ASSUME NEW c \in Conns, Sends(c) \/ Leaves(c) \/ ReadEnds(c) \/ WriteEnds(c) PROVE IInv'
  BY <1>2, SendsKeeps, LeavesKeeps, ReadEndsKeeps, WriteEndsKeeps
<1> QED
  BY <1>1, <1>2, ConnectsKeeps, AcceptEndsKeeps, SignalKeeps, StutterKeeps DEF Next

\* The inductive invariant holds in every reachable state.
THEOREM Invariance == Spec => []IInv
<1>1. Init => IInv
  BY InitIInv
<1>2. IInv /\ [Next]_vars => IInv'
  BY StepKeeps
<1> QED
  BY <1>1, <1>2, PTL DEF Spec

\* The places of the properties are those the tallies count.
LEMMA PendingTally ==
    ASSUME Types, NEW what, NEW c
    PROVE  Pending(what, c) = PlacesIn(ready, Due(what, c)) /\ Cardinality(Pending(what, c)) = Tally(what, c)
<1>1. \A k \in DOMAIN ready : ready[k] \in Handlers
  BY DEF Types
<1>2. Pending(what, c) = PlacesIn(ready, Due(what, c))
  BY <1>1 DEF Pending, PlacesIn, Due
<1> QED
  BY <1>2 DEF Tally, Count

\* At most one async_write at a time on a connection, and while responses wait on
\* a connected client's connection one is outstanding or its handler due.
THEOREM OneWriteAtATime == Spec => []WritesNeverIdle
<1>1. IInv => WritesNeverIdle
  <2> SUFFICES ASSUME IInv, NEW c \in Conns
               PROVE  LET writes == (IF c \in writing THEN 1 ELSE 0) + Cardinality(Pending("write", c))
                      IN  /\ writes <= 1
                          /\ Alive(c) /\ socket[c] = "open" /\ peer[c] = "up" =>
                                /\ c \in isSending <=> writes = 1
                                /\ responses[c] > 0 => c \in isSending
    BY DEF WritesNeverIdle
  <2>1. Cardinality(Pending("write", c)) = Tally("write", c)
    BY PendingTally DEF IInv
  <2>2. PICK f \in {0, 1} : f = (IF c \in writing THEN 1 ELSE 0) /\ f = Flag(c \in writing)
    BY DEF Flag
  <2>3. PICK n \in Nat, m \in Nat : n = Tally("write", c) /\ m = Tally("write_error", c)
    BY TallyNat DEF IInv
  <2>4. WriteTokens(c) = f + n + m /\ f + n + m <= 1
    BY <2>2, <2>3 DEF IInv, Consistent, Tokens, WriteTokens
  <2>5. f + n <= 1
    BY <2>4
  <2>6. ASSUME Alive(c), socket[c] = "open", peer[c] = "up"
        PROVE  /\ c \in isSending <=> f + n = 1
               /\ responses[c] > 0 => c \in isSending
    <3>1. /\ Tokens(c) /\ Served(c)
      BY <2>6 DEF IInv, Consistent, Served
    <3>2. m = 0 /\ WriteTokens(c) = f + n
      BY <2>3, <2>4, <3>1 DEF Tokens
    <3> QED
      BY <2>6, <3>1, <3>2 DEF Tokens
  <2> QED
    BY <2>1, <2>2, <2>3, <2>5, <2>6
<1> QED
  BY <1>1, Invariance, PTL

\* Every request a connected client sent is unread, read, queued, being written,
\* delivered or refused by the full queue, and in one of these places only.
THEOREM RequestsAreKept == Spec => []RequestsConserved
<1>1. IInv => RequestsConserved
  <2> SUFFICES ASSUME IInv, NEW c \in Conns
               PROVE  LET reads == Pending("read", c)
                      IN  /\ Cardinality(reads) <= 1
                          /\ Alive(c) /\ socket[c] = "open" /\ peer[c] = "up" =>
                                /\ reads = {} => Accounted(c, 0)
                                /\ \A k \in reads : Accounted(c, ready[k].size)
    BY DEF RequestsConserved
  <2>1. Cardinality(Pending("read", c)) = Tally("read", c) /\ Pending("read", c) = PlacesIn(ready, Due("read", c))
    BY PendingTally DEF IInv
  <2>2. Tally("read", c) <= 1
    BY TallyNat DEF IInv, Consistent, Tokens, ReadTokens, Flag
  <2>3. ASSUME Alive(c), socket[c] = "open", peer[c] = "up"
        PROVE  Pending("read", c) = {} => Accounted(c, 0)
    <3>1. Pending("read", c) = {} => Tally("read", c) = 0
      BY <2>1, FS_EmptySet
    <3> QED
      BY <2>3, <3>1 DEF IInv, Consistent, Accounts, Served
  <2>4. ASSUME Alive(c), socket[c] = "open", peer[c] = "up", NEW k \in Pending("read", c)
        PROVE  Accounted(c, ready[k].size)
    <3>1. ready[k] \in Queued /\ ready[k] \in Due("read", c)
      BY <2>1 DEF PlacesIn, Queued
    <3> QED
      BY <2>4, <3>1 DEF IInv, Consistent, Accounts, Served
  <2> QED
    BY <2>1, <2>2, <2>3, <2>4
<1> QED
  BY <1>1, Invariance, PTL

=============================================================================
