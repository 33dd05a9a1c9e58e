------------------------------ MODULE Protocol ------------------------------
(***************************************************************************)
(* One client and the server over a TCP connection, at the level of bytes: *)
(* the SDK's interpreters build requests and decode answers, both protocol *)
(* sessions put frames together from the chunks the sockets deliver, the   *)
(* processor serves requests on the world.  Chunks have any size up to     *)
(* what the read buffers take.  A connection may be lost and made again:   *)
(* the server then has a new session, the client keeps the one it has.     *)
(***************************************************************************)
EXTENDS Payloads

CONSTANTS
    Calls,          \* what the client may ask: records with the operation and its arguments
    Creatures,      \* the creatures of the world, a set of records
    Corpses,        \* the corpses of the world
    SoilOrders,     \* what the soil registry may hold, sequences of pieces
    Territory,      \* its size
    Held,           \* the values the bytes of an array that is not initialised may have
    Capacity,       \* MAX_RAW_FRAME_BUFFER_SIZE
    ChunkSizes,     \* the sizes of the chunks the sockets deliver; the largest is the read buffer
    ResponseMax,    \* RESPONSE_QUEUE_MAX_SIZE
    MaxSent,        \* bound on the requests of a connection
    MaxConnects     \* bound on the connections

(* The buffer has room for a chunk behind the longest request that is not whole yet. *)
ASSUME ChunksAssumption ==
    /\ Capacity \in Nat
    /\ \A n \in ChunkSizes : n \in 1..Capacity /\ IdEnd + 2 + CreateSize + n <= Capacity

(* An id has room in its field. *)
ASSUME SentAssumption == MaxSent \in Nat /\ MaxSent < Huge

ASSUME HeldAssumption == Held \subseteq Byte

(* The entities are what the layouts take: numbers for the numbers, bytes for a name.  The
   entity map holds one creature under an id. *)
ASSUME EntitiesAssumption ==
    /\ Creatures \subseteq [gender : DOMAIN GenderByte, specie : DOMAIN SpecieValue, x : Numbers, y : Numbers,
                            name : Bytes, id : IdNumbers]
    /\ \A c, d \in Creatures : c.id = d.id => c = d
    /\ Corpses \subseteq [id : IdNumbers, rawMeat : Numbers, x : Numbers, y : Numbers, width : Numbers, height : Numbers]
    /\ Territory \in [width : Numbers, height : Numbers]

(* The pieces of soil are what GenTerrain lays. *)
ASSUME SoilsAssumption ==
    \A order \in SoilOrders : order \in Seq(ToSet(order)) /\ \A i \in 1..Len(order) :
        /\ order[i] = GenSoilPiece(order[i].type, order[i].radius, order[i].x, order[i].y, order[i].id)
        /\ order[i].type \in DOMAIN SoilBlueprints
        /\ order[i].radius \in Numbers /\ order[i].x \in Numbers /\ order[i].y \in Numbers
        /\ order[i].id \in IdNumbers /\ order[i] # Thrown

(* The arguments of the calls.  A name that does not fit behind the other parts of a request is
   written beyond the array: not modelled. *)
ASSUME CallsAssumption ==
    \A call \in Calls :
        \/ call.op \in {"see_creature", "see_corpse", "see_soil"} /\ call.id \in IdNumbers
        \/ call.op \in {"see_all_soils", "see_territory"}
        \/ /\ call.op = "make_creature"
           /\ call.gender = Nothing \/ call.gender \in DOMAIN GenderByte
           /\ call.specie = Nothing \/ call.specie \in DOMAIN SpecieValue
           /\ call.position = Nothing \/ call.position \in Numbers \X Numbers
           /\ call.name = Nothing \/ (call.name \in Bytes /\ 22 + Len(call.name) <= CreateSize)

VARIABLES
    soils,          \* the pieces of this run's territory, in the order the registry gives them
    connects,       \* connections made so far
    toServer,       \* bytes on their way to the server
    requestBuffer,  \* ProtocolSession::request_buffer of the server
    responses,      \* ProtocolSession::responses
    serverUp,       \* io_context.run() has not been left by an exception
    toClient,       \* bytes on their way to the client
    responseBuffer, \* incoming_responses of the SDK's session
    clientReads,    \* no exception has left the client's read handler
    sent,           \* the calls of this connection; the request's id is its place here
    served,         \* the requests the server's parser has given, in order
    answered,       \* the responses the server has written, in order
    collected,      \* the responses the client's parser has given, in order
    created,        \* the blueprints creatures were made from
    unqueued,       \* ids of requests whose response found the queue full
    stale           \* the client's buffer has lost bytes or holds some of an older connection

vars == <<soils, connects, toServer, requestBuffer, responses, serverUp, toClient, responseBuffer,
          clientReads, sent, served, answered, collected, created, unqueued, stale>>

-----------------------------------------------------------------------------
(* The SDK's interpreters. *)

Request(sub, resource, target, id, payload) ==
    [type |-> "Request", sub |-> sub, id |-> id, resource |-> resource, target |-> target, payload |-> payload]

RequestCreature(call, id) == Request("SEE", "CREATURE", "ONE", id, Digits[8][call.id])

RequestCorpse(call, id) == Request("SEE", "CORPSE", "ONE", id, Digits[8][call.id])

RequestSoil(call, id) == Request("SEE", "SOIL", "ONE", id, Digits[8][call.id])

RequestAllSoils(id) == Request("SEE", "SOIL", "ALL", id, <<0>>)

RequestTerritory(id) == Request("SEE", "TERRITORY", "ONE", id, <<>>)

RequestBirth(call, id, held) ==
    Request("CREATE", "CREATURE", "NoTarget", id,
            MakeCreate(call.gender, call.specie, call.position, call.name, held))

(* The interpreter builds a request, of which send_without_waiting takes all but the id: that
   is the client's. *)
BuildRequest(call, id, held) ==
    CASE call.op = "see_creature"  -> RequestCreature(call, id)
      [] call.op = "see_corpse"    -> RequestCorpse(call, id)
      [] call.op = "see_soil"      -> RequestSoil(call, id)
      [] call.op = "see_all_soils" -> RequestAllSoils(id)
      [] call.op = "see_territory" -> RequestTerritory(id)
      [] call.op = "make_creature" -> RequestBirth(call, id, held)

ReadAllSoils(bytes) ==
    LET offsets == DeserializeList(bytes, SoilSize, 0)
        read    == [i \in DOMAIN offsets |-> ReadSoil(bytes, offsets[i])]
    IN IF offsets = Thrown \/ \E i \in DOMAIN offsets : read[i] = Thrown THEN Thrown ELSE read

(* What the caller gets from the response to its call. *)
Decode(call, response) ==
    IF response.sub = "NONE" THEN Nothing
    ELSE CASE call.op \in {"see_creature", "make_creature"} -> ReadCreature(response.payload, 0)
           [] call.op = "see_corpse"    -> ReadCorpse(response.payload, 0)
           [] call.op = "see_soil"      -> ReadSoil(response.payload, 0)
           [] call.op = "see_all_soils" -> ReadAllSoils(response.payload)
           [] call.op = "see_territory" -> ReadTerritory(response.payload, 0)

-----------------------------------------------------------------------------
(* The processor and the adapters of the API. *)

Response(sub, id, payload, cardinality) ==
    [type |-> "Response", sub |-> sub, id |-> id, cardinality |-> cardinality, payload |-> payload]

(* The entity with that id, serialised, or the response NONE. *)
See(sub, request, serialised) ==
    LET id    == ReadId(request.payload, 0)
        found == {e \in DOMAIN serialised : e.id = id}
    IN IF id = Thrown THEN Thrown
       ELSE IF found = {} THEN Response("NONE", request.id, <<>>, "ONE")
       ELSE LET payload == serialised[CHOOSE e \in found : TRUE]
            IN IF payload = Thrown THEN Thrown ELSE Response(sub, request.id, payload, "ONE")

SeeCreature(request)  == See("CREATURE", request, [c \in Creatures |-> SerializeCreature(c)])
SeeCorpse(request)    == See("CORPSE", request, [c \in Corpses |-> SerializeCorpse(c)])
SeeSoil(request)      == See("SOIL", request, [s \in ToSet(soils) |-> SerializeSoil(s)])
SeeTerritory(request) == Response("TERRITORY", request.id, SerializeTerritory(Territory), "ONE")

SeeAllSoils(request) ==
    LET payload == SerializeList([i \in DOMAIN soils |-> SerializeSoil(soils[i])], SoilSize)
    IN IF payload = Thrown THEN Thrown ELSE Response("SOIL", request.id, payload, "ALL")

(* make_creature returns no creature when the world took it, and looks it up where it is not
   when the world did not. *)
CreateCreature(request, taken) ==
    IF ReadCreate(request.payload) \in {Thrown, Outside} \/ ~taken THEN Thrown
    ELSE Response("NONE", request.id, <<>>, "ONE")

Process(request, taken) ==
    CASE request.sub = "SEE" /\ request.resource = "CREATURE"  -> SeeCreature(request)
      [] request.sub = "SEE" /\ request.resource = "CORPSE"    -> SeeCorpse(request)
      [] request.sub = "SEE" /\ request.resource = "SOIL"      ->
            IF request.target = "ONE" THEN SeeSoil(request) ELSE SeeAllSoils(request)
      [] request.sub = "SEE" /\ request.resource = "TERRITORY" -> SeeTerritory(request)
      [] request.sub = "CREATE" /\ request.resource = "CREATURE" -> CreateCreature(request, taken)
      [] OTHER -> Thrown

-----------------------------------------------------------------------------
(* Frame reassembly: the buffer, all or nothing, and the frames taken off its front. *)

(* Mutant: the chunk is counted twice. *)
Overflows_Twice(buffer, chunk) == Len(buffer) + 2 * Len(chunk) > Capacity

Overflows(buffer, chunk) == Len(buffer) + Len(chunk) > Capacity

(* What so many steps take off the front of a buffer, and leave of it: a step takes a frame, or
   nothing when none is whole. *)
Taken(buffer, steps) ==
    LET taken[k \in 0..steps] ==
            IF k = 0 THEN [frames |-> <<>>, rest |-> buffer]
            ELSE LET before == taken[k - 1]
                     frame  == GetFrame(before.rest)
                 IN IF HasFrame(before.rest) # "YES" THEN before
                    ELSE [frames |-> Append(before.frames, frame),
                          rest   |-> SubSeq(before.rest, Len(frame) + 1, Len(before.rest))]
    IN taken[steps]

(* No more than so many: no frame is shorter than a header is up to the id. *)
MostFrames(buffer) == Len(buffer) \div IdEnd

(* Mutant: one frame of a chunk is taken, the others wait for the next chunk. *)
TakeFrames_One(buffer) ==
    LET taken == Taken(buffer, 1)
    IN [frames |-> taken.frames, rest |-> taken.rest, threw |-> HasFrame(taken.rest) = Thrown]

(* Mutant: the frames of a chunk are handled last come, first served. *)
TakeFrames_Back(buffer) ==
    LET taken == Taken(buffer, MostFrames(buffer))
    IN [frames |-> Reverse(taken.frames), rest |-> taken.rest, threw |-> HasFrame(taken.rest) = Thrown]

(* The frames a buffer gives until none is whole, what is left, and whether a check threw. *)
TakeFrames(buffer) ==
    LET taken == Taken(buffer, MostFrames(buffer))
    IN [frames |-> taken.frames, rest |-> taken.rest, threw |-> HasFrame(taken.rest) = Thrown]

Init ==
    /\ soils \in SoilOrders
    /\ connects = 1 /\ serverUp = TRUE /\ clientReads = TRUE /\ stale = FALSE
    /\ toServer = <<>> /\ requestBuffer = <<>> /\ responses = <<>>
    /\ toClient = <<>> /\ responseBuffer = <<>>
    /\ sent = <<>> /\ served = <<>> /\ answered = <<>> /\ collected = <<>> /\ created = <<>>
    /\ unqueued = {}

(* A thread asks; its frame reaches the wire whole and after those before it. *)
Send(call) ==
    /\ Len(sent) < MaxSent
    /\ sent' = Append(sent, call)
    /\ \E held \in Held :
          /\ held = 0 \/ call.op = "make_creature"
          /\ toServer' = toServer \o RawBytes(BuildRequest(call, Len(sent'), held))
    /\ UNCHANGED <<soils, connects, requestBuffer, responses, serverUp, toClient, responseBuffer,
                   clientReads, served, answered, collected, created, unqueued, stale>>

(* The session after a request was processed to a response, either of which may be Thrown. *)
Served(state, request, response) ==
    [up |-> response # Thrown,
     served   |-> IF request = Thrown THEN state.served ELSE Append(state.served, request),
     queue    |-> IF response # Thrown /\ Len(state.queue) < ResponseMax
                  THEN Append(state.queue, response) ELSE state.queue,
     unqueued |-> IF response # Thrown /\ Len(state.queue) >= ResponseMax
                  THEN state.unqueued \union {response.id} ELSE state.unqueued,
     created  |-> IF request # Thrown /\ response # Thrown /\ request.sub = "CREATE"
                  THEN Append(state.created, ReadCreate(request.payload)) ELSE state.created]

Serve(state, request, taken) ==
    Served(state, request, IF request = Thrown THEN Thrown ELSE Process(request, taken))

(* Serving the frames of one chunk: stops at the first exception. *)
ServeStep(state, frame, taken) == IF state.up THEN Serve(state, ParseRequest(frame), taken) ELSE state

(* The server's session when it has gone through the frames taken off its buffer. *)
ServerBecomes(taken, end) ==
    /\ requestBuffer' = taken.rest
    /\ responses' = end.queue
    /\ served' = end.served
    /\ created' = end.created
    /\ unqueued' = end.unqueued
    /\ serverUp' = (end.up /\ ~taken.threw)

ServerServes(taken, added) ==
    LET after[k \in 0..Len(taken.frames)] ==
            IF k = 0
            THEN [up |-> TRUE, served |-> served, queue |-> responses, unqueued |-> unqueued, created |-> created]
            ELSE ServeStep(after[k - 1], taken.frames[k], added)
    IN ServerBecomes(taken, after[Len(taken.frames)])

(* ProtocolSession::receive on the server and the send after it. *)
ServerReceive(n) ==
    LET chunk == SubSeq(toServer, 1, n)
    IN /\ serverUp
       /\ n <= Len(toServer)
       /\ toServer' = SubSeq(toServer, n + 1, Len(toServer))
       /\ IF Overflows(requestBuffer, chunk)
          THEN UNCHANGED <<requestBuffer, responses, serverUp, served, created, unqueued>>
          ELSE \E added \in BOOLEAN : ServerServes(TakeFrames(requestBuffer \o chunk), added)
       /\ UNCHANGED <<soils, connects, toClient, responseBuffer, clientReads, sent, answered, collected, stale>>

(* send_next: one response at a time onto the wire. *)
SendResponse ==
    /\ serverUp
    /\ responses # <<>>
    /\ answered' = Append(answered, Head(responses))
    /\ toClient' = toClient \o RawBytes(Head(responses))
    /\ responses' = Tail(responses)
    /\ UNCHANGED <<soils, connects, toServer, requestBuffer, serverUp, responseBuffer, clientReads,
                   sent, served, collected, created, unqueued, stale>>

(* The client's session when it has parsed the frames taken off its buffer. *)
ClientParses(taken, parsed) ==
    LET bad == SelectInSeq(parsed, LAMBDA f : f = Thrown)
    IN /\ responseBuffer' = taken.rest
       /\ collected' = collected \o (IF bad = 0 THEN parsed ELSE SubSeq(parsed, 1, bad - 1))
       /\ clientReads' = (bad = 0 /\ ~taken.threw)

(* A server that sends a request is an error. *)
ParseAnswer(frame) == IF GetType(frame) = "Request" THEN Thrown ELSE ParseFrame(frame)

ClientTakesFrames(taken) == ClientParses(taken, [i \in 1..Len(taken.frames) |-> ParseAnswer(taken.frames[i])])

(* ProtocolSession::receive of the SDK: a chunk that does not fit is dropped without a word. *)
ClientReceive(n) ==
    LET chunk == SubSeq(toClient, 1, n)
        fits  == ~Overflows(responseBuffer, chunk)
    IN /\ clientReads
       /\ n <= Len(toClient)
       /\ toClient' = SubSeq(toClient, n + 1, Len(toClient))
       /\ stale' = (stale \/ ~fits)
       /\ ClientTakesFrames(TakeFrames(IF fits THEN responseBuffer \o chunk ELSE responseBuffer))
       /\ UNCHANGED <<soils, connects, toServer, requestBuffer, responses, serverUp, sent, served,
                      answered, created, unqueued>>

(* The connection is lost and the client connects again: the server's session is new, the bytes
   in flight are gone, the bytes of half a response stay in the client's buffer. *)
Reconnect ==
    /\ connects < MaxConnects
    /\ serverUp /\ clientReads
    /\ connects' = connects + 1
    /\ toServer' = <<>> /\ requestBuffer' = <<>> /\ responses' = <<>> /\ toClient' = <<>>
    /\ sent' = <<>> /\ served' = <<>> /\ answered' = <<>> /\ collected' = <<>> /\ created' = <<>>
    /\ unqueued' = {}
    /\ stale' = (stale \/ responseBuffer # <<>>)
    /\ UNCHANGED <<soils, serverUp, clientReads, responseBuffer>>

(* A chunk is of one of the sizes, or all there is when that is less. *)
ServerReads == \E n \in ChunkSizes : toServer # <<>> /\ ServerReceive(IF n < Len(toServer) THEN n ELSE Len(toServer))
ClientReads == \E n \in ChunkSizes : toClient # <<>> /\ ClientReceive(IF n < Len(toClient) THEN n ELSE Len(toClient))

Next == (\E call \in Calls : Send(call)) \/ ServerReads \/ SendResponse \/ ClientReads \/ Reconnect

Spec == Init /\ [][Next]_vars
(* The loops of both io threads go on while there is something to do.  Fairness is stated of what
   a read or a write takes off its queue, which only that step and Reconnect do. *)
ServerTakes  == serverUp /\ \E n \in 1..Len(toServer) : toServer' = SubSeq(toServer, n + 1, Len(toServer))
AnswerLeaves == serverUp /\ responses # <<>> /\ responses' = Tail(responses)
ClientTakes  == clientReads /\ \E n \in 1..Len(toClient) : toClient' = SubSeq(toClient, n + 1, Len(toClient))

FairSpec == Spec /\ WF_toServer(ServerTakes) /\ WF_responses(AnswerLeaves) /\ WF_toClient(ClientTakes)

-----------------------------------------------------------------------------
(* What the server serves is what the client of this connection asked, in that order and each
   once, however the bytes were cut: no chunk is ever dropped on the server's side. *)
ServedInOrder ==
    /\ Len(served) <= Len(sent)
    /\ \A i \in 1..Len(served) : \E held \in Held : served[i] = BuildRequest(sent[i], i, held)

(* As long as the client's buffer lost nothing and began empty, the client's parser gives the
   responses the server wrote, in that order and unharmed. *)
AnswersIntact == stale \/ collected = SubSeq(answered, 1, Len(collected))

(* The buffer of the client loses bytes or keeps old ones only behind a response that leaves no
   room for a chunk, or when the connection broke in the middle of one. *)
StaleOnlyAfter ==
    (stale /\ connects = 1) =>
        \E i \in 1..Len(answered) :
            \A n \in ChunkSizes : (\A m \in ChunkSizes : m <= n) => Len(RawBytes(answered[i])) + n > Capacity

(* What a caller decodes is the entity it asked for, soil pieces in the order of the registry;
   but a male creature, whose gender is written as 2 and read by a cast to {MALE, FEMALE}, cannot
   be decoded. *)
Answer(call) ==
    CASE call.op = "see_creature"  -> {c \in Creatures : c.id = call.id}
      [] call.op = "see_corpse"    -> {c \in Corpses : c.id = call.id}
      [] call.op = "see_soil"      -> {s \in ToSet(soils) : s.id = call.id}
      [] call.op = "see_all_soils" -> {soils}
      [] call.op = "see_territory" -> {Territory}
      [] call.op = "make_creature" -> {}

Undecodable(call) == call.op = "see_creature" /\ \E c \in Answer(call) : c.gender = "MALE"

SeesTheEntity ==
    stale \/ \A i \in 1..Len(collected) :
        LET call == sent[collected[i].id]
            seen == Decode(call, collected[i])
        IN  IF Undecodable(call) THEN seen = Thrown
            ELSE IF Answer(call) = {} THEN seen = Nothing
            ELSE seen \in Answer(call)

(* A creature is made from what the client asked for, whatever the bytes of the request that are
   not set hold; its name never arrives. *)
BlueprintArrives ==
    \A i \in 1..Len(created) : \E j \in 1..Len(sent) :
        /\ sent[j].op = "make_creature"
        /\ created[i] = [gender |-> sent[j].gender, specie |-> sent[j].specie,
                         position |-> sent[j].position, name |-> Nothing]

(* Every request is answered, unless its connection ends, the server stops on an exception, the
   response found the queue full, or the client's buffer lost bytes. *)
Answered ==
    \A k \in 1..MaxConnects, i \in 1..MaxSent :
        (connects = k /\ Len(sent) >= i) ~>
            \/ connects # k \/ ~serverUp \/ ~clientReads \/ stale \/ i \in unqueued
            \/ \E j \in 1..Len(collected) : collected[j].id = i
=============================================================================
