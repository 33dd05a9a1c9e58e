# Karkinolution: a verification development in TLA+

Karkinolution simulates creatures in a world and serves that world over TCP. This directory models the parts in
which several actors meet, in which one structure must stay consistent with another, or in which quantities must be
conserved. TLC checks them on small instances; TLAPS proves the central facts for every value of the constants.

Paths below are relative to the repository; `K/` stands for `src/karkinolution/`.

## 1. Inventory

| Part | State | Operations | Talks to | What is hard |
|---|---|---|---|---|
| SDK pending requests (`K/networking/sdk/src/client/pending_request.*`) | map id -> shared `FutureRequest`; promise, future, failure, `wait_in_progress`; two levels of mutexes | add, answer, pop, await with timeout, erase, fail all | the client's strand answers and fails; user threads pop and await | every lock is released between lookup and use; timeout races answer, pop races await, an id is registered again while an old request is held |
| SDK client (`client.*`, `request_queue.*` there) | `connected`, socket, `sending_state`, request queue, operation counter, stop flag | connect, send, receive, disconnect, request, pop, destroy | server (TCP), pending requests, `io_context` thread | user threads against strand tasks; aborted and failed operations; shutdown while handlers are queued; late answers |
| Server and connections (`K/networking/server.*`, `connection.*`, `response_queue.hpp`) | list of connections, acceptor, response queue and `is_sending` of each | accept, read, answer, write, close, remove, stop | clients, world | handlers that hold `this`, removal posted by address, reads and writes that fail together, full queue |
| Frame reassembly (both `protocol_session.*`, `raw_frame_buffer.hpp`) | bounded byte buffer | append chunk, cut frames | both ends | frames across chunks, several in one, overflow, exceptions half-way, reconnection |
| Binary protocol (`K/binary`) | none | encode, decode, validate | all of networking | offsets and sizes, codes, optional fields, two sides that must agree |
| API, its adapters and the SDK's interpreters (`K/api`, `K/networking/api_adapter`, `K/networking/sdk/src/interpreters`) | none | read, make a creature | server, world | what a client is told on success and failure |
| World (`K/world`, `K/terrain/entity_map.*`, `K/organism/entities/entities.*`) | registry of entities, quadtree of their bounds, territory, natures, time | add, remove, update, find | lifecycle, API | two structures to keep together; refusals and rollback |
| Quadtree (`src/shared/functional/quadtree.hpp`) | nodes, entries, `size_` | add, remove, update, find | entity map | splits that file entries again; removal by old bounds; borders |
| R*-tree and its service (`K/terrain/rtree`) | nodes, levels, registry beside the tree | insert, forced reinsertion, split, remove, condense, clear | territory, natures, perception | boxes refreshed along one path only; evicted entries and orphans put back at a depth noted before the tree changed; exceptions half-way |
| Lifecycle and motors (`K/lifecycle`, `*/motor.cpp`) | the list of ids of a tick | run one tick, run one entity | world | an entity is removed, moved or throws in the middle of the tick |
| Reproduction (`K/organism/reproduction`) | uterus, pregnancy, gestation, born count | conceive, transfer energy, gestate | creature motor | energy that two clamped stores must agree on; a gestation nothing ends |
| Growth, metabolism, attack, corpses | energy, reserve, life, size of an entity | grow, eat, attack, decay, hatch | world, perception | the same |
| Brain and perception (`K/organism/entities/creature/brain`) | intent with its time; a snapshot of what is in sight, views of it | think, plan, perceive, filter, reduce | creature motor, territory | snapshots outlived by what points into them; filters of filters |
| Genetics (`K/organism/entities/genetics`) | a genome per species | populate, look up, averages | constructors, growth | numerical |
| Limited values (`src/shared/math/stats`) | value, limits | clamped arithmetic | everywhere | amounts that are clamped without a word |
| View (`K/view`), GUI toolkit, `misc/3d`, command line tools | | | | drawing, experiments, build scripts |

What makes each part correct, in one line: *pending requests* - every request is settled once, its response reaches one
caller, nothing accepted becomes unreachable; *client* - operations are counted exactly, frames never interleave or
vanish, shutdown ends with nothing left to run; *server* - no wake-up of a writer is lost, closed connections go, those
that wait are taken and answered; *protocol* - what is served, answered, decoded and created is what was asked, however
the stream is cut; *world* - registry and map hold the same entities, at the entities' places; *quadtree, R*-tree* -
search finds what a search without the tree finds; *organisms* - stores keep their limits, no energy comes from
nothing, one entity's failure costs the others no more than it must.

`PROJECT.json` lists every component with its status, and every hazard at its line with the properties that watch it.

## 2. Modules

| Module | Models | Extends / uses |
|---|---|---|
| `RequestContract` | what the pending-request store promises; proves that the promise says what callers rely on | `TLAPS` |
| `PendingRequests` | the store lock by lock, and its refinement mapping | `INSTANCE RequestContract` |
| `PendingRequestsProofs` | types, invariants, refinement | `PendingRequests`, `TLAPS` |
| `SdkClient` | user threads, strand, socket, server as peer; the store in one step per call, as the contract allows; frames whole | |
| `ServerConnections` | the server's `io_context`, connections, clients as peers; frames whole | |
| `SdkClientProofs` | the four invariants of the client | `SdkClient`, `Tallies` |
| `ServerConnectionsProofs` | the two invariants of the server's connections | `ServerConnections`, `Tallies` |
| `Wire` | numbers, strings, lists, frame layouts, `has_frame`, parsers and validators, as operators on byte sequences | |
| `Terrain` | what a piece of soil of each type is, and how a territory is covered with pieces; noise and radii are parameters | |
| `Payloads` | creatures, corpses, soil, territory and creation requests as bytes, written and read | `Wire`, `Terrain` |
| `Protocol` | one client and the server joined by two byte streams, with both sessions' buffers | `Payloads` |
| `ProtocolProofs` | readers undo what writers did, frames are taken whole off any cut of the stream; what is served, parsed, decoded and created | `Protocol`, `Tallies` |
| `ProtocolMC` | a small world, its soil made by `Terrain`, and its requests for TLC | `Protocol` |
| `Quadtree` | pure operators on trees | |
| `World` | registry, map, ticks, create request | `Quadtree` |
| `WorldMC` | two places for TLC | `World` |
| `WorldProofs` | agreement of registry and map, whole moves, exactness of the quadtree | `World`, `Tallies` |
| `RStarTree` | the R*-tree, and the service that keeps a registry beside it | |
| `RStarTreeMC` | its boxes and orders for TLC | `RStarTree` |
| `RStarTreeTidesMC` | filling and draining in turns for TLC | `RStarTreeMC` |
| `Limited` | clamped stores and counters | |
| `Genome` | the four species' genomes and what is computed from them | `Limited` |
| `Perception` | snapshots, views, every filter and reduction | |
| `Organism` | the life of creatures, embryos and corpses | `Genome`, `Perception` |
| `OrganismMC` | a small territory; the views of a small perception | `Organism` |
| `Tallies` | lemmas: the sum of a function's values as the community modules fold it; how many elements of a queue lie in a set, after any of the steps queues take; induction on a number | `TLAPS` |
| `OrganismProofs` | limits, energy, pregnancies, embryos, cut ticks, views; meals and transfers | `OrganismMC`, `Tallies` |

Operators named `X_Y` beside an operator `X` are its mutants: `X` with one plausible mistake, `Y`. Nothing but the
mutation runs listed in `PROJECT.json` uses them.

### PendingRequests

One action is one critical section. The code's two mutexes guard straight-line statements, so a section is atomic;
between two of them a thread holds only its `shared_ptr`, which is `req[t]`. A `FutureRequest` is an object of the set
`Requests`: its promise (`promise`), future (`future`: empty, ready, broken, taken), `failure` and `wait_in_progress`
(`waiting`). `pc[t]` names the place between two sections. A destroyed promise makes the future ready with
`broken_promise`; that is `future = "broken"`. The five seconds of `wait_for` are a nondeterministic `Timeout`, enabled
while the future is empty.

### SdkClient

`tasks` is the strand's queue of posted lambdas, in order; `completions` holds handlers whose operation has ended, which
reach the strand in any order. An exception that leaves a handler ends the `io_context` thread: `io = "dead"`.
`connect()` runs on its caller's thread in three steps, between which the strand may run. `StopRounds` is the number of
times `stop_new_async_operations` and the wait for zero operations happen before the members go: the destructor's own
(1), and one before it by an owner who follows `docs/SDK.md` (2). With one round a disconnect that a read handler posts
after the stop task outlives the members, with two it does not; `NothingAfterDestruction` is therefore checked with two.

Consequences of the code that the properties state as they are, not as one might wish: after a failed write
`is_sending` stays set and the client writes nothing on later connections (`QueueDrains` says so), and a second
connection may start its read while the first one's completion is still queued (`OneAtATime` is for the first
connection). `connect()` opens and connects the socket off the strand (`client.cpp:59`), so that a posted close can run
in the middle of it. Two divergences between comments and code that need no run: `pending_request.hpp:46` says a
timed-out wait returns nullopt, the code returns the CANCEL failure; `docs/SDK.md:51` says the client does not read
again after data, the code does.

### ServerConnections

`ready` is the `io_context`'s queue of handlers and posted tasks, run by one thread. A `Connection` has an address;
a destroyed one's address may be given to the next, so that a second removal posted for it (`server.cpp:77`) may meet
another client's connection. A handler of a destroyed connection sets `dangling`, and what the build would do from
there is not followed further. A request is a count: `sent = inbox + read + queued + written + delivered + refused`.

### Wire, Terrain, Payloads, Protocol

`Wire` holds a frame as its bytes. Reads out of range give `Thrown` (the code throws), writes past an array give
`Outside`. `SizeEnd`, `TypeEnd`, `SubTypeEnd`, `IdEnd` and `HeaderSize` are the layout's offsets; `ValidRequest` and
`ValidResponse` are what the frame models' constructors accept. `Payloads` writes and reads the entities on both sides
with the code's own offsets. The 64-bit patterns of numbers are digits in base 256. `Terrain` makes the soil: pieces are
laid from 0 to the whole size of a territory that lies around 0 (`terrain_gen.cpp:53`), which refuses those beyond its
half without anybody looking, and three quarters of it stay bare.

`Protocol` joins the two ends: `Send` appends a request's bytes to `toServer`; `ServerReceive(n)` takes a chunk through
`RawFrameBuffer::add`, cuts frames, parses, processes, and queues responses, in the code's order with its exceptions (an
exception that leaves the read handler ends the server: `serverUp`); `SendResponse` writes one response;
`ClientReceive(n)` is the SDK's session, which drops a chunk that does not fit without telling anyone and whose parser's
exception ends its reads (`clientReads`); `Reconnect` replaces the server's session and keeps the client's, half a
response included. `stale` is history: the client's buffer has lost bytes or kept some of an older connection.
What the properties state of the code as it is: a male creature's gender is written as 2 and read by a cast
(`K/binary/interpreters/creature.cpp`), so that it cannot be decoded; a creature's name never reaches the server; a
create request that the world took is answered NONE.

### Quadtree and World

A node is its path from the root, an entry is filed at one (`at`), `Landing` is where `Node::insert` leaves it. The
redistribution of a full leaf, and the further splits it may cause on the new entry's way, are one step (`Splits`,
`Insert`). Coordinates are integers, and a model's territory must halve exactly `MaxDepth` times; the order inside a
node is left out. `World` keeps `registry` and `tree` as `World::add`, `remove` and `update` do. A tick is `BeginTick`
(collect the ids) and one `Run...` action per id; an exception empties `turn`. What a creature decides is
nondeterministic: nothing, a meal on a corpse in sight, a move to any place (the planner reads it through a dangling
pointer), an exception. A dead creature's or embryo's run continues in freed memory: the model lets it crash, throw, or
go on with what was there. `Lifecycle::run` and `AttackMotor::attack` have no caller in the repository yet and are
modelled as the public operations they are. `PhysicMotor::move` asks `can_be` whether the place is free, and the search
it makes finds the entity itself (`analyzer.cpp:16`): it never moves anything, and adds no action.

### RStarTree

`heap` maps nodes to their entries, node 0 is the root; an entry holds a box and an id or a child. `InsertEntry` is
`insert_entry` with its whole recursion over the path - choose, append, reinsert the farthest 30 %, split upwards, grow
a root, refresh boxes - and `RemoveId` is `remove` with condensation, orphans and collapse; both are folds over the
path, never a separate step. The candidate rules are `Least` of a key, ties by index, as the loops take the first.
`AddValue`, `RemoveValue` and `Clear` are the operations of `RSTService`.

An entry can end at a level that is not its own (§3, *rtree*), and a later walk that meets an id where it expects a
node makes `std::get` throw. A walk that throws has no path (`<<>>`), and an operation returns the heap it leaves and
whether it threw: the entries it still held are gone, and the registry keeps what it had taken (`AddValue`) or not yet
let go (`RemoveValue`). `thrown` and `deep` are history: whether an operation has thrown, and whether the tree has had
three levels, since the last `Clear`.

### Limited, Genome, Perception, Organism

Quantities are whole numbers of hundredths and every product rounds down (`Part`), where the program has floats: a
property about quantities here is one about the order of clamps, not about rounding. `Gain`, `Lose`, `Widen`, `Pass` are
`+=`, `-=`, `max_ref() +=` and `pass()`. `Genome` states the shape of the four genomes (`Genomes`), which TLC compares
with the database (`DatabaseAssumption`). `Organism` has one action per public operation between ticks (`AddCreature`,
`Conceive`, `Hatch`, `Attack`, `MakeCorpse`, which the program leaves to callers it does not have yet) and one per
entity and tick (`RunCreature`: grow, gestate, perceive, think, plan, act; `RunDeadCreature`, `RunEmbryo`, `RunCorpse`).
Positions are on a line. `Body::hungry()` is declared and defined nowhere: it answers any ratio of `Hungers`.
`crossover()` of two genomes is defined (`genetics/motor.cpp:285`), but combines parts whose crossovers are declared and
defined nowhere: an embryo gets the genome of its parents' species as the database has it, and what scrambling would
change is left out.

What the code does and the model therefore does, against what a reader may expect:

* `transfer_energy_to_uterus` takes the whole share of the reserve even when the uterus is full
  (`uterus/motor.cpp:31`): energy vanishes. Nothing takes energy out of a uterus again.
* `conceive` draws the number of children twice (`state/motor.cpp`), so that a pregnancy prepared for none may hold an
  embryo; it returns with the first embryo, and nothing ends a pregnancy.
* `choose_random_gender` picks one of FEMALE and FEMALE (`ontology.cpp:43`): whatever hatches is female.
* An embryo in sight makes `Perceiver::perceive` throw, which ends the whole tick.
* `generate_corpse` adds a term of the body's area, and a corpse may hold more meat than the body had energy.
* `reduce` ignores its radius; `filter_only_natures(view, ids)` never applies its filter; a filter of a view with ids
  drops the natures the view had; what a view's filter rejected among natures comes back.
* The sum check of `Diet` can never fire; a size increment is a ratio that the code does not scale by the average.

`Perception` has each of these filters as an operator of its own, and `ViewsNarrow` composes any two of them.

## 3. Runs

| Run | Instance | Question |
|---|---|---|
| `pending` | 2 threads, 2 ids, 3 requests, 1 response | all safety properties of the store, refinement of the contract; every call returns, a disconnection settles what it found |
| `client_safety` | 2 requests, queue of 1, 2 connects, 1 disconnect, 2 stop rounds | counting, one write and one read at a time, conservation, shutdown |
| `client_liveness` | 2 requests, 1 connect, 1 disconnect | shutdown ends, loss is reported, the queue drains |
| `client_late_answer` (violation) | 1 request | an answer after its waiter's timeout ends the io thread |
| `server` | 2 clients, 2 addresses, 2 requests, queue of 1 | writers woken, requests conserved and answered, dead connections gone, clients taken |
| `server_dangling` (violation) | 1 client | a write handler runs for a destroyed connection |
| `protocol` | 2 requests of 7 kinds on each of 2 connections, chunks of 48 bytes, buffers of 180, queue of 2 | what is served, answered, decoded and created is what was asked; everything is answered but at named limits |
| `world` | one entity of each type, 2 places, 2 sizes, depth 2, threshold 1 | registry, map, quadtree, moves |
| `world_create` (violation) | the same | a client is told "none" of a creature that was made |
| `rtree` | 52 boxes, the program's nodes of 3 to 8, two entries evicted at a time; filled in one order, drained in four, cleared, in turns | ids kept, shape and occupancy, also in trees with misplaced entries; nothing wrong before the tree has three levels |
| `rtree_find` (violation) | 66 boxes, the program's nodes of 3 to 8 | a search misses an id: a box is refreshed along one path only |
| `organism` | 3 ids; a female hippopotamus and a male fish; up to 11 ticks after the second call, 3 after the fourth | limits, energy, pregnancies, starving embryos, cut ticks, views |

**Why the bounds are enough.** *pending*: two threads are any two rivals for a response or a registration (a thread
takes each role in turn, so the answer they race for was given by one of them); three requests let an id be registered
twice while an old request is held. The proofs cover any number of threads. *client, server*: a queue of one is full
with the second frame, which one read can bring; two addresses and two clients are what the reuse of an address needs.
*protocol*: a chunk of 48 bytes cuts every frame longer than that and joins the short ones; the list of three soil
pieces fills the client's buffer of 180 bytes so that the next chunk is dropped; two requests fill a queue of two; the
second connection begins with what the first left. Cuts at any other length rest on the theorems (`ProtocolProofs`).
*world*: a threshold of one splits at the second entity, and depth two lets a split cascade once and then stop at the
deepest level; the first place sends a small entity to the deepest level and keeps a grown one at the root, the second
touches the corner, where a grown entity is refused. A corpse with `MaxMeat = 2` shrinks once before it goes. *rtree*
replays fifty-two boxes found by simulating the code. The forty-second gives the tree its third level: it evicts two
entries, the way back of the first splits the root, and the second lands a level too high, beside nodes:
`EntriesInPlace`, which the code and its tests assert (`rtree.hpp:1018`, `tests.cpp:42`), is false from there on. The
fifty-second insertion meets that id and throws. In between the tree is drained and filled again with its misplaced
entries and stale boxes in it, and some removals throw too; trees of three levels with every entry in place come up on
the way, and reinsertion, split propagation, condensation with orphans of two levels and collapse happen in both
kinds. After an exception only a clear follows. *rtree_find* replays sixty-six other boxes, found the same way.
*organism*: eleven ticks take a gestation past its limit of eight, and an embryo starves within them; four calls order
birth, conception, death, corpse and meal in every way; the two species are those with and without a viviparous
gestation.

**Deadlock** is not checked: in every one of these systems all actors may stop, because nobody has to make a further
call and counters are bounded.

**Fairness.** `PendingRequests`: weak fairness of a thread inside a call, because its sections are short and `wait_for` is
bounded; none for calls. `SdkClient`: the strand's tasks and handlers (an `io_context` thread runs them as long as it
lives), the ends of socket operations, the return of `connect()` and of the drain loop; none for the server's answers
or the owner. `ServerConnections`: the server thread, the end of accepts, reads and writes (a client reads what it is
sent); none for sending, leaving, the signal. `Protocol`: the server takes bytes that wait, a queued response is
written, the client takes bytes that wait, as long as neither thread has ended; none for requests or reconnection.
`World`, `RStarTree` and `Organism` make no liveness claim: nobody has to call an operation or a tick.

## 4. Proofs

All theorems hold for arbitrary sets and bounds; the assumptions are the named ASSUMEs of the modules (the null values
are not members of the sets they stand beside, bounds are natural numbers), which TLC evaluates in the runs.

* `PendingRequestsProofs`. `TypeCorrect` needs its own last conjunct (a thread inside a call has found a request).
  `IInv` is the inductive invariant: types, `HoldsMade` (promises are held exactly while the future is empty, pointers
  are to requests that were made), `Outcomes` (where a thread is says what its request's future can be), and the three
  invariants proper. `NothingOrphaned` alone is not inductive: a thread about to erase might erase an open request;
  `Outcomes` says its request is settled and taken, and `EraseRequest` compares the pointer before it removes. Each of
  `NextSettledOnce`, `NextHoldsMade`, `NextOutcomes`, `NextOneWaiter`, `NextNothingOrphaned` proves one part with one
  step per action. `ErasureIsSafe` is an action property from the same invariant. `ImplementsContract` maps each
  critical section to one step of `RequestContract` or a stutter.
* `RequestContract`. `OneWinnerHolds` (with `Winners`: what a caller was told is reflected in the request's status, so
  nobody else is told the same) and `FirstSettlementHolds`. `RacesHaveOneWinner` in `PendingRequestsProofs` takes the
  former over to the store through the refinement.
* `WorldProofs`. `Agree` is the inductive invariant: both structures are well formed, each id has one entry, the ids
  are the same, every entry is at its entity's place and at a size not above its own. For it the quadtree is what
  `Insert`, `RemoveEntry` and `UpdateEntry` do to the set of (id, box) pairs (`InsertSays`, `RemoveSays`, `UpdateSays`).
  That each id has one entry is what makes an update, which removes only what the old bounds lead to, replace the entry.
  Theorems: `RegistryAgrees`, `IndexFollows`, `MovesAreWhole`. `IndexIsExact` adds `Shaped`: the nodes hang together,
  every entry lies where its box lands, and the counter is the number of ids. `Boundary` satisfies its recursive
  equation, because it is approximated on the paths of at most n quadrants for every n (`BoundaryIs`); a box has one way
  down from the root (`OneWay`), which ends at one node (`LandsOnce`, `LandsSomewhere`); a subdivision adds children only
  to nodes on the new box's way that begin at its leaf (`SplitIs`), so nothing that landed elsewhere moves
  (`StaysLanded`); and the nodes above an entry all contain its box, so the search, which enters only what meets the area,
  comes by (`MeetsToo`). Nothing depends on how the coordinates halve.
* `SdkClientProofs`. The client's strand runs its tasks in order but its handlers in any, so the invariant speaks of
  tallies (`Count(queue, S)`: how many elements of a queue lie in `S`), and `Tallies` says what appending,
  concatenating, taking the head and removing any element does to them, whatever the queue. `IInv` has three parts.
  `Counted`: the operation counter is the sum of the tallies, a failed write leaves `is_sending` up, and a connection
  brings one read, be it posted, outstanding or ended. `Frames`: nothing of a request is anywhere before it is posted,
  and afterwards it is in one place. `Shutdown`: a stop task is queued exactly while the owner waits for one, and from
  the second round on the client is `Quiet`: the first stop lets the tasks before it begin operations and waits for
  those, the second finds no task that could begin one. That is why `DestructionIsLast` assumes `StopRounds >= 2`, what
  an owner who follows `docs/SDK.md` does; with one round TLC finds a handler outliving its client. One lemma per action
  (and per handler) says what the step does to each tally; the parts follow from that alone.
* `ServerConnectionsProofs`. Each connection owns one token of either operation, which is outstanding, ended, or failed
  (`ReadTokens`, `WriteTokens`); only the handler that takes it starts the operation again. `Listed` says which
  connection lives at which address and that connections are taken in order by one accept at a time; `Fresh` that
  nothing happens on a connection before. `Accounts` follows the requests of a client while it is there. The proofs
  follow the steps of dangling handlers and of a removal that meets another connection at its old address, too.
* `OrganismProofs`. `MealConserves` and `TransferMakesNone` are about single moves of energy: a limited store clamps
  without a word, and the amounts must be limited by the room before they are added (`GainSays`, `LoseSays`). `IInv` is
  about the registries. A creature is `Sound`: within its limits, its pregnancy's limit that of its species. An embryo is
  `Viable`, which is where the work lies: `WithinLimits` is not inductive for it, because a hatching embryo's limits
  become a creature's, which must not exceed its species'. An embryo buys limits with its energy, so what it can ever
  buy is bounded by what it began with (`Budget`) and the one or two trades that take its last energy and pay only
  part of their price (at most 30 each). Its area, which becomes the creature's size, takes one of two values (`Areas`,
  since it grows only while there is an area's worth of energy). The embryos of the one viviparous species pass
  through four states and no more (`Calves`), computed trade by trade from the genome: the third tick takes the last
  energy, which is why none lives to half of a gestation. Each action is then `Lawful`: it keeps the invariant, keeps
  pregnancies, and raises no energy: shown id by id (`CreaturesPay`, `CorpsesPay`, `EmbryosPay`), or as a transfer
  between two ids for a meal and a corpse, and added up by `Tallies`. `TicksAreWhole` compares what throws with
  what lies in the boxes that are searched. `FiltersNarrow` needs no invariant: whatever is perceived, a filter shows
  ids of its perception, and a filter of a view narrows it. `OrganismAssumption` says besides the types that
  `NoEntity` is no corpse, which a model value is not.
* `ProtocolProofs`. From below: `Digits` and `Accumulate` exist as functions and undo each other (`DigitsAre`,
  `ValueOfDigits`), so a header reads back as it was written (`Headed`) and `RequestParsed` and `ResponseParsed` follow.
  A stream is a *line* of frames when it is their bytes one behind the other (`Lined`). However much of a line has
  arrived, `has_frame` is YES exactly while a whole frame is in front (`FrontIs`), so that the loop of `process_frames`
  takes those that are whole and leaves a piece of the next one (`FramesTaken`). What the interpreters build and what the
  adapters answer are frames that can be written, whatever is asked of whatever world (`RequestIs`, `ProcessIs`): every
  field of every payload lies inside its array. `IInv` says that buffer and stream together are the line of what was
  written and not yet parsed, on the server's side always (a request leaves room for a chunk, `ChunksAssumption`), on the
  client's until its buffer loses bytes.

  On top of that stands what the bytes mean. A negative number is its digits below a sign the first digit tells
  (`FirstTellsSign`, `SignedValueOfDigits`). Fields that lie apart in an array are all still there when the last is
  written (`PutHolds`, `LayoutHolds`), so each payload is laid out field by field (`CreatureLaid`, `SoilLaid`,
  `CreateLaid`) and read as it was written (`CreatureRead`, `CorpseRead`, `TerritoryRead`, `SoilRead`, `CreateRead`), a
  list of any length block by block (`BlocksHold`, `SoilsRead`). So the response to the request of a call is one its
  caller decodes to what it asked for, and the request to create gives the blueprint it was made from (`CallServed`,
  `Meets`). `Kept` carries this along: every response queued or written bears the id of a call of this connection and is
  meant for it (`Meant`), every creature was made of a call's blueprint (`Blueprints`). With the line of frames that
  gives `CallersSeeTheEntity` and `BlueprintsArrive`; neither is inductive without the other parts of `IInv`, which say
  that the i-th request parsed is the i-th call's and that the response parsed is the one that was written.

  The assumptions on the constants are what the kinds of the code's values are: names are bytes, creatures have ids of
  their own (the entity map's keys), pieces of soil are made by `GenSoilPiece`, a name fits behind the other parts of its
  request (the code does not check it), the bytes of an uninitialised array are bytes, an exception and a read beyond the
  buffer are no values. Ids lie within 0 and 2^30 and numbers within 2^30 of 0, since the model's integers saturate there
  (`Huge`) and the code's of 64 bits do not: beyond it nothing is claimed.
* `Tallies`. The library's induction theorems take an operator, which no installed prover can instantiate.
  `NaturalInduction` takes a set instead and follows from well-foundedness, which suffices wherever the induction is on
  a number. The function that `FoldFunction` defines recursively exists because it is approximated on the sets of at
  most n arguments, for every n (`SumsSay`); then any argument may be taken out first (`SumsTakeOut`).

Only model-checked:

* liveness (`CallsReturn` and its like): TLAPS does not reason about ENABLED;
* `RStarTree`, whose operators are declared RECURSIVE over nodes, as the code recurses, and which the provers therefore
  do not load; `SoundUntilDeep` promises nothing once the tree has had three levels: entries are misplaced there, and
  `rtree_find` shows a search that misses an id.

## 5. What is left

1. `SdkClient` and `ServerConnections` joined through the byte streams of `Protocol`: an abstract call that is executed
   at most once, and the composition as its implementation.
2. The view's mirror, once something adds an entity to it.

**Not modelled.** The view: nothing adds an entity to its mirror of the world, so that its synchronisation has nothing
to synchronise, and the rest is drawing; the GUI toolkit (drawing and layout on one thread); `misc/3d` (nothing uses
it) and the command line tools (wrappers of build tools). Within modelled parts: the noise a terrain is made from;
grass, which nothing adds or grows; the scrambling of genes, whose crossovers of single parts are defined nowhere; how
a planner scores single candidates (`Organism` leaves the choice open); stats and units as bytes, which no frame
carries; rounding of floats.
