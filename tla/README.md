# A verification of hack_battlefield1

The program reads the memory of a running game, serves it as JSON at `/report`
through the vendored web server *crow*, and a page draws it as a map. This
directory holds TLA+ models of its parts, the TLC configurations that check
them, and proofs checked by TLAPS. Paths below are relative to
`src/read_process_memory/` unless they start with `src/`.

## 1. Inventory

| Component | State | Operations | Interacts with |
|---|---|---|---|
| Guarded reads (`BFTypes.h`) | none; a buffer per load | `IsValidPtr`, `read<T>` | the game's memory, which changes at any time |
| Lazy readers (`LazyReaders.h`) | a base address | one load (or a chain of two) per accessor | guarded and unguarded loads; throw the exceptions of `Exceptions.h` |
| Radar player (`RadarPlayer.cpp`) | the fields of one player | the constructor; `determine_class` | lazy readers |
| Report handler (`read_process_memory.cpp`) | the JSON result | `construct_player_manager`, `read_local_player`, `read_remote_players`, `add_flags_to_result` | radar player, capture points, crow's router (what it does not catch becomes a 500) |
| Timer queue (`crow/dumb_timer_queue.h`) | `dq_`, `step_`; a key per connection | `add`, `cancel`, `process` | connections of one worker |
| Connection (`crow/http_connection.h`, `http_response.h`) | socket, two flags, the response, the parser | `start`, the read and write callbacks, `handle`, `complete_request`, `check_destroy` | socket completions, timer queue, router, user |
| Server (`crow/http_server.h`) | worker pool, acceptor | `run`, `do_accept`, `stop` | one io_service, timer queue and date function per worker |
| HTTP parser (`crow/http_parser_merged.h`, `parser.h`) | `struct http_parser`, the marks of a call, the request being built | `http_parser_execute`, the seven callbacks, `feed`, `done`, `to_request` | connection; the peer's bytes in pieces of any size |
| Query strings (`crow/query_string.h`) | pointers into a copy of the url | `qs_parse`, `qs_decode`, `qs_k2v`, `get` | built by the parser's `on_message_complete`, used by handlers |
| Routing (`crow/routing.h`, `utility.h`, `common.h`) | the rules, the trie | `new_rule_tagged`, `validate`, `Trie::add`, `optimize`, `find`, `handle`, `handle_upgrade` | connection, rules, handlers |
| Websocket (`crow/websocket.h`) | read state, fragment, message, two write queues, four flags | the read callbacks, the write callback, `send_*`, `close`, `check_destroy` | the socket after an upgrade, the application's handlers |
| JSON (`crow/json.h`) | trees of `wvalue` and `rvalue` | assignments, `operator[]`, `dump`, `escape`, `load` | handlers write it; nothing in the program reads it |
| Application, middleware, templates, logging, settings (`crow/`) | settings | start-up; nothing at run time in this program | server |
| Web client (`src/x64/Release/drawmap.js`) | `last_response`, the canvas and its context | `request_data` every 33 ms, `draw_map` | `/report` |

What is hard here:

* **Interleaving.** Every load happens at a different moment of the game. A row
  of the report is put together from several objects, and the list of capture
  points is relinked while it is walked.
* **Undefined values.** `ReadProcessMemory` may fail; its result is ignored and
  the buffers are not initialised.
* **Exceptions as control flow.** Which exception is thrown decides whether one
  field, one row, or the whole report is lost.
* **Object lifetime.** A `Connection` deletes itself from one of two callbacks;
  a timer queue and a user's response hold pointers to it.
* **Timeouts and order.** Deadlines race with completions that are queued
  already; completions race with one another.
* **Threads.** Workers fill vectors that the accepting thread reads, may die, and
  are stopped from another thread.
* **Delivery.** The page polls without waiting for answers; they come late, out of
  order, or not at all, and drawing one may fail half-way.
* **Integer limits.** Timer keys are `int`s that wrap; addresses wrap; lengths of
  bodies, chunks and frames are compared with limits after they were multiplied.
* **Cuts.** A read may end anywhere: inside a method, a header's name, a chunk
  size, a frame. What was kept from the piece before has to fit the next one.
* **Reuse.** One parser, one request object and one message buffer serve all the
  messages of a connection, and each has to be cleared at the right moment.

The properties that make the components correct are those listed with the runs
in section 4; the hazards they answer to are listed, with lines, in
`PROJECT.json`.

## 2. Modules

| Module | Models | Composition |
|---|---|---|
| `DeadlineTimers` | what Connection expects of a timer: one deadline each | abstract specification |
| `TimerQueue` | `dumb_timer_queue` and its callers | implements `DeadlineTimers` (`ImplementsDeadlines`) |
| `Connection` | one connection from `do_accept` to `delete this` | uses the deadline of `DeadlineTimers` as the flag `armed` |
| `LazyReaders` | addresses, `IsValidPtr`, `read<T>` | extended by `RadarPlayer` |
| `RadarPlayer` | `radar::Player`'s constructor over any memory | |
| `CapturePoints` | the walk of `add_flags_to_result` beside the game | extended by `Report` |
| `Report` | one `/report` request beside the game | uses `CapturePoints`' walk; a player is what `RadarPlayer` shows of it |
| `Server` | `Server::run`, the workers, `do_accept`, `stop` | a `Connection` of `Connection` and `TimerQueue` begins with its `start` |
| `WebClient` | `drawmap.js` in the browser | its reports are those `Report` can answer with |
| `HttpParser` | `http_parser_execute` for requests, one byte at a time | extended by `RequestParser` |
| `QueryParams` | `query_string` and the functions behind it | extended by `RequestParser` |
| `RequestParser` | `HTTPParser`: from the peer's messages to the requests that handlers get | composes the two; in `Connection` a read is the kind of chunk it makes |
| `Router` | rules, trie, look-up, the values handed to handlers | its answer is the kind of request in `Connection` |
| `WebSocket` | one websocket from its constructor to `delete this` | begins where `Connection` hands over an upgrade |
| `Json` | `wvalue`, `dump`, `escape`, `load` | the reports of `Report` are its values |
| `TimerQueueProofs`, `RadarPlayerProofs`, `ConnectionProofs`, `ServerProofs`, `WebClientProofs`, `HttpParserProofs`, `ReportProofs` (about `CapturePoints` and `Report`), `WebSocketProofs` | theorems | extend the modules they are about |
| `MC*` | the instances for TLC | |

Operators whose comment begins with *Mistake* (for example `Connection!write_done_no_clear`)
are not used by any specification. Each is a variant of the definition that
follows it with a plausible bug, and substituting it makes TLC refute one
property: they show that the property can fail.

### How state and actions correspond to the code

**TimerQueue.** `dq` is `dq_`, with the age of an entry (seconds since `add`, up
to `Tick`) instead of its time stamp. `step` and the keys are the `int`s, as
residues modulo `IntRange`; `cancel` only uses `(unsigned)(k.second - step_)`,
which is `UnsignedDiff`. `since` is auxiliary: the timers added since a key was
issued. `start_deadline` and `cancel_deadline_timer` are the functions of
`Connection`, `close` its `adaptor_.close()`, `destroy` its destructor, `process` the whole loop of `process()`
(the worker thread runs it without interruption), `elapse` the clock.
`KeyWindow` is the one bound: no key is kept while `IntRange` more timers are
added. In the code the queue is emptied every few seconds, and the one way to
hold a key for longer is that the deadline has fired and the connection waits for
the completion of its cancelled reads and writes; 2^32 further timers in that
time are out of reach. `sock` tells a closed socket from a destroyed connection:
the timer's handler closes the socket and leaves the object alone, so in
`DeadlineTimers` firing differs from every other operation, and a deadline that
fires too early, too late or for the wrong connection breaks the refinement.

**Connection.** `rd` and `wr` are the outstanding asynchronous operations,
`turn` says which completion was queued first. The callbacks `read_error`,
`read_data` and `write_done` are one action each, built from operators that
carry the names of the functions they call. `buffer` is the kind of chunk the
parser finds: part of a request, a header with `Expect: 100-continue`, a parse
error, or the end of a request that is answered at once, lacks a Host header,
is answered later, or asks for an upgrade. `peer`, `inbox` and `sent` are the
other side; `last`, `owed` and `late` are auxiliary.

**LazyReaders, RadarPlayer.** `mem` is the memory, chosen once: the constructor
loads each cell at most once, so a memory that changes meanwhile looks like
another memory. `pc` is the place in the constructor, or how it ended. An
exception is the value `Throw`. `NotRead` stands for the failed second load of
`clientSoldierEntity()`.

**CapturePoints, Report.** One action per load or per group of loads of one
object; the game's moves (`create`, `destroy`, `join`, `leave`, `changeTeam`,
`setPointers`) happen in between. They are modelled from what the program
assumes of the game, and marked external in the map. `MaxMoves` bounds them.
`destroy` takes one place out of the list and relinks it; `Lists` says what a team's
list is to hold (the players shown, in slot order) without building it, so that
it can be reasoned about for any number of slots. There are finitely many entities
(`EntityAssumption`), and no player has the name that stands for a missing
one (`PlayersAssumption`). `present` and `steady` are auxiliary: who was seen in a slot since the request
began, and which slots have kept their player, in his team, since then.

**Server.** `main` is where `run()` and the accepting thread are (one waits for the
other, so one variable will do), `worker` where each worker is. A slot of
`date` or `queue` is `live` while the local variable it refers to exists and `gone`
after the worker's function has returned: the pools still refer to it then.
`begin` is the end of the barrier with the first `do_accept()`; `accepted` is the
handler of `async_accept`, which on an error forgets the connection; `start` is
the posted `p->start()`. `stop` stops one `io_service` after the other. The tick
function, which the program does not set, is left out.

**WebClient.** Each handler of the page is one action, as in the browser.
`req` holds the requests under way. `ctx` is the part of the canvas context that
could carry over from one picture to the next: the stack of saved states and the
origin; `canvas` holds the marks painted since it was cleared, each with the origin
in force, and the report and radius they were made from (auxiliary).
`draw_map` has four ends: no success, an exception for want of `local_player`, one in
a flag, and a complete picture. Coordinates are integers, angles quarter turns, and a
map is mirrored by a negative radius (`Locals` and `Rows` are what a report holds of the
players, `ReportsAssumption` that reports are made of them); height, the field of view, rings and the
shapes of the icons are left out.

**HttpParser.** `parser` is the struct, `data` the piece of the call, `p` the
position in it, `mark` the four `*_mark` pointers. One step is one execution of
the `switch`, named after the state: it consumes the byte, sees it again
(`goto reexecute_byte`), or ends the call with an error. The callbacks are the events of
the steps. Method names are spelt out, because the parser compares them letter by letter; of header
names only the letters at which the code decides something are bytes of their own.

**QueryParams, RequestParser.** `self` holds the members of `HTTPParser`. The peer
sends a `conversation`, encoded by `Wire`; `feed` takes a piece of any of the
`PieceLengths`, `parse` is a step of `HttpParser` with the callback it makes, `mistake` exchanges
one byte on the wire, `finish` is `done()`. The properties compare the
requests that reach `handle()` with the messages that were sent, and so check encoding and
parsing against one another.

**Router.** `route` is `CROW_ROUTE` with its methods and a handler of some signature (or none, or a
websocket): it enters the rule in the trie. `validate` optimises the trie and checks the
rules; `handle` and `handle_upgrade` are requests. `FirstRuleIsFound`
compares the look-up in the trie with a definition of what a rule matches that knows no trie.

**WebSocket.** `c` holds the members of `Connection`, `rd` and `wr` are the
asynchronous operations, `log` is auxiliary. Each callback is one action. The header of
a frame is read with `async_read_some`, which may return one of its two bytes
(`mini_header_split`); the payload arrives in pieces of up to `BufferSize` bytes.
`FramesAssumption` gives the frames and texts their shape. "Once and in order" is, in the properties, a
matching of the frames handled with the messages delivered (the pings with the pongs)
that keeps their order and leaves none out (`InOrder`).

**Json.** `w` is a `wvalue`, `r` an `rvalue`, `text` what lies between them. `Assign`, `AssignVector` and
`Clear` go through a path of `operator[]`s, `Dump` writes and reads back, `Load` reads a given text,
`Convert` makes a `wvalue` of an `rvalue`. A number is the text that was
assigned; `Printed` says what `"%g"` makes of it. `Texts` is what is read: short
texts of every kind, right and wrong.

## 3. Assumptions about the environment

* The completion port hands out completions in the order in which they were
  queued, and one thread runs all callbacks of a connection (each worker has its
  own `io_service`).
* The peer asks one question at a time. A peer that sends a second request
  before the first is answered makes two writes overlap: `is_writing` is a flag
  and cannot count them, and `OneAnswerAtATime` fails. The code has no guard
  against it; this is the limit of what is shown.
* The game's lists are well formed when a request begins; memory of destroyed
  objects keeps its contents, is zeroed, or is used again for an object of the
  same kind.
* Fairness. `TimerQueue`: the clock runs and each worker's one-second timer calls
  `process()` (`crow/http_server.h:102`). `Connection`: the worker runs queued
  completions; a read or write that can finish does; a deadline that stays armed
  fires, which is sound because the peer sends a bounded number of chunks, so
  that the deadline is restarted finitely often. For writes this means that the
  peer reads or disconnects. Nothing is assumed of when the peer sends or leaves,
  nor that the user ever completes a response. `CapturePoints`: the thread of the
  handler is scheduled. `Server`: every thread is scheduled; clients, signals and
  exceptions need not come. `WebClient`: the interval timer keeps firing, the
  server answers or the request fails, and the browser runs its handlers.
  `WebSocket`: reads and writes that can finish do and the worker runs their
  callbacks; nothing is assumed of the peer or of the application, except that the
  application makes no call after its close handler was called.

Named bounds and scaled constants of the newer modules: `MaxHeaderSize` 60 (in the code 80 KiB) lets
a head of four folded headers fit exactly; `ULLONG_MAX` 31 lets some
two-digit lengths fit and others not; `MAX_KEY_VALUE_PAIRS_COUNT` 3 (256) leaves room for the two
pairs of a url, so the overrun of section 5 is not part of the run; `BufferSize` 2, `Size7` 2 and `Size16` 4 (4096, 126,
65536) put messages on both sides of each limit; `FirstCapacity`, `MaxGrowth` and `RemainRange` are
the growth of a list in `load` (4, 60000, 2^16), so that a list of ten elements grows often and
by the largest step; `MaxIntDigits` and `MaxUintDigits` stand for the numbers `strtoll` and `strtoull` take;
`MaxRules`, `MaxSets`, `MaxFrames`, `MaxSends` count what a run does.

## 4. Runs

| Run | Instance | What it shows |
|---|---|---|
| `timer_queue` | 2 connections, `Tick` 2, 4 keys | `KeysDesignateOwnEntry`, `HandlersAreOwned`, refinement of `DeadlineTimers` (`ImplementsDeadlines`), `DeadlineFires`. Four keys wrap after every fourth timer, so live and stale keys meet in every position. |
| `radar_player` | 32 addresses, any two pointers odd, any primary weapon and gadgets in the kit, or any secondary weapon | `EscapeNeedsBadBase`: what may throw. `WhatIsKnownIsReported`: components do not disturb one another: each is there exactly when its own pointers are sound, each slot has exactly its name (empty if one of its pointers is not sound), and the class is exactly the one the names say, `unknown` only if they say none. The odd values are null, both limits of `IsValidPtr` and the top of the address space; two faults are enough for a missing component to hide another. |
| `capture_points` | 3 entities, 3 changes | `RowsWereMembers` (and no point has two rows, unless memory was overwritten), `StablePointsAreReported`, `WalkEnds`. Three entities give a first, an inner and a last one; three changes let an entity be destroyed, reused and destroyed again during a walk. |
| `missing_point` | same | violated: see section 5. |
| `report` | 2 slots, 2 objects, 2 capture points, 2 moves | `QuietReportIsSnapshot`, `NoGhostRows`, `OneMoveKeepsRowsApart`, `SteadyPlayersAreListed`: whoever keeps his slot and team during a request has exactly one row, with his position, in his team's list (or gives the position to the local player, if his is the name that was read for it), whatever happens in the other slots. Two moves are what it takes to mix up two rows, and the properties tell one from two. Objects and entities are symmetric: only their identity is used. |
| `connection` | up to 4 chunks | `NoDanglingCallback`, `OneAnswerAtATime`, `WaitingIsBounded`, `AnswersOwed`, `LeakIsClosed`, `ConnectionEnds`: every connection is deleted or leaked with its socket closed; the one excuse is a user who from some moment on keeps a deferred response for ever (`<>[]`), not one who kept it for a while. Four chunks allow an `Expect` exchange followed by another request. A deleted connection does nothing, so deadlock is not checked. |
| `server` | 3 workers, 5 connections, 1 crash | `PoolsArePublished`, `NoStartOnGoneQueue`, `ServerComesUp`, `AcceptedIsStarted`, `SignalStops`. Five connections go round three workers and meet a dead one again. `run()` returns in the end, so deadlock is not checked. |
| `web_client` | 2 requests, 6 reports, 3 radii, 3 moves | `NothingIsDisplaced`, `PictureIsFaithful`, `PictureIsCurrent`, `ScreenCatchesUp`. Two requests are enough to be answered in the wrong order; the reports are one of each kind that `draw_map` treats differently, with local players who look in four directions; three moves let a failure follow a change of the game. |
| `request_parser` | 9 kinds of message in pairs, every method, absolute urls, 3 messages with one of 11 wrong bytes anywhere; pieces of 1, 2, 5 or 200 bytes | `AssertsHold`: the `assert`s of the state machine, after a wrong byte too. `RequestsArriveAsSent`: what handlers get is what was sent, in order, with url, query parameters, headers and body, and all of it arrives, up to the message after which the connection is not kept, or whose head is too long. `PiecesMakeNoDifference`: every byte of a field ends in it, in order and once, wherever the pieces end, and a body or chunk gets as many as `content_length` says; of wrong bytes too. Two messages are what it takes for one to leave something behind for the next. The view leaves out only `event`, which the next step overwrites. The run ends when the stream does. |
| `websocket` | 8 kinds of frame, 2 frames, 1 call | `DeletedIsLeftAlone`, `FramesLeaveInOrder`, `WholeMessagesArrive` (and pings are answered), `GoneIsNoticed`. Two frames and a call allow a close from either side, crossed closes, a message in two fragments, and a ping in the middle of a write. |
| `router` | 12 rules, 2 at a time, 158 urls | `FirstRuleIsFound`: of the rules that match, the trie finds the one added first, and redirections lead to a rule. `HandlersGetTheUrlsValues`: a handler gets as many values as it has parameters, each the text at its tag. |
| `json` | paths of up to two steps, 2 assignments; some thousands of texts | `DumpReadsBack`: the reader gets from `dump` what was written. `ReaderTakesJson`: it accepts the texts that a grammar describes (JSON, but for the numbers the comment on `IsInt` names) and its lists have room for their elements. `OthersStay`: an assignment leaves the other elements alone. |

Some results deserve a word. `StablePointsAreReported` has a condition because it
fails without one: when the memory of a destroyed capture point is zeroed under
the walk, `hasNext()` returns false and the rest of the flags is silently left
out. `LeakIsClosed` admits a leak because there is one: when a read error is
handled while a successful write is queued, the write callback of a connection
that is kept alive neither closes nor calls `check_destroy()`; the object stays,
with its socket closed. `AcceptedIsStarted` excepts a worker that has died, because
the acceptor goes on giving it its share of the connections and they wait for ever;
that none of them touches the dead worker's timer queue is `NoStartOnGoneQueue`. And
`PictureIsFaithful` has lines lead to players of either team, because the rows of the
report have no field `team` and the comparison in `draw_team` is always true.

## 5. Findings

Shown by a run:

* `read_process_memory.cpp:121`: the link of a capture point is loaded in
  `hasNext()` and again in `next()`. If the game unlinks the last point in
  between, the report is a 500, against the intent stated in `Exceptions.h:5-7`.

Met while modelling. The models have the behaviour of the code, and the properties
are stated with the exception it makes necessary:

* `LazyReaders.h:227`: an invalid local player is not always a `BadClientPlayer`. Its
  name pointer is not initialised when the load fails; if it looks valid, `team()`
  throws `std::out_of_range` and the report is a 500.
* `crow/http_connection.h:491`: "adaptor will close after write" does not hold for
  upgrade requests, whose 404 is never written, nor for deferred responses on a
  closing connection, whose `response` is destroyed before the user completes it.
* `src/x64/Release/drawmap.js:476`: a successful report without `local_player` leaves the
  map empty, one without the local player's position puts everybody at the centre, and a
  capture point with a negative percentage keeps the teams from being drawn.
* `crow/http_parser_merged.h:1951`: `nread` is not reset after trailers, so they count
  towards the limit of the next head. All trailers but the last join the request's headers.
* `crow/query_string.h:120`: when a url has more pairs than there is room for, `qs_parse` counts one
  too many and decodes through a pointer it did not set.
* `crow/routing.h:776`: `Trie::add` does not get past a tag it does not know; adding
  such a rule does not return. `crow/utility.h:176`: `is_parameter_tag_compatible` takes `sb` from `a`
  instead of `b`, so only the number of a handler's parameters is compared, not their types.
  A rule `<path>/` redirects for ever.
* `crow/websocket.h:171`: the two bytes of a frame's header are read with
  `async_read_some`; when one comes alone, the frame is misread. `:360`: a continuation
  falls through to the case of a text and is delivered or appended twice. A payload that
  does not arrive at once is never read on, and errors while a mask or a payload is read
  leave the object behind. A pong of 126 bytes or more has a wrong header. After a close that this side
  began, `do_read()` runs on the deleted object.
* `crow/json.h:1380`: numbers that are not finite are written as `nan` and `inf`, which the
  reader refuses.

Only read, not modelled: `crow/json.h:571` (copying an `rvalue` that holds a list of
lists throws) and `crow/mustache.h:356` (a block that is never closed).

## 6. Proofs

All proof modules follow the same plan: an invariant `Inv`, one lemma per
action that it is kept, the temporal theorem `Spec => []Inv`, and from it one
theorem per property that a run checks. The type invariants, `OldestFirst` and `FlagsAreExact`
are proved and not checked again by a run.

* **TimerQueueProofs** (any set of connections, any `Tick > 0`, any `IntRange > 0`;
  assumptions `TickAssumption`, `IntRangeAssumption`, `NoHandlerAssumption`,
  `NoKeyAssumption`). That `cancel` hits its own entry is not inductive: after
  `process` has dropped the entry, nothing would keep the stale key from designating
  a later one. `KeysDesignateOwnEntry` therefore ties the index of a key to the number
  of timers added since (`Index + since + 1` is the length of the queue, or that plus
  `IntRange` once the entry is gone). `HandlersAreOwned` is its converse, needed so
  that cancelling silences a connection. `TimerQueueRefinement` maps the
  deadline of a connection to the age of its entry and shows every step to be a step
  of `DeadlineTimers`; that `process` fires exactly the deadlines that are due needs
  `OldestFirst`.
* **ConnectionProofs** (any `MaxChunks`). Besides the properties, `Inv` says what
  each party waits for: `TurnIsQueued` (completions are queued in order),
  `NoReadOutstanding` (no read beside a postponed one, nor on a closing
  connection), `PeerWaits` (no request is on its way while an answer is),
  `OwedIsIdle` (a deferred response finds the connection idle, open and without a
  deadline) and `LastAnswer`. Every safety property of the `connection` run is
  proved. Boolean variables are typed apart (`BoolsOK`), by Zenon.
* **RadarPlayerProofs** (any address space with `PtrAssumption`, any offsets below
  `MinPtr`, any memory). `CheckedPointers` records which of the two base pointers
  has passed `IsValidPtr`; with it, `InsideIsReadable` gives the theorem that only a
  base at the very end of the valid addresses, or an unchecked local player, lets an
  exception out. `KnownIsReported` needs `Progress`: at each place of the constructor, the
  components decided so far were reported exactly when their chain of pointers is sound
  (`ChainedRead`), and the later ones not yet. `SlotIsNamed` says that `slotName` is the name behind a
  slot's pointers or the empty one, and `LookupIsExact` and `ClassIsExact` that `determine_class` yields
  each class exactly when the gadgets say it: no gadget belongs to two classes (`OneClassEach`). `LinkIsReadBack` and `NullLinkThrows` justify that `CapturePoints`
  speaks of links and not of addresses.
* **ServerProofs** (any `N > 0`, any number of connections and crashes).
  `PoolsArePublished` is not inductive: it needs that `init_count` is the number of
  workers behind their `init_count++` (`CountIsExact`, with the cardinality theorems),
  that these have published (`SlotsFollowWorkers`), and that behind the barrier they are
  all workers (`BarrierHolds`). `StartFindsQueue` needs `DealtToWorkers`: a
  connection's `io_service` and timer queue are of one worker, so the thread that runs `start()` is the one
  whose locals it uses.
* **ReportProofs** (any finite set of entities, any number of slots, objects, players and
  moves). Two invariants, one upon the other. `WalkInv` is about the walk: the links run along the
  list (`ListOK`), they lead from entities listed during the walk to such entities only
  (`Membership`), and while the list stands still the rows are its beginning
  (`QuietWalk`). That a stable point is reported is not inductive, because the walk may
  stand on an entity that was unlinked long ago, whose link leads to another such entity.
  `RankedIn` therefore asks for a ranking `pos` of all entities listed during the walk by
  integers: the list ascends in it, every link leads upwards and past no stable
  point, and stable points that are not reported yet are ranked above the walk. A new first or last entity gets a rank below
  or above all others, which is why ranks are integers and the set is finite. The same ranking says
  that no point has two rows: the rows ascend in it (`Ascends`), whatever the game relinks under the walk. Hence
  `WalkIsBounded`: there are no more rows than entities that were in the list during the walk, so
  the loop of the code does not go round. `ReportInv` adds
  the request: `ReportOK` (types; occupied slots hold different players), `Seen` (whoever is in a slot or
  was read is in `present`), `Snapshot` (without moves, the rows are `Lists` of the slots read so
  far, and every pointer passed is sound) and `Apart` (up to the first move, nobody who has a row or is about to get
  one is in a slot still to be read, and the object in hand has the name that was read or was zeroed). `Apart` alone is
  not inductive: that the first move cannot bring back a player who has a row
  needs `Snapshot`, by which he still is in his slot then. `SteadyPlayersListed` takes another invariant, `Steady`, for any number of moves:
  of those who stay, the ones whose slots were read are in the report as they should be, the others have no row
  yet, and the object in hand is theirs only while their slot is read. A move cannot break the last part, because no
  object gets a name that somebody in a slot has (`Undisturbed`). `FlagsOfTheReport` carries what is
  proved of the walk over to the walk within a request.
* **WebSocketProofs** (any frames and texts, any `BufferSize > 0`, any `0 < Size7 < Size16`). The
  member functions are operators on the state `x = [c, rd, wr, log]`; one lemma for each says what it
  keeps, and the callbacks compose them as the code does. `WsInv` has four parts: `Ends` (the flag
  and the buffers say exactly which operations are outstanding; what was asked for is what was handed over
  and what waits), `Framed` (the frame being read is the first one of the stream, and its payload is read from the
  beginning with nothing left in `fragment_`, without which masks would be applied at the wrong
  place), `AllDelivered` (the matching of frames with messages, and an empty `message_` between
  messages) and `AllAnswered` (the matching of pings with pongs). `OrderGrows` is the one fact about
  matchings that is needed: each grows by a pair beyond all others.
* **WebClientProofs** (any requests, reports and radii that satisfy the assumptions).
  `Inv` is the types and the two properties about order and place. `PicturesAreFaithful` adds
  the content, for all integer coordinates and quarter turns: `PlaceIsRelativeToView` (the rotation
  of `player_to_playerup` is the one the comment in the code describes: yaw from the z axis, which points
  south; x points east), `ArrowIsRelativeToView`, `IconOfRow`, and `TeamsDrawn`, by cases on
  the local player's team. Only `draw_map` and a resize paint on the canvas (`NextFaithful`).
* **HttpParserProofs** (any limit on the header, any `ULLONG_MAX >= 16`; arbitrary
  sequences of bytes, cut into pieces in any way, with errors and ends of the stream
  in between): `AssertsHold`, with one lemma per case of the switch. It is not inductive:
  `ErrorEnds` (no step after an error) and `SizeCounts` give the counter at a chunk size;
  `Lengths` carries "not the value for none" from the first digit of a chunk size over
  the rest of its line to `s_chunk_data`, which rests on the overflow test
  (`FitsDigit`); `MarksFit` ties every mark to the states of its field, from which it
  follows that no two are set together. That the name of a header never
  meets the `header_state` of a value needs `Found` and `HeaderStatesApart`.

  The second half is about the callbacks of `HTTPParser` (any conversations, wrong bytes and lengths of
  pieces; `BytesAssumption`: streams are sequences of strings and pieces are not empty).
  `PiecesNeverMatter` proves `PiecesMakeNoDifference`. What a field has so far is what its callbacks
  appended and what lies between its mark and the position of the call (`Whole`); of this every step is
  shown to leave it alone, to add the byte it reads, or to begin anew (`Conserved`). `RequestInv` is what
  that takes: `Inv`, `SelfOK` (a value is empty until its first callback) and `PlaceOK` (inside a call, the
  mark of the field being read is set and not past the position; between calls there is none). The
  code has many cases and few kinds of step, and there is a lemma for each kind: between
  fields (`BetweenStep`), a byte of a field (`ReadStep`) and its end (`EndStep`), the pieces of a body
  (`BodyStep`, `LastStep`), the end of a message (`DoneStep`), the end of a piece (`LeftStep`), where the
  field is handed over unfinished, the next piece (`FeedStep`), which marks it again, and errors (`FailStep`). Each
  case of the switch is then one of these. `RequestParserImplements` shows `RequestSpec` to refine the
  parser of arbitrary bytes, and with it the `assert`s (`RequestAssertsNeverFail`).

Every safety property that a run checks is proved, except one of `RequestParser` and those of `Router`
and `Json`. Only model-checked are these: `RequestsArriveAsSent`, `FirstRuleIsFound`,
`HandlersGetTheUrlsValues`, `DumpReadsBack` and `ReaderTakesJson` compare
recursive definitions (encoders with decoders, a trie with its rules), which takes
induction over data (of the first, `PiecesNeverMatter` proves the part that depends on the socket: where
reads cut the bytes); `OthersStay` follows recursive paths, in the same module as they. Liveness
(`DeadlineFires`, `WalkEnds`, `ConnectionEnds`, `ServerComesUp`, `AcceptedIsStarted`, `SignalStops`,
`ScreenCatchesUp`, `GoneIsNoticed`) needs fairness and ENABLED.

## 7. Not modelled

* `crow/http_parser_merged.h`: the states of responses, `http_parser_parse_url()` and pausing;
  crow only parses requests, and never pauses.
* `crow/query_string.h`: `get_list()`, `qs_scanvalue()`, and the pointers that a copy or a
  move rebases; `crow/json.h`: who owns the text of an `rvalue`, look-up in a sorted
  object, comparisons, and the accessors of numbers. The program uses neither.
* Templates (`crow/mustache.h`): no route renders one. Middleware: the application has
  none. SSL is not compiled. Logging and settings have no state. `main()` opens the process
  and registers routes once; the two static pages read a file.
* The shapes that are drawn on the map.

What could be added: `Connection` has the flag `armed` where `DeadlineTimers` has a deadline. The two
are not joined by a refinement, because one callback of `Connection` cancels, closes and destroys at once,
which are three steps of `DeadlineTimers`, and time passes only in the latter. Nothing in
`Connection` depends on when a deadline fires, only on whether it still may.
