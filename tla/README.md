# A TLA+ verification of llm-bridge

llm-bridge is an HTTP proxy in Go in front of a set of LLM servers. A client's
request names a model; the bridge picks a server that has the model and a free
slot, forwards the request and streams the answer back. Administrators add,
change and remove servers while it runs.

This directory holds TLA+ models of the bridge's concurrent parts, TLC runs on
small instances of them, and TLAPS proofs for every size.

## The system

| component | state | operations | who calls them |
| --- | --- | --- | --- |
| backend pool (`backend/backend.go`) | map from URL to client, each with an atomic `inflight` | `Acquire`, `Release`, `Inflight`, `GetServer`, `ProxyRequest`, `AddServer`, `RemoveServer` | handlers, router, queue goroutine, administration handlers |
| router (`router/router.go`) | `rrIndex` per model | `Route`, `Drain`, `Stop` | handlers, queue goroutine, `main` |
| queue manager (`router/queue.go`) | `queue`, `started`, `signalCh`, `stopCh`, one result channel per item | `enqueue`, `removeItem`, `run`, `processQueue`, `drain`, `stop` | router |
| request handler (`server/server.go`) | the request | `handleOpenAIProxy` | `net/http`, one goroutine per request |
| model discovery (`discovery/discovery.go`) | `servers`, `models`, `modelDetails`, `healthy` | `Start`, `Discover`, `SetServers`, `Stop`, readers | its own goroutine, router, handlers |
| metrics collector (`metrics/metrics.go`) | `data`, `prev` | `Start`, `fetchAll`, `SetServers`, `Stop`, readers | its own goroutine, handlers |
| configuration store (`config/config.go`) | the configuration and its file | `Load`, `Get`, `Set` | everyone |
| administration handlers (`server/server.go`) | none | add, update, delete, put, then `syncServers` | `net/http` |
| lifecycle (`cmd/llm-bridge/main.go`) | none | start-up and shutdown sequence | the operating system |
| OpenCode configuration (`server/opencode.go`) and `GET /v1/models` | none | read discovery's maps and two settings, compute limits, strip comments | `net/http` |
| metrics export (`server/metrics_exporter.go`), administration UI (`web/`) | none | formatting and rendering | `net/http`, the browser |

How they meet: the handler asks the router, which reads a list from discovery,
limits and counters from the pool, and takes a slot from the pool. When all
servers are full it fails, takes the least loaded one, or puts the request in
the queue, according to the fallback strategy it read at its start. The queue's
goroutine runs the same `route` for the queued requests with `qm.mu` held and
hands a slot over through the item's channel. `syncServers` writes the
configuration into the pool, discovery and collector, in three separate calls,
while all of this goes on.

What is hard here: counters read long before they are incremented; slots that
change owner through a channel while the client may leave; a mutex held across
route calls and channel sends; client objects replaced under their users;
answers applied in several lock sections; maps read without a lock; a stop
signal that may find no receiver. `PROJECT.json` lists these hazards with their
lines and the properties that watch them.

What makes each component correct:

- pool, router, handler: a slot taken is given back exactly once on every path;
  closer servers first; a fallback only for cause; limits and gauges mean what
  the documents say;
- queue: nobody is forgotten or answered twice, those who stay keep their order;
  nobody waits in the bridge for ever;
- discovery: no duplicates, descriptions in step with the lists, a server withdrawn
  only for its own poll, convergence;
- collector: rates over the interval they claim, survival of configuration
  changes;
- configuration: what is rejected leaves no trace, what is accepted is what the
  pool, discovery and collector run with and what a restart finds;
- lifecycle: a shutdown that has begun ends, and nobody waits for ever on what
  it has stopped;
- OpenCode configuration: limits that fit into the context, descriptions that
  belong to the models, documents that lose their comments and nothing else.

## The modules

`Pool` - `Router` - `QueueManager` - `Dispatch` extend each other in this order
and are one specification: each adds the variables and actions of its component.

**Pool**. `clients[u]` is the number of the client object the map holds for URL
`u` (0: none), `inflight[u][g]` the counter of object `g`. `AddServer` allocates
the next object; whoever looked the old one up keeps its number, as the code
keeps its pointer.

**Router**. A process runs `route`: a handler for itself, `Worker` for the item
it is at. `frame[p]` holds the call's local variables, `pc[p]` where it is:

| `pc` | code | action |
| --- | --- | --- |
| `route` | configuration and discovery's list are read | `RouteBegin` |
| `inspect`, `load` | `GetServer`, then `Inflight`, per server | `Inspect`, `LoadInflight` |
| `try` | a group's round-robin start; the next member with room; the fallback | `PickGroup`, `AcquireLookup`, `Fallback` |
| `inc`, `check` | the increment in `Acquire`; its context check | `AcquireAdd`, `AcquireCheck` |

The sort by distance is not carried out: a group is the set of positions with
one distance, the next group is the one with the next larger distance, and the
order inside a group is the order of the list (`sort.Slice` is an insertion sort
up to 12 elements; beyond that it may permute equal distances). The best-effort
ratio is compared by cross-multiplication.

**QueueManager**. `ensure`, `append`, `notify`, `wait`, `remove` are the points
of `enqueue`; `select`, `scan`, `deliver`, `failed` those of the goroutine.
`qm.mu` is not a variable: the only critical section longer than a step is a
pass, so the mutex is free exactly when `Worker` is not in one (`MuFree`). A
deadline is abstracted to the set of items it has passed (`expired`), of which a
pass sees the members at its start (`late`).

**Dispatch**. The handler's other steps (`proxy`, `upstream`, `release`, `dec`)
and who may step. The exchange with the backend is one step that may end at any
time in any way, because `Release` is deferred and runs in every case. Left out:
headers, bodies and the success and error counters, which only the metrics
export reads.

**Discovery**. One step per `d.mu` section of `Discover`: a description per
model, `updateModels`, `setHealthy`. `advert` is the environment: what each
backend would answer now. The goroutine is the only caller of `Discover`, as in
the program.

**Collector**. One counter stands for the two the code treats alike, and of
`UpdatedAt` only whether it is set is kept, which decides `dt > 0`. The unlocked
read of `c.data[u]` is a step of its own; with no entry it ends in `panic`. A
body is a sequence of lines, a line a name without its labels and a value that
may not parse; `counter` is the environment, the tokens each backend has counted
since its last restart.

**Lease**. What the bridge promises about slots, without how: a user takes a
slot, leaves it in another's box, collects it from its own, or gives it back, one
at a time, and a gauge per server moves with it. `Dispatch` implements it
(`ImplementsLease`) with the slots of the processes at `HoldingPoints` as `inUse`,
those in the result channels as `parked` and the inflight counters as `gauge`. A
server lends as many slots as it is asked for: the limit is compared with a
snapshot, so it is no part of the promise.

**Lifecycle**. `main` around `Dispatch`: `serve` (`Server.Start`), `stop`
(`disc.Stop` to `rtr.Stop`), `shutdown` (`Server.Shutdown`), `exited`, after which
nothing moves. Requests arrive in every phase but the last: a connection accepted
before the listener closed may still bring one. That Shutdown's timeout is over
at any moment is an over-approximation of its clock.

**OpenCode**. The handlers that publish discovery's models, composed with
`Discovery`. A step per lock taken: `Models`, `ModelDetails`, and for each model
the two `cfg.Get()` calls. Numbers are Go's `int`, whose largest value is the
constant `MaxInt`, and sums and differences wrap (`Wrap`). Handlers change nothing, so one at a time is enough. A
posted document is a sequence of lines of characters, of which quote, backslash
and slash are told apart. The parser of the stripped document is not modelled: it
accepts or refuses, and what it returns is discarded by the code. Left out: the
base URL and the layout of the answer.

**Admin**. The configuration store, the handlers that change it, `syncServers`
and the start of the process. `Store.Get` copies a slice header and not its
array, so the module has a `heap` of arrays: a slice is `[array, len]`, the length
of the array is its capacity, and a request that has to allocate does so once,
in the array named after it. The points of a handler: `get`, `scan` (the loop,
an element per step), `append`, `write` or `shift` (its change to the array),
`set`, `commit`, `save` (`Store.Set`, holding `mu` from validation to the end of
`saveLocked`), `remove`, `sync`, `pool`, `disc`, `metrics` (`syncServers`). An
element is read or written whole, and a delete's shift is one step. `os.WriteFile`
is a truncation and a write, each of which may fail. `Restart` is a crash at any
moment and the next start, from whatever the file then holds. `Loaded` is
`Store.Load`: no file, an empty one or a configuration, with the defaults and the
environment's overrides. `failed` records that the last `Set` returned an error.
One number of a server (`distance`) stands for both, one time for the five, and
`output` for the two OpenCode limits. Left out: the base URL, and a file that
does not parse, with which the process does not start.

The `MC` modules give constants small values. `MCRoute`, `MCAdmin`, `MCCollector`
and `MCOpenCode` also add history variables that a property refers to. `MCRoute`
keeps, per model, the group last drawn from in its order (`ring`), the members
calls began at since (`starts`), and whether two calls have held a snapshot of the
servers at once or one has made a best-effort attempt (`excused`). `MCCollector`
keeps the backends whose counters went back or were left out (`lapsed`) and the
servers whose entry was deleted and not stored again since (`dropped`). Definitions
marked "Mutant of" are deliberately wrong variants, one for each property, that
show the property can fail.

## The runs

Passing:

| run | instance | properties |
| --- | --- | --- |
| `DispatchQueue` | 3 requests, 1 server with 1 slot, strategy queue | `SlotLedger`, `NobodyForgotten`, `ArrivalOrderKept` |
| `DispatchRoute` | 2 requests, 2 servers at the same distance or one behind the other, lists in both orders, shorter and empty, strategies error and best_effort changing | `ClosestFirst`, `FallbackOnlyWhenFull`, `LimitInTurn`, `EveryMemberInTurn` |
| `DispatchReconf` | 2 requests, 1 server replaced, removed (3 client objects) and lost and found by discovery, Drain and Stop | `TypeOK`, `AnswerOnce`, `GaugeNeverOvercounts` |
| `LifecycleLive` | 2 requests, 1 slot, strategy queue, a process that may begin to stop at any moment, backends that may hang, fairness | `Settled`, `ShutdownEnds`, `ImplementsLease` |
| `DiscoveryPoll` | 2 servers, 2 models, one server dropped and configured again, fairness | `TypeOK`, `ListedOnce`, `DetailsMatchModels`, `LeavesForCause`, `Converges`, `StopReturns` |
| `CollectorChurn` | 2 servers, each removed and configured again at any moment, counters 0..2 that grow and restart, fairness | `TypeOK`, `RateAfterSuccess`, `PrevIsPublished`, `NegativeForCause`, `StopReturns` |
| `OpenCodePublish` | 1 server, 2 models that come and go, descriptions from small to one whose sum overflows, both settings 0 or the largest `int`, documents of up to two tokens a line | `EntriesFit`, `CommentsStripped`, `DescribedUnlessDropped` |
| `AdminChurn` | 3 requests (add, rename, an update `Set` rejects, deletes, put) on no file or 2 servers, a strategy from the environment, failing writes, 1 crash | `TypeOK`, `FileMatchesStore`, `ConfiguredArePooled`, `SyncedInTurn`, `SavedIsValid` |

Violations, each of a sentence in the documents or comments, quoted under
`findings` in `PROJECT.json`:

| run | what TLC finds |
| --- | --- |
| `OrphanedSlot` | the client leaves while the worker, with the mutex held, has acquired a slot for it; `enqueue` saw an empty channel, returns, and the slot in the channel stays counted |
| `GhostModels` | a deleted server is not polled again and its models stay listed |
| `CollectorPanic` | the collector fetches a deleted server again and dereferences a nil entry |
| `SignalIgnored` | a signal cancels the context; `Server.Start` does not look at it and the process serves on |

`GaugeNeverOvercounts` says on which side the counters err when `AddServer`
replaces the client of a busy server, whose counter then starts from 0: it may say
too little, so that more requests pass than the limit, and never more than the slots
held or waiting in result channels. Both it and `SlotLedger` count slots in channels
nobody reads, so they hold next to `OrphanedSlot`: no slot is lost from the books or
released twice, but one may wait in a channel for good and keep its server full.

`ArrivalOrderKept` is about the items that stay in the queue. It does not say that
they are served in order, and they are not: in one pass the first item may find its
servers full and a later one the slot that was freed since, and a new request that
finds room does not queue.

`Settled` says that the bridge itself holds nobody: a request that routes, queues or
releases gets to a backend or is answered, or the process ends. At a backend it may
stay for ever, since nothing in the code ends an exchange, and then its slot is in
use for ever; those queued behind it are answered by their deadline. Requests
that queue after `Drain` and `Stop` are included. Nobody may
serve them any more, and they wait until `Shutdown`'s timeout ends the process;
without that timeout `ShutdownEnds` does not hold.

`EveryMemberInTurn` is about the servers calls begin at, not about an index: while
the calls for a model draw from one group in one order, none is begun at twice
before every other was. A draw from another group starts the count anew, because
there the code does not keep a turn: `rrIndex` has one entry per model for all
groups, a call that passes over a group sets it for the next, and `updateModels`
moves a server to the end of a list, after which the same index is another server.

`RateAfterSuccess` and `PrevIsPublished` are about every server. Both except one whose
entry was deleted since its last stored fetch, and TLC refutes them without that
exception: `SetServers` clears `data` and not `prev`, so a server removed and
configured again between two fetches gets a rate over the time since year 1.

`EntriesFit` has its exceptions in the formula: settings whose difference to the
context is no `int`, and a context that `max_tokens + 3000` made negative. Both
happen in the run.

`LimitInTurn` is what the comparison of a limit with an earlier reading does give.
Acquire counts without looking at the limit, so the limit is kept only as long as
no two calls held a snapshot at once and no call asked a full server for a slot
(best effort). Releases, departures and the queue's deliveries may go on beside a
call: they only lower a counter or leave it.

What `AdminChurn` shows is bounded by the conditions in its properties, and TLC
refutes each property without them. `FileMatchesStore` and `ConfiguredArePooled`
need the last `Set` to have succeeded: a rejected update stays in the shared
array, and a failed write leaves the new configuration in memory without
`syncServers`, until the next `Set` makes up for both. A restart may change
settings even so: the environment overrides what a request has put, `Load`
replaces a time of 0, which `Set` accepts, and without a file the first start does
not look at the environment. `FileMatchesStore` says it changes nothing else.
`SyncedInTurn` and `SavedIsValid` exclude requests that overlapped: an older list
may reach discovery last, and an update may write into the array between another
request's validation and its save.

`CommentsStripped` compares the stripper, which works on characters, with a
definition on tokens (words, strings with slashes, escaped quotes or an escaped
backslash, comments). `DescribedUnlessDropped` rests on an order in two places:
discovery stores a description before it lists the model, and the handlers read
the list before the descriptions.

Further differences from the documents, seen while modelling and without a run:

- the limit bounds what a call sees and not what runs: two calls may read the counter
  before either increments it, and both take the last free slot
  (`docs/configuration.md:271`; `LimitInTurn` without its condition);
- selection within a group is no round robin (`docs/api.md:484`) when there is a group
  in front: with one full server before a group of two, each call leaves the model's
  index at 1 and enters the group at its second member; nor when discovery reorders the
  list between two calls;
- the total timeout of a request (`docs/configuration.md:99`) is not enforced: the
  client of `src/backend/backend.go:108` has none and nothing reads
  `RequestTimeoutSec`, so a backend that hangs keeps the request and its slot
  (`Settled` for a handler at `upstream` is false);
- a throughput "only after the first successful poll" (`src/metrics/metrics.go:151`): for
  a server removed and configured again the entry is new and `prev` is not
  (`src/metrics/metrics.go:112`), so the rate is divided by the time since year 1
  (`RateAfterSuccess` without its condition);
- the limits published for a model are computed in `int` without a check: a backend's
  `max_tokens` within 3000 of the largest value gives a negative context
  (`src/server/opencode.go:79`), and settings of that size an input beyond the context
  (`src/server/opencode.go:130`; `Set` only asks that they are not negative);
- a server added while the collector runs has an entry, but `fetchAll` goes on with
  the URLs given to `Start` (`src/metrics/metrics.go:106`);
- an update that `Set` rejects is already in the array the store shares, and stays in
  the configuration in use (`docs/configuration.md:457`); the servers of a file are
  not validated at all (`docs/configuration.md:445`);
- the gauge of a server whose configuration changed is not its requests in flight
  (`docs/api.md:432`);
- `docs/configuration.md:296` calls the store thread-safe; the shared array
  contradicts it (`AdminChurn`);
- times must be positive by `docs/configuration.md:108`, and `Set` takes 0;
- the environment has priority over the defaults (`README.md:143`), but not in a
  start without a file, and an empty `OPENCODE_BASE_URL` does not override, as
  `docs/configuration.md:308` says it does;
- nothing reads `opencode_context_input` (`README.md:84`), and the split of the
  context is not that of `docs/configuration.md:152`;
- a posted OpenCode document that is broken is refused with 400, where
  `docs/configuration.md:346` says it is replaced.

All runs set `CHECK_DEADLOCK FALSE`: the number of requests is finite, and when
all are answered, or the goroutine has exited, nothing is left to do.

**Bounds.** Three requests are what overtaking in the queue takes with a slot in
use; two are enough for every two-party race, and requests do not differ
otherwise (symmetry). One slot per server makes full servers common. Three
client objects let a request hold one that was replaced, and release on one that
was replaced in turn (`MaxGen`). Two servers give both a group of two and two
groups; three draws from a group of two would need a third request, and the theorem has
any number. `MaxTokens = 2` gives a zero, a growing and a falling counter. Three
administration requests are what it takes to make spare capacity in an array and
then race for it; one crash (`MaxRestarts`) hits every point of the others. One
handler and one server suffice for `OpenCode`, since handlers do not influence
each other and a model needs to lose only its last server. TLC's integers have 32 bits,
so `MaxInt` is 2^20 - 1 there, above all defaults; the theorem has any `MaxInt`.

**Symmetry** is used in runs without liveness only: requests in `Dispatch*` and
`AdminChurn`, models in `OpenCodePublish`.

**Fairness.** Weak fairness for each goroutine: the Go scheduler runs what can
run, the 100 ms ticker and discovery's ticker fire, deadlines pass. Strong fairness
for the critical sections that wait for `qm.mu`: it is free and taken in turns
while the worker passes over the queue, and Go's `sync.Mutex` hands itself to a
goroutine that has waited for a millisecond. Strong fairness for the collector's
exit: its `select` chooses at random among the ready cases. In `Lifecycle` a handler
is fair only while it is `Busy`: nothing makes a request come or an exchange with a
backend end. Nothing makes a signal come or `Server.Start` return either, and once it
has returned `main` goes on (`LifeFairness`).

## The proofs

Every theorem holds for all values of the constants that satisfy the assumptions
named below. Those about a specification rest on an inductive invariant, with
a lemma per action. A theorem listed with a property is
about the definition a run checks.

`DispatchProofs`, for every set of servers, requests and models, every
configuration with distances 1-10 and positive limits, and every `MaxGen`:

- `TypeCorrect`: `ReconfSpec => []TypeOK`. `TypeOK` is not inductive: that
  `Acquire` increments a counter that exists needs the server and object it
  noted, `Inspect` needs a server left in its list, `AcquireLookup` needs its
  candidates to be positions of the list, and the worker's item needs `cursor`
  to be in the queue. `Points` says so for each control point; `TypeInv` is both.
- `Ledger`: `Spec => []SlotLedger`. The inductive invariant `LedgerInv` adds
  `OneClient`: without administrators every noted pointer is to the client in
  the map. Most actions move no slot (`QuietStep`); the rest move one slot of one
  process and one channel (`SlotStep`): `AcquireAdd` and `ReleaseDec` change the
  counter with the set of holders, `Deliver` and the two ways to take an answer
  move a slot between a process and a channel. With administrators the equality
  is false: `AddServer` starts a new counter.

`QueueProofs`, on top of `TypeInv`, with administrators, `Drain` and `Stop`:

- `AnsweredOnce`, `NoneForgotten`: `ReconfSpec => []AnswerOnce` and
  `[]NobodyForgotten`. They are inductive only together and with three more facts
  (`QueueInv`): the queue has no item twice; a request that has not appended yet
  has no item and no answer (`NotYet`), so `append` cannot make a second one; and
  the items a pass has kept so far are ones it has gone past, in the queue's order
  (`Kept`), so that none is kept twice when `EndPass` puts them back.
- `OrderKept`: `ReconfSpec => ArrivalOrderKept`, an action property. A pass keeps a
  subsequence, a removal leaves one, an arrival goes to the end.

`SlotProofs`:

- `GaugeBounded`: `ReconfSpec => []GaugeNeverOvercounts`. The property is
  not inductive: a request about to decrement a replaced object still counts as a
  holder, and its decrement will not move the counter the router reads. `Bound`
  states the inequality without such requests; `Fresh` says that the counters of
  objects not yet allocated are 0 and that nobody points to one, which `AddServer`
  needs.
- `LeaseImplemented`: `Spec => ImplementsLease`, the refinement of `Lease` under the
  mapping of `Dispatch`. Initial states map to initial states, and each action is
  a step of `Lease` on one slot or changes none of `InUse`, `Parked`, `Gauge`.
  It uses `LedgerInv`: a slot's counter is found through the map only because no
  pointer is stale, and with administrators the refinement is false.
- `ProcessImplementsBridge`: `LifeSpec \/ SignalSpec => Spec`. The process of `Lifecycle`,
  with its signal, phases, timeouts and exit, takes only steps of the bridge
  (`LifeStep`): `DrainQueue` and `StopQueue` are `Drain` and `Stop`, `main`'s other steps
  change nothing the bridge sees. So every theorem about `Spec` and `ReconfSpec`, the
  ledger, the queue's and the router's, holds in the process too, whenever it begins
  to stop.
- `ProcessLeases`: `LifeSpec => ImplementsLease`, what `LifecycleLive` checks, from the two.

`RouteProofs`, for any servers at any distances, lists and concurrent calls:

- `ClosestServerFirst` and `FallbackForCause`: `Spec => []ClosestFirst` and
  `[]FallbackOnlyWhenFull`. `CallsTried` says for every call, the handlers' and the
  worker's, that each server closer than the current distance was passed over for
  cause, and that one at the current distance is still a candidate or was. That
  no distance is skipped follows from the next group being the one with the least
  distance left (`WFMin`, from the library's well-founded induction).
- `MembersTakeTurns`: `HistorySpec => []EveryMemberInTurn`, for groups of any size and any
  number of draws. `TurnsInv` says of each model that its `starts` go round
  `ring` one place at a time, up to the place before `rrIndex` (`Rotation`, `InRotation`). A draw
  from the same group extends it by one place (`RotationGoes`), one from another begins
  anew (`RotationStarts`), and between two visits of a place a rotation comes by every
  other (`RotationInTurn`).
- `LimitKeptInTurn`: `HistorySpec => []LimitInTurn`. The limit alone is not inductive:
  that the counter may still grow by one at `inc` has to be known from a reading some
  steps before. `Fits` says it for a call at each point, on the counters now: none is
  above what the call saw, but for its own slot at `check`; a server that it will
  still try had room; the one it is about to count for has room now. The only step
  that raises a counter is `AcquireAdd`, by a call that holds a snapshot, and then no
  other call does (`OthersFit`); every other step lowers counters (`QuietFits`).

`DiscoveryProofs`, for any servers, models and server lists:

- `DiscoveryTypeCorrect`, `NoServerListedTwice`, `ModelsDescribed`:
  `Spec => []TypeOK`, `[]ListedOnce`, `[]DetailsMatchModels`. `DiscoveryInv` adds
  `Described`, what holds inside an answer: the described models are the listed
  ones and those of the answer already looked at.
- `LeftForCause`: `Spec => LeavesForCause`, an action property, from `DiscoveryInv`.

What `updateModels`' copy loop returns is the lemma `FilteredProperties`: the list
without the server, its members otherwise the same, nothing twice. The loop is a
recursive function; the lemma unfolds it once and refutes a least index at which
the claim fails, which needs no induction theorem with an operator parameter.

`CollectorProofs`, for any servers and any changes of their set:

- `CollectorTypeCorrect`: `Spec => []TypeOK`. `CollectorInv` adds what a fetch in progress
  has in its locals (`InProgress`).
- `NoRateSinceZeroTime` and `PrevMatchesData`: `HistorySpec => RateAfterSuccess`, an action
  property, and `[]PrevIsPublished`. `AgreeInv` says how `data` and `prev` of a server
  that is not in `dropped` go together at every point of a fetch: tokens come with a
  time, and the published counter is the one in `prev` except between the two writes.
- `NegativeOnlyForCause`: `HistorySpec => []NegativeForCause`. `HistoryInv` adds that for
  a server without a lapse the counter kept is at most the one just fetched, and
  that at most the backend's.

`OpenCodeProofs`, for every description, every value of the two settings and every
document:

- `LimitsAlwaysFit`: `CatalogSpec => EntriesFit`, an action property, for any `MaxInt`. It
  rests on two lemmas about the numbers: `ContextPositive`, a context length is positive
  unless `max_tokens + 3000` is too large for `int`, and `LimitsExact`, without overflow
  input and output add up to exactly what the buffer leaves of the context. `CatalogInv`
  adds that the settings, and the one already read, are in `int`.
- `PublishedDescribed`: `HistorySpec => []DescribedUnlessDropped`. `ReadInv` carries
  `DiscoveryInv` through the composition and says what a handler knows between its
  two reads: each model it read still has a server, hence a description
  (`ListedDescribed`), or has lost its last one since.
- `OnlyCommentsStripped`: for every sequence of lines of tokens, `stripJSONC` of its text
  is the text without its comments. `ScanStep` relates one round of the scan to the
  character it is at; `TokenKept` carries the scan over a token that is no comment,
  with the state inside a string and after a backslash; `CutAtComment` ends it at the
  first comment.
- `PostedCommentsStripped`: `HistorySpec => []CommentsStripped`, what `OpenCodePublish`
  checks for its documents, from that theorem.

The scan and the texts are recursive functions. Each is unfolded by one round, and a
claim about all its arguments is the claim that a set of numbers contains 0 and with
each number the next (`UpTo`), refuted at a least number outside it: induction over
data without the induction theorems that take an operator as a parameter.

`AdminProofs`, for any requests, operations, files, environment and number of
crashes:

- `AdminTypeCorrect`: `Spec => []TypeOK`. `TypeInv` adds that a slice lies within its
  array (`Slices`), that the array named after a request is nobody's before that
  request allocates it (`Unshared`), which its allocation needs, what each control
  point promises of the locals (`Promises`), and that `mu` is held exactly by a
  request between validation and the end of the save (`Locked`).
- `RestartLoadsStore`: `Spec => []FileMatchesStore`. `FileCurrent` states it whenever
  no request is on its way into `Set` or inside it: a request that has changed the
  shared array is, until `Set` returns. `DataCurrent` says that what is about to be
  saved is what the store holds, if nobody else is on the way. That a restart's second application of defaults and environment
  changes nothing is `EnvAbsorbs`.
- `AllPooled`: `Spec => []ConfiguredArePooled`. `PoolInv` says that a configured server
  without a client has a request that will still make it one: it is before
  `syncServers`' read of the configuration or has the server ahead of it.
- `TurnsLeaveInStep`: `HistorySpec => []SyncedInTurn`. While requests come in turn at
  most one runs (`Solo`); `Progress` says how far its `syncServers` has come. A URL
  listed twice is settled by its last entry, as in the code.
- `OnlyValidSaved`: `HistorySpec => []SavedIsValid` if the file of the first start, when
  there is one, holds servers that `Set` accepts: `Load` does not check it.

**Assumptions.** `PoolAssumption` and `RouterAssumption`: finite sets of servers and
requests, constants of the right types. `DiscoveryAssumption`: lists of servers;
the value for a failed answer is no set of models, and that for no description no server.
`CollectorAssumption`: the marks for "no entry" and "does not parse" are no values.
`OpenCodeAssumption`: settings and descriptions are in `int`, whose largest value is above
the defaults. `AdminAssumption`: operations have
the fields their kind needs; an update leaves a server a server; a strategy, time or
output from the environment is one that can be configured too; the marks for no
file, an empty file, no client and no request are no such things. TLC
evaluates all of them on the runs. The strategies of `Admin` are the three the code
knows and `"other"`, which stands for every text the validation refuses.

**Only model-checked.** `Settled`, `ShutdownEnds`, `Converges` and the two `StopReturns`:
liveness under fairness is out of the prover's reach. Every invariant and every
action property of the passing runs is the statement of a theorem; the violations
are counterexamples, and stay with TLC.

## What is not modelled, and what is left

`Discovery` could be composed with the router, in place of `serving`, if an instance
small enough for TLC shows more than the two do apart: `serving` already takes every
list at every moment.

Not modelled: the metrics export, which formats what it reads from the collector
and the pool, and the administration UI, a client of the HTTP interface; neither
keeps state of the bridge. The handlers that only read (`handleListServers`,
`handleGetServer`, `handleGetConfig`, `handleStatus`) and the bytes of HTTP.

Servers read by `Load` are not validated as those of `Set` are; the models of
router and pool take the configurations `Set` accepts.
