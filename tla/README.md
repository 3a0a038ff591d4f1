# A verification project for gd

gd is a Go framework for services: an RPC protocol of its own (`net/dogrpc`),
wrappers for HTTP and gRPC servers and clients, dependency injection, logging,
database clients, service registration and discovery, and an engine that starts
and stops all of it. This directory holds TLA+ models of its core, the TLC
configurations that check them on small instances, and proofs that TLAPS checks
for every instance.

The core is `net/dogrpc`: it is the one part of gd that implements a concurrent
protocol itself, with shared channels, recycled objects, timeouts, retries and
reconnection. Around it the project models the parts that keep state of their own:
dependency injection, goroutine pools, counters, logging, registration and
discovery, the engine, and the clients of redis, MySQL and HTTP.

## 1. Inventory

### dogrpc client (`net/dogrpc/client.go`, `rpc_client.go`, `dog_client.go`)

*State.* A bounded channel `requestsChan` shared by all callers and all
connections; a pool of `AsyncResult` objects; per connection a map
`pendingRequests` from sequence number to object, a writer goroutine with a
buffered encoder and a reader goroutine; a counter `pendingRequestsCount`;
`clientStopChan`, `stopWg`, `startLock`, `stopLock`; in `RpcClient` the map `Cm`
from address to client with `cmMutex`.

*Operations.* `Call`/`CallRetry`/`CallTimeout` queue a request (evicting the
oldest when the channel is full), wait for `Done` or a timer, and retry with the
same packet; `CallAsync` and `SendUDP` queue only; `Cancel` sets a flag. The
writer takes requests, registers and encodes them; the reader looks answers up
and closes `Done`; the connection handler tears both down and fails what is
pending. `Start` spawns a handler per connection, which dials, serves and dials
again; a handler that gives up calls `Stop`. `Connect` creates the client or
starts it again.

*Hard.* Objects are recycled while others hold pointers to them; four kinds of
goroutine may close the same `Done`; a late answer meets a retry with the same
number; a connection can die at every step; `Stop` is called by users and by the
goroutines it waits for.

*Correct means.* No close panics; no call is lost or answered with another's
response; every call returns; teardown and stop end; one set of handlers.

### dogrpc server (`server.go`)

*State.* `serverStopChan`, `stopWg`, the listener, a channel of worker tokens per
`Start`, a response channel and a buffered encoder per connection.
*Operations.* `Start`, `Stop`, accepting with a back-off, per connection a reader
and a writer, one goroutine per request that calls the handler and queues the
response. *Hard.* Request goroutines outlive their connection and even `Stop`;
bounded channels on both sides. *Correct means.* A request is answered once, on
its own connection; tokens come back; `Stop` joins everybody and leaves a server
that can be started again.

### The other parts

| part | state and operations | what is hard, what makes it correct |
| --- | --- | --- |
| packets (`encoding.go`) | two framings, length and checksum | decoding what was encoded; a length below the header |
| handlers and filters (`rpc_server.go`, `dog_server.go`, `wrap.go`, `filter.go`) | handler table, filter chain | a panic in a handler must become an error answer |
| `runtime/gr` | semaphore channel, wait group, task list | `Close` against `Execute`; no more than the size in flight; a join waits for what was handed over |
| `runtime/gl` | a map per goroutine | a request sees its own values only, also after one that never closed |
| `runtime/inject`, `utls/orderedmap` | object graph by name and type, ordered map | every dependency exists before its user; reverse-order close; order after deletions |
| `runtime/pc`, `runtime/stat` | counters behind a channel, periodic report or dump | no count lost or doubled between update and report; rotation keeps the newest |
| `dlog` | filters with writers; a record channel, rotation, reload, close | logging calls return; a written record survives rotation |
| `databases/redisdb` | pools per server, server choice, retry, batches, pipelines | one attempt per server, each request of a batch answered once, a partial failure is reported |
| `databases/mysqldb` | handles of masters and slaves, retries, upsert, transaction | an upsert lands whatever others do; a transaction is whole |
| `service/register`, `service/discovery` | lease or session; node lists under watch events | a registered address is there while its lease lives and gone after `Close`; lists lose nothing |
| engine (`godog.go`, `signal.go`) | channel `running`, deferred closes | a signal ends the process in order |
| `net/dhttp` client | a request under construction, retries | content reaches the body; nothing is left over for the next request |
| `net/dhttp` server, `net/dgrpc`, `mongodb` | wrappers over gin, grpc-go and a driver | the library's own behaviour |

They interact by calls: the engine registers servers with `inject`, whose graph
starts and closes them; every part logs through `dlog` and counts through `pc`
and `gl`. Only the RPC client and server talk by messages.

`PROJECT.json` lists every part under "components" and, under "hazards", what is
hard to test, line by line.

## 2. Modules

| module | models | composed from |
| --- | --- | --- |
| `DogClient` | data path of a started client | |
| `DogClientProofs` | inductive invariant and theorems about `DogClient` | `DogClient` |
| `ClientLifecycle` | `Connect`, `Start`, `Stop`, `clientHandler` | |
| `ClientLifecycleProofs` | theorems about `ClientLifecycle` | `ClientLifecycle` |
| `DogServer` | the server | |
| `DogServerProofs` | inductive invariant and theorems about `DogServer` | `DogServer` |
| `OrderedMap` | `utls/orderedmap`, as operators on a value | |
| `InjectGraph` | `runtime/inject`: registration and `Close` | `OrderedMap` |
| `InjectGraphProofs` | theorems about the ordered map and the graph | `InjectGraph` |
| `BoundedExecutor` | what a goroutine pool promises, abstractly | |
| `GrPool` | pools of `runtime/gr`, shown to implement `BoundedExecutor` | `BoundedExecutor` |
| `TaskGroup`, `PerfCounter`, `GoLocal`, `StatMgr` | the rest of `runtime/gr`, `pc`, `gl`, `stat` | |
| `RuntimeProofs` | theorems about these five, the refinement of `BoundedExecutor` step by step | `GrPool`, `TaskGroup`, `GoLocal`, `PerfCounter`, `StatMgr` |
| `Dlog` | loggers, writers, rotation, reload | |
| `DlogProofs` | inductive invariant and theorem about `Dlog` | `Dlog` |
| `Registry`, `Discovery` | `service/register` and `service/discovery`, for etcd and zookeeper | |
| `Engine` | `Default`, `Run`, signals | |
| `ServiceProofs` | theorems about registration, discovery and the engine | `Registry`, `Discovery`, `Engine` |
| `RedisPool`, `RedisCluster`, `MysqlClient`, `HttpClient` | clients of redis, MySQL and HTTP | |
| `OutboundProofs` | theorems about these four | `RedisPool`, `RedisCluster`, `MysqlClient`, `HttpClient` |
| `MCDogClient`, `MCClientLifecycle`, `MCDogServer`, `MCInjectGraph` | symmetry, view and small type graphs for TLC | the above |
| `MCRuntime`, `MCInfra` | benches: components that do not interact, checked side by side | the above |

### DogClient

One step of a goroutine between two points where another goroutine can see a
difference is one action. `Call`, `Retry` and `TrySend` are `callAsync` up to its
first select; `Evict` and `Resend` are the two selects after it; `Receive` and
`Timeout` the end of `CallTimeout`. `DialOk` to `Drained` are one connection slot:
`clientHandler` around `clientHandleConnection`. The writer is split where it
releases the lock or can be overtaken: take, register, clean, recheck, encode,
flush. The reader is split between the lookup and the close of `Done`.

Objects are values of `Objs` with the fields of `AsyncResult`. `pool` holds
the recycled ones, and an object that nothing refers to is garbage, hence a new
one. `Released` clears what `releaseAsyncResult` clears and keeps what it
keeps. A packet is its sequence number. `buf` is the encoder's buffer and `wire`
the packets the server has and has not answered; the server is external: it
answers what it was sent, in any order, or never. The network may fail a read
or a write at any time. `dropped` is the one history variable: the objects line
270 deletes.

Left out: wrap-around of the 32-bit sequence number, text of errors, `Cancel` on
a handle of `CallAsync(..., true)`, the two data races on the length of the map
(read as a whole) and on `clientStopChan`.

### ClientLifecycle

Users run `Connect`: a look without the mutex, a look with it, `Start` under
`startLock`, one `Spawn` per connection. `Stop` is three steps, close, wait, reset,
run by users or by handlers; `stopLock` is held throughout. A channel is a value,
and a handler's select waits on the value the field had when the select began.
Closing a nil or a closed channel sets `panicked`, and then nothing moves any
more. There is one address in `Cm`.

### DogServer

`Start` may fail to listen, which leaves `serverStopChan` set. `workers` counts the
tokens of each `Start` separately, and `era` says which one a connection was
accepted under, because the channel is made in `Start` and captured by the
goroutines. `conn` is "lost" for a connection that was accepted while the
server stopped. Connections and requests are used once. The application's handler
is external and returns; the panic path of `callHandlerWithRecover` is left out.

### OrderedMap and InjectGraph

The ordered map is a record with the two Go maps and the links of the list. Nodes
are numbered and never reused: `Delete` forgets the key but leaves the node in
`mapper`, and deleting the key again unlinks that node through neighbours that may
be gone. `Graph.Close` does delete keys again, since it collects each name it meets
and the type name of each object.

A struct type is a sequence of tagged fields, given as a constant; what reflection
finds out about values (nil, zero, already filled) is an input. `register` holds the
graph's lock and recurses: the frames of the recursion are `stack`, each field is a
step, and an error drops all frames at once. `Close` is `CloseBegin`, a `CloseVisit`
per node of the backward walk, and `CloseEnd`, which deletes the collected keys in
their order. `Start` of an
object may fail; `Close` of one returns. Two history variables, `evicted` and `late`,
name the objects that another one displaced and those that took a name while it was in
use. Types whose creation needs itself are
excluded by `NoCycle`, because the recursion of `register` would not end. Left out:
the forward iterator, which only printing uses, an embedded field that is set
already, and calls of the graph from `Start` or `Close`, which would wait for the
lock for ever.

### GrPool, TaskGroup and the abstract executor

`BoundedExecutor` knows no channel and no wait group: a pool has at most its size of
tasks in flight, a refused task never runs, a join ends only after the tasks that
were handed over before it. `GrPool` splits `Execute` at its send, its spawn, its
receive and its `Done`, and `Close` into the close of the channel and the wait;
`GrImplements` maps the tokens to tasks in flight and is checked as a property. Sizes
from 0 up are tried: a reserved pool of size 0 is accepted by `Start` and blocks for
ever, which `GrExecuteReturns` excludes by name. `TaskGroup` is `AddTask` against
`WaitStopAll`.

### PerfCounter, StatMgr, GoLocal

`PerfCounter` follows an increment from the caller through the channel, the handler's
load-or-create and add, and the walk that swaps it out, to the post. `Cost` and the
updater overwrite keys (gauges). Channel sends and map operations are atomic, everything between them is
interleaved. `StatMgr` queues pointers to `Stat` objects; `stReused` marks the one
misuse, beginning a queued object again, under which counts go to the wrong command.
`GoLocal` remembers with each value which goroutine put it there, in which request.

### Dlog

A writer is a record with its channel and the state of its loop; filters are levels
and writers by tag, as in the map the package logs through. Calls are split at the
level test, the choice of the next filter (a Go map is walked in any order) and the
send. File writers rotate by lines, by day and by hand over numbered backups;
running out of numbers or failing to open ends the process, as the code decided in
its "BUG FIX" comment. Records are numbers; patterns and XML text are left out.

### Registry and Discovery

etcd and zookeeper are external: a set of leases or sessions with the nodes that
hang on them. The registering process crashes and starts again, leases expire,
`Put` fails with or without effect, keep-alive ends. Discovery has one key;
`AddNode`, `DelNode` and the watching goroutine load, change and store the list in
separate steps. For zookeeper the reload after a change stores nil under the key,
and readers panic on it from then on: `ZdPanicsLate` says that nothing else makes
them panic. `edExcused` names what may be missing from an etcd list: what changed
between `Get` and `Watch`, or was lost to the other party's store.

### Engine

`Default` and `Run` up to the send on `running`, each deferred function a step, and
the goroutine that receives signals. Registered servers may panic on registration.
`inject`, `dlog` and `pc` are modelled elsewhere and appear here as open or closed.

### RedisPool, RedisCluster, MysqlClient, HttpClient

The drivers (redigo, go-redis, database/sql, net/http) are external. A command has
one outcome, which includes the redirects and repetitions a driver makes by itself;
a command that failed may have taken effect. `RedisPool` splits `Do` at taking a
connection and at the command, and `BatchDo` into rounds. In `RedisCluster` single
commands are told apart only by what they do with the error, and the commands of a
pipeline run one by one while other callers write. `MysqlClient` has one row, which
other processes change too (`MyOther`); `InsertOrUpdateOnDup` is up to three
statements, a transaction is a begin, the caller's function and the deferred
decision. `HttpClient` names content by its kind, because the kind decides where it
goes; query strings, headers, cookies, proxies, TLS and redirects are left out.

### The benches

`MCRuntime` and `MCInfra` extend several modules whose variables are disjoint. The
variable `subject` is chosen in `Init` and never changes; only that component moves,
and `Of(c)` says so in actions and fairness. The state space is the sum, not the
product, of the parts'; nothing is said about two of them at once, and in the code
they share nothing but calls to the log and the counters.

## 3. Runs

| run | bounds | checks |
| --- | --- | --- |
| `client_calls` | 2 callers, 1 connection, 4 objects, 2 sequence numbers, 1 retry, all entry points | `IInv`, `CloseIsSafe`, `NoLostCall`, `ReplyMatches` |
| `client_clean` | 1 caller, 5 objects, 5 sequence numbers, channel of 1 | `PendingBounded`, `EncodesOwnRequest` |
| `client_live` | 2 callers, 3 objects, 2 sequence numbers, fair | `CountExact`, `EveryCallReturns`, `TeardownEnds`, `BufferFlushed` |
| `client_encode` | 2 callers, 1 retry | violates `EncodesAPacket` |
| `life_one` | 1 user that does not stop, 1 connection, 1 dial retry, fair | `ClientInStep`, `StopsEnd` |
| `life_users` | 2 users that may stop | `OneCreator` |
| `server_serve` | 2 connections, 3 requests, 2 workers, 1 response buffered, 2 starts | `RequestsExact`, `WorkersExact`, `StopJoins` |
| `server_live` | 1 connection, 2 requests, 1 worker, 2 starts, fair | `StopReturns`, `RequestsEnd` |
| `inject_close` | 4 struct types, 2 names, 3 registrations, any number of `Close` | `WalkMeetsAll`, `ClosedExactly`, `UsersFirst`, `CloseEmpties` |
| `runtime` | pools of size 0 and 1 with 2 tasks, a reserved and a timed pool; 3 tasks and 2 stoppers; 2 counter keys, 2 increments, 2 reports, a channel of 1; 2 goroutines with 5 operations on local data; 3 timed operations, 2 files; fair | `GrImplements`, `GrExact`, `GrReturns`, `TgKept`, `PcExact`, `GlPrivate`, `StExact` |
| `infra` | 3 logging calls over file and socket writers with channels of 1, 2 days; 2 lives of the etcd process, 2 zookeeper processes with 4 sessions; 2 changes and 1 call on watched lists, one address that does not parse; 2 servers and 2 signals; pools of up to 2 servers and empty addresses with `retry` 2 and a batch of 2; 2 callers with pipelines of 2 keys, also twice the same; 3 calls or foreign changes on a row; 4 calls on an HTTP client and its clone; fair | `LgSafe`, `LgLive`, `RegOwned`, `EdKnows`, `ZdKnows`, `CloseTakesEffect`, `EgCleansUp`, `RpSafe`, `RcHonest`, `MyHonest`, `HcExact` |
| `engine_stop` | the engine with 2 signals, fair | violates `EgInterruptStops` |

A property that a run checks may be the conjunction of named parts, which the
modules state and comment one by one:

| property | its parts |
| --- | --- |
| `ClientInStep` | `TypeOK`, `StopFindsStarted`, `StartFindsStopped`, `OneSetOfHandlers`, `StartedIsServed`, `HandlersHearStop` |
| `StopsEnd` | `StopEnds`, `ExitStopsClient` |
| `RequestsExact`, `RequestsEnd` | `TypeOK`, `RequestKept`, `ReplyToOwner`; `RequestAnswered`, `WorkerReleased` |
| `ClosedExactly` | `TypeOK`, `ClosedOnce`, `NoLeak`, `EvictedByType` |
| `GrReturns` | `GrCloseReturns`, `GrExecuteReturns` |
| `PcExact` | `PcConserved`, `PcUpdaterChecked` |
| `GlPrivate` | `GlOwn`, `GlSums` |
| `StExact` | `StCounted`, `StRightCommand`, `StRotates` |
| `LgSafe`, `LgLive` (logging) | `LgKept`, `LgClosure`, `LgPanics`; `LgDrains`, `LgReturns` |
| `RegOwned` (registration) | `RgPublished` with etcd, `ZrOwn` with zookeeper |
| `ZdKnows` (discovery, zookeeper) | `ZdFirstLoad`, `ZdPanicsLate` |
| `CloseTakesEffect` | `RgGone` of a registration, `EdCloseStops` of a watch |
| `RpSafe` (redis pool) | `RpOncePerServer`, `RpNilOnlyExhausted`, `RpNoLeak`, `RpBatchComplete` |
| `RcHonest` (redis cluster) | `RcMGetHonest`, `RcWritesAll`, `RcEvalOnce`, `RcFailsBound` |
| `MyHonest` (MySQL) | `MyReadHonest`, `MyReadTries`, `MyUpsertLands`, `MyTxWhole`, `MyNoHandle`, `MyCloseLeaves` |
| `HcExact` (HTTP client) | `HcStringsSent`, `HcNoLeftovers`, `HcRetriesSpent` |

`PoolIsPrivate` and `EmptyOnlyOnStop` of the client follow from `IInv`, by proof
(section 4).

*Why these bounds.* With a channel of one, two callers fill it, evict each other
and meet the second "full"; one retry puts the same number in flight twice, and
four objects let one be recycled while another is still pending. The limit of the
pending map is `3 * PendingRequests`, so five numbers pass it and reach the clean-up
and the give-up. Three requests on two connections with two workers make a reader
wait for a token, and a channel of one response makes a request wait for the
writer. Three registrations give an object its dependency, replace it and use it
again, or register, close and register with stale nodes in the list; `Server` needs
a `Log` by name and a `Store` behind an interface, which needs a `Log` by type.
A pool of size one with two tasks has one waiting when `Close` comes. Channels of one
fill at the second record or increment, and a second report shows what the first
left. Two lives of a process let a lease of the first outlive it into the second. With
`retry` 2 and one server a redis `Do` runs out of servers. An upsert, an insert and a
delete, three changes, reach every path of `InsertOrUpdateOnDup`, also the one where the
row is gone at the second update. The configurations of `MyLists` are those that differ: with a slave,
a list of several masters, DM, a list without masters, and the configuration object.
Deadlock is checked in `life_one` and `inject_close` only: elsewhere the bound on sequence
numbers, requests or calls lets the model come to rest, or the panic is modelled as a
halt. Symmetry is over objects, callers, connections, users, handlers and channels,
which no action tells apart, and only in runs without liveness. The view of the
`MCDogClient` runs hides the fields of garbage objects: `Filled` overwrites them.

*Fairness.* A goroutine that can run does run, an expired timer is received, a
closed connection fails a read, a dial ends. The network, the server and the users
owe nothing in the client's runs. `DogServer` assumes in addition that handlers
return and that clients read (`WriterFlush`), and strong fairness where goroutines
compete for a channel (`Acquire`, `Reply`): Go's channels serve blocked senders in
order. `MCRuntime` assumes the same of a blocked `Execute` (`GrUnblock`), and that
functions handed to a pool return. `MCInfra` assumes that goroutines run, that calls of
the network return, with whatever outcome, and that a lease nobody renews expires;
crashes, signals, changes in the stores and calls of users need not happen.

*What the violations show.* (1) With retries, the answer to a timed out attempt can
complete the next attempt between its registration and its encoding; the object is
recycled and the writer encodes nothing, or somebody else's request, and an
encoder error costs the connection. Without retries `EncodesOwnRequest` holds.
(2) `engine_stop`: the goroutine that receives the interrupt and `Run` both send on
`running`, from which nothing receives; the process goes on, without its clean-up.

*What the models show without a run of its own.* The clean-up of canceled requests
in the client deletes the request just registered (`client.go:270`); the bound on the
map holds all the same, because the writer gives the connection up. A user's `Stop` makes
the handlers call `Stop` again on a stopped client, which closes a nil channel, and so
do two handlers that give up when `Conns > 1`: `life_one` is right because it has one
user, who does not stop, and one connection. Two users that find the client stopped
also break `StartFindsStopped`, since `Start` goes on after its warning. A server
stopped during the accept back-off keeps its port (`server.go:144`).

*What passing runs show that a reader should know.* A stop of the client ends
pending calls with a nil error and no response, which the type assertion in
`Invoke` does not survive; `EmptyOnlyOnStop` says that this is the only case. An
object that was registered without a name is never closed once a named singleton of
its type is registered; `EvictedByType` says that, apart from an object that takes
the tag of its own dependency, this is the only way to lose one. The repeated
deletions of `Close` do leave stale nodes in the list, but the backward walk, on
which the order of closing rests, meets every stored key all the same
(`WalkMeetsAll`). The order of closing, `UsersFirst`, has an exception that a proof
attempt showed and a changed instance confirmed: `register` looks for the name before it
creates the dependencies, and a dependency that is tagged with the name of its own user is
created under it first. The user then takes the name over, and the dependency is left with
its type key. If that key is older than the objects it uses itself, `Close` meets them
first. `UsersFirst` excuses such objects by name; the type `Server` with its singleton `b`
reaches the case.

Of the other parts: a redis pool configured with empty addresses only starts without a
server, and the first `Do` uses a nil connection, as it does when there are fewer servers
than retries. `MGet` may answer nil for a key whose command failed behind a `redis.Nil`;
`MGet2`, `MSet2` and `MDel2` do nothing and report success, because `getNodeAndKeyMap` is
always empty. `initDbsWithCommonConf` passes `glSuffix` in the place of the database type, so that
a `MysqlClient` with a configuration object never starts; its second `Start` reports no
error, and the first write panics. A list of several masters in the file names no host. Slaves are
opened and neither used nor closed (`db.go:180`). A transaction whose function panics is
committed as far as it went. `Retry` of the HTTP client is spent once for all requests,
and a mix of structs and slices sends an empty body. An etcd node that is deleted is
looked up in the list by its whole key (`etcd.go:269`).

## 4. Proofs

TLC checks the runs of section 3; the theorems below hold for every value of the
constants that satisfies the named assumption of the module. None of the
properties is inductive as it stands, so each proof rests on a stronger invariant. A
proof has one step or lemma per action, and under it one step per part of the
invariant that the action can disturb.

### The client's data path (`DogClientProofs`)

For all sets of callers, connections and objects, under `ClientAssumption`:

- `TypeCorrect`: `Spec => []TypeOK`;
- `CloseSafe`: nobody closes a nil or closed `Done`;
- `CallNotLost`: a waiting call is somewhere a goroutine will find it;
- `ReplyIsOwn`: a caller gets its own response or none;
- `PoolPrivate`: a recycled object belongs to nobody else;
- `EmptyAnswerOnStop`: an empty answer only on a stopped client;
- `PendingIsBounded`: outside the clean-up a pending map exceeds its limit by at most one;
- `EncodesItsOwn`: if `RetryNum = 0`, a writer encodes the request it took;
- `CountIsExact`: if `RetryNum = 0` and no writer ever enters the clean-up,
  `pendingRequestsCount` is the number of requests that wait, modulo its width.

The invariant `IInv` adds who owns an object. An object
with an open `Done` that is to be closed is in exactly one *closing place*: the
channel, a writer about to register it, one entry of one pending map, or a reader
about to complete it (`QueueInv`, `WriterInv`, `PendingInv`, `ReaderInv`,
`QueueDistinct`). Each closing place holds an open object, and leaving it by
closing is what makes a second close impossible. A caller holds its object alone
and the object carries the caller's number (`CallerInv`); pending entries sit under
their own number; a closed object has the result of its own number (`ResultInv`);
the pool is disjoint from all closing places (`PoolInv`); a slot without a
connection has no goroutines and no entries (`ConnInv`). The writer at `encode` is
deliberately not a closing place: that is where the object may be recycled.
`PendingBounded` is inductive with the types: only the writer adds an entry, and it
looks at the size before it takes the next request.

The last two have hypotheses, and they are the code's own limits. With retries two attempts
carry one number, and the answer to the first completes the second before it is encoded:
`client_encode` is the counterexample. Without them a number is on its way once: until its
writer has encoded it no packet has it, hence no reader can complete the object and nobody
recycles it (`EInv`: `UnsentInv`, `HandsInv`, `NumberedInv`). The counter is wrong after a
clean-up, which counts down once for every entry and deletes at most one of them
(`client.go:267`); otherwise each step that adds or removes a pending entry moves the
counter with it (`CountInv`).

### Start and stop of the client (`ClientLifecycleProofs`)

- `CreatedOnce`: `OneCreator`, for any number of users and connections. The
  double-checked lock alone does not say it: `CreatorInv` adds that a user who starts
  a client that is not yet in `Cm` holds `cmMutex`.
- `InStepAlone`: `ClientInStep`, under the hypothesis `Alone`: one connection, one user,
  who does not call `Stop`. The hypothesis is the code's own limit, not the proof's:
  without it a second `Stop` closes a nil channel (section 3). `AInv` says that at most
  one handler is not free and that it decides what the channel is (`HandlerInv`), where
  the user may be while there is none (`UserInv`), and that a channel that is not nil is
  served or about to be (`ServedInv`).

### The server (`DogServerProofs`)

`ServerRequestsExact`, `ServerWorkersExact` and `ServerStopJoins` hold under
`ServerAssumption` for all connections, requests, worker and channel sizes and any
number of starts. In `SInv` the wait group is the number of acceptors and open
connections (`StopInv`); a connection's goroutines hold a request exactly at the points
where they should (`ConnInv`); a request that has a goroutine was read from an accepted
connection (`OwnerInv`); and a request is in at most one place, of its own connection, and
in exactly one while that connection is up and its writer has not given up (`HeldInv`). The last one
counts places with lemmas on how often a request is in a channel or a buffer.

### Pools, task groups, local storage, counters, statistics (`RuntimeProofs`)

- `GrCountersExact` and `GrRefines`, for any pools and tasks under `GrAssumption`. `GrIInv`
  relates semaphore, wait group and task states, and says that the tasks a `Close` has
  seen had been started. The refinement maps the initial states and every step: a send of
  `Execute` admits a task, one that times out or panics refuses it, a receive finishes it,
  `Close` asks and ends a join; the other steps change nothing `BoundedExecutor` sees.
- `TaskGroupKeeps`: what a stopper has yet to close is on the list, and each task was
  closed once if it left the list and not otherwise (`TgInv`).
- `LocalIsPrivate`: per goroutine, the values belong to the request that runs, and
  the counters are the sums of what was added since (`GlInv`).
- `ReportIsExact`: `PcExact`, for any keys, increments, channel size and reports. An accepted
  increment is in the channel, in the handler's hands, in the value of its key, in a walk, in
  a report about to be posted, or posted: six terms whose sum never differs from what was
  accepted (`PcBalance`). That needs that the pointer the handler has loaded is the one
  stored under the key, because only it creates pointers of keys without a gauge
  (`PcPointers`), and where the walk may be (`PcWalking`).
- `StatisticsAreExact`: `StExact`, for any finite set of commands, any objects and files. Ended
  operations are queued, in an entry of the table or dumped (`StSums`); unless a queued
  object was begun again, they are counted for the command they ended for (`StOwn`); dumps are
  numbered and rotation keeps the newest (`StNumbered`, `StRotates`).

Both compare totals, so the module begins with what sums do when a function changes at
a point, or a sequence grows or loses its head. The folds behind `SumFunction` are defined
by recursion on finite sets and the library's induction theorems cannot be used, so these lemmas
are proved from a least counterexample (`RtLeast`) instead.

### Dependency injection (`InjectGraphProofs`)

For any struct types, names and number of calls, under the module's assumptions:

- `WalkReachesAll`: the backward walk of `Close` meets every stored key, whatever stale nodes the
  repeated deletions left;
- `GraphAccountsForAll`: `ClosedExactly`;
- `UsersCloseFirst`: `UsersFirst`, the order of closing;
- `CloseLeavesNothing`: the action property `CloseEmpties`.

The first half of the module is about the ordered map as a value: `Set` and `Delete`
keep it well formed (`OmOk`) and complete (`WalkComplete`), `Set` of a new key puts it behind
all others, and a deletion removes one key, also if it unlinks a stale node. `IgInv` has
three parts. `IgGraph`: keys lead to objects that have them as name or type, an
object holds its name or lost it to a late user, and the name of an object that is not
late has its place behind all keys of older objects (`IgPlaced`), which is why the walk closes
users first. `IgFrames`: each frame of the recursion creates what the one below asked for, and
a name that was free when its frame began is held only by something created for that frame.
`IgPhase`: during `Close`, keys behind the cursor are collected and their objects closed, keys
before it will be met; at all other times nothing that is stored, or used by what is stored,
was closed.

### Logging (`DlogProofs`)

`LoggingIsSafe`: `LgSafe`, for any goroutines, levels, configurations, lines per file,
backups and days. `LgAssumption` asks that a configuration enables at most one
file writer: two would write and rotate the same file of the model. In `LgInv` there is one file
writer under one tag (`LgWritersInv`), a record is in its channel at most once and not yet
in a file (`LgQueueInv`), and a call that may still hand its record over has not done so
(`LgCallsInv`); with that a written record
stays in exactly one file through all rotations.

### Registration, discovery, engine (`ServiceProofs`)

- `RegisteredIsOwned`: with etcd, a closed connection belongs to a finished `Close`
  (`RgInv`); with zookeeper, two processes never share a session, and one that is
  registering has one (`ZrInv`).
- `EtcdWatchKnows`: between the load and the end of the watch every registered address
  is listed, in the hands of the watcher, on its way as an event, or excused (`EdInv`).
- `ZkWatchKnows`: the entry is the nil list exactly after a reload, and what the first
  load has not listed is still to do (`ZdInv`).
- `EngineCleansUp`: the report goroutine is there only while `Run` is at work, and the log
  is closed early only when it goes to a file (`EgInv`).

### Clients of other systems (`OutboundProofs`)

- `RedisPoolSafe`: for any callers, servers, retries and batches. A `Do` has tried each
  server it used once, and one per turn that is over (`RpDos`), the connections taken are those somebody
  holds (`RpExact`), and the requests of a batch are split between rounds (`RpRounds`).
- `RedisClusterHonest`: for any callers, keys and key lists. Per call, what each command did
  and what it returned agree (`RcSound`), and the failures already counted and those
  of commands whose caller has not reported yet (`RcFailing`) are at most those that
  happened. First error and last value of a pipeline need that sets of positions have a
  least and a greatest member.
- `MysqlHonest`: `MyKnows` says per call what it knows of the row. A read has made one
  attempt per turn, the second update of an upsert finds the row unless somebody deleted
  it, a transaction has kept nothing before the deferred decision.
- `HttpClientExact`: per client, what it was given is stored where its kind belongs
  (`HcStored`), tries and retries add up (`HcCounted`), and what is on the wire is what was
  given since the last request (`HcCarried`).

### What the proofs changed

Arms of a `CASE` that overlapped, where TLC
takes the first one and the logic says nothing, are disjoint (`MyDefer`, `RcOutcomes`, the
steps of `HttpClient` and `GrSend`); and the steps of a pipeline range over its own commands
instead of a fixed three. `PcIn` and `PcConserved` count with sums and cardinalities rather than
folds over filtered sequences, and `StAssumption` says that the commands are finitely many.
`UsersFirst` was false as first stated (section 3): its proof failed at a dependency that has
lost its name, and TLC found the state once the instance had a type that reaches it.

### Only model-checked

Every invariant of the runs, the action property `CloseEmpties` and the refinement
`GrImplements` are proved. TLC alone checks `EveryCallReturns`, `TeardownEnds`,
`BufferFlushed`, `StopsEnd`, `StopReturns`, `RequestsEnd`, `GrReturns`, `LgLive` and
`CloseTakesEffect`: they say that something happens eventually, and fairness and `ENABLED`
are out of the prover's reach.

## 5. What is left

The panic path of `callHandlerWithRecover`, wrap-around of the sequence number and
two log files in one configuration would extend modules that exist. `CountIsExact` does
not extend past a clean-up: the code's counter is wrong there.

Not modelled: the byte layout of packets, handler tables and filter chains of
`dogrpc`, `dhttp` and `dgrpc` (functions around one request, without shared state, or
options handed to grpc-go and gin), transports, mongodb and the health page (calls of a
driver), configuration files and text layout, SQL text and reflection over structs,
error values and utilities. They are I/O, formatting or thin wrappers over libraries
that are not part of the repository, and have no interleaving or failure handling of
their own to check.
