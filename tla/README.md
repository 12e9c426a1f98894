# A verification project for TQMemory

TQMemory is an in-memory cache that speaks memcached's protocols. This directory
models its core in TLA+, checks the models with TLC and proves their safety
properties and the refinements with TLAPS. Paths such as `worker.go:138` are relative to
`pkg/tqmemory/` unless they say otherwise.

## 1. The system

| Component | State | Operations | Interacts with |
| --- | --- | --- | --- |
| **Index** (`index.go`) | a map from keys to entries, a binary heap of expiries with a key-to-position map, a recency list; entries point to their list element | `Set`, `Get`, `Delete`, `Touch`, `GetOldest`, `PeekMin`, `Count` | owned by one worker |
| **Worker** (`worker.go`) | its index, `usedMemory`, `casCounter`, `evictions`; request and stop channels | one handler per operation, `evictLRU`, `expireKeys`, `Start`, `Stop` | one goroutine that selects among its request channel, a 100 ms ticker and its stop channel; answers on the channel a request brings along |
| **ShardedCache** (`sharded.go`) | the workers; a pool of response channels shared by all callers | the cache interface: routes a key by FNV-1a, sends, waits; `FlushAll` asks one worker after the other; `Stats` reads the workers' maps directly; `Close` stops the workers one by one | called from any number of goroutines |
| **Server** (`pkg/server/server.go`) | the number of connections | accept loop with a limit, one goroutine per connection, a 5 s deadline for the first byte, choice of protocol | hands connections to the protocols |
| **Text protocol** (`pkg/server/text.go`) | a buffered reader and writer per connection | one handler per command; responses are flushed when no input is buffered; `gat` is a get and a touch | calls ShardedCache, possibly several times per command; writes slices that the workers share |
| **Binary protocol** (`pkg/server/binary.go`) | the same, and body buffers that all connections take from one pool | one handler per opcode; quiet gets; get-and-touch is a touch and a get; an increment that is meant to create its counter | as above; passes parts of a pooled buffer to the cache |
| **Configuration and start** (`config.go`, `internal/config`, `cmd/tqmemory`) | none after the start | flags, a configuration file, signals | builds the cache and the server |

### What is hard here

- **One worker, many structures.** A handler keeps a map, a heap, a list and a
  byte count in step by hand, on nine paths that add, resize or remove an entry.
  The expiry loop terminates only if they agree.
- **Loops that delete what a handler is holding.** Eviction runs in the middle of
  a store and may delete the very entry the store has measured.
- **Three notions of presence.** An entry can be in the index and fresh, stale or
  gone; handlers differ in which of them they look at, and a refresh is handed
  out once.
- **Time.** Expiries are rounded to milliseconds, a TTL is multiplied, and the
  ticker competes with requests.
- **Callers and workers.** Response channels are pooled and reused by other
  callers; request channels fill up; a flush is not atomic; workers stop while
  requests are queued.
- **Connections.** A counter that is tested and incremented in separate steps;
  batches of responses that leave when the input runs dry; commands that are
  refused before or after their data are read; data blocks that are then read as
  commands; clients that leave in between.
- **Shared bytes.** A get hands out the slice that is stored; the body of a
  binary message lies in a buffer that the next message of any connection
  overwrites. Nothing but copying in the right place keeps values apart.
- **Composite commands.** Get-and-touch is two calls in either protocol, in a
  different order, and tells a token from one of them.

### What makes each component correct

- Index: the three structures hold the same keys; the heap yields the earliest
  expiry; the list is the order of use.
- Worker: clients see an ordinary cache with expiry (whatever is evicted or
  reclaimed behind the scenes); the byte count is right and the limit honoured;
  tokens are never reused; expired entries are reclaimed; no handler spins.
- ShardedCache: every call is atomic and gets its own answer; a token wins at
  most one cas; a flush hides everything older; calls return; `Close` returns.
- Server: the limit holds, a place is always given back, a client is never left
  without a decision.
- Routing: every key has one worker that exists; the workers' shares of the
  memory fit the limit.
- Protocols: every command is answered once; the reader takes a command's data for
  its data, and for commands only where it is known to; a token that a client was told stands for the value
  it was told; a requested expiry is kept; responses are withheld only where that
  is known; a handler
  returns once its client has left; a buffer has one owner.

## 2. The modules

```
Bytes ── Entries ─┐
Index ────────────┴─ Worker ─┬─ WorkerRefinement ──INSTANCE── Cache
                             │        └── WorkerHistory
                                     └── WorkerProofs (with IndexProofs, BytesProofs)

Index ── ExpiryHeap ──INSTANCE── ExpiryMap
             └── ExpiryProofs

Shards ─┬─ ShardedCache ─┬─ ShardedRefinement ──INSTANCE── AtomicCache
        │                │        └── ShardedHistory (with Routing)
        │                │                └── ShardedProofs
        ├─ AtomicCache
        └─ Routing ── RoutingProofs

Server ── ServerProofs

Bytes ── Connection ─┬─ TextProtocol ───┬─ Connections ── ConnectionProofs
                     └─ BinaryProtocol ─┘                 (with BytesProofs)
```

The parts meet at abstractions that one part is shown to implement and the next
is built upon. `Worker` implements `Cache`; `ShardedCache` works for any handler
and implements `AtomicCache`; `Connections` calls a cache whose single-key calls
are atomic, as `AtomicCache` says they are; `Server` relies on a handler returning
when its client has left, which `ServingEnds` of `Connections` shows.

| Module | What it is |
| --- | --- |
| `Index` | the methods of `Index` as operators from an index to the next one. `data` is the map, `heap` the map from keys to expiries that the binary heap implements (`PeekMin` may yield any of its minimal keys), `lru` the list, oldest first. The list element an entry points to is the position of its key |
| `ExpiryHeap` | the binary heap inside: the sequence of entries, the map from keys to positions, and the loops of `container/heap` one iteration at a time |
| `ExpiryMap` | what the heap promises: the map from keys to expiries that `Index` works with |
| `Bytes` | values, and what appending and counting make of them |
| `Entries` | entries, expiries, responses: `doSet`'s computation of the soft and hard expiry, the flags of a get |
| `Worker` | one worker goroutine; one action per handler, one step per iteration of the eviction and expiry loops |
| `Cache` | the abstract cache a worker implements: a partial map of unexpired entries |
| `WorkerRefinement` | the refinement mapping from `Worker` to `Cache` |
| `WorkerHistory` | the order of use and the refreshes handed out, as history variables |
| `Shards` | what the plumbing knows of workers. What a handler does to a shard is a constant operator, so what is shown of the plumbing holds for every handler |
| `ShardedCache` | callers, response channel pool, bounded request channels, select loops, `Close` |
| `AtomicCache` | the abstract service: every call takes effect at one instant |
| `ShardedRefinement` | the refinement mapping from `ShardedCache` to `AtomicCache` |
| `ShardedHistory` | shards seen through their CAS tokens, keys routed by hash; wins of a token and flushes as history variables |
| `Routing` | `workerFor` with the widths of the hash and of `int`, and how `NewSharded` divides the limit |
| `Server` | the accept loop, the connection counter and the goroutine of each connection up to the choice of the protocol |
| `Connection` | what the protocols share: clients, the buffered reader and writer, the goroutine of a connection, the cache it calls with the slices it shares |
| `TextProtocol`, `BinaryProtocol` | the two loops and their handlers, one step per call of the cache and per value written |
| `Connections` | clients of both protocols on one cache, and what they may rely on |
| `IndexProofs`, `BytesProofs`, `ExpiryProofs`, `WorkerProofs`, `ShardedProofs`, `RoutingProofs`, `ServerProofs`, `ConnectionProofs` | the theorems |
| `MC...` | constants for TLC |

### Correspondence

`Worker`'s variables are the fields of the Go struct, plus `clock`, the wall clock,
`pc`, where the goroutine is, `job`, the locals of a store while the eviction loop
runs, and `reply`, the last response. `Set`, `Add`, `Replace`, `Cas` are the
handlers up to `evictLRU` (`DoSet` is the head of `doSet`), `EvictOldest` an
iteration of its loop and `FinishStore` the tail of `doSet` and `doAppendPrepend`.
A handler without a loop is one action. `ExpireKeys`, `ExpireOne`, `ExpireDone`
are `expireKeys`.

In `ExpiryHeap`, `InsertKey` and `RemoveKey` are `Insert` and `Remove` up to the
loops they start in `container/heap`; `Down` and `Up` are one swap each, `DownDone`
turns to `up` if nothing has sunk, `Finish` is the end of the call (for `Remove`,
the `Pop`). `Contents` leaves out the entry that is on its way out.

In `ShardedCache` a caller walks through `sendRequest`: `GetChannel` (pool),
`Send` (request channel), `Receive`, `PutChannel`. `FlushAll` repeats the walk for
each worker. A worker `Serve`s the head of its queue, `Respond`s, `Maintain`s or
stops. With an unbuffered request channel `Handover` replaces `Send`.

In `Server` the accept loop takes three steps per connection: `Accept`, `Load` of the
counter, and `Reject` or `Admit` by the number it has loaded. A goroutine peeks for
the first byte, serves, closes the connection and only then gives its place back
(`CloseConn`, `Release`). The deadline is the possibility of `PeekFails` at any time.
A connection that has ended may be dialled again under the same name.

In `Connections` a client sends the commands of its session, a line (or message) and,
where there is one, a data block, and may leave anywhere. `wire` is what has arrived
at the socket, `buf` what `bufio.Reader` has taken from it, `out` whether
`bufio.Writer` holds responses. `proc[c].at` is where the goroutine is: about to
`read` a command, waiting for `data` (or for `bytes`, whatever they are), about to `call` the cache, between the two
calls of a get-and-touch (`touch` in the text protocol, `get` in the binary one),
about to `write` a value, or `returned`. `HandleText` and `HandleBinary` are the top
of the loops with their switches; the actions named after handlers are those from
their call of the cache to their response; `Finish` is the end of the loop's body
with its conditional flush. A get of several keys and a flush of several workers go
round their loops one step at a time, and `WriteValue` and `WriteResponse` are steps of
their own, because the slice they write is the worker's.

A text handler that refuses a storage line for its fields returns before it reads the
data, and the loop of `handleText` goes through the data block line by line, like
anything else. In the model a block has a look (`block`), and `LinesIn` says which
lines, commands again, a look has; `HandleText` takes the first and puts the others
back into the reader as items of their own (`Strays`). So an empty block is an empty
line, which the loop skips without a flush; a block of several lines gets several
answers; `quit` in a block ends the connection. A storage command among the lines has
no data block of its own: it waits for as many `bytes` as it says, and `ReadBytes`
gives it whatever was sent next, be it other commands, cut off anywhere (`Fragments`
is what may be left of what was cut). From then on the connection is `astray`, a
history variable: the client's commands and those that are carried out need have
nothing to do with each other any more.

`mem` maps slices to their contents. A store makes a slice (named after its token),
a touch keeps it, a buffer of the pool is a slice that messages overwrite. `issued`
and `told` are histories: what each token was issued for, and which token and value
were written to clients. They are read by properties only.

### What is abstracted

- A value is its length and the number `ParseUint` reads from it; a key is its
  name and its length. `Concat` and `Counted` say what the operations do to both.
- `uint64` is `0..MaxUint`; the runs use 11, so that wrap-around and the
  change from one digit to two are a few steps away.
- Time passes between handlers. The code reads the clock twice in some handlers
  (once for the expiry test, once for the new expiry); the model takes the two
  readings as one.
- `handleStats` is not modelled: nothing sends `OpStats`.
- The CAS counter starts at the clock in nanoseconds; `CasStart` stands for it.
  It does not wrap in the lifetime of a process.
- The pool may lose channels at any time; taking a new channel covers that.
- `MaxConnections` is not negative; a negative limit turns everybody away.
- In `ShardedCache` a request is taken from the queue and handled in one step; no
  other goroutine can tell (Stats, which can, is not modelled).
- A hash is any function of the keys: nothing in `Routing` depends on FNV-1a but
  its 32 bits, for which the runs take a power of two.
- In `Connections` a call of the cache for one key is a step. The cache is a map of
  entries that may be lost at any moment (`Lose`): this stands for expiry and
  eviction, so nothing is said of when they happen. One counter issues all tokens,
  where the code has one per worker, and each key of a flush has a worker of its
  own. Entries remember the expiry they were stored with, not when it comes.
- A command is one its protocol can express (`CommandsOf`): an expiry of the binary
  protocol is an unsigned number, and `noreply` is looked for in some lines of the
  text protocol only.
- What can be wrong with a line is one of four things (`form`), told apart by when
  the handlers look: fields that are missing or lengths that are no numbers
  (`short`), other numbers (`malformed`), values beyond the limit (`large`), the
  token of a cas (`token`); for a binary message, extras of a wrong length
  (`extras`).
- Lengths are what a client of the protocol sends. A text length is not negative
  (`make` panics on one that is), and the lengths of key and extras in a binary header
  fit into that of the body, which `handleBinary` slices without looking
  (binary.go:141-143). A data block is as long as its line says.
- The value that a storage command stores for `bytes` it took from elsewhere is that of
  the command in `LinesIn`: any bytes of the length it names are as good as any others.
- The tokens that binary appends and touches return are not among those `told`, since
  they tell no value with them.
- Input arrives in whole lines, messages or blocks. A goroutine that waits in the
  middle of one waits as it does before it. The writer's buffer is unlimited; that
  it is flushed when full only lets responses leave earlier.
- The data block of the text protocol is read into a slice of its own, which no one
  else sees; the model takes it from the command.

## 3. The runs

| Run | Question | Instance |
| --- | --- | --- |
| `worker_memory` | do index, accounting, limit and tokens survive every operation under memory pressure, is eviction least recently used? | 3 keys, values of 1 and 3 bytes, a limit of 7 bytes: two large entries do not fit together, three small ones do; counters pass 9 and wrap at 11 |
| `worker_expiry` | ... and under expiry and eviction together, is a refresh handed out once? | 2 keys, a limit of 4 bytes, TTLs -1, 0, 1 and 3 ticks of half a millisecond, one and a half times that for the hard expiry: below and above the resolution, fresh, stale and gone, also a store in whose resolution its hard expiry has come already |
| `worker_liveness` | does the ticker reclaim, do loops end? | 2 keys, a default TTL, the ticker competing with requests |
| `expiry_heap` | does the heap stay a heap, and find its keys? | 6 keys, 3 expiries: three levels, so that the entry that takes the place of a removed one may have to rise into another branch |
| `sharded_history` | is every call atomic, are updates lost, does a flush hide? | 2 callers, 2 keys on 2 workers, unbuffered request channels, 4 calls in all |
| `sharded_liveness` | do pooled channels stay private, can a worker block, do calls and Close return? | 2 callers, 2 workers, request channels of one place so that they fill up, Close at any time, hashes in the upper half |
| `server` | does the limit hold, do places come back? | 3 clients, 2 places: a connection may be turned away while another one ends |
| `connections` | are tokens and values told as they belong together, commands answered once, responses withheld, expiries kept, buffers exclusive, do handlers return? | a text client and two binary ones, one key: every pair of the commands of either protocol, well formed or not, and three commands of two clients that store, ask, compare and change; data blocks that look like a word, nothing, a storage command (one that is carried out, one refused, one too large), several lines or a quit, of which up to a line may be left; two buffers, a month of 3 s, a clock at 5 s |

The bounds named in the modules (`MaxClock`, `MaxCas`, `MaxLen`, `MaxCalls`) stop
time, tokens, appended lengths and calls; the code has none of them. They are
enough for each phenomenon to happen several times: an entry can be stored,
become stale, be refreshed, go and be stored again within `MaxClock`; a store can
evict two entries and another follow; four calls suffice for a store, a flush, a
get and one more call in between. The channel protocol depends on nothing but
who holds which channel, and is proved for any number of callers and workers; that
calls return is checked with request channels of one place only, since full queues are
what could keep them, and unbuffered channels are covered by the safety run alone. The
runs take an `int` wide enough for the hashes, the other case is in `RoutingProofs`. A
connection's reader, writer and flush rule depend on the command it is at and the
one before it, so all pairs of commands show what can go wrong on one connection.
The proofs take any lines for what a refused block may hold; the looks of the run have
an empty line, unknown commands, storage commands, a get and a quit among them.
Between connections what matters is a token, a value and a slice, and who changes them
between two steps of a handler: a store, a command that tells, and a command of another
client that changes. `Sessions` bounds what clients send; a client that pipelines
without end, whose answers wait for a gap, is outside of it. The `Fragments` of the
run hold no storage command, so no handler goes on for ever with what it puts back; in
the code none does because what is left is shorter than what was there.

### Properties

`worker_memory` and `worker_expiry` both check `DriftOnlyBySelfEviction` (the byte
count follows the bytes, with one exception, below) and `ImplementsCache`: all a
client sees is the abstract cache. `worker_memory` adds `FreshTokens` (no token comes
back), `EvictionHonoursLimit` and `LruIsRecency`, which compares the list with the
order in which clients were served; `worker_expiry` adds `IndexInStep` (the three
structures agree) and `RefreshOnce`, which counts the refreshes handed out. `KeyIndexExact`, `HeapOrdered` and `RootIsEarliest` are
about the heap, `ImplementsExpiryMap` says that each call changes the schedule at
its own key only. `ChannelsExclusive` and `WorkersNeverBlock` are about the response
channels, `ImplementsAtomicCache` about the calls, `CasWonOnce` and `FlushHides`
about the callers' view over several calls. `LimitHolds` and `CounterExact` relate the
counter to the goroutines, `DialsAnswered` and `PlacesComeBack` say that neither the
accept loop nor a place is held up by a client that does nothing.

Of the connections, `TellsIssued` and `NoBlindCas` say what a token is worth to the
client that was told it. The first, that the value beside it is the one it was
issued for, is false of the binary get-and-touch, which takes the token from its
touch and the value from a later get; the second, that a cas with the token can
overwrite nothing the client has not seen, holds even then, since the entry's token
has moved on. `AnsweredOnce` and `InStep` keep responses and requests matched;
`InStep` says that a storage command whose line a client sent gets its own data block,
even behind refused lines and what was read out of their data, and names the two kinds
of refused lines after which a block is read for lines; what it does not promise is
that a command of the client's is still taken for one once a block has been found to
hold a storage command. `WithheldKnown` lists where responses stay in the writer
(behind an empty line or an empty block, in a command the client does not finish,
before `bytes` that have not come), `RepliesArrive` that they leave otherwise.
`ExpiryKept` says that an item for which an expiry was asked has one; the one exception, a moment in the past in the binary protocol, is
written into it. `BuffersExclusive` is about the pool of body buffers, `ServingEnds`
about the handlers of clients that have left.

### Disagreements with the documents

Four runs end in a violation. Each states what a document or comment of the
repository says, and TLC shows the code doing something else.

- `worker_memory_tracked`: *"Each worker tracks `usedMemory` in bytes"*. A store
  measures the entry it replaces before it evicts. If the eviction loop takes that
  very entry, its size is given back twice. `usedMemory` stays below what is held
  until a flush, and may become negative when that entry shrinks later;
  `DriftOnlyBySelfEviction` shows that this is the only leak.
- `worker_limit`: *"When memory limit is exceeded, evicts least recently used
  items"*. An increment that adds a digit does not evict.
- `worker_refresh_after_touch`: *"`3` ... first stale access"*. A touch gives a new
  TTL but keeps the refreshing mark: in the next stale period nobody is asked.
- `connection_gats`: *"`gats` - Get and touch with CAS"*. The handler asks for the
  value and its token, then touches, which issues a new token, and tells the old
  one: a cas with it is refused even when nobody else is there.

Other behaviour that no document speaks against is in the models as it is in the
code: a delete finds an entry that has expired and answers ok; responses of commands
pipelined before `quit` are lost; an empty line leaves responses in the writer; the
data block of a line that is refused for its fields is carried out as commands, and if
it is empty the error for the line stays in the writer until something else is sent,
as for `cas bad blah 0 0 0` with an empty block; a storage command in such a block takes
its value from the commands that follow; a
missing counter is not created by the binary increment, because the error it
compares with is never returned; a binary expiry in the past makes a permanent item.

### Fairness

`Worker!FairSpec` lets time go on (`WF(Tick)`), lets the goroutine finish what it
has begun (`WF` on the loop steps) and does not starve the ticker
(`SF(ExpireKeys)`: the worker leaves its select between two visits, and Go's select
picks at random among ready cases). `ShardedCache!FairSpec` lets every goroutine
that can go on do so. Sending is strongly fair because a Go channel serves its
blocked senders first come, first served; serving and stopping are strongly fair
because select picks at random. Nothing makes a client call or an owner close;
a Close that has begun goes on. `Server!FairSpec` is weak fairness of the accept loop
and of each goroutine: the read deadline ends the wait for a first byte. Clients are
free to stay for ever; only once one has left must its handler return.
`Connections!FairSpec` is weak fairness of each connection's goroutine: Go runs every
goroutine that can go on, and calls of the cache return. Nothing makes a client send
or leave, and nothing makes an entry go.

## 4. The proofs

`IndexProofs` shows for each method of `Index` that it keeps a *sound* index sound
(`SetEntrySound`, `DeleteKeySound`, `TouchKeySound`, `NewIndexSound`), and that a
sound index with a key in its map has an oldest element that is in the map
(`OldestPresent`). The lemmas below them are about appending to, removing from and
moving within a sequence without repetitions.

`IndexProofs` also says what the methods do to the order of the list (`AppendOrder`,
`MoveToBackOrder`, `UnlistOrder` and the lemmas on `SetEntry`, `TouchKey` and
`DeleteKey` that follow from them): which key comes before which, rather than where.

`WorkerProofs` proves `TypeCorrect` (`Spec => []TypeOK`) and `IndexAlwaysInStep`
(`Spec => []IndexInStep`) for all keys, values, TTLs, limits and bounds. The
inductive invariant is their conjunction: types alone are not preserved, as
eviction applies `Head` to the list and reads the map there, and being in step
is not inductive without the types. `NextInv` has one step per action.

On top of it, the same module proves what the worker's runs check:

- `TokensStayFresh` and `EvictionAlwaysHonoursLimit`, two action properties. Every
  step does one of five things to the entries (`Keeps`, `Marks`, `Removes`, `Clears`,
  `Stores`), and only a store binds a key to something new, with the next token.
- `LruAlwaysRecency`. The list alone does not tell enough: a key that is answered
  twice in a row must not change the order, so `RecencyOK` adds that the key
  answered last is last in the history too. A step then uses a key (`Uses`) or
  keeps the order of what stays (`KeepsOrder`).
- `RefreshAlwaysOnce`. That a refresh has been handed out is remembered by the mark
  of the entry, and during an append by the copy of the entry the handler is
  about to store, since eviction may take the entry itself (`MarkKept`). `Carries`
  says that no step loses the mark but those that set the expiry anew.
- `WorkerImplementsCache`: the refinement, one lemma per action. The steps of the
  eviction loop are the abstract cache forgetting entries, the last step of a store
  is the abstract store, and a tick of the clock lets entries go (`LiveTicked`).
- `BooksFollowBytes` and `BooksNeverOverstate`, about the difference between
  `usedMemory` and the bytes held (`Drift`). That is a sum over the entries, so the
  module first proves of any sum over a finite set that it exists and does not depend
  on the order of its terms (`SumsExist`, `SumUnique`, `SumWithout`), from the
  smallest subset that would be a counterexample (`SmallestSet`); `TotalIsSum` ties
  this to the fold `TotalBytes` is written with. One lemma each then says what
  removing, binding and marking an entry do to the sum. `GrowKnown` is the invariant
  of a store in progress: its `grow` is right for as long as the entry it replaces is
  there, and never more than the new entry. When the eviction loop has taken that
  entry only the second part is left, and the books fall behind, never ahead.

`ExpiryProofs` proves `TypeCorrect`, `KeyIndexStaysExact`, `HeapStaysOrdered`,
`RootStaysEarliest` and `ExpiryHeapImplementsExpiryMap`. `HeapOrdered` says
nothing while a loop runs, so the invariant adds what the loops keep. `Sinking`:
everything is in order but what concerns the moving entry. `Rising`: everything but
the moving entry and its parent. `Bridged`: the children of the moving entry are in
order with its parent, which is what makes either swap safe. The lemmas `Replaced`,
`Pushed`, `Sunk`, `Risen` and `Stopped` state this of sequences of numbers, without
reference to the state. That the root is then the earliest entry of all is an
induction along the path to the root. No theorem of induction can be applied here,
so the proof takes a least counterexample (`LeastNumber`, from the library's theorem
that the strict subsets of a finite set are well-founded): the parent of the first
entry earlier than the root would be an earlier one. For the refinement a schedule
is described by the set of its entries (`Describes`), which a swap does not change.

`ShardedProofs` proves `ChannelsStayExclusive`, `WorkersDoNotBlock` and
`TypeCorrect` for `ShardedCache`. `ChannelsExclusive` alone is not inductive:
that a pooled channel is empty holds because a response is on its way only to a
caller that waits for it. The invariant follows a request through its life.
`QueuesAwaited` and `SendingAwaited` say that whoever has a request in a queue, or
a response in the making, waits on its channel, for that worker, and has not been
answered; `QueuedOnce` and `SendingUnqueued` that a request is in one place only;
`BuffersAwaited` that an answer is somebody's. Two workers cannot have the same
channel because its one holder waits for one of them. As the handlers are
constants, the theorems hold for whatever `handleRequest` computes.

`ShardedImplementsAtomic` is the refinement of `AtomicCache`, from the same invariant.
The refinement mapping looks for a response among all workers; `OneSends` and `Seen`
show that it is in one of three places, in a fixed order (`CallSeen`): the caller's
hand, its channel, the worker whose turn it is. `Mapped` is the abstract state this
gives. One lemma per action says what it does to `Mapped`, mostly nothing
(`ReceiveSees`, `RespondSees`, ...), and `StepSeen` puts them together.

`CasAlwaysWonOnce` and `FlushAlwaysHides` are about the shards of tokens of
`ShardedHistory`: their hypothesis `ShardsOfTokens` says that the constants of
`Shards` stand for these, with any keys, hashes, workers and callers
(`MCShardedHistory` has TLC confirm it of the instance it runs). They are proved over
`Mapped`, that is, over calls that are atomic, and not over channels and queues; the
invariant `Promised` has a part for each. `CasOK`: once a cas has taken effect its token is
`Spent`, neither the key's nor above the last one issued, and it has been counted or
there is exactly one caller still to be told (`Untold`). `FlushOK`, `FloorOK`, `GetOK`:
a flush leaves behind workers that hold nothing from before it was called (`Cleared`),
and they remain so. Both rest on `Grows`: no step of a shard brings an old token back.

`RoutingProofs` shows of every hash function, number of workers and limit:
where `int` is wider than the hash, a key is routed to a worker that exists
(`RoutedInRange`); where it is as narrow, the upper half of the hashes give no
positive index (`NarrowIntNotPositive`); the shares of the workers fit the limit
(`SharesFitLimit`), and a limit below one byte per worker is lost altogether, as a
worker takes a share of 0 for none (`ShareLostWhenTiny`).

`BytesProofs` shows that counting and appending yield values: a sum stays within
64 bits, whatever their number.

`ServerProofs` proves `TypeCorrect`, `CounterStaysExact` and `LimitAlwaysHolds`. The number the
accept loop has loaded may be out of date when it decides; `LoadedIsUpperBound` says
in which direction: only the accept loop increments, so the counter can only have
become smaller. `Waiting` says that a connection the loop decides upon has no
goroutine yet, without which admitting it would not add one.

`ConnectionProofs` proves `TypeCorrect`, `TellsIssuedAlways`, `NoBlindCasEver`,
`BuffersAlwaysExclusive`, `AnsweredOnceEver`, `InStepAlways`, `WithheldAlwaysKnown` and
`ExpiryAlwaysKept` for any number of clients of both protocols, any commands
and any number of keys and buffers. What has been told is not inductive: a handler
tells what it has picked up some steps before. `Good` says of a value and a token in
anybody's hands that they may be told, and `Holds` that those of a handler between
its call and its response are. `GoodStays` carries this over every step of everybody
else, and rests on `Advances`: the cache only adds to what is on record, writes into
no slice an entry has had, and never gives an entry a token of old. One lemma per
way of changing the cache shows that it advances (`PutAdvances`, `RenewAdvances`,
`DropAdvances`, `FillAdvances`); the step of one goroutine then preserves the
invariant if its own locals are in order (`StepKeeps`). That a binary store tells the
value it has put needs `BinaryOK`: between the reading of the body and the call the
buffer still holds the message, as no one else may have it (`PoolOK`).

A second invariant, `ConnOK`, is about one connection at a time. Its `Stream` is all
that is on the way to the goroutine, buffered or not: commands of the connection's
protocol (`Spoken`), in order (`InOrder`, `Paired`): each data block is behind its line,
but for the one the client still owes, and on a connection that is not `astray` nothing
but a refused line has a data block behind it. What is put back of a block keeps that
order, since a block has no data behind it (`PairedPrefix`, `Taken`). `Synced` relates
the head of the stream to where the goroutine is: a handler that waits for data has its
own before it, astray or not, because what clients send is in order in any case; one
that works on a command has no data before it, unless nothing will come any more
(`Over`) or the connection is astray. `Replied` counts the answers of a command by the
time it is done with (`AnswersDue`), and `Flushed` says what may be in the writer when
the stream has run dry. A step that concludes a command (`Concludes`) or goes on with it
(`Proceeds`) is checked for all handlers; steps of others leave the connection alone
(`OnlyHere`). `ExpiryAlwaysKept` has an invariant of
its own, that every expiry that is stored is in order (`Lasts`), one lemma per way of
changing the cache.

The assumptions are the named `ASSUME`s of `Bytes`, `Entries`, `Worker`, `ExpiryHeap`,
`Shards`, `ShardedCache`, `Routing`, `Server` and `Connection`: types of the constants,
that a handler maps shards to shards, that hashes and `int` have the widths named
above, that buffers are not tokens, and that whatever lines are read out of a data block
are commands of the text protocol, any of them.

Only model-checked: everything that needs fairness (`ExpiredReclaimed`, `HandlersReturn`, `CallsReturn`,
`CloseReturns`, `DialsAnswered`, `PlacesComeBack`, `RepliesArrive`, `ServingEnds`), which is out
of the prover's reach.

## 5. Not modelled, and the plan

Not modelled:

- `Stats`: it reads a worker's index pointer and map length from the caller's
  goroutine while the worker changes them. It changes nothing and promises a number.
- Two concurrent `Close` calls: `Stop` tests and sets `running` without
  synchronisation, so both may close the channel. `main` closes the cache once.
- Statuses, wording and layout of responses: the models say that, when and with
  which token and value a command is answered.
- `cmd/tqmemory` and `internal/config`: flags and a file are turned into the fields
  that are constants here. After the start they have no state, and the end of the
  program is the `Close` that `ShardedCache` models.
- The pprof server, the benchmarks and the Perl tests, which are not part of the cache.

The plan: a second closer, and a `Stats` that reads one worker after the other.
