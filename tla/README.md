# A TLA+ model of darner

darner is a message queue server that speaks the memcache protocol. Each queue
is a leveldb journal; clients `set` items, in one chunk or several, and `get`
them, reliably if they wish (`get q/open`, then `/close` or `/abort`), and may
wait for an item up to a timeout. This directory models the queue, the streams
that use it and the server around them, checks the models with TLC and proves
the main safety properties of the queue with TLAPS. Paths are relative to the
directory that holds `src/`.

## The system

| Part | Source | State | Operations |
|---|---|---|---|
| queue | `src/src/queue/queue.cpp`, `queue.h` | journal, `queue_head_`, `queue_tail_`, `chunks_head_`, `items_open_`, `bytes_evicted_`, `returned_`, `waiters_`, `wake_up_it_`, `destroy_` | constructor, wait, destroy, count, push, pop_begin, pop_read, pop_end, reserve/write/read/erase chunks, wake_up, waiter_wakeup, compact |
| oqstream | `src/src/queue/oqstream.cpp` | queue, header, `chunk_pos_`, `sync_` | open, write, cancel, destructor |
| iqstream | `src/src/queue/iqstream.cpp` | queue, id, header, `chunk_pos_`, `tell_` | open, read, close, destructor |
| journal | leveldb (external) | queue keys, chunk keys | Put, Get, Write of a batch, iterators, CompactRange |
| handler | `src/src/net/handler.cpp`, `handler.h` | one push and one pop stream, request, buffers | get, set, flush, flush_all, delete, stats, version, the callbacks of its reads, writes and waits |
| queue_map | `src/include/darner/util/queue_map.hpp` | name to queue, the data directory | constructor, `[]`, erase (with or without recreate) |
| request parser | `src/src/net/request.cpp` | none | parse |
| stats | `src/include/darner/util/stats.hpp` | counters | increments, write |
| server | `src/include/darner/net/server.hpp` | acceptor, next handler, thread | constructor, handle_accept, stop |
| main, log, bench | `src/src/main.cpp`, `src/src/util/log.cpp`, `src/bench/db.cpp` | none that matters | options and signals, log lines, load |

One thread runs the `io_service`, so a callback (the handler of a read, a write,
an accept or a timer) runs to its end before the next starts. Concurrency is
between callbacks: while a client's next chunk, next request or timer is
awaited, any other client's callbacks run on the same queue. What makes this
hard:

* an item that was popped is neither in the queue nor gone until its consumer
  closes it; returned items are delivered again, before younger ones;
* an item of several chunks is written by several calls, between which other
  producers write, and anything may fail; its chunks and its header are
  separate writes;
* the waiters form a list with an iterator into it; waiters leave it in any
  order, woken or timed out, and a cancelled timer's handler runs later than
  the cancellation;
* nothing but the keys survives a crash: the constructor rebuilds head, tail
  and chunk head from them;
* `flush` and `delete` take a queue out of the map while clients still hold,
  push to or wait on it; it lives on under a renamed directory until the last
  of them lets go.

`PROJECT.json` lists the hazards line by line, with the properties that would
catch each.

## Modules

| Module | What it is |
|---|---|
| `ItemCodec` | `push`'s escape, the header's bytes, and `pop_read`'s recognition of both |
| `Queue` | one operator per method of `queue`, from a queue object (a record with the class's fields) to the object the method leaves |
| `Streams` | what the two streams compute from their fields and their queue |
| `QueueStreams` | one queue, an oqstream per producer and an iqstream per consumer, waiters and their timers, crashes and failing writes; the properties of ids and waiters |
| `QueueBodies` | the properties of items' bytes and chunks, and the refinement mapping to `ReliableQueue` |
| `ReliableQueue` | what the queue promises: a first-in first-out store with one holder per item and confirmed removal |
| `QueueReopen` | `QueueStreams`, and restarts from the journals that the constructor does not foresee |
| `Server` | connections and their handlers, the queue map, several queue objects and the data directory, the end of the process and its restart |
| `QueueInvariant` | the inductive invariant |
| `CodecProofs`, `QueueLemmas`, `QueueProofs` | the proofs |
| `MCItemCodec`, `MCQueueStreams`, `MCQueueReopen`, `MCServer` | instances for TLC |

### Correspondence with the code

A queue object's fields are those of the class, without the underscore. The
journal is a pair of maps, `items` for queue keys and `chunks` for chunk keys,
which stand for leveldb ordered by `key_type::compare`. `wake_up_it` is the
position in the list that the iterator points to, one past the last for
`end()`; the iterator of a `ptr_list` follows its element when another leaves,
so a position behind a waiter that leaves moves up by one. A waiter's timer is
`armed`, or its handler is queued because it `expired` or was `cancelled`;
`cancel` has no effect on a timer whose handler is already queued.

A call of a stream is one action of `QueueStreams`: `OqOpen`, `OqWriteItem`,
`OqWriteChunk`, `OqWriteLastChunk`, `OqCancel` (also the destructor),
`IqOpen`, `IqRead`, `IqCloseErase`, `IqCloseReturn` (also the destructor, an
abort, a peek and a failed read). `IqOpenWait` is `handler::get` that finds no
item and waits; `WaiterWakeup` is the timer's handler up to the item that
`handler::get_on_queue_return` opens; `TimerExpires` is the deadline. The
handler calls `open` and the first `read` in one callback and a client may
interleave only at certain points; the model allows more interleavings than
the handler does, never fewer.

`Server` uses the same operators on a heap of queue objects. Its steps are the
callbacks themselves: `SetRequest`, `SetChunk`, `SetBadChunk`, `GetRequest`,
`ValueWritten` (`get_on_write_chunk`), `WaiterWakeup` (the timer's handler,
`get_on_queue_return` and the second `get`), `Flush`, `Delete`, `FlushAll`,
`Connect`, `BadRequest`, `ConnectionEnds` (a socket error, a close, the end of a
hang-up; the destructors of the streams run). A handler's `state` is the
callback it waits for. While it waits on a queue it does not look at its
socket, so a client that is gone is noticed later. `Done` ends every callback:
a queue object that the map, the streams and the waiters' timers no longer
refer to is destructed, and its directory removed. All directories are opened
when the process starts, so every directory has an object; leveldb's lock is
`Unopenable`, and as no handler catches the `runtime_error` the process then
`Ends`. A path is a sequence, a name and the numbers that `destroy()` appended;
a client's name may be such a path. `flush_all` is undefined from its first
`erase` on, and `FlushAll` chooses among the outcomes: some queues are removed,
in any order; after each removal a queue is created under the old name, under a
name of garbage (what may be left of the freed key; the constant `Garbage`) or
not at all; and the process goes on or ends. `cut` is history.
Failing writes are in `QueueStreams` and not repeated in `Server`.

Failures: `"io"` lets the push of a header (`OqWriteHeaderFails`) and the
erasure of a cancelled push (`OqCancelFails`) fail. A failure of any other
write leaves all state as it was, so it needs no action. `"crash"` kills the
process, `"power"` the machine: `disk` is the set of journals that may be found
afterwards, which for a power failure are the log's prefixes since the last
synchronous write. That a synchronous write makes all earlier ones durable is
an assumption about leveldb's log. `Crash` restarts from the journals that the
constructor foresees (`Reopenable`): those with an item, and the empty one. A
journal with chunks and no item is left to `QueueReopen` and the run `reopen`;
nothing else that is checked or proved here speaks of what follows it.

`pop_begin` tests the two ids with `!=` and `waiter_wakeup` with `<`
(`pop_begins`, `can_pop`); the proofs show that the two agree, as the tail never
passes the head.

`ImplementsReliableQueue` takes the journal's items for the store, each with the
body its producer wrote; that a reader of the journal gets just that body is
`BodyIntact`, which the run `crash` checks beside it.

History variables (`accepted`, `synced`, `sent`, `got`) record what producers
wrote and consumers read; no action's guard looks at them.

The bytes of an item matter only for the codec: three byte values (0, 1, any
other) and short strings. The three 64-bit fields of a header are one element
each, as the code moves them as one block. `compact()` keeps every key and is
represented by the reset of `bytes_evicted`. The 64-bit ids do not overflow in
any reachable use and are naturals below a bound. The empty item is in
`ItemCodec` only (the code reads one byte before its buffer; the model lets
that byte be anything); the TLC instances of `QueueStreams` push others.

## Runs

Bounds: `MaxQueues` queue objects, `MaxPath` the length of the names that
`flush_all` removes (each crash after one adds a suffix), `MaxItems` pushes,
`MaxChunkIds` chunk ids, `MaxChunks` chunks in an item, `CompactAt` bytes before a compaction (33554432 in the code).

| Run | Checks | Instance | Result |
|---|---|---|---|
| `codec_zero` | `ZeroEndedRoundTrip` | all strings of up to 4 bytes over {0, 1, 2} and headers with ids up to 3 | violated by the item of one zero byte |
| `streams` | `TypeOK`, `SoleOwner`, `CountIsItems`, `BodyIntact`, `NoLeakedChunk`, `ReadsWhatWasPushed` | 2 producers, 2 consumers, no faults | pass |
| `crash` | `IndInv`, `NoItemStranded`, `BodyIntact`, `ReadsWhatWasPushed`, `ImplementsReliableQueue` | 1 producer, 2 consumers, 3 items, 4 chunk ids, crashes (but those of `reopen`) and failing writes | pass |
| `power` | `BodyIntact`, `SyncedSurvives` | 1 producer, 1 consumer, 2 items, 3 chunk ids, power failures (but those of `reopen`) and failing writes | pass |
| `waiters` | `NoLostWakeup`, `WaiterServed` | 3 consumers, 3 one-chunk items | pass |
| `timeout` | `TimeoutAtDeadline` | 2 consumers, 2 one-chunk items | violated |
| `reopen` | `ReopensAnyJournal` | crashes, journals without items | violated |
| `server` | `ServerTypeOK`, `ItemHeldOnce`, `ItemsReachable`, `ChunksOwned`, `OneCallback`, `StaysUp` | 2 clients, 1 name, 2 queue objects, items of 1 and 2 chunks, all options of `get`, `flush`, `delete` | pass |
| `server_restart` | `OneJournalEach`, `ItemsReachable` | 2 clients, the names `q` and `q.0`, 3 queue objects, 1 item id each, `delete`, `flush_all`, crashes and stops | pass |
| `delivery` | `ItemsDelivered` | one client that keeps asking and one that does as it likes, 3 items of 1 or 2 chunks, no faults | pass |
| `holes` | `ItemsDelivered` | the same two clients, 3 one-chunk items, crashes | violated |
| `halfway` | `HalfwayItemAppears` | 3 clients, `flush` | violated |

Why the bounds are enough for the cases that matter: two chunks and two items
of them let ranges interleave, one be cancelled or erased while another is
read, and a restart reuse ids behind a surviving item; two consumers are enough
to contend for a returned item, three for one to time out between two others
in the list of waiters; chunks are an ordinary byte and a string that ends like
a header's trailer. For the server, two objects are a removed queue and its
successor; three let two removed ones of a name exist beside a new one, and
`q.0` lets a client's name meet a renamed directory. Three items are the fewest
for an erased id between two stored ones, which `crash` and `holes` have and
`server_restart`, with one id for each queue, has not: it is about directories
and names. `crash` is the instance in which two items of two chunks, or an item
and the chunks of a failed push, are in the journal across a restart. Clients
and consumers are symmetric in every run that declares it so.

What the violations show, each the shortest behaviour TLC finds:

* `codec_zero`: `pop_read` looks for an escape only in strings longer than two
  bytes, so `"\0"`, stored as `"\0\0"`, is read as two bytes.
* `timeout`: a push wakes a waiter; before the cancelled timer's handler runs,
  another client pops the item; the waiter is told *timeout* though its
  deadline is still ahead.
* `reopen`: the first chunk of a first item is written and the process dies.
  The constructor's `Seek` finds the chunk, `Prev` steps before it, and the key
  is read from an iterator that is not valid.
* `holes`: item 0 is held (`/open`) while 1 is taken and 2 is pushed, and the
  process crashes. Afterwards the queue runs from 0 to 2. Item 0 is delivered;
  the next `get` pops id 1, finds no key, answers an error and hangs up; the
  destructor returns id 1, which is the first to be popped by the next `get`,
  and so on for ever. Item 2 is never delivered.
* `halfway`: a client waits, another is in the middle of a `set`, a third
  flushes. The end of the `set` wakes the waiter of the removed queue, whose
  `get` looks the name up again, finds the new queue empty and waits there; the
  item goes with the removed queue.

Four consequences of the code that the models contain and no run singles out:

* after a restart `count()` also counts the erased ids that `holes` is about;
* a command on `q.0`, while a removed `q` lives on under that path, cannot open
  the directory, and the exception ends the process (`StaysUp` is checked for
  names that are not renamed paths; `server_restart` goes on after the end);
* `flush_all` reads the name it creates a queue under from the entry it freed,
  and goes on from an iterator to it, so any of the queues may remain and one of
  a meaningless name appear;
* a removed queue that a client holds at a crash is loaded again at the
  restart, under its renamed path.

### Fairness

`LiveSpec` assumes weak fairness of `WaiterWakeup(c)` only: asio runs the
handler of a timer that expired or was cancelled. No client has to do anything
and no deadline has to come. Under it, `WaiterServed` says that a consumer does
not wait for ever beside an item.

`PollSpec` assumes that the client `Poller` goes on (it asks again when it has
its answer and connects again when it was hung up on, and asio completes its
reads and writes), that a connection ends once the error it is hung up with is
written, and that the process is started again when it ended.
`ItemsDelivered` is conditional on the process staying up at last. Nothing is
assumed of the other clients.

## Proofs

`CodecProofs` proves, for strings and headers of any size, that `pop_read`
restores what `push` wrote (`ItemsAreRestored`, `HeadersAreRestored`); the
first excepts the empty item and the single zero byte.

`QueueProofs` proves `Spec => []Inv` for `TypeOK`, `SoleOwner`,
`NoItemStranded` and `NoLostWakeup`, for any producers, any finite set of
consumers, any chunks, any bounds and any faults, with restarts from the
journals that the constructor foresees. None of the last three is inductive. `IndInv` (module `QueueInvariant`) adds

* `Layout`, the comment in `queue.h` made precise: returned and held ids are
  disjoint and below the tail, and an item of the journal is returned, held, or
  between tail and head. Without it a pop could be given an id that is held;
* `Wakeups`: the waiters before the iterator are awake, and unless it is at the
  end they are at least as many as the items. `NoLostWakeup` follows by
  counting;
* `WaitersHoldNothing`: a consumer waits at most once, and not with an item
  open; it makes a woken consumer free to open one;
* `WithinReserved`: an open oqstream is inside a range that was reserved, which
  keeps chunk ids in their type.

`QueueLemmas` says what each method of the queue does to these facts, in terms
of an arbitrary queue object; `QueueProofs` has one lemma per action, which
cites the lemma of the method it calls, and combines them. TLC checks `IndInv`
in the run `crash`.

The assumptions are `CompactAtAssumption` and `StreamsAssumption`: the bounds
are naturals, chunks are strings of naturals, and the consumers are finitely
many.

Only model-checked: the properties of bodies and chunks (`BodyIntact`,
`NoLeakedChunk`, `ReadsWhatWasPushed`, `SyncedSurvives`), `CountIsItems`, the
refinement `ImplementsReliableQueue`, the invariants of `Server`, and liveness
(`WaiterServed`, `ItemsDelivered`), which is outside of what the prover does.

## Plan

Done: the queue, its streams, the codec, waiting, crashes; the server's
commands, the queue map and restarts; the proof of the queue's invariant. Next,
in this order:

1. Proofs: `BodyIntact` and `NoLeakedChunk` with the ownership of chunk ranges
   as the invariant; the invariant of `Server` (`OneJournalEach`,
   `ItemHeldOnce`, `ItemsReachable`), for which `QueueLemmas` already says what
   each method does to a queue object; then the step part of
   `ImplementsReliableQueue`.
2. The accept loop, the counters of `stats` against the queues' contents,
   failing writes in `Server`, and `compact()`'s ranges.
3. A refinement from `Server` to one `ReliableQueue` per name.

Not planned: the request grammar (`request.cpp`) has no state, and the text of
replies, logging, options and signals are input and output around the parts
above.
