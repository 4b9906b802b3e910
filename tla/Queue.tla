-------------------------------- MODULE Queue --------------------------------
(***************************************************************************)
(* darner::queue: one operator per method, from a queue object to the      *)
(* object the method leaves behind.  A specification that uses a queue     *)
(* holds the object in a variable, so that one handler of the server can   *)
(* call several methods in one step and a server can hold several queues.  *)
(*                                                                         *)
(* A queue object is a record with the fields of the class:                *)
(*   journal        what leveldb holds: items maps the id of a queue key   *)
(*                  to its string, chunks the id of a chunk key to its     *)
(*   queue_head     the id of the next item to be pushed                   *)
(*   queue_tail     the id of the next item to be popped for the first time*)
(*   chunks_head    the id of the next chunk to be reserved                *)
(*   items_open     how many items are popped and not finished             *)
(*   bytes_evicted  bytes erased since the journal was last compacted      *)
(*   returned       ids below the tail that were popped and given back     *)
(*   waiters        the list of waiters, the oldest first; cb is the client*)
(*                  to call back, timer is "armed", or has its handler     *)
(*                  queued because it "expired" or was "cancelled"         *)
(*   wake_up_it     the position of the next waiter to wake, or the        *)
(*                  position after the last (waiters_.end())               *)
(***************************************************************************)
EXTENDS ItemCodec, FiniteSetsExt, Functions

CONSTANT CompactAt \* bytes evicted before a compaction: 33554432 in the code

ASSUME CompactAtAssumption == CompactAt \in Nat

(* f is a partial function from I to S. *)
IsPartial(f, I, S) == DOMAIN f \subseteq I /\ f \in [DOMAIN f -> S]

With(f, k, v) == [x \in DOMAIN f \cup {k} |-> IF x = k THEN v ELSE f[x]]

Without(f, D) == Restrict(f, DOMAIN f \ D)

EmptyJournal == [items |-> [id \in {} |-> <<>>], chunks |-> [id \in {} |-> <<>>]]

ChunkIds(h) == h.beg .. (h.end - 1)

(***************************************************************************)
(* The constructor.  The tail is the first queue key, the head is one past *)
(* the last one, and the chunk head is one past the last chunk.            *)
(*                                                                         *)
(* A journal with chunks and no queue key is outside of what the           *)
(* constructor handles (it reads a key from an iterator that is not valid),*)
(* and outside of this definition: QueueReopen is about those.             *)
(***************************************************************************)
Reopenable(j) == DOMAIN j.items = {} => DOMAIN j.chunks = {}

(* Mutants of recover: the head is the last queue key, or the chunk head is  *)
(* the last chunk, instead of one past it.                                   *)
recover_head_low(j) ==
    LET After(ids) == IF ids = {} THEN 0 ELSE Max(ids) + 1 IN
    [journal |-> j, queue_head |-> IF DOMAIN j.items = {} THEN 0 ELSE Max(DOMAIN j.items),
     queue_tail |-> IF DOMAIN j.items = {} THEN 0 ELSE Min(DOMAIN j.items),
     chunks_head |-> After(DOMAIN j.chunks), items_open |-> 0, bytes_evicted |-> 0,
     returned |-> {}, waiters |-> <<>>, wake_up_it |-> 1]

recover_chunks_head_low(j) ==
    LET After(ids) == IF ids = {} THEN 0 ELSE Max(ids) + 1 IN
    [journal |-> j, queue_head |-> After(DOMAIN j.items),
     queue_tail |-> IF DOMAIN j.items = {} THEN 0 ELSE Min(DOMAIN j.items),
     chunks_head |-> IF DOMAIN j.chunks = {} THEN 0 ELSE Max(DOMAIN j.chunks),
     items_open |-> 0, bytes_evicted |-> 0,
     returned |-> {}, waiters |-> <<>>, wake_up_it |-> 1]

recover(j) ==
    LET After(ids) == IF ids = {} THEN 0 ELSE Max(ids) + 1 IN
    [journal       |-> j,
     queue_head    |-> After(DOMAIN j.items),
     queue_tail    |-> IF DOMAIN j.items = {} THEN 0 ELSE Min(DOMAIN j.items),
     chunks_head   |-> After(DOMAIN j.chunks),
     items_open    |-> 0,
     bytes_evicted |-> 0,
     returned      |-> {},
     waiters       |-> <<>>,
     wake_up_it    |-> 1]

count(q) == (q.queue_head - q.queue_tail) + Cardinality(q.returned)

-----------------------------------------------------------------------------
(* Waiters.                                                                  *)

WaitersEnd(q) == Len(q.waiters) + 1

cancel(timer) == IF timer = "armed" THEN "cancelled" ELSE timer

wake_up(q) ==
    IF q.wake_up_it = WaitersEnd(q) THEN q
    ELSE [q EXCEPT !.waiters[q.wake_up_it].timer = cancel(@), !.wake_up_it = @ + 1]

(* Mutant of wait: the new waiter is put behind the iterator's end. *)
wait_behind_end(q, client) ==
    [q EXCEPT !.waiters = Append(@, [cb |-> client, timer |-> "armed"]),
              !.wake_up_it = IF @ = WaitersEnd(q) THEN @ + 1 ELSE @]

(* wait: the new waiter is the next to wake if every other one is awake.     *)
wait(q, client) ==
    LET it == Len(q.waiters) + 1 IN
    [q EXCEPT !.waiters = Append(@, [cb |-> client, timer |-> "armed"]),
              !.wake_up_it = IF @ = WaitersEnd(q) THEN it ELSE @]

(* The deadline of the waiter at position it passes: asio queues its handler. *)
expire(q, it) == [q EXCEPT !.waiters[it].timer = "expired"]

(* ptr_list::release: the list without its element at position i.           *)
release(s, i) == SubSeq(s, 1, i - 1) \o SubSeq(s, i + 1, Len(s))

(* Mutant of waiter_wakeup: the iterator does not follow the shorter list. *)
waiter_wakeup_stale(q, it) ==
    LET next == IF it = q.wake_up_it THEN q.wake_up_it + 1 ELSE q.wake_up_it IN
    [q EXCEPT !.waiters = release(@, it), !.wake_up_it = next]

(***************************************************************************)
(* waiter_wakeup: the iterator steps off the waiter before it leaves the   *)
(* list, and a position after the waiter's moves up by one.  The waiter is *)
(* then called back, with success iff can_pop holds.                       *)
(***************************************************************************)
waiter_wakeup(q, it) ==
    LET next == IF it = q.wake_up_it THEN q.wake_up_it + 1 ELSE q.wake_up_it IN
    [q EXCEPT !.waiters = release(@, it),
              !.wake_up_it = IF it < next THEN next - 1 ELSE next]

can_pop(q) == q.returned # {} \/ q.queue_tail < q.queue_head

-----------------------------------------------------------------------------
(* Pushing.  value is what escape or header_str gives for the item.          *)

put_item(q, id, value) == [q EXCEPT !.journal.items = With(@, id, value)]

push(q, value) ==
    wake_up([put_item(q, q.queue_head, value) EXCEPT !.queue_head = @ + 1])

(* Mutant of reserve_chunks: the head does not move past the range. *)
reserve_chunks_short(q, n) == [q EXCEPT !.chunks_head = @ + n - 1]

reserve_chunks(q, n) == [q EXCEPT !.chunks_head = @ + n]

reserved_header(q, n) ==
    [beg |-> q.chunks_head, end |-> q.chunks_head + n, size |-> 0]

write_chunk(q, chunk, id) == [q EXCEPT !.journal.chunks = With(@, id, chunk)]

erase_chunks(q, h) == [q EXCEPT !.journal.chunks = Without(@, ChunkIds(h))]

-----------------------------------------------------------------------------
(* Popping.                                                                  *)

(* Mutant of pop_begin_id: the item returned that is the newest. *)
pop_begin_id_newest(q) ==
    IF q.returned # {} THEN Max(q.returned) ELSE q.queue_tail

(* Whether pop_begin finds an item.                                          *)
pop_begins(q) == q.returned # {} \/ q.queue_tail # q.queue_head

(* pop_begin: the smallest returned item first, then the tail's.             *)
pop_begin_id(q) == IF q.returned # {} THEN Min(q.returned) ELSE q.queue_tail

(* Mutant of pop_begin: a returned item stays in the returned set. *)
pop_begin_kept(q) ==
    IF q.returned # {} THEN [q EXCEPT !.items_open = @ + 1]
    ELSE [q EXCEPT !.queue_tail = @ + 1, !.items_open = @ + 1]

pop_begin(q) ==
    IF q.returned # {}
    THEN [q EXCEPT !.returned = @ \ {pop_begin_id(q)}, !.items_open = @ + 1]
    ELSE [q EXCEPT !.queue_tail = @ + 1, !.items_open = @ + 1]

pop_read(q, id) == unescape(q.journal.items[id])

(* Mutants of pop_end_erase: no reset after a compaction; the test for       *)
(* several chunks is off by one.                                             *)
pop_end_erase_no_reset(q, id, h) ==
    [q EXCEPT !.journal.items = Without(@, {id}),
              !.journal.chunks = IF h.end > 1 THEN Without(@, ChunkIds(h)) ELSE @,
              !.bytes_evicted = @ + h.size,
              !.items_open = @ - 1]

pop_end_erase_off_by_one(q, id, h) ==
    LET evicted == q.bytes_evicted + h.size IN
    [q EXCEPT !.journal.items = Without(@, {id}),
              !.journal.chunks = IF h.end > 2 THEN Without(@, ChunkIds(h)) ELSE @,
              !.bytes_evicted = IF evicted > CompactAt THEN 0 ELSE evicted,
              !.items_open = @ - 1]

(* pop_end with erase: one batch deletes the item's key and its chunks.      *)
pop_end_erase(q, id, h) ==
    LET evicted == q.bytes_evicted + h.size IN
    [q EXCEPT !.journal.items = Without(@, {id}),
              !.journal.chunks = IF h.end > 1 THEN Without(@, ChunkIds(h)) ELSE @,
              !.bytes_evicted = IF evicted > CompactAt THEN 0 ELSE evicted,
              !.items_open = @ - 1]

(* Mutants of pop_end_return: no waiter is woken; the item is forgotten. *)
pop_end_return_silent(q, id) ==
    [q EXCEPT !.returned = @ \cup {id}, !.items_open = @ - 1]

pop_end_return_lost(q, id) == [wake_up(q) EXCEPT !.items_open = @ - 1]

(* pop_end without erase: the item is returned, and one more waiter woken.   *)
pop_end_return(q, id) ==
    [wake_up([q EXCEPT !.returned = @ \cup {id}]) EXCEPT !.items_open = @ - 1]

==============================================================================
