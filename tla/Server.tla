------------------------------- MODULE Server --------------------------------
(***************************************************************************)
(* The server: clients' connections (handler), the map from names to       *)
(* queues (queue_map) and the queue objects, of which a removed one lives  *)
(* on until the last connection lets go of it.                             *)
(*                                                                         *)
(* A step is one callback of the io_service, from a request, a chunk, a    *)
(* finished write or a timer to the next asynchronous call it starts.      *)
(*                                                                         *)
(* A path is a sequence: a name, and the numbers that destroy() appended   *)
(* to it.  A queue's name is the path of its directory below the data      *)
(* directory, so a client's name may look like a renamed path.             *)
(***************************************************************************)
EXTENDS Streams, SequencesExt

CONSTANTS
    Clients,
    Poller,       \* the client that keeps asking, see PollSpec
    Names,        \* the queue names that clients use
    Garbage,      \* a name that no client uses, see FlushAll
    Chunk,        \* the chunk that clients send
    GetOptions,   \* the sets of options of get: open, close, abort, peek, t
    Removals,     \* the commands of clients that remove queues
    Faults,       \* how the process may end: "crash", "stop"
    MaxQueues,    \* bound: queue objects
    MaxPath,      \* bound: length of the names that flush_all removes
    MaxChunks,    \* bound: chunks in an item
    MaxItems,     \* bound: item ids of a queue
    MaxChunkIds   \* bound: chunk ids of a queue

ASSUME ServerAssumption ==
    /\ IsFiniteSet(Clients) /\ Poller \in Clients
    /\ Names \subseteq Seq(Nat) \ {<<>>}
    /\ Garbage \in Seq(Nat) \ (Names \cup {<<>>})
    /\ Chunk \in Seq(Nat) /\ Storable(Chunk)
    /\ GetOptions \subseteq SUBSET {"open", "close", "abort", "peek", "t"}
    /\ Removals \subseteq {"flush", "delete", "flush_all"}
    /\ Faults \subseteq {"crash", "stop"}
    /\ MaxPath \in Nat
    /\ MaxQueues \in Nat \ {0} /\ MaxChunks \in Nat \ {0}
    /\ MaxItems \in Nat /\ MaxChunkIds \in Nat

VARIABLES
    up,      \* the process runs
    queues,  \* queue_map: from names to references of queue objects
    heap,    \* from references to queue objects, with their path, their destroy
             \* flag and, as history, cut: the head when they were removed
    conn     \* the handler of each client

vars == <<up, queues, heap, conn>>

(* The reference of a stream that is not open. *)
NoRef == 0

ClosedPush == [ref |-> NoRef, header |-> DefaultHeader, chunk_pos |-> 0]

ClosedPop == [ref |-> NoRef, id |-> 0, header |-> DefaultHeader, chunk_pos |-> 0,
              tell |-> 0]

(***************************************************************************)
(* A handler, by the callback it waits for:                                *)
(*   none     there is no connection                                       *)
(*   request  a reply is being written, or the next request read           *)
(*   data     set reads a chunk                                            *)
(*   waiting  get waits on a queue                                         *)
(*   value    get writes a chunk of an item that has more to come          *)
(*   hangup   an error is being written, and then the connection ends      *)
(* name and opts are those of the get that waits or writes.                *)
(***************************************************************************)
Handler(state) == [state |-> state, name |-> <<>>, opts |-> {},
                   push |-> ClosedPush, pop |-> ClosedPop]

(* The handler once it has replied; an open item stays open. *)
Replied(k) == [Handler("request") EXCEPT !.pop = k.pop]

Init ==
    /\ up = TRUE
    /\ queues = [n \in {} |-> NoRef]
    /\ heap = [r \in {} |-> NoRef]
    /\ conn = [c \in Clients |-> Handler("none")]

-----------------------------------------------------------------------------
(* queue_map and the data directory.  s is the map and the heap in the       *)
(* middle of a callback.                                                     *)

Store == [queues |-> queues, heap |-> heap]

WithQueue(s, r, o) == [s EXCEPT !.heap[r].queue = o]

(* Every directory belongs to an object: all are opened at the start.        *)
Paths(s) == {s.heap[r].path : r \in DOMAIN s.heap}

NewRef(s) == Min((1 .. MaxQueues) \ DOMAIN s.heap)

HasRoom(s) == (1 .. MaxQueues) \ DOMAIN s.heap # {}

create(s, name) ==
    [queues |-> With(s.queues, name, NewRef(s)),
     heap   |-> With(s.heap, NewRef(s), [queue |-> recover(EmptyJournal),
                                         path |-> name, destroy |-> FALSE,
                                         cut |-> 0])]

(* leveldb locks a directory: a second object cannot open it, and the        *)
(* constructor throws an exception that no handler catches.                  *)
Unopenable(s, name) == name \notin DOMAIN s.queues /\ name \in Paths(s)

(* operator[] *)
lookup(s, name) == IF name \in DOMAIN s.queues THEN s ELSE create(s, name)

(* Mutants of renamed: destroy() takes the first suffix without a look, or   *)
(* leaves the directory where it is.                                         *)
renamed_blindly(s, path) == Append(path, 0)

renamed_not(s, path) == path

(* The first of path.0, path.1, ... that does not exist.                     *)
renamed(s, path) ==
    LET free == {i \in 0 .. Cardinality(Paths(s)) : Append(path, i) \notin Paths(s)}
    IN  Append(path, Min(free))

(* queue::destroy *)
destroy(s, r) ==
    IF s.heap[r].destroy THEN s
    ELSE [s EXCEPT !.heap[r].path = renamed(s, @), !.heap[r].destroy = TRUE,
                   !.heap[r].cut = s.heap[r].queue.queue_head]

(* queue_map::erase *)
erase(s, name, recreate) ==
    LET d == destroy(s, s.queues[name])
        e == [d EXCEPT !.queues = Without(@, {name})]
    IN  IF name \notin DOMAIN s.queues THEN s
        ELSE IF recreate THEN create(e, name) ELSE e

-----------------------------------------------------------------------------
(* The end of a callback                                                     *)

(* Mutant of Referenced: an open pop stream does not keep its queue. *)
Referenced_weakly(s, hs) ==
    Range(s.queues) \cup {hs[c].push.ref : c \in Clients}
        \cup {r \in DOMAIN s.heap : s.heap[r].queue.waiters # <<>>}

(* Who holds a queue: the map, open streams, and timers of waiters.          *)
Referenced(s, hs) ==
    Range(s.queues) \cup {hs[c].push.ref : c \in Clients}
        \cup {hs[c].pop.ref : c \in Clients}
        \cup {r \in DOMAIN s.heap : s.heap[r].queue.waiters # <<>>}

(***************************************************************************)
(* The callback leaves the store s and c's handler k.  A queue that nobody *)
(* holds any more is destructed: it can only be a removed one, and its     *)
(* directory goes with it.                                                 *)
(***************************************************************************)
Done(c, s, k) ==
    /\ conn' = [conn EXCEPT ![c] = k]
    /\ \E t \in {s} :
          /\ queues' = t.queues
          /\ heap' = Restrict(t.heap, DOMAIN t.heap \cap Referenced(t, conn'))
    /\ UNCHANGED up

(* The process ends.  Of the objects in h the directories are left, that is  *)
(* their paths and journals.                                                 *)
Ends(h) ==
    /\ up' = FALSE
    /\ queues' = [n \in {} |-> NoRef]
    /\ heap' = [r \in DOMAIN h |-> [h[r] EXCEPT !.queue = [journal |-> @.journal]]]
    /\ conn' = [c \in Clients |-> Handler("none")]

-----------------------------------------------------------------------------
(* set                                                                       *)

(* oqstream::open *)
push_open(s, r, n) ==
    IF n > 1 THEN WithQueue(s, r, reserve_chunks(s.heap[r].queue, n)) ELSE s

SetRequest(c, name, n) ==
    LET s == lookup(Store, name)
        r == s.queues[name]
        h == IF n > 1 THEN reserved_header(s.heap[r].queue, n) ELSE DefaultHeader
    IN  /\ up /\ conn[c].state = "request"
        /\ \/ Unopenable(Store, name) /\ Ends(heap)
           \/ /\ ~ Unopenable(Store, name)
              /\ name \in DOMAIN queues \/ HasRoom(Store)
              /\ n > 1 => s.heap[r].queue.chunks_head + n <= MaxChunkIds
              /\ Done(c, push_open(s, r, n),
                      [conn[c] EXCEPT !.state = "data",
                                      !.push = [ref |-> r, header |-> h,
                                                chunk_pos |-> h.beg]])

(* set_on_read_chunk: the stream writes the chunk, and pushes after the last. *)
SetChunk(c) ==
    LET st == conn[c].push
        o == heap[st.ref].queue
        next == Advanced(st, Chunk)
        written == write_chunk(o, Chunk, st.chunk_pos)
        stored == [conn[c] EXCEPT !.state = "request", !.push = ClosedPush]
    IN  /\ up /\ conn[c].state = "data"
        /\ \/ /\ st.header.end <= 1 /\ o.queue_head < MaxItems
              /\ \E value \in escape(Chunk) :
                    Done(c, WithQueue(Store, st.ref, push(o, value)), stored)
           \/ /\ st.header.end > 1 /\ IsLastChunk(st) /\ o.queue_head < MaxItems
              /\ Done(c, WithQueue(Store, st.ref, push(written, header_str(next.header))),
                      stored)
           \/ /\ st.header.end > 1 /\ ~ IsLastChunk(st)
              /\ Done(c, WithQueue(Store, st.ref, written), [conn[c] EXCEPT !.push = next])

(* set_on_read_chunk: the last chunk does not end in \r\n.                   *)
SetBadChunk(c) ==
    LET st == conn[c].push IN
    /\ up /\ conn[c].state = "data"
    /\ st.header.end <= 1 \/ IsLastChunk(st)
    /\ Done(c, Store, [conn[c] EXCEPT !.state = "hangup"])

-----------------------------------------------------------------------------
(* get                                                                       *)

(* iqstream::close; the destructor closes without erase.                     *)
pop_close(s, st, erased) ==
    LET o == s.heap[st.ref].queue IN
    IF st.ref = NoRef THEN s
    ELSE WithQueue(s, st.ref, IF erased THEN pop_end_erase(o, st.id, st.header)
                                        ELSE pop_end_return(o, st.id))

(* iqstream::read, where it does not throw.                                  *)
pop_next(o, st) ==
    [st EXCEPT !.header = read_header(o, st), !.chunk_pos = read_pos(o, st) + 1,
               !.tell = @ + Len(read_bytes(o, st))]

(* All of the item was read: it is closed, unless the client asked to open it.*)
Finish(c, s, k) ==
    \/ "open" \in k.opts /\ Done(c, s, Replied(k))
    \/ /\ "open" \notin k.opts
       /\ Done(c, pop_close(s, k.pop, "peek" \notin k.opts),
               Replied([k EXCEPT !.pop = ClosedPop]))

(* get has read the first bytes: they are all, or the first chunk is written *)
(* and the rest follows.                                                     *)
ReadFirst(c, s, k) ==
    LET whole == k.pop.tell = k.pop.header.size IN
    \/ whole /\ Finish(c, s, k)
    \/ ~ whole /\ Done(c, s, [k EXCEPT !.state = "value"])

(* The last part of get, with the queue of that name in s: open an item and  *)
(* read it, or wait for one.                                                 *)
Fetch(c, s, k) ==
    LET r == s.queues[k.name]
        o == s.heap[r].queue
        popped == pop_begin(o)
        st == [ClosedPop EXCEPT !.ref = r, !.id = pop_begin_id(o)]
    IN  \/ /\ ~ pop_begins(o) /\ "t" \in k.opts
           /\ Done(c, WithQueue(s, r, wait(o, c)), [k EXCEPT !.state = "waiting"])
        \/ ~ pop_begins(o) /\ "t" \notin k.opts /\ Done(c, s, Replied(k))
        \/ /\ pop_begins(o) /\ readable(popped, st)
           /\ ReadFirst(c, WithQueue(s, r, popped), [k EXCEPT !.pop = pop_next(popped, st)])
        \/ /\ pop_begins(o) /\ ~ readable(popped, st)
           /\ Done(c, WithQueue(s, r, popped), [Handler("hangup") EXCEPT !.pop = st])

(* handler::get, for the request in k. *)
get(c, s, k) ==
    LET Has(o) == o \in k.opts
        closes == Has("close") \/ Has("abort")
        bad == \/ Has("abort") /\ (Has("open") \/ Has("close") \/ Has("peek"))
               \/ Has("peek") /\ Has("open")
               \/ ~ closes /\ k.pop.ref # NoRef
        s2 == IF closes THEN pop_close(s, k.pop, Has("close")) ELSE s
        k2 == [k EXCEPT !.pop = ClosedPop]
        last == Has("abort") \/ (Has("close") /\ ~ Has("open"))
    IN  \/ bad /\ Done(c, s, [Handler("hangup") EXCEPT !.pop = k.pop])
        \/ ~ bad /\ last /\ Done(c, s2, Replied(k2))
        \/ ~ bad /\ ~ last /\ Unopenable(s2, k.name) /\ Ends(s2.heap)
        \/ /\ ~ bad /\ ~ last /\ ~ Unopenable(s2, k.name)
           /\ k.name \in DOMAIN s2.queues \/ HasRoom(s2)
           /\ \E s3 \in {lookup(s2, k.name)} : Fetch(c, s3, k2)

GetRequest(c, name, opts) ==
    /\ up /\ conn[c].state = "request"
    /\ get(c, Store, [conn[c] EXCEPT !.name = name, !.opts = opts])

WaitsAt(c, r) ==
    {i \in 1 .. Len(heap[r].queue.waiters) : heap[r].queue.waiters[i].cb = c}

TimerExpires(c) ==
    /\ up
    /\ \E r \in DOMAIN heap : \E i \in WaitsAt(c, r) :
          /\ heap[r].queue.waiters[i].timer = "armed"
          /\ heap' = [heap EXCEPT ![r].queue = expire(@, i)]
    /\ UNCHANGED <<up, queues, conn>>

(* waiter_wakeup of a waiter on r, and get_on_queue_return, which starts over.*)
CalledBack(c, r) ==
    \E i \in WaitsAt(c, r) :
        LET released == waiter_wakeup(heap[r].queue, i)
            s == WithQueue(Store, r, released)
        IN  /\ heap[r].queue.waiters[i].timer # "armed"
            /\ \/ can_pop(released) /\ get(c, s, conn[c])
               \/ ~ can_pop(released) /\ Done(c, s, Replied(conn[c]))

WaiterWakeup(c) == up /\ \E r \in DOMAIN heap : CalledBack(c, r)

-----------------------------------------------------------------------------
(* The end of a connection: the destructors of its streams run.              *)

(* Mutant of push_cancel: the chunks stay. *)
push_cancel_nothing(s, st) == s

push_cancel(s, st) ==
    IF st.ref # NoRef /\ st.header.end > 1
    THEN WithQueue(s, st.ref, erase_chunks(s.heap[st.ref].queue, st.header))
    ELSE s

(* Mutant of closed: the destructor of the pop stream does nothing. *)
closed_push_only(s, k) == push_cancel(s, k.push)

closed(s, k) == pop_close(push_cancel(s, k.push), k.pop, FALSE)

(* get_on_write_chunk *)
ValueWritten(c) ==
    LET k == conn[c]
        o == heap[k.pop.ref].queue
        whole == k.pop.tell = k.pop.header.size
        more == k.pop.chunk_pos < k.pop.header.end /\ readable(o, k.pop)
    IN  /\ up /\ k.state = "value"
        /\ \/ whole /\ Finish(c, Store, k)
           \/ ~ whole /\ more /\ Done(c, Store, [k EXCEPT !.pop = pop_next(o, @)])
           \/ ~ whole /\ ~ more /\ Done(c, closed(Store, k), Handler("none"))

(* server::handle_accept, handler::start *)
Connect(c) ==
    /\ up /\ conn[c].state = "none"
    /\ Done(c, Store, Handler("request"))

(* parse_request: the line is no request.                                    *)
BadRequest(c) ==
    /\ up /\ conn[c].state = "request"
    /\ Done(c, Store, [conn[c] EXCEPT !.state = "hangup"])

(* Mutant of ConnectionEnds: a handler that waits ends with its socket. *)
ConnectionEnds_any(c) ==
    /\ up /\ conn[c].state # "none"
    /\ Done(c, closed(Store, conn[c]), Handler("none"))

(* A read or a write on the socket fails, the client closes, or the error of *)
(* a hang-up is written.  A handler that waits does not look at its socket.  *)
ConnectionEnds(c) ==
    /\ up /\ conn[c].state \in {"request", "data", "value", "hangup"}
    /\ Done(c, closed(Store, conn[c]), Handler("none"))

-----------------------------------------------------------------------------
(* flush, delete, flush_all                                                  *)

Flush(c, name) ==
    /\ up /\ conn[c].state = "request" /\ "flush" \in Removals
    /\ name \in DOMAIN queues => HasRoom(Store)
    /\ Done(c, erase(Store, name, TRUE), Replied(conn[c]))

Delete(c, name) ==
    /\ up /\ conn[c].state = "request" /\ "delete" \in Removals
    /\ Done(c, erase(Store, name, FALSE), Replied(conn[c]))

(* One round of flush_all: name's entry is removed, its queue is destructed  *)
(* if nobody holds it, and where key is free a new queue is created under it.*)
flush_round(s, name, left) ==
    LET key == IF left = "name" THEN name ELSE Garbage
        e == erase(s, name, FALSE)
        f == [e EXCEPT !.heap = Restrict(@, DOMAIN @ \cap Referenced(e, conn))]
    IN  IF left # "nothing" /\ key \notin Paths(f) /\ HasRoom(f) THEN create(f, key) ELSE f

(***************************************************************************)
(* flush_all passes to erase a reference to the key of the very entry that *)
(* erase frees, creates the new queue under what is left of that key, and  *)
(* moves on from an iterator to the freed entry.  From the first removal on*)
(* the behaviour is undefined.  The choice: some of the queues, at least   *)
(* one, are removed, in any order; after each, a queue is created under    *)
(* the old name, or under a name made of garbage, or not; and the process  *)
(* goes on or ends.  A key whose directory is taken makes the constructor  *)
(* throw, which is to end after that removal.                              *)
(***************************************************************************)
FlushAll(c) ==
    /\ up /\ conn[c].state = "request" /\ "flush_all" \in Removals
    /\ \A n \in DOMAIN queues : Len(n) <= MaxPath
    /\ \/ queues = <<>> /\ Done(c, Store, Replied(conn[c]))
       \/ \E order \in SetToAllKPermutations(DOMAIN queues) \ {<<>>} :
             LET after[i \in 0 .. Len(order)] ==
                     IF i = 0 THEN {Store}
                     ELSE {flush_round(s, order[i], left) :
                              s \in after[i - 1], left \in {"name", "garbage", "nothing"}}
             IN  \E s \in after[Len(order)] :
                    Done(c, s, Replied(conn[c])) \/ Ends(s.heap)

-----------------------------------------------------------------------------
(* The process                                                               *)

(* The journals that the constructor does not reopen are those of QueueReopen.*)
Crash ==
    /\ up /\ "crash" \in Faults
    /\ \A r \in DOMAIN heap : Reopenable(heap[r].queue.journal)
    /\ Ends(heap)

(* server::stop and the destructors: connections close, removed queues go.   *)
Stop ==
    LET s == FoldSet(LAMBDA c, acc : closed(acc, conn[c]), Store, Clients) IN
    /\ up /\ "stop" \in Faults
    /\ Ends(Restrict(s.heap, {r \in DOMAIN heap : ~ heap[r].destroy}))

(* The constructor of queue_map: every directory becomes a queue.            *)
Restart ==
    /\ ~ up /\ up' = TRUE
    /\ heap' = [r \in DOMAIN heap |->
                   [queue |-> recover(heap[r].queue.journal), path |-> heap[r].path,
                    destroy |-> FALSE, cut |-> 0]]
    /\ queues' = [n \in Paths(Store) |-> CHOOSE r \in DOMAIN heap : heap[r].path = n]
    /\ UNCHANGED conn

ClientStep(c) ==
    \/ Connect(c) \/ BadRequest(c) \/ ConnectionEnds(c)
    \/ \E name \in Names, n \in 1 .. MaxChunks : SetRequest(c, name, n)
    \/ SetChunk(c) \/ SetBadChunk(c)
    \/ \E name \in Names, opts \in GetOptions : GetRequest(c, name, opts)
    \/ ValueWritten(c) \/ TimerExpires(c) \/ WaiterWakeup(c)
    \/ \E name \in Names : Flush(c, name) \/ Delete(c, name)
    \/ FlushAll(c)

Next == (\E c \in Clients : ClientStep(c)) \/ Crash \/ Stop \/ Restart

Spec == Init /\ [][Next]_vars

-----------------------------------------------------------------------------
(* Properties                                                                *)

Objects == {heap[r].queue : r \in DOMAIN heap}

(* The types of the map, the heap and the handlers: every reference leads to *)
(* an object that was not destructed, and every queue keeps its bounds.      *)
ServerTypeOK ==
    /\ up \in BOOLEAN
    /\ IsPartial(queues, DOMAIN queues, DOMAIN heap)
    /\ DOMAIN heap \subseteq 1 .. MaxQueues
    /\ \A c \in Clients :
          /\ conn[c].state \in {"none", "request", "data", "waiting", "value", "hangup"}
          /\ {conn[c].push.ref, conn[c].pop.ref} \subseteq DOMAIN heap \cup {NoRef}
    /\ up => \A o \in Objects :
                /\ o.queue_tail <= o.queue_head /\ o.queue_head <= MaxItems
                /\ o.chunks_head <= MaxChunkIds /\ o.bytes_evicted <= CompactAt
                /\ o.wake_up_it \in 1 .. (Len(o.waiters) + 1)

(***************************************************************************)
(* A queue of the map has the directory of its name and is not removed,    *)
(* every other queue is removed, and no two queues, removed ones included, *)
(* share a directory: destroy() takes a free path, whatever was removed,   *)
(* created again or loaded at a restart before.                            *)
(***************************************************************************)
OneJournalEach ==
    up => /\ \A n \in DOMAIN queues : heap[queues[n]].path = n
          /\ \A r \in DOMAIN heap : heap[r].destroy <=> r \notin Range(queues)
          /\ \A r, t \in DOMAIN heap : r # t => heap[r].path # heap[t].path

(***************************************************************************)
(* An item that a connection has open is held by that connection alone, in *)
(* the queue it was popped from, also when that queue was removed since;   *)
(* every queue counts its open items.  This is what makes it safe for a    *)
(* handler's destructor to return the item.                                *)
(***************************************************************************)
ItemHeldOnce ==
    LET holders(r) == {c \in Clients : conn[c].pop.ref = r} IN
    up => \A r \in DOMAIN heap :
             /\ \A c, d \in holders(r) : c # d => conn[c].pop.id # conn[d].pop.id
             /\ \A c \in holders(r) : /\ conn[c].pop.id < heap[r].queue.queue_tail
                                      /\ conn[c].pop.id \notin heap[r].queue.returned
             /\ heap[r].queue.items_open = Cardinality(holders(r))

(***************************************************************************)
(* README.md on reliable fetch: "if a client disconnects before confirming *)
(* it handled a message, the message will be handed to the next client".   *)
(* An item of a journal can be popped, or a connection holds it.           *)
(***************************************************************************)
ItemsReachable ==
    up => \A r \in DOMAIN heap :
             LET o == heap[r].queue
                 held == {conn[c].pop.id : c \in {d \in Clients : conn[d].pop.ref = r}}
             IN  DOMAIN o.journal.items \subseteq
                     o.returned \cup held \cup (o.queue_tail .. (o.queue_head - 1))

(***************************************************************************)
(* A chunk in a journal belongs to a stored item of several chunks or was  *)
(* written by a set in progress: connections that end in the middle of a   *)
(* set, and items that are erased, leave none behind.                      *)
(***************************************************************************)
ChunksOwned ==
    up => \A r \in DOMAIN heap :
             LET j == heap[r].queue.journal
                 headers == {unescape(j.items[id]).header : id \in DOMAIN j.items}
                 pushes == {conn[c].push : c \in {d \in Clients : conn[d].push.ref = r}}
             IN  DOMAIN j.chunks \subseteq
                     UNION ({ChunkIds(h) : h \in {g \in headers : g.end > 1}}
                            \cup {p.header.beg .. (p.chunk_pos - 1) : p \in pushes})

(***************************************************************************)
(* A handler has one callback to come: it waits on exactly one queue when  *)
(* get has started a wait and on none otherwise, and a push is open only   *)
(* while set reads its data.  A handler that waits twice would be called   *)
(* back in the middle of another request.                                  *)
(***************************************************************************)
OneCallback ==
    \A c \in Clients :
        LET waits == {<<r, i>> \in (DOMAIN heap) \X (1 .. Cardinality(Clients)) :
                          i \in WaitsAt(c, r)}
        IN  up => /\ Cardinality(waits) = IF conn[c].state = "waiting" THEN 1 ELSE 0
                  /\ conn[c].push.ref # NoRef => conn[c].state \in {"data", "hangup"}
                  /\ conn[c].state = "waiting" => conn[c].pop.ref = NoRef

(***************************************************************************)
(* queue.cpp on destroy(): the directory is renamed "in case the user      *)
(* creates a new queue with the same name before this one is destroyed".   *)
(* So, however queues are removed and created again under clients that     *)
(* hold them, no command finds its directory taken, and the process goes   *)
(* on.  This is for names that are not themselves renamed paths.           *)
(***************************************************************************)
StaysUp == up

(***************************************************************************)
(* handler.cpp on flush: "an item that's halfway pushed" will appear to "a *)
(* client that was waiting to pop before the flush".  A client that is     *)
(* called back by the removed queue for an item whose push was finished    *)
(* after the removal is not sent to wait again.                            *)
(***************************************************************************)
HalfwayItemAppears ==
    [][\A c \in Clients, r \in DOMAIN heap :
          /\ up /\ CalledBack(c, r) /\ heap[r].destroy
          /\ can_pop(heap[r].queue) /\ pop_begin_id(heap[r].queue) >= heap[r].cut
          => conn'[c].state # "waiting"]_vars

-----------------------------------------------------------------------------
(***************************************************************************)
(* Delivery to a client that keeps asking.  Poller only sends plain gets   *)
(* and its socket does not fail; the other clients do what they like.      *)
(* Fairness: Poller goes on, which takes asio to complete its reads and    *)
(* writes; a connection that was hung up on ends once its error is written;*)
(* and the process is started again when it ended.                         *)
(***************************************************************************)
PollerStep ==
    \/ Connect(Poller) \/ ValueWritten(Poller)
    \/ \E name \in Names : GetRequest(Poller, name, {})

HungUp(c) == conn[c].state = "hangup" /\ ConnectionEnds(c)

PollNext ==
    \/ PollerStep
    \/ \E c \in Clients : HungUp(c)
    \/ \E c \in Clients \ {Poller} : ClientStep(c)
    \/ Crash \/ Stop \/ Restart

PollSpec ==
    /\ Init /\ [][PollNext]_vars
    /\ WF_vars(PollerStep) /\ WF_vars(Restart)
    /\ \A c \in Clients : WF_vars(HungUp(c))

Deliverable(n, id) ==
    /\ up /\ n \in DOMAIN queues
    /\ id \in DOMAIN heap[queues[n]].queue.journal.items
    /\ \A c \in Clients : conn[c].pop.ref = queues[n] => conn[c].pop.id # id

(***************************************************************************)
(* README.md on reliable fetch, "the message will be handed to the next    *)
(* client", and on the whole, "a durable queue server".  Once the process  *)
(* stays up, an item that nobody holds is handed to some client.           *)
(***************************************************************************)
ItemsDelivered ==
    <>[]up => \A n \in Names, id \in 0 .. (MaxItems - 1) :
                  Deliverable(n, id) ~> ~ Deliverable(n, id)

==============================================================================
