---------------------------- MODULE QueueStreams -----------------------------
(***************************************************************************)
(* One queue and the streams that use it: each producer pushes items       *)
(* through an oqstream, each consumer pops them through an iqstream, and   *)
(* a consumer that finds the queue empty may wait on it.  The process that *)
(* holds the queue can crash, and reopens the journal when it restarts.    *)
(*                                                                         *)
(* darner runs every handler on one io_service thread, so a call of a      *)
(* stream is one step.  Between two calls (a client's next chunk, its next *)
(* request, a timer's handler) anything else may run.                      *)
(***************************************************************************)
EXTENDS Streams

CONSTANTS
    Producers, Consumers,
    Chunk,        \* the chunks a producer may write, as byte strings
    MaxChunks,    \* bound: chunks in one item
    MaxItems,     \* bound: item ids, that is pushes since the journal was empty
    MaxChunkIds,  \* bound: chunk ids
    Faults        \* which faults happen, see below

(***************************************************************************)
(* "crash": the process dies; everything it wrote to leveldb survives.     *)
(* "power": the machine dies; writes after the last synchronous one may be *)
(*          lost, the latest first (leveldb's log is read back in order).  *)
(* "io":    a write to leveldb fails and the code sees the failure.        *)
(***************************************************************************)
ASSUME StreamsAssumption ==
    /\ IsFiniteSet(Consumers)
    /\ Chunk \subseteq Seq(Nat)
    /\ MaxChunks \in Nat \ {0}
    /\ MaxItems \in Nat
    /\ MaxChunkIds \in Nat
    /\ Faults \subseteq {"crash", "power", "io"}

VARIABLES
    q,         \* the queue object
    disk,      \* the journals that a crash at this moment may leave behind
    oq,        \* the oqstream of each producer
    iq,        \* the iqstream of each consumer
    accepted,  \* history: the body of every item pushed, while a journal has it
    synced,    \* history: the items pushed with sync and not erased since
    sent,      \* history: the bytes written to each oqstream since it was opened
    got        \* history: the bytes read from each iqstream since it was opened

vars == <<q, disk, oq, iq, accepted, synced, sent, got>>

ClosedOq == [open |-> FALSE, header |-> DefaultHeader, chunk_pos |-> 0, sync |-> FALSE]

ClosedIq == [open |-> FALSE, id |-> 0, header |-> DefaultHeader, chunk_pos |-> 0,
             tell |-> 0]

Init ==
    /\ q = recover(EmptyJournal)
    /\ disk = {EmptyJournal}
    /\ oq = [p \in Producers |-> ClosedOq]
    /\ iq = [c \in Consumers |-> ClosedIq]
    /\ accepted = [id \in {} |-> <<>>]
    /\ synced = {}
    /\ sent = [p \in Producers |-> <<>>]
    /\ got = [c \in Consumers |-> <<>>]

(* What may survive after the journal became j by a write: leveldb's log.    *)
Logged(survivors, j, sync) ==
    IF sync \/ "power" \notin Faults THEN {j} ELSE survivors \cup {j}

(* The history of the items that are in one of these journals.               *)
AcceptedIn(journals) ==
    Restrict(accepted, DOMAIN accepted \cap UNION {DOMAIN j.items : j \in journals})

-----------------------------------------------------------------------------
(* oqstream *)

SyncModes == IF "power" \in Faults THEN BOOLEAN ELSE {FALSE}

OqOpen(p, n, sync) ==
    /\ ~ oq[p].open
    /\ n > 1 => q.chunks_head + n <= MaxChunkIds
    /\ LET h == IF n > 1 THEN reserved_header(q, n) ELSE DefaultHeader IN
       oq' = [oq EXCEPT ![p] = [open |-> TRUE, header |-> h,
                                chunk_pos |-> h.beg, sync |-> sync]]
    /\ q' = IF n > 1 THEN reserve_chunks(q, n) ELSE q
    /\ sent' = [sent EXCEPT ![p] = <<>>]
    /\ UNCHANGED <<disk, iq, accepted, synced, got>>

(* The last step of a write that pushed a value: the stream is closed.       *)
Pushed(p, body) ==
    /\ accepted' = With(accepted, q.queue_head, body)
    /\ synced' = IF oq[p].sync THEN synced \cup {q.queue_head} ELSE synced
    /\ oq' = [oq EXCEPT ![p] = ClosedOq]
    /\ sent' = [sent EXCEPT ![p] = <<>>]
    /\ UNCHANGED <<iq, got>>

(* Mutant of OqWriteItem: the sync option does not reach the put. *)
OqWriteItem_unsynced(p, chunk) ==
    /\ oq[p].open /\ oq[p].header.end <= 1
    /\ q.queue_head < MaxItems
    /\ \E value \in escape(chunk) : q' = push(q, value)
    /\ disk' = Logged(disk, q'.journal, FALSE)
    /\ Pushed(p, chunk)

(* oqstream::write of the only chunk of an item: it is pushed.               *)
OqWriteItem(p, chunk) ==
    /\ oq[p].open /\ oq[p].header.end <= 1
    /\ q.queue_head < MaxItems
    /\ \E value \in escape(chunk) : q' = push(q, value)
    /\ disk' = Logged(disk, q'.journal, oq[p].sync)
    /\ Pushed(p, chunk)

(* oqstream::write of a chunk that is not the last.                          *)
OqWriteChunk(p, chunk) ==
    /\ oq[p].open /\ oq[p].header.end > 1 /\ oq[p].chunk_pos # oq[p].header.end
    /\ ~ IsLastChunk(oq[p])
    /\ q' = write_chunk(q, chunk, oq[p].chunk_pos)
    /\ disk' = Logged(disk, q'.journal, FALSE)
    /\ oq' = [oq EXCEPT ![p] = Advanced(@, chunk)]
    /\ sent' = [sent EXCEPT ![p] = @ \o chunk]
    /\ UNCHANGED <<iq, accepted, synced, got>>

(* Mutant of OqWriteLastChunk: the header is pushed before the last chunk. *)
OqWriteLastChunk_header_first(p, chunk) ==
    /\ oq[p].open /\ oq[p].header.end > 1 /\ IsLastChunk(oq[p])
    /\ q.queue_head < MaxItems
    /\ LET pushed == push(q, header_str(Advanced(oq[p], chunk).header)) IN
       /\ q' = write_chunk(pushed, chunk, oq[p].chunk_pos)
       /\ disk' = Logged(Logged(disk, pushed.journal, oq[p].sync), q'.journal, FALSE)
    /\ Pushed(p, sent[p] \o chunk)

(* oqstream::write of the last chunk: the chunk, then the header is pushed.  *)
OqWriteLastChunk(p, chunk) ==
    /\ oq[p].open /\ oq[p].header.end > 1 /\ IsLastChunk(oq[p])
    /\ q.queue_head < MaxItems
    /\ LET written == write_chunk(q, chunk, oq[p].chunk_pos) IN
       /\ q' = push(written, header_str(Advanced(oq[p], chunk).header))
       /\ disk' = Logged(Logged(disk, written.journal, FALSE), q'.journal, oq[p].sync)
    /\ Pushed(p, sent[p] \o chunk)

(***************************************************************************)
(* The last chunk is written and the push of the header throws: the stream *)
(* stays open at its end, where only cancel is left.  A process that dies  *)
(* between the two writes leaves the same journal.                         *)
(***************************************************************************)
OqWriteHeaderFails(p, chunk) ==
    /\ "io" \in Faults
    /\ oq[p].open /\ oq[p].header.end > 1 /\ IsLastChunk(oq[p])
    /\ q' = write_chunk(q, chunk, oq[p].chunk_pos)
    /\ disk' = Logged(disk, q'.journal, FALSE)
    /\ oq' = [oq EXCEPT ![p] = Advanced(@, chunk)]
    /\ sent' = [sent EXCEPT ![p] = @ \o chunk]
    /\ UNCHANGED <<iq, accepted, synced, got>>

(* oqstream::cancel, and the destructor of an unfinished stream.             *)
OqCancel(p) ==
    /\ oq[p].open
    /\ q' = IF oq[p].header.end > 1 THEN erase_chunks(q, oq[p].header) ELSE q
    /\ disk' = IF oq[p].header.end > 1 THEN Logged(disk, q'.journal, FALSE) ELSE disk
    /\ oq' = [oq EXCEPT ![p] = ClosedOq]
    /\ sent' = [sent EXCEPT ![p] = <<>>]
    /\ UNCHANGED <<iq, accepted, synced, got>>

(* The destructor swallows the error when cancel cannot erase the chunks.    *)
OqCancelFails(p) ==
    /\ "io" \in Faults
    /\ oq[p].open /\ oq[p].header.end > 1
    /\ oq' = [oq EXCEPT ![p] = ClosedOq]
    /\ sent' = [sent EXCEPT ![p] = <<>>]
    /\ UNCHANGED <<q, disk, iq, accepted, synced, got>>

-----------------------------------------------------------------------------
(* iqstream, and waiting for an item                                         *)

OpenIds == {iq[c].id : c \in {d \in Consumers : iq[d].open}}

WaitingAt(c) == {i \in 1 .. Len(q.waiters) : q.waiters[i].cb = c}

Waiting(c) == WaitingAt(c) # {}

(* iqstream::open when there is an item, on the queue object qq.             *)
IqOpened(c, qq) ==
    /\ q' = pop_begin(qq)
    /\ iq' = [iq EXCEPT ![c] = [ClosedIq EXCEPT !.open = TRUE, !.id = pop_begin_id(qq)]]
    /\ got' = [got EXCEPT ![c] = <<>>]

(* A consumer asks for an item, and there is one.                            *)
IqOpen(c) ==
    /\ ~ iq[c].open /\ ~ Waiting(c)
    /\ pop_begins(q)
    /\ IqOpened(c, q)
    /\ UNCHANGED <<disk, oq, accepted, synced, sent>>

(* A consumer asks for an item, there is none, and it waits for one.         *)
IqOpenWait(c) ==
    /\ ~ iq[c].open /\ ~ Waiting(c)
    /\ ~ pop_begins(q)
    /\ q' = wait(q, c)
    /\ UNCHANGED <<disk, oq, iq, accepted, synced, sent, got>>

TimerExpires(c) ==
    /\ \E i \in WaitingAt(c) : /\ q.waiters[i].timer = "armed"
                               /\ q' = expire(q, i)
    /\ UNCHANGED <<disk, oq, iq, accepted, synced, sent, got>>

(* The timer's handler runs: the consumer opens the item it is woken for, or *)
(* is told that it timed out.                                                *)
WaiterWakeup(c) ==
    /\ \E i \in WaitingAt(c) :
          /\ q.waiters[i].timer # "armed"
          /\ LET released == waiter_wakeup(q, i) IN
             \/ can_pop(released) /\ IqOpened(c, released)
             \/ ~ can_pop(released) /\ q' = released /\ UNCHANGED <<iq, got>>
    /\ UNCHANGED <<disk, oq, accepted, synced, sent>>

(* iqstream::read, see module Streams; it throws where it is not readable.   *)
IqRead(c) ==
    LET s == iq[c]
        result == read_bytes(q, s)
    IN  /\ s.open /\ s.chunk_pos < s.header.end
        /\ readable(q, s)
        /\ iq' = [iq EXCEPT ![c] = [s EXCEPT !.header = read_header(q, s),
                                             !.chunk_pos = read_pos(q, s) + 1,
                                             !.tell = @ + Len(result)]]
        /\ got' = [got EXCEPT ![c] = @ \o result]
        /\ UNCHANGED <<q, disk, oq, accepted, synced, sent>>

(* close(true): the handler does so only for an item it has read from.       *)
IqCloseErase(c) ==
    /\ iq[c].open /\ iq[c].chunk_pos > 0
    /\ q' = pop_end_erase(q, iq[c].id, iq[c].header)
    /\ disk' = Logged(disk, q'.journal, FALSE)
    /\ iq' = [iq EXCEPT ![c] = ClosedIq]
    /\ accepted' = AcceptedIn(disk')
    /\ synced' = synced \ {iq[c].id}
    /\ got' = [got EXCEPT ![c] = <<>>]
    /\ UNCHANGED <<oq, sent>>

(* close(false): abort, peek, a failed read, and the destructor.             *)
IqCloseReturn(c) ==
    /\ iq[c].open
    /\ q' = pop_end_return(q, iq[c].id)
    /\ iq' = [iq EXCEPT ![c] = ClosedIq]
    /\ got' = [got EXCEPT ![c] = <<>>]
    /\ UNCHANGED <<disk, oq, accepted, synced, sent>>

-----------------------------------------------------------------------------
(* Crash and restart                                                         *)

(* Every stream and waiter is gone with the process.                         *)
StreamsLost ==
    /\ oq' = [p \in Producers |-> ClosedOq]
    /\ iq' = [c \in Consumers |-> ClosedIq]
    /\ sent' = [p \in Producers |-> <<>>]
    /\ got' = [c \in Consumers |-> <<>>]

(* A crash at any point but those that leave chunks and no item: what the    *)
(* constructor does with such a journal is the subject of QueueReopen.       *)
Crash ==
    /\ Faults \cap {"crash", "power"} # {}
    /\ \E j \in disk : Reopenable(j) /\ q' = recover(j) /\ disk' = {j}
    /\ StreamsLost
    /\ accepted' = AcceptedIn(disk')
    /\ UNCHANGED synced

-----------------------------------------------------------------------------

ProducerStep(p) ==
    \/ \E n \in 1 .. MaxChunks, sync \in SyncModes : OqOpen(p, n, sync)
    \/ \E chunk \in Chunk : \/ OqWriteItem(p, chunk)
                            \/ OqWriteChunk(p, chunk)
                            \/ OqWriteLastChunk(p, chunk)
                            \/ OqWriteHeaderFails(p, chunk)
    \/ OqCancel(p)
    \/ OqCancelFails(p)

ConsumerStep(c) ==
    \/ IqOpen(c)
    \/ IqOpenWait(c)
    \/ TimerExpires(c)
    \/ WaiterWakeup(c)
    \/ IqRead(c)
    \/ IqCloseErase(c)
    \/ IqCloseReturn(c)

Next ==
    \/ \E p \in Producers : ProducerStep(p)
    \/ \E c \in Consumers : ConsumerStep(c)
    \/ Crash

Spec == Init /\ [][Next]_vars

-----------------------------------------------------------------------------
(* Properties                                                                *)

Ids == 0 .. (MaxItems - 1)

IsJournal(j) ==
    /\ DOMAIN j = {"items", "chunks"}
    /\ IsPartial(j.items, Ids, Seq(Nat))
    /\ IsPartial(j.chunks, 0 .. (MaxChunkIds - 1), Seq(Nat))

Waiter == [cb : Consumers, timer : {"armed", "expired", "cancelled"}]

IsQueue(o) ==
    /\ DOMAIN o = {"journal", "queue_head", "queue_tail", "chunks_head", "items_open",
                   "bytes_evicted", "returned", "waiters", "wake_up_it"}
    /\ IsJournal(o.journal)
    /\ o.queue_head \in 0 .. MaxItems /\ o.queue_tail \in 0 .. MaxItems
    /\ o.chunks_head \in 0 .. MaxChunkIds
    /\ o.items_open \in Nat
    /\ o.bytes_evicted \in 0 .. CompactAt
    /\ o.returned \subseteq Ids
    /\ o.waiters \in Seq(Waiter)
    /\ o.wake_up_it \in Nat \ {0}

(* The types of the fields of the queue and of the streams.  The ids stay    *)
(* within the bounds because no key is ever written but below a head.        *)
TypeOK ==
    /\ IsQueue(q)
    /\ \A j \in disk : IsJournal(j)
    /\ oq \in [Producers -> [open : BOOLEAN, header : Header, chunk_pos : Nat,
                             sync : BOOLEAN]]
    /\ iq \in [Consumers -> [open : BOOLEAN, id : Nat, header : Header,
                             chunk_pos : Nat, tell : Nat]]
    /\ IsPartial(accepted, Ids, Seq(Nat))
    /\ synced \subseteq Ids
    /\ sent \in [Producers -> Seq(Nat)]
    /\ got \in [Consumers -> Seq(Nat)]

OpenConsumers == {c \in Consumers : iq[c].open}

(***************************************************************************)
(* queue.h on pop_begin: an item whose pop has begun is owned solely by    *)
(* the caller; it is below the tail and not among the returned items, and  *)
(* items_open counts those items.  Two consumers never hold one item,      *)
(* however pops, returns, wakeups and restarts interleave.                 *)
(***************************************************************************)
SoleOwner ==
    /\ \A c, d \in OpenConsumers : c # d => iq[c].id # iq[d].id
    /\ \A c \in OpenConsumers : iq[c].id < q.queue_tail /\ iq[c].id \notin q.returned
    /\ q.items_open = Cardinality(OpenConsumers)

(***************************************************************************)
(* Every item of the journal can still be delivered: it is enqueued, was   *)
(* returned, or is held by a consumer that will finish or return it.       *)
(***************************************************************************)
NoItemStranded ==
    DOMAIN q.journal.items \subseteq
        q.returned \cup OpenIds \cup (q.queue_tail .. (q.queue_head - 1))

(* queue.h on count(): it returns the number of items in the queue, that is  *)
(* of the items that no consumer holds.                                      *)
CountIsItems == count(q) = Cardinality(DOMAIN q.journal.items \ OpenIds)

(***************************************************************************)
(* No wakeup is lost: as long as a waiter is still asleep, there are no    *)
(* more items to pop than waiters whose handlers are queued and will pop   *)
(* one each.                                                               *)
(***************************************************************************)
NoLostWakeup ==
    LET asleep == {i \in 1 .. Len(q.waiters) : q.waiters[i].timer = "armed"} IN
    asleep # {} => count(q) <= Cardinality((1 .. Len(q.waiters)) \ asleep)

(* An item pushed with sync and not erased survives every crash.             *)
SyncedSurvives == \A j \in disk : synced \subseteq DOMAIN j.items

(***************************************************************************)
(* queue.h on wait(): it waits up to wait_ms for an item, then calls back  *)
(* with success or timeout.  A consumer whose wait ends without an item    *)
(* has waited until its deadline.                                          *)
(***************************************************************************)
TimeoutAtDeadline ==
    [][\A c \in Consumers :
          WaiterWakeup(c) /\ ~ iq'[c].open
              => \E i \in WaitingAt(c) : q.waiters[i].timer = "expired"]_vars

-----------------------------------------------------------------------------
(***************************************************************************)
(* Liveness.  The only fairness is that asio runs the handler of a timer   *)
(* that expired or was cancelled; no consumer or producer has to do        *)
(* anything, and no deadline has to come.                                  *)
(***************************************************************************)
LiveSpec == Spec /\ \A c \in Consumers : WF_vars(WaiterWakeup(c))

(* When there is an item to pop while a consumer waits, then before long the *)
(* consumer is no longer waiting or the items have gone to others.           *)
WaiterServed ==
    \A c \in Consumers : Waiting(c) /\ count(q) > 0 ~> ~ Waiting(c) \/ count(q) = 0

==============================================================================
