----------------------------- MODULE QueueBodies -----------------------------
(***************************************************************************)
(* What becomes of the bytes of an item on their way through the queue,    *)
(* and what the queue as a whole promises.                                 *)
(***************************************************************************)
EXTENDS QueueStreams, SequencesExt

(* The body of an item as a reader of journal j gets it.                     *)
Body(j, id) ==
    LET first == unescape(j.items[id]) IN
    IF first.header.end > 1
    THEN FlattenSeq([i \in 1 .. (first.header.end - first.header.beg) |->
                        j.chunks[first.header.beg + i - 1]])
    ELSE first.item

HeaderOf(j, id) == unescape(j.items[id]).header

ChunksOf(j, id) == IF HeaderOf(j, id).end > 1 THEN ChunkIds(HeaderOf(j, id)) ELSE {}

(***************************************************************************)
(* In every journal that a crash could leave behind, an item is whole: all *)
(* of its chunks are there and they spell what its producer wrote.  Pushes *)
(* that interleave, are cancelled or fail, and erasures of other items,    *)
(* never touch its chunks.                                                 *)
(***************************************************************************)
BodyIntact ==
    \A j \in disk \cup {q.journal} : \A id \in DOMAIN j.items :
        /\ id \in DOMAIN accepted
        /\ ChunksOf(j, id) \subseteq DOMAIN j.chunks
        /\ Storable(accepted[id]) => Body(j, id) = accepted[id]

(***************************************************************************)
(* While no write fails and nothing crashes, every chunk of the journal    *)
(* belongs to an item or to a push in progress: nothing is leaked.         *)
(***************************************************************************)
NoLeakedChunk ==
    DOMAIN q.journal.chunks \subseteq
        UNION ({ChunksOf(q.journal, id) : id \in DOMAIN q.journal.items}
               \cup {oq[p].header.beg .. (oq[p].chunk_pos - 1) :
                        p \in {o \in Producers : oq[o].open}})

(***************************************************************************)
(* What a consumer has read is a prefix of what the producer of its item   *)
(* wrote; tell() = size(), the handler's test for the end of the item,     *)
(* holds exactly when it has read all of it; and until then the next read  *)
(* succeeds.                                                               *)
(***************************************************************************)
ReadsWhatWasPushed ==
    \A c \in OpenConsumers :
        LET s == iq[c] IN
        s.chunk_pos > 0 /\ Storable(accepted[s.id]) =>
            /\ IsPrefix(got[c], accepted[s.id])
            /\ s.tell = s.header.size <=> got[c] = accepted[s.id]
            /\ s.tell # s.header.size => s.chunk_pos < s.header.end /\ readable(q, s)

-----------------------------------------------------------------------------
(***************************************************************************)
(* The queue implements ReliableQueue: its items are those of the journal, *)
(* each with the body its producer wrote, which by BodyIntact is what a    *)
(* reader gets, and a consumer holds the item its iqstream has open.  A stream may also have opened an id that no longer has an item   *)
(* (a hole that recovery left below the head); it then holds nothing.      *)
(***************************************************************************)
NoTicket == -1

Bodies == {FlattenSeq(s) : s \in UNION {[1 .. n -> Chunk] : n \in 1 .. MaxChunks}}

StoredItems == Restrict(accepted, DOMAIN q.journal.items)

HeldItems ==
    [c \in Consumers |->
        IF iq[c].open /\ iq[c].id \in DOMAIN q.journal.items THEN iq[c].id
        ELSE NoTicket]

Abstract == INSTANCE ReliableQueue
                WITH Ticket <- Ids, stored <- StoredItems, held <- HeldItems

(* First in, first out; one holder per item; nothing lost but by a confirmed *)
(* erasure: every step of the streams is a step of ReliableQueue or none.    *)
ImplementsReliableQueue == Abstract!RQSpec

==============================================================================
