--------------------------- MODULE QueueInvariant ----------------------------
(***************************************************************************)
(* The inductive invariant behind SoleOwner, NoItemStranded and            *)
(* NoLostWakeup.  None of the three is inductive by itself: that a         *)
(* returned item is not held by anyone needs that a waiting consumer holds *)
(* none, that a popped item is new needs that returned ids are below the   *)
(* tail, and that no wakeup is lost needs where the iterator stands in the *)
(* list of waiters.                                                        *)
(***************************************************************************)
EXTENDS QueueStreams

(* The layout comment of queue.h: the ids below the tail are returned, held  *)
(* (H) or erased, and no item of the journal is anywhere else.               *)
Layout(o, H) ==
    /\ o.queue_tail <= o.queue_head
    /\ o.returned \cup H \subseteq 0 .. (o.queue_tail - 1)
    /\ o.returned \cap H = {}
    /\ DOMAIN o.journal.items \subseteq
           o.returned \cup H \cup (o.queue_tail .. (o.queue_head - 1))

(* The waiters before the iterator are awake, and while it is not at the end *)
(* they are as many as the items, but for missing ones.                      *)
Wakeups(o, missing) ==
    /\ o.wake_up_it <= WaitersEnd(o)
    /\ \A i \in 1 .. Len(o.waiters) :
          i < o.wake_up_it => o.waiters[i].timer # "armed"
    /\ o.wake_up_it # WaitersEnd(o) => count(o) <= o.wake_up_it - 1 + missing

(* A consumer waits at most once, and not while it holds an item.            *)
WaitersHoldNothing ==
    /\ \A i \in 1 .. Len(q.waiters) : ~ iq[q.waiters[i].cb].open
    /\ \A i, j \in 1 .. Len(q.waiters) :
          q.waiters[i].cb = q.waiters[j].cb => i = j

(* An open oqstream writes chunks below the end of its range, and the range  *)
(* has been reserved.                                                        *)
WithinReserved ==
    \A p \in Producers : oq[p].open =>
        /\ oq[p].chunk_pos <= oq[p].header.end
        /\ oq[p].header.end > 1 => oq[p].header.end <= MaxChunkIds

HeldOnce ==
    /\ \A c, d \in OpenConsumers : c # d => iq[c].id # iq[d].id
    /\ q.items_open = Cardinality(OpenConsumers)

(* The inductive invariant: the types, the layout of the ids, one holder for *)
(* an item, the position of the wakeup iterator, and the two facts about     *)
(* clients that the handlers guarantee.                                      *)
IndInv ==
    /\ TypeOK
    /\ Layout(q, OpenIds)
    /\ HeldOnce
    /\ Wakeups(q, 0)
    /\ WaitersHoldNothing
    /\ WithinReserved

==============================================================================
