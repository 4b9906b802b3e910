----------------------------- MODULE QueueProofs -----------------------------
(***************************************************************************)
(* The inductive invariant holds in every reachable state, for any number  *)
(* of producers, consumers, items and chunks, and for any set of faults.   *)
(***************************************************************************)
EXTENDS QueueLemmas

(* The fields of an oqstream and of an iqstream.                             *)
OqStream == [open : BOOLEAN, header : Header, chunk_pos : Nat, sync : BOOLEAN]

IqStream == [open : BOOLEAN, id : Nat, header : Header, chunk_pos : Nat, tell : Nat]

(* Whatever a crash leaves after a write is a journal.                       *)
LEMMA LoggedType ==
    ASSUME NEW D, \A j \in D : IsJournal(j), NEW k, IsJournal(k), NEW sync
    PROVE  \A j \in Logged(D, k, sync) : IsJournal(j)
BY DEF Logged

(* A new queue, with no stream open on it, satisfies the invariant.          *)
LEMMA InitIndInv == Init => IndInv
<1> SUFFICES ASSUME Init PROVE IndInv
  OBVIOUS
<1> USE DEF Init
<1>1. IsJournal(EmptyJournal)
  BY DEF EmptyJournal, IsJournal, IsPartial
<1>2. /\ IsQueue(q)
      /\ Layout(q, {})
      /\ Wakeups(q, 0)
      /\ q.waiters = <<>>
      /\ q.items_open = 0
  BY <1>1, Recover
<1>3. OpenConsumers = {} /\ OpenIds = {}
  BY DEF OpenConsumers, OpenIds, ClosedIq
<1>4. TypeOK
  <2>1. \A j \in disk : IsJournal(j)
    BY <1>1
  <2>2. oq \in [Producers -> [open : BOOLEAN, header : Header, chunk_pos : Nat,
                              sync : BOOLEAN]]
    BY DEF ClosedOq, DefaultHeader, Header
  <2>3. iq \in [Consumers -> [open : BOOLEAN, id : Nat, header : Header,
                              chunk_pos : Nat, tell : Nat]]
    BY DEF ClosedIq, DefaultHeader, Header
  <2>4. IsPartial(accepted, Ids, Seq(Nat)) /\ synced \subseteq Ids
    BY DEF IsPartial
  <2>5. sent \in [Producers -> Seq(Nat)] /\ got \in [Consumers -> Seq(Nat)]
    OBVIOUS
  <2> QED
    BY <1>2, <2>1, <2>2, <2>3, <2>4, <2>5 DEF TypeOK
<1>5. HeldOnce
  BY <1>2, <1>3, FS_EmptySet DEF HeldOnce
<1>6. WaitersHoldNothing
  BY <1>2 DEF WaitersHoldNothing
<1>7. WithinReserved
  BY DEF WithinReserved, ClosedOq
<1> QED
  BY <1>2, <1>3, <1>4, <1>5, <1>6, <1>7 DEF IndInv

-----------------------------------------------------------------------------
(* Steps of a producer leave the consumers as they are.                      *)

(* What is left to show of a step that keeps iq, got and the clients that    *)
(* wait: the queue, the journals on disk, the oqstreams and the history.     *)
LEMMA ConsumersKept ==
    ASSUME IndInv, UNCHANGED <<iq, got>>,
           IsQueue(q'), Layout(q', OpenIds), Wakeups(q', 0),
           SameClients(q, q'), q'.items_open = q.items_open,
           \A j \in disk' : IsJournal(j),
           oq' \in [Producers -> OqStream],
           IsPartial(accepted', Ids, Seq(Nat)), synced' \subseteq Ids,
           sent' \in [Producers -> Seq(Nat)],
           WithinReserved'
    PROVE  IndInv'
<1>1. OpenConsumers' = OpenConsumers /\ OpenIds' = OpenIds
  BY DEF OpenConsumers, OpenIds
<1>2. TypeOK'
  BY DEF IndInv, TypeOK, OqStream
<1>3. HeldOnce'
  BY <1>1 DEF IndInv, HeldOnce
<1>4. WaitersHoldNothing'
  BY Zenon DEF IndInv, WaitersHoldNothing, SameClients
<1>5. Layout(q, OpenIds)'
  BY <1>1
<1>6. Wakeups(q, 0)'
  OBVIOUS
<1> QED
  BY <1>2, <1>3, <1>4, <1>5, <1>6 DEF IndInv

(* A method that leaves the waiters alone keeps them.                        *)
LEMMA SameClientsRefl ==
    ASSUME NEW o, NEW w, w.waiters = o.waiters
    PROVE  SameClients(o, w)
BY DEF SameClients

(* The type of an oqstream, and how its fields move on with a write.         *)
LEMMA AdvancedType ==
    ASSUME NEW s \in OqStream, NEW chunk \in Chunk
    PROVE  /\ Advanced(s, chunk) \in OqStream
           /\ Advanced(s, chunk).open = s.open
           /\ Advanced(s, chunk).chunk_pos = s.chunk_pos + 1
           /\ Advanced(s, chunk).header.end = s.header.end
           /\ header_str(Advanced(s, chunk).header) \in Seq(Nat)
<1>1. Len(chunk) \in Nat
  BY StreamsAssumption
<1> DEFINE h == [s.header EXCEPT !.size = @ + Len(chunk)]
           a == [s EXCEPT !.header = h, !.chunk_pos = @ + 1]
<1>2. h \in Header /\ h.end = s.header.end
  BY <1>1 DEF Header, OqStream
<1>3. Advanced(s, chunk) = a
  BY DEF Advanced, OqStream
<1> HIDE DEF h
<1>4. a.open = s.open /\ a.chunk_pos = s.chunk_pos + 1 /\ a.header = h
  BY DEF OqStream
<1>5. a \in OqStream
  <2> DEFINE b == [s EXCEPT !.header = h]
  <2>1. b \in OqStream
    BY <1>2, Zenon DEF OqStream
  <2>2. s.chunk_pos + 1 \in Nat
    BY DEF OqStream
  <2>3. a = [b EXCEPT !.chunk_pos = s.chunk_pos + 1]
    OBVIOUS
  <2> HIDE DEF b
  <2> QED
    BY <2>1, <2>2, <2>3, Zenon DEF OqStream
<1>6. header_str(h) \in Seq(Nat)
  BY <1>2 DEF header_str, Header
<1> HIDE DEF a
<1> QED
  BY <1>2, <1>3, <1>4, <1>5, <1>6

(* The types of the state, one by one, as the proofs below use them.         *)
LEMMA Types ==
    ASSUME IndInv
    PROVE  /\ IsQueue(q)
           /\ \A j \in disk : IsJournal(j)
           /\ oq \in [Producers -> OqStream]
           /\ iq \in [Consumers -> IqStream]
           /\ IsPartial(accepted, Ids, Seq(Nat))
           /\ synced \subseteq Ids
           /\ sent \in [Producers -> Seq(Nat)]
           /\ got \in [Consumers -> Seq(Nat)]
           /\ Layout(q, OpenIds)
           /\ Wakeups(q, 0)
BY DEF IndInv, TypeOK, OqStream, IqStream

(* A closed oqstream is one, and is closed.                                  *)
LEMMA ClosedOqType == ClosedOq \in OqStream /\ ~ ClosedOq.open
BY DEF ClosedOq, OqStream, DefaultHeader, Header

(* Closing, opening or moving on one oqstream within its range.              *)
LEMMA OqKeepsReserved ==
    ASSUME IndInv, NEW p \in Producers, NEW s \in OqStream,
           oq' = [oq EXCEPT ![p] = s],
           s.open => /\ s.chunk_pos <= s.header.end
                     /\ s.header.end > 1 => s.header.end <= MaxChunkIds
    PROVE  oq' \in [Producers -> OqStream] /\ WithinReserved'
<1>1. oq \in [Producers -> OqStream]
  BY Types
<1>2. oq' \in [Producers -> OqStream]
  BY <1>1, Zenon
<1>3. \A x \in Producers : oq'[x] = IF x = p THEN s ELSE oq[x]
  BY <1>1, Zenon
<1>4. WithinReserved'
  BY <1>3 DEF IndInv, WithinReserved
<1> QED
  BY <1>2, <1>4

(* What a write that pushed an item does to the streams and the history.     *)
LEMMA PushedHistory ==
    ASSUME IndInv, NEW p \in Producers, NEW body \in Seq(Nat),
           q.queue_head < MaxItems, Pushed(p, body)
    PROVE  /\ UNCHANGED <<iq, got>>
           /\ oq' \in [Producers -> OqStream]
           /\ IsPartial(accepted', Ids, Seq(Nat))
           /\ synced' \subseteq Ids
           /\ sent' \in [Producers -> Seq(Nat)]
           /\ WithinReserved'
<1>1. q.queue_head \in Ids
  BY Types, StreamsAssumption DEF IsQueue, Ids
<1>2. UNCHANGED <<iq, got>> /\ oq' = [oq EXCEPT ![p] = ClosedOq]
  BY DEF Pushed
<1>3. oq' \in [Producers -> OqStream] /\ WithinReserved'
  BY <1>2, OqKeepsReserved, ClosedOqType, Zenon
<1>4. IsPartial(accepted', Ids, Seq(Nat))
  BY <1>1, Types DEF Pushed, IsPartial, With
<1>5. synced' \subseteq Ids
  BY <1>1, Types DEF Pushed
<1>6. sent' \in [Producers -> Seq(Nat)]
  BY Types DEF Pushed
<1> QED
  BY <1>2, <1>3, <1>4, <1>5, <1>6

(* A reservation, a chunk written or erased: the queue but for its chunks.   *)
LEMMA ChunksOnly ==
    ASSUME NEW o, NEW w, NEW H, IsQueue(o), Layout(o, H), Wakeups(o, 0),
           IsQueue(w), SameButChunks(o, w)
    PROVE  /\ Layout(w, H)
           /\ Wakeups(w, 0)
           /\ SameClients(o, w)
           /\ w.items_open = o.items_open
           /\ w.queue_head = o.queue_head
<1>1. Layout(w, H) /\ Wakeups(w, 0)
  BY SameButChunksKeeps
<1>2. w.waiters = o.waiters /\ w.items_open = o.items_open
      /\ w.queue_head = o.queue_head
  BY DEF SameButChunks
<1> QED
  BY <1>1, <1>2, SameClientsRefl

(* The waiters are the same across two methods when they are across each.    *)
LEMMA SameClientsTrans ==
    ASSUME NEW o, NEW v, NEW w, SameClients(o, v), SameClients(v, w)
    PROVE  SameClients(o, w)
BY DEF SameClients

(* oqstream::open keeps the invariant. *)
LEMMA OqOpenInv ==
    ASSUME IndInv, NEW p \in Producers, NEW n \in 1 .. MaxChunks, NEW sync \in BOOLEAN,
           OqOpen(p, n, sync)
    PROVE  IndInv'
<1> DEFINE h == IF n > 1 THEN reserved_header(q, n) ELSE DefaultHeader
           s == [open |-> TRUE, header |-> h, chunk_pos |-> h.beg, sync |-> sync]
<1>1. n \in Nat /\ q.chunks_head \in Nat /\ MaxChunkIds \in Nat
  BY Types, StreamsAssumption DEF IsQueue
<1>2. h \in Header
  BY <1>1 DEF reserved_header, DefaultHeader, Header
<1>3. h.beg <= h.end /\ (h.end > 1 => h.end <= MaxChunkIds)
  BY <1>1 DEF OqOpen, reserved_header, DefaultHeader
<1>4. oq' = [oq EXCEPT ![p] = s]
  BY DEF OqOpen
<1>5. s \in OqStream /\ s.chunk_pos = h.beg /\ s.header = h
  BY <1>2 DEF OqStream, Header
<1>6. oq' \in [Producers -> OqStream] /\ WithinReserved'
  <2> HIDE DEF s, h
  <2> QED
    BY <1>3, <1>4, <1>5, OqKeepsReserved, Zenon
<1>7. /\ IsQueue(q')
      /\ Layout(q', OpenIds)
      /\ Wakeups(q', 0)
      /\ SameClients(q, q')
      /\ q'.items_open = q.items_open
  <2>1. CASE n > 1
    <3>1. q' = reserve_chunks(q, n) /\ q.chunks_head + n <= MaxChunkIds
      BY <2>1 DEF OqOpen
    <3>2. IsQueue(q') /\ SameButChunks(q, q')
      BY <1>1, <3>1, Reserve, Types
    <3> QED
      BY <3>2, ChunksOnly, Types
  <2>2. CASE ~ n > 1
    <3>1. q' = q
      BY <2>2 DEF OqOpen
    <3> QED
      BY <3>1, Types, SameClientsRefl
  <2> QED
    BY <2>1, <2>2
<1>8. sent' \in [Producers -> Seq(Nat)] /\ UNCHANGED <<disk, iq, accepted, synced, got>>
  BY Types DEF OqOpen
<1> QED
  BY <1>6, <1>7, <1>8, Types, ConsumersKept

(* oqstream::write of the only chunk keeps the invariant. *)
LEMMA OqWriteItemInv ==
    ASSUME IndInv, NEW p \in Producers, NEW chunk \in Chunk, OqWriteItem(p, chunk)
    PROVE  IndInv'
<1>1. PICK value \in escape(chunk) : q' = push(q, value)
  BY DEF OqWriteItem
<1>2. value \in Seq(Nat) /\ chunk \in Seq(Nat)
  BY EscapeType, StreamsAssumption
<1>3. q.queue_head < MaxItems /\ Pushed(p, chunk)
      /\ disk' = Logged(disk, q'.journal, oq[p].sync)
  BY DEF OqWriteItem
<1>4. /\ IsQueue(q')
      /\ Layout(q', OpenIds)
      /\ Wakeups(q', 0)
      /\ SameClients(q, q')
      /\ q'.items_open = q.items_open
  BY <1>1, <1>2, <1>3, Push, Types
<1>5. \A j \in disk' : IsJournal(j)
  BY <1>3, <1>4, LoggedType, Types DEF IsQueue
<1> QED
  BY <1>2, <1>3, <1>4, <1>5, PushedHistory, ConsumersKept

(* Writing a chunk through an open stream that is not at its end.            *)
LEMMA ChunkWritten ==
    ASSUME IndInv, NEW p \in Producers, NEW chunk \in Chunk,
           oq[p].open, oq[p].header.end > 1, oq[p].chunk_pos # oq[p].header.end
    PROVE  LET w == write_chunk(q, chunk, oq[p].chunk_pos) IN
           /\ IsQueue(w)
           /\ Layout(w, OpenIds)
           /\ Wakeups(w, 0)
           /\ SameClients(q, w)
           /\ w.items_open = q.items_open
           /\ w.queue_head = q.queue_head
           /\ oq[p].chunk_pos + 1 <= oq[p].header.end
<1> DEFINE id == oq[p].chunk_pos
           w == write_chunk(q, chunk, id)
<1>1. oq[p] \in OqStream
  BY Types
<1>2. id \in Nat /\ oq[p].header.end \in Nat
  BY <1>1 DEF OqStream, Header
<1>3. id <= oq[p].header.end /\ oq[p].header.end <= MaxChunkIds
  BY DEF IndInv, WithinReserved
<1>4. id \in 0 .. (MaxChunkIds - 1) /\ id + 1 <= oq[p].header.end
  BY <1>2, <1>3, StreamsAssumption
<1>5. chunk \in Seq(Nat)
  BY StreamsAssumption
<1>6. IsQueue(w) /\ SameButChunks(q, w)
  BY <1>4, <1>5, WriteChunk, Types
<1>7. /\ Layout(w, OpenIds)
      /\ Wakeups(w, 0)
      /\ SameClients(q, w)
      /\ w.items_open = q.items_open
      /\ w.queue_head = q.queue_head
  <2> HIDE DEF w
  <2> QED
    BY <1>6, ChunksOnly, Types
<1> QED
  BY <1>4, <1>6, <1>7

(* A write that does not push keeps the invariant: OqWriteChunk, and         *)
(* OqWriteHeaderFails for the last chunk.                                    *)
LEMMA OqWriteInv ==
    ASSUME IndInv, NEW p \in Producers, NEW chunk \in Chunk,
           oq[p].open, oq[p].header.end > 1, oq[p].chunk_pos # oq[p].header.end,
           q' = write_chunk(q, chunk, oq[p].chunk_pos),
           disk' = Logged(disk, q'.journal, FALSE),
           oq' = [oq EXCEPT ![p] = Advanced(@, chunk)],
           sent' = [sent EXCEPT ![p] = @ \o chunk],
           UNCHANGED <<iq, accepted, synced, got>>
    PROVE  IndInv'
<1> DEFINE s == Advanced(oq[p], chunk)
<1>1. /\ IsQueue(q')
      /\ Layout(q', OpenIds)
      /\ Wakeups(q', 0)
      /\ SameClients(q, q')
      /\ q'.items_open = q.items_open
      /\ oq[p].chunk_pos + 1 <= oq[p].header.end
  BY ChunkWritten
<1>2. oq \in [Producers -> OqStream] /\ oq[p] \in OqStream
  BY Types
<1>3. /\ s \in OqStream
      /\ s.chunk_pos <= s.header.end
      /\ s.header.end = oq[p].header.end
  BY <1>1, <1>2, AdvancedType
<1>4. oq[p].header.end <= MaxChunkIds
  BY DEF IndInv, WithinReserved
<1>5. oq' = [oq EXCEPT ![p] = s]
  BY <1>2, Zenon
<1>6. oq' \in [Producers -> OqStream] /\ WithinReserved'
  <2> HIDE DEF s
  <2> QED
    BY <1>3, <1>4, <1>5, OqKeepsReserved, Zenon
<1>7. sent' \in [Producers -> Seq(Nat)]
  <2>1. sent \in [Producers -> Seq(Nat)] /\ chunk \in Seq(Nat)
    BY Types, StreamsAssumption
  <2>2. sent[p] \o chunk \in Seq(Nat)
    BY <2>1
  <2> QED
    BY <2>1, <2>2
<1>8. \A j \in disk' : IsJournal(j)
  BY <1>1, LoggedType, Types, Zenon DEF IsQueue
<1>9. IsPartial(accepted', Ids, Seq(Nat)) /\ synced' \subseteq Ids
  BY Types
<1> QED
  BY <1>1, <1>6, <1>7, <1>8, <1>9, ConsumersKept, Zenon

(* oqstream::write of the last chunk, which pushes the header, keeps it.     *)
LEMMA OqWriteLastChunkInv ==
    ASSUME IndInv, NEW p \in Producers, NEW chunk \in Chunk, OqWriteLastChunk(p, chunk)
    PROVE  IndInv'
<1> DEFINE w == write_chunk(q, chunk, oq[p].chunk_pos)
           v == header_str(Advanced(oq[p], chunk).header)
<1>1. oq[p] \in OqStream /\ sent[p] \in Seq(Nat) /\ chunk \in Seq(Nat)
  BY Types, StreamsAssumption
<1>2. /\ oq[p].open
      /\ oq[p].header.end > 1
      /\ q.queue_head < MaxItems
      /\ q' = push(w, v)
      /\ disk' = Logged(Logged(disk, w.journal, FALSE), q'.journal, oq[p].sync)
      /\ Pushed(p, sent[p] \o chunk)
  BY DEF OqWriteLastChunk
<1>3. oq[p].chunk_pos # oq[p].header.end
  BY <1>1, SMTT(20) DEF OqWriteLastChunk, IsLastChunk, OqStream, Header
<1>4. /\ IsQueue(w)
      /\ Layout(w, OpenIds)
      /\ Wakeups(w, 0)
      /\ SameClients(q, w)
      /\ w.items_open = q.items_open
      /\ w.queue_head = q.queue_head
  BY <1>2, <1>3, ChunkWritten
<1>5. v \in Seq(Nat)
  BY <1>1, AdvancedType
<1>6. sent[p] \o chunk \in Seq(Nat)
  BY <1>1
<1> HIDE DEF w, v
<1>7. /\ IsQueue(q')
      /\ Layout(q', OpenIds)
      /\ Wakeups(q', 0)
      /\ SameClients(w, q')
      /\ q'.items_open = q.items_open
  BY <1>2, <1>4, <1>5, Push
<1>8. SameClients(q, q')
  BY <1>4, <1>7, SameClientsTrans
<1>9. \A j \in disk' : IsJournal(j)
  <2>1. \A j \in Logged(disk, w.journal, FALSE) : IsJournal(j)
    BY <1>4, LoggedType, Types, Zenon DEF IsQueue
  <2> QED
    BY <1>2, <1>7, <2>1, LoggedType, Zenon DEF IsQueue
<1> QED
  BY <1>2, <1>6, <1>7, <1>8, <1>9, PushedHistory, ConsumersKept, Zenon

(* oqstream::cancel, and the destructor, keep the invariant. *)
LEMMA OqCancelInv ==
    ASSUME IndInv, NEW p \in Producers, OqCancel(p) \/ OqCancelFails(p)
    PROVE  IndInv'
<1>1. /\ oq' = [oq EXCEPT ![p] = ClosedOq]
      /\ sent' = [sent EXCEPT ![p] = <<>>]
      /\ UNCHANGED <<iq, accepted, synced, got>>
  BY Zenon DEF OqCancel, OqCancelFails
<1>2. oq' \in [Producers -> OqStream] /\ WithinReserved'
  BY <1>1, OqKeepsReserved, ClosedOqType, Zenon
<1>3. /\ sent' \in [Producers -> Seq(Nat)]
      /\ IsPartial(accepted', Ids, Seq(Nat))
      /\ synced' \subseteq Ids
  BY <1>1, Types
<1>4. /\ IsQueue(q')
      /\ Layout(q', OpenIds)
      /\ Wakeups(q', 0)
      /\ SameClients(q, q')
      /\ q'.items_open = q.items_open
      /\ \A j \in disk' : IsJournal(j)
  <2>1. CASE OqCancel(p) /\ oq[p].header.end > 1
    <3>1. q' = erase_chunks(q, oq[p].header) /\ disk' = Logged(disk, q'.journal, FALSE)
      BY <2>1, Zenon DEF OqCancel
    <3>2. IsQueue(q') /\ SameButChunks(q, q')
      BY <3>1, EraseChunks, Types
    <3>3. \A j \in disk' : IsJournal(j)
      BY <3>1, <3>2, LoggedType, Types, Zenon DEF IsQueue
    <3> QED
      BY <3>2, <3>3, ChunksOnly, Types
  <2>2. CASE ~ (OqCancel(p) /\ oq[p].header.end > 1)
    <3>1. q' = q /\ disk' = disk
      BY <2>2, Zenon DEF OqCancel, OqCancelFails
    <3> QED
      BY <3>1, Types, SameClientsRefl
  <2> QED
    BY <2>1, <2>2
<1> QED
  BY <1>1, <1>2, <1>3, <1>4, ConsumersKept

-----------------------------------------------------------------------------
(* Steps of a consumer change one iqstream.                                  *)

(* The consumers with an open item are finitely many.                        *)
LEMMA OpenConsumersFinite ==
    IsFiniteSet(OpenConsumers) /\ Cardinality(OpenConsumers) \in Nat
<1>1. OpenConsumers \subseteq Consumers
  BY DEF OpenConsumers
<1> QED
  BY <1>1, FS_Subset, FS_CardinalityType, StreamsAssumption

(* Where a consumer's stream is after a step that changes only that one.     *)
LEMMA StreamSet ==
    ASSUME IndInv, NEW c \in Consumers, NEW s \in IqStream,
           iq' = [iq EXCEPT ![c] = s]
    PROVE  /\ iq' \in [Consumers -> IqStream]
           /\ \A d \in Consumers : iq'[d] = IF d = c THEN s ELSE iq[d]
<1>1. iq \in [Consumers -> IqStream]
  BY Types
<1> QED
  BY <1>1, Zenon

(* A stream that opens a new id holds it, and nobody else does.              *)
LEMMA OpenOne ==
    ASSUME IndInv, NEW c \in Consumers, NEW s \in IqStream,
           iq' = [iq EXCEPT ![c] = s], ~ iq[c].open, s.open, s.id \notin OpenIds
    PROVE  /\ OpenIds' = OpenIds \cup {s.id}
           /\ Cardinality(OpenConsumers') = Cardinality(OpenConsumers) + 1
           /\ \A d, e \in OpenConsumers' : d # e => iq'[d].id # iq'[e].id
<1>1. \A d \in Consumers : iq'[d] = IF d = c THEN s ELSE iq[d]
  BY StreamSet, Zenon
<1>2. OpenConsumers' = OpenConsumers \cup {c} /\ c \notin OpenConsumers
  BY <1>1 DEF OpenConsumers
<1>3. OpenIds' = OpenIds \cup {s.id}
  BY <1>1 DEF OpenIds
<1>4. Cardinality(OpenConsumers') = Cardinality(OpenConsumers) + 1
  BY <1>2, OpenConsumersFinite, FS_AddElement, Zenon
<1>5. \A d \in OpenConsumers : d \in Consumers /\ d # c /\ iq'[d].id \in OpenIds
                               /\ iq'[d] = iq[d]
  BY <1>1, <1>2 DEF OpenConsumers, OpenIds
<1>6. iq'[c].id = s.id
  BY <1>1
<1>7. \A d, e \in OpenConsumers' : d # e => iq'[d].id # iq'[e].id
  BY <1>2, <1>5, <1>6 DEF IndInv, HeldOnce
<1> QED
  BY <1>3, <1>4, <1>7

(* A stream that closes gives up its id, which nobody else held.             *)
LEMMA CloseOne ==
    ASSUME IndInv, NEW c \in Consumers, NEW s \in IqStream,
           iq' = [iq EXCEPT ![c] = s], iq[c].open, ~ s.open
    PROVE  /\ iq[c].id \in OpenIds
           /\ q.items_open > 0
           /\ OpenIds' = OpenIds \ {iq[c].id}
           /\ Cardinality(OpenConsumers') = Cardinality(OpenConsumers) - 1
           /\ \A d, e \in OpenConsumers' : d # e => iq'[d].id # iq'[e].id
<1>1. \A d \in Consumers : iq'[d] = IF d = c THEN s ELSE iq[d]
  BY StreamSet, Zenon
<1>2. OpenConsumers' = OpenConsumers \ {c} /\ c \in OpenConsumers
  BY <1>1 DEF OpenConsumers
<1>3. Cardinality(OpenConsumers') = Cardinality(OpenConsumers) - 1
  BY <1>2, OpenConsumersFinite, FS_RemoveElement, Zenon
<1>4. q.items_open > 0
  <2>1. Cardinality(OpenConsumers) # 0
    BY <1>2, OpenConsumersFinite, FS_EmptySet
  <2> QED
    BY <2>1, OpenConsumersFinite DEF IndInv, HeldOnce
<1>5. \A d \in OpenConsumers \ {c} : iq'[d] = iq[d] /\ iq[d].id # iq[c].id
  BY <1>1, <1>2 DEF IndInv, HeldOnce, OpenConsumers
<1>6. \A d, e \in OpenConsumers' : d # e => iq'[d].id # iq'[e].id
  BY <1>2, <1>5 DEF IndInv, HeldOnce
<1>7. OpenIds = {iq[d].id : d \in OpenConsumers}
  BY DEF OpenIds, OpenConsumers
<1>8. OpenIds' = {iq'[d].id : d \in OpenConsumers'}
  BY DEF OpenIds, OpenConsumers
<1>9. OpenIds' = OpenIds \ {iq[c].id} /\ iq[c].id \in OpenIds
  BY <1>2, <1>5, <1>7, <1>8
<1> QED
  BY <1>3, <1>4, <1>6, <1>9

(* A stream that keeps its id and stays as it was, open or not.              *)
LEMMA KeepOne ==
    ASSUME IndInv, NEW c \in Consumers, NEW s \in IqStream,
           iq' = [iq EXCEPT ![c] = s], s.open = iq[c].open, s.id = iq[c].id
    PROVE  /\ OpenIds' = OpenIds
           /\ OpenConsumers' = OpenConsumers
           /\ \A d \in Consumers : iq'[d].id = iq[d].id /\ iq'[d].open = iq[d].open
<1>1. \A d \in Consumers : iq'[d].id = iq[d].id /\ iq'[d].open = iq[d].open
  BY StreamSet
<1>2. OpenConsumers' = OpenConsumers
  BY <1>1 DEF OpenConsumers
<1>3. OpenIds' = OpenIds
  BY <1>1 DEF OpenIds
<1> QED
  BY <1>1, <1>2, <1>3

(* What is left to show of a step that keeps the oqstreams.                  *)
LEMMA ProducersKept ==
    ASSUME IndInv, UNCHANGED <<oq, sent>>,
           IsQueue(q'), Layout(q', OpenIds'), Wakeups(q', 0),
           \A j \in disk' : IsJournal(j),
           IsPartial(accepted', Ids, Seq(Nat)), synced' \subseteq Ids,
           iq' \in [Consumers -> IqStream], got' \in [Consumers -> Seq(Nat)],
           HeldOnce', WaitersHoldNothing'
    PROVE  IndInv'
<1>1. TypeOK'
  BY DEF IndInv, TypeOK, IqStream
<1>2. WithinReserved'
  BY DEF IndInv, WithinReserved
<1>3. Layout(q, OpenIds)' /\ Wakeups(q, 0)'
  OBVIOUS
<1> QED
  BY <1>1, <1>2, <1>3 DEF IndInv

(* The clients that wait on the queue object o hold nothing and wait once.   *)
HoldNothing(o) ==
    /\ \A i \in 1 .. Len(o.waiters) : ~ iq[o.waiters[i].cb].open
    /\ \A i, j \in 1 .. Len(o.waiters) : o.waiters[i].cb = o.waiters[j].cb => i = j

(* Whoever waits is a consumer.                                              *)
LEMMA WaitersAreConsumers ==
    ASSUME NEW o, IsQueue(o)
    PROVE  \A i \in 1 .. Len(o.waiters) : o.waiters[i].cb \in Consumers
<1>1. \A i \in 1 .. Len(o.waiters) : o.waiters[i] \in Waiter
  BY DEF IsQueue
<1>2. \A x \in Waiter : x.cb \in Consumers
  BY Zenon DEF Waiter
<1> QED
  BY <1>1, <1>2

(* A closed iqstream is one, and is closed.                                  *)
LEMMA ClosedIqType == ClosedIq \in IqStream /\ ~ ClosedIq.open
BY DEF ClosedIq, IqStream, DefaultHeader, Header

(* As many items as woken waiters, or one more.                              *)
LEMMA WakeupsWeaker ==
    ASSUME NEW o, IsQueue(o), o.queue_tail <= o.queue_head, Wakeups(o, 0)
    PROVE  Wakeups(o, 1)
<1>1. count(o) \in Nat /\ o.wake_up_it \in Nat
  BY CountType, SMTT(20) DEF IsQueue
<1> QED
  BY <1>1 DEF Wakeups

(* iqstream::open of an item of the queue object o, which the step has       *)
(* changed at most by letting a waiter go, keeps the invariant.              *)
LEMMA IqOpenedInv ==
    ASSUME IndInv, NEW c \in Consumers, NEW o,
           IsQueue(o), Layout(o, OpenIds), Wakeups(o, 1), can_pop(o),
           o.items_open = q.items_open, HoldNothing(o), ~ iq[c].open,
           \A i \in 1 .. Len(o.waiters) : o.waiters[i].cb # c,
           IqOpened(c, o), UNCHANGED <<disk, oq, accepted, synced, sent>>
    PROVE  IndInv'
<1> DEFINE id == pop_begin_id(o)
           s == [ClosedIq EXCEPT !.open = TRUE, !.id = id]
<1>1. /\ id \in Nat
      /\ id \notin OpenIds
      /\ IsQueue(q')
      /\ Layout(q', OpenIds \cup {id})
      /\ Wakeups(q', 0)
      /\ q'.waiters = o.waiters
      /\ q'.items_open = q.items_open + 1
  BY PopBegin, Zenon DEF IqOpened
<1> HIDE DEF id
<1>2. s \in IqStream /\ s.open /\ s.id = id
  BY <1>1, Zenon DEF ClosedIq, IqStream, DefaultHeader, Header
<1>3. iq' = [iq EXCEPT ![c] = s] /\ got' = [got EXCEPT ![c] = <<>>]
  BY DEF IqOpened, id
<1> HIDE DEF s
<1>4. /\ iq' \in [Consumers -> IqStream]
      /\ \A d \in Consumers : iq'[d] = IF d = c THEN s ELSE iq[d]
  BY <1>2, <1>3, StreamSet, Zenon
<1>5. /\ OpenIds' = OpenIds \cup {id}
      /\ Cardinality(OpenConsumers') = Cardinality(OpenConsumers) + 1
      /\ \A d, e \in OpenConsumers' : d # e => iq'[d].id # iq'[e].id
  BY <1>1, <1>2, <1>3, OpenOne, Zenon
<1>6. HeldOnce'
  BY <1>1, <1>5, SMTT(20) DEF IndInv, HeldOnce
<1>7. WaitersHoldNothing'
  <2>1. \A i \in 1 .. Len(o.waiters) : o.waiters[i].cb \in Consumers
    BY WaitersAreConsumers
  <2> QED
    BY <1>1, <1>4, <2>1 DEF HoldNothing, WaitersHoldNothing
<1>8. got' \in [Consumers -> Seq(Nat)]
  BY <1>3, Types
<1> QED
  BY <1>1, <1>4, <1>5, <1>6, <1>7, <1>8, Types, ProducersKept

(* A consumer that finds an item keeps the invariant. *)
LEMMA IqOpenInv ==
    ASSUME IndInv, NEW c \in Consumers, IqOpen(c)
    PROVE  IndInv'
<1>1. IsQueue(q) /\ Layout(q, OpenIds) /\ Wakeups(q, 0)
  BY Types
<1>2. Wakeups(q, 1)
  BY <1>1, WakeupsWeaker DEF Layout
<1>3. HoldNothing(q)
  BY DEF IndInv, WaitersHoldNothing, HoldNothing
<1>4. \A i \in 1 .. Len(q.waiters) : q.waiters[i].cb # c
  BY DEF IqOpen, Waiting, WaitingAt
<1>5. can_pop(q)
  BY <1>1, PopTestsAgree, SMTT(20) DEF IqOpen, Layout
<1> QED
  BY <1>1, <1>2, <1>3, <1>4, <1>5, IqOpenedInv DEF IqOpen

(* A consumer that has to wait keeps the invariant. *)
LEMMA IqOpenWaitInv ==
    ASSUME IndInv, NEW c \in Consumers, IqOpenWait(c)
    PROVE  IndInv'
<1>1. /\ ~ iq[c].open
      /\ ~ can_pop(q)
      /\ q' = wait(q, c)
      /\ UNCHANGED <<disk, oq, iq, accepted, synced, sent, got>>
  BY PopTestsAgree, Types DEF IqOpenWait, Layout
<1>2. \A i \in 1 .. Len(q.waiters) : q.waiters[i].cb # c
  BY SMTT(20) DEF IqOpenWait, Waiting, WaitingAt
<1>3. /\ IsQueue(q')
      /\ Layout(q', OpenIds)
      /\ Wakeups(q', 0)
      /\ Len(q'.waiters) = Len(q.waiters) + 1
      /\ \A i \in 1 .. Len(q.waiters) : q'.waiters[i] = q.waiters[i]
      /\ q'.waiters[Len(q.waiters) + 1].cb = c
      /\ q'.items_open = q.items_open
  BY <1>1, Wait, Types, Zenon
<1>4. OpenIds' = OpenIds /\ OpenConsumers' = OpenConsumers
  BY <1>1, SMTT(20) DEF OpenIds, OpenConsumers
<1>5. HeldOnce'
  BY <1>1, <1>3, <1>4 DEF IndInv, HeldOnce
<1>6. WaitersHoldNothing'
  <2>1. Len(q.waiters) \in Nat
    BY Types, SMTT(20) DEF IsQueue
  <2>2. \A i \in 1 .. Len(q'.waiters) :
            i \in 1 .. Len(q.waiters) \/ i = Len(q.waiters) + 1
    BY <1>3, <2>1
  <2>3. \A i \in 1 .. Len(q'.waiters) : ~ iq'[q'.waiters[i].cb].open
    BY <1>1, <1>3, <2>2, Zenon DEF IndInv, WaitersHoldNothing
  <2>4. \A i, j \in 1 .. Len(q'.waiters) :
            q'.waiters[i].cb = q'.waiters[j].cb => i = j
    BY <1>2, <1>3, <2>2, Zenon DEF IndInv, WaitersHoldNothing
  <2> QED
    BY <2>3, <2>4, SMTT(20) DEF WaitersHoldNothing
<1> QED
  BY <1>1, <1>3, <1>4, <1>5, <1>6, Types, ProducersKept

(* The deadline of a waiter keeps the invariant. *)
LEMMA TimerExpiresInv ==
    ASSUME IndInv, NEW c \in Consumers, TimerExpires(c)
    PROVE  IndInv'
<1>1. PICK i \in 1 .. Len(q.waiters) : q' = expire(q, i)
  BY DEF TimerExpires, WaitingAt
<1>2. /\ IsQueue(q')
      /\ Layout(q', OpenIds)
      /\ Wakeups(q', 0)
      /\ SameClients(q, q')
      /\ q'.items_open = q.items_open
  BY <1>1, Expire, Types
<1>3. UNCHANGED <<disk, oq, iq, accepted, synced, sent, got>>
  BY DEF TimerExpires
<1>4. WithinReserved'
  BY <1>3 DEF IndInv, WithinReserved
<1> QED
  BY <1>2, <1>3, <1>4, Types, ConsumersKept

(* The handler of a waiter's timer keeps the invariant. *)
LEMMA WaiterWakeupInv ==
    ASSUME IndInv, NEW c \in Consumers, WaiterWakeup(c)
    PROVE  IndInv'
<1>1. PICK i \in WaitingAt(c) :
          LET w == waiter_wakeup(q, i) IN
          \/ can_pop(w) /\ IqOpened(c, w)
          \/ ~ can_pop(w) /\ q' = w /\ UNCHANGED <<iq, got>>
  BY DEF WaiterWakeup
<1> DEFINE w == waiter_wakeup(q, i)
<1>2. i \in 1 .. Len(q.waiters) /\ q.waiters[i].cb = c /\ Len(q.waiters) \in Nat
  BY Types, SMTT(20) DEF WaitingAt, IsQueue
<1>3. /\ IsQueue(w)
      /\ Layout(w, OpenIds)
      /\ Wakeups(w, 1)
      /\ ~ can_pop(w) => Wakeups(w, 0)
      /\ Len(w.waiters) = Len(q.waiters) - 1
      /\ \A k \in 1 .. (Len(q.waiters) - 1) :
            w.waiters[k] = IF k < i THEN q.waiters[k] ELSE q.waiters[k + 1]
      /\ w.items_open = q.items_open
  BY <1>2, Release, Types
<1> HIDE DEF w
<1> DEFINE old(k) == IF k < i THEN k ELSE k + 1
<1>4. \A k \in 1 .. Len(w.waiters) :
          /\ old(k) \in 1 .. Len(q.waiters)
          /\ old(k) # i
          /\ w.waiters[k] = q.waiters[old(k)]
  <2> SUFFICES ASSUME NEW k \in 1 .. Len(w.waiters)
               PROVE  /\ old(k) \in 1 .. Len(q.waiters)
                      /\ old(k) # i
                      /\ w.waiters[k] = q.waiters[old(k)]
    OBVIOUS
  <2>1. k \in 1 .. (Len(q.waiters) - 1)
    BY <1>3
  <2>2. CASE k < i
    BY <1>2, <1>3, <2>1, <2>2
  <2>3. CASE ~ (k < i)
    <3>1. old(k) = k + 1
      BY <2>3
    <3>2. k + 1 \in 1 .. Len(q.waiters) /\ k + 1 # i
      BY <1>2, <2>1, <2>3
    <3>3. w.waiters[k] = q.waiters[k + 1]
      BY <1>3, <2>1, <2>3
    <3> HIDE DEF old
    <3> QED
      BY <3>1, <3>2, <3>3
  <2> QED
    BY <2>2, <2>3
<1>5. \A k, l \in 1 .. Len(w.waiters) : old(k) = old(l) => k = l
  BY <1>2, <1>3
<1> HIDE DEF old
<1>6. HoldNothing(w) /\ ~ iq[c].open /\ \A k \in 1 .. Len(w.waiters) : w.waiters[k].cb # c
  BY <1>2, <1>4, <1>5, Zenon DEF IndInv, WaitersHoldNothing, HoldNothing
<1>7. UNCHANGED <<disk, oq, accepted, synced, sent>>
  BY DEF WaiterWakeup
<1>8. CASE can_pop(w) /\ IqOpened(c, w)
  BY <1>3, <1>6, <1>7, <1>8, IqOpenedInv
<1>9. CASE ~ can_pop(w) /\ q' = w /\ UNCHANGED <<iq, got>>
  <2>1. OpenIds' = OpenIds /\ OpenConsumers' = OpenConsumers
    BY <1>9, SMTT(20) DEF OpenIds, OpenConsumers
  <2>2. HeldOnce'
    BY <1>3, <1>9, <2>1, SMTT(20) DEF IndInv, HeldOnce
  <2>3. WaitersHoldNothing'
    BY <1>6, <1>9 DEF HoldNothing, WaitersHoldNothing
  <2>4. IsQueue(q') /\ Layout(q', OpenIds') /\ Wakeups(q', 0)
    BY <1>3, <1>9, <2>1
  <2> QED
    BY <1>7, <1>9, <2>2, <2>3, <2>4, Types, ProducersKept
<1> QED
  BY <1>1, <1>8, <1>9 DEF w

(* What pop_read makes of a string: a header and an item.                    *)
LEMMA UnescapeType ==
    ASSUME NEW s \in Seq(Nat)
    PROVE  unescape(s).header \in Header /\ unescape(s).item \in Seq(Nat)
<1> DEFINE n == Len(s)
           plain == [ok |-> TRUE, header |-> DefaultHeader, item |-> s]
<1>1. n \in Nat
  OBVIOUS
<1>2. DefaultHeader \in Header
  BY DEF DefaultHeader, Header
<1>3. CASE ~ (n > 2 /\ s[n] = 0)
  BY <1>2, <1>3 DEF unescape
<1>4. CASE n > 2 /\ s[n] = 0 /\ s[n - 1] = 1
  <2> DEFINE h == [beg |-> s[1], end |-> s[2], size |-> s[3]]
  <2>1. s[1] \in Nat /\ s[2] \in Nat /\ s[3] \in Nat
    BY <1>1, <1>4
  <2>2. h \in Header
    BY <2>1 DEF Header
  <2>3. unescape(s) = [plain EXCEPT !.header = h]
    BY <1>4 DEF unescape
  <2> HIDE DEF h
  <2> QED
    BY <2>2, <2>3
<1>5. CASE n > 2 /\ s[n] = 0 /\ s[n - 1] # 1 /\ s[n - 1] = 0
  <2> DEFINE t == SubSeq(s, 1, n - 1)
  <2>1. t \in Seq(Nat)
    BY <1>1, <1>5
  <2>2. unescape(s) = [plain EXCEPT !.item = t]
    BY <1>5 DEF unescape
  <2> HIDE DEF t
  <2> QED
    BY <1>2, <2>1, <2>2
<1>6. CASE n > 2 /\ s[n] = 0 /\ s[n - 1] # 1 /\ s[n - 1] # 0
  <2>1. unescape(s) = [plain EXCEPT !.ok = FALSE]
    BY <1>6 DEF unescape
  <2> QED
    BY <1>2, <2>1
<1> QED
  BY <1>3, <1>4, <1>5, <1>6

(* The header, the position and the bytes of a read that succeeds.           *)
LEMMA ReadTypes ==
    ASSUME IndInv, NEW s \in IqStream, s.chunk_pos < s.header.end, readable(q, s)
    PROVE  /\ read_header(q, s) \in Header
           /\ read_pos(q, s) \in Nat
           /\ read_bytes(q, s) \in Seq(Nat)
<1>1. s.chunk_pos \in Nat /\ s.header \in Header /\ s.header.end \in Nat
  BY SMTT(20) DEF IqStream, Header
<1>2. /\ IsPartial(q.journal.items, Ids, Seq(Nat))
      /\ IsPartial(q.journal.chunks, 0 .. (MaxChunkIds - 1), Seq(Nat))
  BY Types DEF IsQueue, IsJournal
<1> DEFINE first == pop_read(q, s.id)
<1>3. s.chunk_pos = 0 => first.header \in Header /\ first.item \in Seq(Nat)
  <2> SUFFICES ASSUME s.chunk_pos = 0
               PROVE  first.header \in Header /\ first.item \in Seq(Nat)
    OBVIOUS
  <2>1. q.journal.items[s.id] \in Seq(Nat)
    BY <1>2 DEF readable, IsPartial
  <2> QED
    BY <2>1, UnescapeType DEF pop_read
<1>4. read_header(q, s) \in Header
  <2>1. CASE s.chunk_pos # 0
    BY <1>1, <2>1 DEF read_header
  <2>2. CASE s.chunk_pos = 0
    <3>1. Len(first.item) \in Nat
      BY <1>3, <2>2
    <3>2. [first.header EXCEPT !.size = Len(first.item)] \in Header
      BY <1>3, <2>2, <3>1 DEF Header
    <3> HIDE DEF first
    <3> QED
      BY <1>3, <2>2, <3>2 DEF read_header, first
  <2> QED
    BY <2>1, <2>2
<1>5. read_header(q, s).beg \in Nat /\ read_header(q, s).end \in Nat
  BY <1>4 DEF Header
<1>6. read_pos(q, s) \in Nat
  BY <1>1, <1>5 DEF read_pos
<1>7. CASE read_header(q, s).end > 1
  BY <1>2, <1>4, <1>6, <1>7 DEF readable, read_bytes, IsPartial
<1>8. CASE ~ read_header(q, s).end > 1
  <2>1. s.chunk_pos = 0
    <3> SUFFICES ASSUME s.chunk_pos # 0 PROVE FALSE
      OBVIOUS
    <3>1. read_header(q, s) = s.header
      BY SMTT(20) DEF read_header
    <3> QED
      BY <1>1, <1>8, <3>1
  <2> QED
    BY <1>3, <1>4, <1>6, <1>8, <2>1 DEF read_bytes
<1> QED
  BY <1>7, <1>8

(* iqstream::read keeps the invariant. *)
LEMMA IqReadInv ==
    ASSUME IndInv, NEW c \in Consumers, IqRead(c)
    PROVE  IndInv'
<1> DEFINE h == read_header(q, iq[c])
           pos == read_pos(q, iq[c]) + 1
           result == read_bytes(q, iq[c])
           tell == iq[c].tell + Len(result)
           s == [iq[c] EXCEPT !.header = h, !.chunk_pos = pos, !.tell = tell]
<1>1. /\ iq[c].chunk_pos < iq[c].header.end
      /\ readable(q, iq[c])
      /\ iq' = [iq EXCEPT ![c] = s]
      /\ got' = [got EXCEPT ![c] = @ \o result]
      /\ UNCHANGED <<q, disk, oq, accepted, synced, sent>>
  BY DEF IqRead
<1>2. iq[c] \in IqStream /\ iq[c].tell \in Nat
  <2>1. iq[c] \in IqStream
    BY Types
  <2> QED
    BY <2>1, Zenon DEF IqStream
<1>3. h \in Header /\ read_pos(q, iq[c]) \in Nat /\ result \in Seq(Nat)
  BY <1>1, <1>2, ReadTypes
<1> HIDE DEF h, result
<1>4. pos \in Nat /\ tell \in Nat
  BY <1>2, <1>3
<1> HIDE DEF pos, tell
<1>5. s \in IqStream /\ s.open = iq[c].open /\ s.id = iq[c].id
  BY <1>2, <1>3, <1>4, Zenon DEF IqStream
<1> HIDE DEF s
<1>6. iq' \in [Consumers -> IqStream]
  BY <1>1, <1>5, StreamSet, Zenon
<1>7. /\ OpenIds' = OpenIds
      /\ OpenConsumers' = OpenConsumers
      /\ \A d \in Consumers : iq'[d].id = iq[d].id /\ iq'[d].open = iq[d].open
  BY <1>1, <1>5, KeepOne, Zenon
<1>8. HeldOnce'
  <2>1. \A d \in OpenConsumers : d \in Consumers
    BY DEF OpenConsumers
  <2>2. \A d, e \in OpenConsumers' : d # e => iq'[d].id # iq'[e].id
    BY <1>7, <2>1 DEF IndInv, HeldOnce
  <2>3. q'.items_open = Cardinality(OpenConsumers')
    BY <1>1, <1>7, Zenon DEF IndInv, HeldOnce
  <2> QED
    BY <2>2, <2>3, Zenon DEF HeldOnce
<1>9. WaitersHoldNothing'
  <2>1. \A i \in 1 .. Len(q.waiters) : q.waiters[i].cb \in Consumers
    BY Types, WaitersAreConsumers
  <2> QED
    BY <1>1, <1>7, <2>1, Zenon DEF IndInv, WaitersHoldNothing
<1>10. got' \in [Consumers -> Seq(Nat)]
  <2>1. got \in [Consumers -> Seq(Nat)]
    BY Types
  <2>2. got[c] \o result \in Seq(Nat)
    BY <1>3, <2>1, SMTT(20)
  <2> QED
    BY <1>1, <2>1, <2>2
<1>11. IsQueue(q') /\ Layout(q', OpenIds') /\ Wakeups(q', 0)
  BY <1>1, <1>7, Types
<1> QED
  BY <1>1, <1>6, <1>8, <1>9, <1>10, <1>11, Types, ProducersKept

(* What is left of the history is a part of it.                              *)
LEMMA AcceptedInType ==
    ASSUME IndInv, NEW D
    PROVE  IsPartial(AcceptedIn(D), Ids, Seq(Nat))
BY Types DEF AcceptedIn, IsPartial, Restrict

(* What closing a stream does to the consumers.                              *)
LEMMA Closed ==
    ASSUME IndInv, NEW c \in Consumers, iq[c].open,
           iq' = [iq EXCEPT ![c] = ClosedIq], got' = [got EXCEPT ![c] = <<>>],
           SameClients(q, q'), q'.items_open = q.items_open - 1
    PROVE  /\ iq' \in [Consumers -> IqStream]
           /\ got' \in [Consumers -> Seq(Nat)]
           /\ HeldOnce'
           /\ WaitersHoldNothing'
<1>1. /\ iq' \in [Consumers -> IqStream]
      /\ \A d \in Consumers : iq'[d] = IF d = c THEN ClosedIq ELSE iq[d]
  BY StreamSet, ClosedIqType, Zenon
<1>2. /\ Cardinality(OpenConsumers') = Cardinality(OpenConsumers) - 1
      /\ \A d, e \in OpenConsumers' : d # e => iq'[d].id # iq'[e].id
  BY CloseOne, ClosedIqType, Zenon
<1>3. HeldOnce'
  BY <1>2 DEF IndInv, HeldOnce
<1>4. \A d \in Consumers : ~ iq[d].open => ~ iq'[d].open
  BY <1>1, ClosedIqType
<1>5. \A i \in 1 .. Len(q.waiters) : q.waiters[i].cb \in Consumers
  BY Types, WaitersAreConsumers
<1>6. WaitersHoldNothing'
  BY <1>4, <1>5 DEF IndInv, WaitersHoldNothing, SameClients
<1>7. got' \in [Consumers -> Seq(Nat)]
  BY Types
<1> QED
  BY <1>1, <1>3, <1>6, <1>7

(* iqstream::close(true) keeps the invariant. *)
LEMMA IqCloseEraseInv ==
    ASSUME IndInv, NEW c \in Consumers, IqCloseErase(c)
    PROVE  IndInv'
<1>1. /\ iq[c].open
      /\ q' = pop_end_erase(q, iq[c].id, iq[c].header)
      /\ disk' = Logged(disk, q'.journal, FALSE)
      /\ iq' = [iq EXCEPT ![c] = ClosedIq]
      /\ accepted' = AcceptedIn(disk')
      /\ synced' = synced \ {iq[c].id}
      /\ got' = [got EXCEPT ![c] = <<>>]
      /\ UNCHANGED <<oq, sent>>
  BY DEF IqCloseErase
<1>2. /\ iq[c].id \in OpenIds
      /\ q.items_open > 0
      /\ OpenIds' = OpenIds \ {iq[c].id}
  BY <1>1, CloseOne, ClosedIqType, Zenon
<1>3. iq[c].header \in Header
  <2>1. iq[c] \in IqStream
    BY Types
  <2> QED
    BY <2>1, Zenon DEF IqStream
<1>4. /\ IsQueue(q')
      /\ Layout(q', OpenIds')
      /\ Wakeups(q', 0)
      /\ q'.waiters = q.waiters
      /\ q'.items_open = q.items_open - 1
  BY <1>1, <1>2, <1>3, PopEndErase, Types, Zenon
<1>5. SameClients(q, q')
  BY <1>4, SameClientsRefl
<1>6. \A j \in disk' : IsJournal(j)
  BY <1>1, <1>4, LoggedType, Types, Zenon DEF IsQueue
<1>7. IsPartial(accepted', Ids, Seq(Nat)) /\ synced' \subseteq Ids
  BY <1>1, AcceptedInType, Types, Zenon
<1> QED
  BY <1>1, <1>4, <1>5, <1>6, <1>7, Closed, ProducersKept, Zenon

(* iqstream::close(false) keeps the invariant. *)
LEMMA IqCloseReturnInv ==
    ASSUME IndInv, NEW c \in Consumers, IqCloseReturn(c)
    PROVE  IndInv'
<1>1. /\ iq[c].open
      /\ q' = pop_end_return(q, iq[c].id)
      /\ iq' = [iq EXCEPT ![c] = ClosedIq]
      /\ got' = [got EXCEPT ![c] = <<>>]
      /\ UNCHANGED <<disk, oq, accepted, synced, sent>>
  BY DEF IqCloseReturn
<1>2. /\ iq[c].id \in OpenIds
      /\ q.items_open > 0
      /\ OpenIds' = OpenIds \ {iq[c].id}
  BY <1>1, CloseOne, ClosedIqType, Zenon
<1>3. /\ IsQueue(q')
      /\ Layout(q', OpenIds')
      /\ Wakeups(q', 0)
      /\ SameClients(q, q')
      /\ q'.items_open = q.items_open - 1
  BY <1>1, <1>2, PopEndReturn, Types, Zenon
<1> QED
  BY <1>1, <1>3, Types, Closed, ProducersKept, Zenon

-----------------------------------------------------------------------------
(* Crash and restart, and the step as a whole.                               *)

(* A restart from any journal that a crash leaves behind keeps it.           *)
LEMMA CrashInv ==
    ASSUME IndInv, Crash
    PROVE  IndInv'
<1>1. PICK j \in disk : q' = recover(j) /\ disk' = {j}
  BY DEF Crash
<1>2. /\ IsQueue(q')
      /\ Layout(q', {})
      /\ Wakeups(q', 0)
      /\ q'.waiters = <<>>
      /\ q'.items_open = 0
      /\ \A k \in disk' : IsJournal(k)
  BY <1>1, Recover, Types, Zenon
<1>3. /\ oq' = [p \in Producers |-> ClosedOq]
      /\ iq' = [c \in Consumers |-> ClosedIq]
      /\ sent' = [p \in Producers |-> <<>>]
      /\ got' = [c \in Consumers |-> <<>>]
      /\ accepted' = AcceptedIn(disk')
      /\ synced' = synced
  BY DEF Crash, StreamsLost
<1>4. OpenIds' = {} /\ OpenConsumers' = {}
  BY <1>3, ClosedIqType DEF OpenIds, OpenConsumers
<1>5. TypeOK'
  <2>1. oq' \in [Producers -> OqStream] /\ iq' \in [Consumers -> IqStream]
    BY <1>3, ClosedOqType, ClosedIqType
  <2>2. sent' \in [Producers -> Seq(Nat)] /\ got' \in [Consumers -> Seq(Nat)]
    BY <1>3
  <2>3. IsPartial(accepted', Ids, Seq(Nat)) /\ synced' \subseteq Ids
    BY <1>3, AcceptedInType, Types
  <2> QED
    BY <1>2, <2>1, <2>2, <2>3 DEF TypeOK, OqStream, IqStream
<1>6. HeldOnce'
  BY <1>2, <1>4, FS_EmptySet DEF HeldOnce
<1>7. WaitersHoldNothing'
  BY <1>2 DEF WaitersHoldNothing
<1>8. WithinReserved'
  BY <1>3, ClosedOqType DEF WithinReserved
<1>9. Layout(q, OpenIds)' /\ Wakeups(q, 0)'
  BY <1>2, <1>4
<1> QED
  BY <1>5, <1>6, <1>7, <1>8, <1>9 DEF IndInv

(* Every step of the system keeps the invariant. *)
LEMMA NextIndInv == IndInv /\ [Next]_vars => IndInv'
<1> SUFFICES ASSUME IndInv, [Next]_vars PROVE IndInv'
  OBVIOUS
<1>1. ASSUME NEW p \in Producers, ProducerStep(p) PROVE IndInv'
  <2>1. CASE \E n \in 1 .. MaxChunks, sync \in SyncModes : OqOpen(p, n, sync)
    BY <2>1, OqOpenInv, Zenon DEF SyncModes
  <2>2. CASE \E chunk \in Chunk : OqWriteItem(p, chunk)
    BY <2>2, OqWriteItemInv
  <2>3. CASE \E chunk \in Chunk : OqWriteChunk(p, chunk)
    BY <2>3, OqWriteInv, Zenon DEF OqWriteChunk
  <2>4. CASE \E chunk \in Chunk : OqWriteLastChunk(p, chunk)
    BY <2>4, OqWriteLastChunkInv
  <2>5. CASE \E chunk \in Chunk : OqWriteHeaderFails(p, chunk)
    <3>1. PICK chunk \in Chunk : OqWriteHeaderFails(p, chunk)
      BY <2>5
    <3>2. oq[p] \in OqStream
      BY Types
    <3>3. oq[p].chunk_pos # oq[p].header.end
      BY <3>1, <3>2 DEF OqWriteHeaderFails, IsLastChunk, OqStream, Header
    <3> QED
      BY <3>1, <3>3, OqWriteInv, Zenon DEF OqWriteHeaderFails
  <2>6. CASE OqCancel(p) \/ OqCancelFails(p)
    BY <2>6, OqCancelInv
  <2> QED
    BY <1>1, <2>1, <2>2, <2>3, <2>4, <2>5, <2>6 DEF ProducerStep
<1>2. ASSUME NEW c \in Consumers, ConsumerStep(c) PROVE IndInv'
  BY <1>2, IqOpenInv, IqOpenWaitInv, TimerExpiresInv, WaiterWakeupInv, IqReadInv,
     IqCloseEraseInv, IqCloseReturnInv DEF ConsumerStep
<1>3. CASE Crash
  BY <1>3, CrashInv
<1>4. CASE UNCHANGED vars
  <2>1. OpenIds' = OpenIds /\ OpenConsumers' = OpenConsumers
    BY <1>4, Zenon DEF vars, OpenIds, OpenConsumers
  <2>2. TypeOK' /\ WithinReserved'
    BY <1>4, Zenon DEF vars, IndInv, TypeOK, WithinReserved
  <2>3. HeldOnce' /\ WaitersHoldNothing'
    BY <1>4, <2>1, Zenon DEF vars, IndInv, HeldOnce, WaitersHoldNothing
  <2>4. Layout(q, OpenIds)' /\ Wakeups(q, 0)'
    BY <1>4, <2>1, Zenon DEF vars, IndInv
  <2> QED
    BY <2>2, <2>3, <2>4, Zenon DEF IndInv
<1> QED
  BY <1>1, <1>2, <1>3, <1>4 DEF Next

-----------------------------------------------------------------------------
(* What the invariant gives.                                                 *)

(* An item that a stream has open is held by it alone. *)
LEMMA IndInvSoleOwner == IndInv => SoleOwner
<1> SUFFICES ASSUME IndInv PROVE SoleOwner
  OBVIOUS
<1>1. \A c \in OpenConsumers : iq[c].id \in OpenIds
  BY DEF OpenConsumers, OpenIds
<1>2. \A id \in OpenIds : id < q.queue_tail /\ id \notin q.returned
  BY Types DEF Layout, IsQueue
<1> QED
  BY <1>1, <1>2 DEF IndInv, HeldOnce, SoleOwner

(* The waiters that are awake are at least those before the iterator. *)
LEMMA IndInvNoLostWakeup == IndInv => NoLostWakeup
<1> DEFINE n == Len(q.waiters)
           asleep == {i \in 1 .. n : q.waiters[i].timer = "armed"}
           awake == (1 .. n) \ asleep
           it == q.wake_up_it
<1> SUFFICES ASSUME IndInv, asleep # {}
             PROVE  count(q) <= Cardinality(awake)
  BY DEF NoLostWakeup
<1>1. n \in Nat /\ it \in Nat \ {0} /\ count(q) \in Nat
  <2>1. IsQueue(q) /\ q.queue_tail <= q.queue_head
    BY Types DEF Layout
  <2> QED
    BY <2>1, CountType DEF IsQueue
<1>2. \A i \in 1 .. n : i < it => i \notin asleep
  BY Types DEF Wakeups
<1>3. it <= n
  BY <1>1, <1>2
<1>4. count(q) <= it - 1
  BY <1>1, <1>3, Types DEF Wakeups, WaitersEnd
<1>5. 1 .. (it - 1) \subseteq awake
  BY <1>1, <1>2, <1>3
<1>6. IsFiniteSet(awake)
  <2>1. 1 \in Int /\ n \in Int
    BY <1>1
  <2>2. IsFiniteSet(1 .. n)
    BY <2>1, FS_Interval, Zenon
  <2> QED
    BY <2>2, FS_Subset
<1>7. Cardinality(1 .. (it - 1)) = it - 1
  <2>1. 1 \in Int /\ it - 1 \in Int
    BY <1>1
  <2>2. Cardinality(1 .. (it - 1)) = IF 1 > it - 1 THEN 0 ELSE (it - 1) - 1 + 1
    BY <2>1, FS_Interval, Zenon
  <2> QED
    BY <1>1, <2>2
<1>8. Cardinality(1 .. (it - 1)) <= Cardinality(awake) /\ Cardinality(awake) \in Nat
  BY <1>5, <1>6, FS_Subset, FS_CardinalityType, Zenon
<1> HIDE DEF awake
<1> QED
  BY <1>1, <1>4, <1>7, <1>8

(***************************************************************************)
(* The inductive invariant is one: it holds initially and every step of a  *)
(* producer, a consumer, a timer or a crash keeps it, for any finite set   *)
(* of consumers, any producers, any bounds and any faults.  A restart is   *)
(* one from a journal that the constructor foresees (Reopenable): the ones *)
(* with chunks and without an item are those of QueueReopen.               *)
(***************************************************************************)
THEOREM Invariance == Spec => []IndInv
BY InitIndInv, NextIndInv, PTL DEF Spec

(* TypeOK: queue, journals, streams and history always have their types, and *)
(* so no id ever leaves the range below the heads.                           *)
THEOREM TypeCorrect == Spec => []TypeOK
<1>1. IndInv => TypeOK
  BY DEF IndInv
<1> QED
  BY <1>1, Invariance, PTL

(* SoleOwner: pop_begin never gives out an item that another iqstream has    *)
(* open, and items_open is the number of the open ones.                      *)
THEOREM SoleOwnership == Spec => []SoleOwner
BY Invariance, IndInvSoleOwner, PTL

(* NoItemStranded: whatever is in the journal is enqueued, returned or held, *)
(* across any interleaving of pushes, pops, returns and restarts from        *)
(* journals that the constructor foresees.                                   *)
THEOREM NothingStranded == Spec => []NoItemStranded
<1>1. IndInv => NoItemStranded
  BY DEF IndInv, Layout, NoItemStranded
<1> QED
  BY <1>1, Invariance, PTL

(* NoLostWakeup: no waiter sleeps while there are more items than handlers   *)
(* on their way to pop them.                                                 *)
THEOREM WakeupsKept == Spec => []NoLostWakeup
BY Invariance, IndInvNoLostWakeup, PTL

==============================================================================
