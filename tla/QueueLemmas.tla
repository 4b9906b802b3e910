----------------------------- MODULE QueueLemmas -----------------------------
(* What the methods of a queue return and preserve.                          *)
EXTENDS QueueInvariant, FiniteSetTheorems, SequenceTheorems,
        WellFoundedInduction, TLAPS

(* A set of ids that is not empty has a least element.                       *)
LEMMA LeastExists ==
    ASSUME NEW S \in SUBSET Nat, S # {}
    PROVE  \E x \in S : \A y \in S : x <= y
<1> DEFINE R == {ss \in Nat \X Nat : ss[1] < ss[2]}
<1>1. R = OpToRel(<, Nat)
  BY Zenon DEF OpToRel
<1>2. IsWellFoundedOn(R, Nat)
  BY <1>1, NatLessThanWellFounded
<1>3. PICK x \in S : \A y \in S : ~ (<<y, x>> \in R)
  BY <1>2, WFMin, Zenon
<1>4. ASSUME NEW y \in S PROVE x <= y
  <2>1. y < x => <<y, x>> \in R
    OBVIOUS
  <2>2. ~ (<<y, x>> \in R)
    BY <1>3
  <2> HIDE DEF R
  <2> QED
    BY <2>1, <2>2
<1> QED
  BY <1>4

(* Min: the first key of a set of ids.                                       *)
LEMMA MinIsLeast ==
    ASSUME NEW S \in SUBSET Nat, S # {}
    PROVE  Min(S) \in S /\ \A y \in S : Min(S) <= y
BY LeastExists DEF Min

(* Max: the last key of a set of ids that has a bound.                       *)
LEMMA MaxIsGreatest ==
    ASSUME NEW n \in Nat, NEW S \in SUBSET (0 .. n), S # {}
    PROVE  Max(S) \in S /\ \A y \in S : y <= Max(S)
<1> DEFINE U == {u \in Nat : \A y \in S : y <= u}
<1>1. n \in U
  OBVIOUS
<1>2. PICK m \in U : \A u \in U : m <= u
  BY <1>1, LeastExists
<1>3. m \in S
  <2>1. SUFFICES ASSUME m \notin S PROVE FALSE
    OBVIOUS
  <2>2. \A y \in S : y < m /\ y \in Nat
    BY <2>1, <1>2
  <2>3. m \in Nat /\ m # 0
    <3>1. PICK y \in S : TRUE
      OBVIOUS
    <3>2. m \in Nat
      BY <1>2
    <3> QED
      BY <3>1, <3>2, <2>2
  <2>4. m - 1 \in Nat /\ \A y \in S : y <= m - 1
    BY <2>2, <2>3
  <2> QED
    BY <2>3, <2>4, <1>2
<1>4. \A y \in S : y <= m
  BY <1>2
<1> QED
  BY <1>3, <1>4 DEF Max

(* The list of waiters after one of them was released from it.               *)
LEMMA ReleaseProperties ==
    ASSUME NEW S, NEW s \in Seq(S), NEW i \in 1 .. Len(s)
    PROVE  /\ release(s, i) \in Seq(S)
           /\ Len(release(s, i)) = Len(s) - 1
           /\ \A j \in 1 .. (Len(s) - 1) :
                 release(s, i)[j] = IF j < i THEN s[j] ELSE s[j + 1]
<1> DEFINE a == SubSeq(s, 1, i - 1)
           b == SubSeq(s, i + 1, Len(s))
<1>1. a \in Seq(S) /\ Len(a) = i - 1 /\ \A j \in 1 .. (i - 1) : a[j] = s[j]
  BY SubSeqProperties
<1>2. /\ b \in Seq(S)
      /\ Len(b) = Len(s) - i
      /\ \A j \in 1 .. (Len(s) - i) : b[j] = s[i + j]
  BY SubSeqProperties
<1>3. release(s, i) = a \o b
  BY DEF release
<1> HIDE DEF a, b
<1>4. /\ a \o b \in Seq(S)
      /\ Len(a \o b) = Len(a) + Len(b)
      /\ \A k \in 1 .. (Len(a) + Len(b)) :
            (a \o b)[k] = IF k <= Len(a) THEN a[k] ELSE b[k - Len(a)]
  <2>1. a \in Seq(S) /\ b \in Seq(S)
    BY <1>1, <1>2
  <2> QED
    BY <2>1, ConcatProperties, Zenon
<1>5. ASSUME NEW j \in 1 .. (Len(s) - 1)
      PROVE  (a \o b)[j] = IF j < i THEN s[j] ELSE s[j + 1]
  <2>1. CASE j < i
    BY <2>1, <1>1, <1>2, <1>4
  <2>2. CASE j >= i
    <3>1. (a \o b)[j] = b[j - (i - 1)]
      BY <2>2, <1>1, <1>2, <1>4
    <3>2. j - (i - 1) \in 1 .. (Len(s) - i) /\ i + (j - (i - 1)) = j + 1
      BY <2>2
    <3> QED
      BY <3>1, <3>2, <2>2, <1>2
  <2>3. j < i \/ j >= i
    BY LenProperties
  <2> QED
    BY <2>1, <2>2, <2>3
<1> QED
  BY <1>1, <1>2, <1>3, <1>4, <1>5

-----------------------------------------------------------------------------
(* The journal.                                                              *)

(* Writing a queue key, writing a chunk key, and a batch of deletions.       *)
LEMMA PutItem ==
    ASSUME NEW j, IsJournal(j), NEW id \in Ids, NEW v \in Seq(Nat)
    PROVE  /\ IsJournal([j EXCEPT !.items = With(@, id, v)])
           /\ DOMAIN [j EXCEPT !.items = With(@, id, v)].items =
                 DOMAIN j.items \cup {id}
<1> DEFINE items == With(j.items, id, v)
           k == [j EXCEPT !.items = items]
<1>1. IsPartial(items, Ids, Seq(Nat)) /\ DOMAIN items = DOMAIN j.items \cup {id}
  BY DEF IsJournal, IsPartial, With
<1> HIDE DEF items
<1>2. /\ DOMAIN k = {"items", "chunks"}
      /\ k.items = items
      /\ k.chunks = j.chunks
  BY DEF IsJournal
<1> HIDE DEF k
<1>3. IsJournal(k) /\ DOMAIN k.items = DOMAIN j.items \cup {id}
  BY <1>1, <1>2 DEF IsJournal
<1> QED
  BY <1>3 DEF k, items

(* A chunk written to a journal. *)
LEMMA PutChunk ==
    ASSUME NEW j, IsJournal(j), NEW id \in 0 .. (MaxChunkIds - 1), NEW v \in Seq(Nat)
    PROVE  IsJournal([j EXCEPT !.chunks = With(@, id, v)])
<1> DEFINE chunks == With(j.chunks, id, v)
           k == [j EXCEPT !.chunks = chunks]
<1>1. IsPartial(chunks, 0 .. (MaxChunkIds - 1), Seq(Nat))
  BY DEF IsJournal, IsPartial, With
<1> HIDE DEF chunks
<1>2. /\ DOMAIN k = {"items", "chunks"}
      /\ k.items = j.items
      /\ k.chunks = chunks
  BY DEF IsJournal
<1> HIDE DEF k
<1>3. IsJournal(k)
  BY <1>1, <1>2 DEF IsJournal
<1> QED
  BY <1>3 DEF k, chunks

(* The batch of pop_end: some items and some chunks leave the journal. *)
LEMMA Delete ==
    ASSUME NEW j, IsJournal(j), NEW D, NEW E
    PROVE  LET k == [j EXCEPT !.items = Without(@, D), !.chunks = Without(@, E)] IN
           IsJournal(k) /\ DOMAIN k.items = DOMAIN j.items \ D
<1> DEFINE items == Without(j.items, D)
           chunks == Without(j.chunks, E)
           k == [j EXCEPT !.items = items, !.chunks = chunks]
<1>1. /\ IsPartial(items, Ids, Seq(Nat))
      /\ DOMAIN items = DOMAIN j.items \ D
      /\ IsPartial(chunks, 0 .. (MaxChunkIds - 1), Seq(Nat))
  BY DEF IsJournal, IsPartial, Without, Restrict
<1> HIDE DEF items, chunks
<1>2. /\ DOMAIN k = {"items", "chunks"}
      /\ k.items = items
      /\ k.chunks = chunks
  BY DEF IsJournal
<1> HIDE DEF k
<1>3. IsJournal(k) /\ DOMAIN k.items = DOMAIN j.items \ D
  BY <1>1, <1>2 DEF IsJournal
<1> QED
  BY <1>3 DEF k, items, chunks

(* What push may write for a chunk is a byte string.                         *)
LEMMA EscapeType ==
    ASSUME NEW chunk \in Chunk, NEW value \in escape(chunk)
    PROVE  value \in Seq(Nat)
<1>1. chunk \in Seq(Nat)
  BY StreamsAssumption
<1>2. Append(chunk, 0) \in Seq(Nat)
  BY <1>1
<1>3. <<0>> \in Seq(Nat) /\ <<>> \in Seq(Nat)
  OBVIOUS
<1>4. value \in {chunk, Append(chunk, 0), <<0>>, <<>>}
  BY Zenon DEF escape
<1> QED
  BY <1>1, <1>2, <1>3, <1>4

-----------------------------------------------------------------------------
(* Waking a waiter.                                                          *)

SameButWaiters(o, w) ==
    /\ w.journal = o.journal
    /\ w.queue_head = o.queue_head
    /\ w.queue_tail = o.queue_tail
    /\ w.chunks_head = o.chunks_head
    /\ w.items_open = o.items_open
    /\ w.bytes_evicted = o.bytes_evicted
    /\ w.returned = o.returned

(* The waiters of w are those of o, and none that was awake is asleep.       *)
SameClients(o, w) ==
    /\ Len(w.waiters) = Len(o.waiters)
    /\ \A i \in 1 .. Len(o.waiters) :
          /\ w.waiters[i].cb = o.waiters[i].cb
          /\ o.waiters[i].timer # "armed" => w.waiters[i].timer # "armed"

(* The queue o after the timer of a waiter fired, with the iterator at n.    *)
Fired(o, it, t, n) == [o EXCEPT !.waiters[it].timer = t, !.wake_up_it = n]

(* Firing one timer changes the waiter and the iterator, and nothing else. *)
LEMMA SetTimer ==
    ASSUME NEW o, IsQueue(o), NEW it \in 1 .. Len(o.waiters),
           NEW t \in {"expired", "cancelled"}, NEW n \in Nat \ {0}
    PROVE  /\ IsQueue(Fired(o, it, t, n))
           /\ SameButWaiters(o, Fired(o, it, t, n))
           /\ SameClients(o, Fired(o, it, t, n))
           /\ Fired(o, it, t, n).waiters[it].timer # "armed"
           /\ Fired(o, it, t, n).wake_up_it = n
<1> DEFINE w == Fired(o, it, t, n)
           x == [o.waiters[it] EXCEPT !.timer = t]
           ws == [o.waiters EXCEPT ![it] = x]
<1>1. o.waiters \in Seq(Waiter)
  BY DEF IsQueue
<1>2. o.waiters[it] \in Waiter
  BY <1>1
<1>3. x \in Waiter /\ x.cb = o.waiters[it].cb /\ x.timer = t
  BY <1>2 DEF Waiter
<1>4. w.waiters = ws /\ w.wake_up_it = n /\ SameButWaiters(o, w)
  BY DEF IsQueue, SameButWaiters, Fired
<1>4a. w = [o EXCEPT !.waiters = ws, !.wake_up_it = n]
  BY DEF Fired
<1> HIDE DEF x, w
<1>5. /\ ws \in Seq(Waiter)
      /\ Len(ws) = Len(o.waiters)
      /\ \A i \in 1 .. Len(o.waiters) : ws[i] = IF i = it THEN x ELSE o.waiters[i]
  BY <1>1, <1>3, ExceptSeq
<1>6. IsQueue(w)
  <2> HIDE DEF ws
  <2> QED
    BY <1>4, <1>5, <1>4a DEF IsQueue, SameButWaiters
<1>7. SameClients(o, w)
  BY <1>3, <1>4, <1>5 DEF SameClients
<1> QED
  BY <1>3, <1>4, <1>5, <1>6, <1>7 DEF w

(* wake_up, called when one item was added to a queue whose wakeups were     *)
(* enough without it, makes them enough again.                               *)
LEMMA WakeUp ==
    ASSUME NEW o, IsQueue(o), count(o) \in Nat, Wakeups(o, 1)
    PROVE  /\ IsQueue(wake_up(o))
           /\ SameButWaiters(o, wake_up(o))
           /\ SameClients(o, wake_up(o))
           /\ Wakeups(wake_up(o), 0)
<1>1. /\ o.wake_up_it \in Nat \ {0}
      /\ o.waiters \in Seq(Waiter)
      /\ Len(o.waiters) \in Nat
      /\ o.wake_up_it <= WaitersEnd(o)
  BY DEF IsQueue, Wakeups
<1>2. CASE o.wake_up_it = WaitersEnd(o)
  <2>1. wake_up(o) = o
    BY <1>2 DEF wake_up
  <2> QED
    BY <1>1, <1>2, <2>1 DEF SameButWaiters, SameClients, Wakeups
<1>3. CASE o.wake_up_it # WaitersEnd(o)
  <2> DEFINE it == o.wake_up_it
             t == cancel(o.waiters[it].timer)
             w == Fired(o, it, t, it + 1)
  <2>1. it \in 1 .. Len(o.waiters)
    BY <1>1, <1>3 DEF WaitersEnd
  <2>2. o.waiters[it] \in Waiter
    BY <1>1, <2>1
  <2>3. t \in {"expired", "cancelled"}
    BY <2>2 DEF Waiter, cancel
  <2>4. wake_up(o) = w
    BY <1>3 DEF wake_up, Fired
  <2>5. it + 1 \in Nat \ {0}
    BY <2>1
  <2>6. /\ IsQueue(w)
        /\ SameButWaiters(o, w)
        /\ SameClients(o, w)
        /\ w.waiters[it].timer # "armed"
        /\ w.wake_up_it = it + 1
    <3> HIDE DEF it, t
    <3> QED
      BY <2>1, <2>3, <2>5, SetTimer, Zenon
  <2> HIDE DEF w
  <2>7. count(w) = count(o)
    BY <2>6 DEF count, SameButWaiters
  <2>8. w.wake_up_it <= WaitersEnd(w)
    BY <1>1, <2>1, <2>6 DEF WaitersEnd, SameClients
  <2>9. ASSUME NEW i \in 1 .. Len(w.waiters), i < w.wake_up_it
        PROVE  w.waiters[i].timer # "armed"
    <3>1. i \in 1 .. Len(o.waiters)
      BY <2>6 DEF SameClients
    <3>2. CASE i = it
      BY <3>2, <2>6
    <3>3. CASE i < it
      BY <3>1, <3>3, <2>6 DEF SameClients, Wakeups
    <3> QED
      BY <3>1, <3>2, <3>3, <2>1, <2>6, <2>9
  <2>10. w.wake_up_it # WaitersEnd(w) => count(w) <= w.wake_up_it - 1 + 0
    BY <1>1, <1>3, <2>6, <2>7 DEF Wakeups
  <2> QED
    BY <2>4, <2>6, <2>8, <2>9, <2>10 DEF Wakeups
<1> QED
  BY <1>2, <1>3


-----------------------------------------------------------------------------
(* Counting.                                                                 *)

(* count() is a number: what was returned is finite. *)
LEMMA CountType ==
    ASSUME NEW o, IsQueue(o), o.queue_tail <= o.queue_head
    PROVE  /\ IsFiniteSet(o.returned)
           /\ Cardinality(o.returned) \in Nat
           /\ count(o) \in Nat
<1>1. o.returned \subseteq 0 .. (MaxItems - 1)
  BY DEF IsQueue, Ids
<1>2. IsFiniteSet(0 .. (MaxItems - 1))
  BY FS_Interval, StreamsAssumption
<1>3. IsFiniteSet(o.returned)
  BY <1>1, <1>2, FS_Subset
<1>4. Cardinality(o.returned) \in Nat
  BY <1>3, FS_CardinalityType
<1> QED
  BY <1>3, <1>4, StreamsAssumption DEF IsQueue, count

(* A queue whose items cannot be popped has none.                            *)
LEMMA CannotPop ==
    ASSUME NEW o, IsQueue(o), o.queue_tail <= o.queue_head, ~ can_pop(o)
    PROVE  count(o) = 0
<1>1. o.returned = {} /\ o.queue_head = o.queue_tail /\ o.queue_tail \in Nat
  BY StreamsAssumption DEF IsQueue, can_pop
<1>2. Cardinality(o.returned) = 0
  BY <1>1, FS_EmptySet
<1> QED
  BY <1>1, <1>2 DEF count

(* The tests of pop_begin and of waiter_wakeup for an item, queue_tail_ #    *)
(* queue_head_ and queue_tail_ < queue_head_, agree: the tail is never past  *)
(* the head.                                                                 *)
LEMMA PopTestsAgree ==
    ASSUME NEW o, IsQueue(o), o.queue_tail <= o.queue_head
    PROVE  pop_begins(o) <=> can_pop(o)
<1>1. o.queue_tail \in Nat /\ o.queue_head \in Nat
  BY StreamsAssumption DEF IsQueue
<1> QED
  BY <1>1 DEF pop_begins, can_pop

-----------------------------------------------------------------------------
(* Pushing.                                                                  *)

(* push puts one item above the others and wakes one waiter for it. *)
LEMMA Push ==
    ASSUME NEW o, NEW H, IsQueue(o), Layout(o, H), Wakeups(o, 0),
           o.queue_head < MaxItems, NEW v \in Seq(Nat)
    PROVE  /\ IsQueue(push(o, v))
           /\ Layout(push(o, v), H)
           /\ Wakeups(push(o, v), 0)
           /\ SameClients(o, push(o, v))
           /\ push(o, v).items_open = o.items_open
<1> DEFINE j == [o.journal EXCEPT !.items = With(@, o.queue_head, v)]
           p == [o EXCEPT !.journal = j, !.queue_head = @ + 1]
<1>1. push(o, v) = wake_up(p)
  BY DEF push, put_item
<1>2. o.queue_head \in Ids /\ o.queue_head + 1 \in 0 .. MaxItems
  BY StreamsAssumption DEF IsQueue, Ids
<1>3. /\ IsJournal(j)
      /\ DOMAIN j.items = DOMAIN o.journal.items \cup {o.queue_head}
  <2>1. IsJournal(o.journal)
    BY DEF IsQueue
  <2> QED
    BY <1>2, <2>1, PutItem, Zenon
<1>4. /\ IsQueue(p)
      /\ p.journal = j
      /\ p.queue_head = o.queue_head + 1
      /\ p.queue_tail = o.queue_tail
      /\ p.returned = o.returned
      /\ p.waiters = o.waiters
      /\ p.wake_up_it = o.wake_up_it
      /\ p.items_open = o.items_open
  <2> HIDE DEF j
  <2> QED
    BY <1>2, <1>3 DEF IsQueue
<1> HIDE DEF j, p
<1>5. Layout(p, H)
  BY <1>2, <1>3, <1>4 DEF Layout, IsQueue
<1>6. count(p) = count(o) + 1 /\ count(o) \in Nat
  <2>1. Cardinality(o.returned) \in Nat /\ count(o) \in Nat
    BY CountType DEF Layout
  <2>2. o.queue_head \in Nat /\ o.queue_tail \in Nat
    BY DEF IsQueue
  <2> QED
    BY <1>4, <2>1, <2>2 DEF count
<1>7. Wakeups(p, 1)
  BY <1>4, <1>6 DEF Wakeups, WaitersEnd, IsQueue
<1>8. /\ IsQueue(wake_up(p))
      /\ SameButWaiters(p, wake_up(p))
      /\ SameClients(p, wake_up(p))
      /\ Wakeups(wake_up(p), 0)
  BY <1>4, <1>6, <1>7, WakeUp
<1>9. Layout(wake_up(p), H)
  BY <1>5, <1>8 DEF Layout, SameButWaiters
<1> QED
  BY <1>1, <1>4, <1>8, <1>9 DEF SameClients, SameButWaiters


-----------------------------------------------------------------------------
(* Popping.                                                                  *)

(* pop_begin hands out an id that nobody holds, and uses up one wakeup.      *)
LEMMA PopBegin ==
    ASSUME NEW o, NEW H, IsQueue(o), Layout(o, H), Wakeups(o, 1), can_pop(o)
    PROVE  /\ pop_begin_id(o) \in Nat
           /\ pop_begin_id(o) \notin H
           /\ IsQueue(pop_begin(o))
           /\ Layout(pop_begin(o), H \cup {pop_begin_id(o)})
           /\ Wakeups(pop_begin(o), 0)
           /\ pop_begin(o).waiters = o.waiters
           /\ pop_begin(o).items_open = o.items_open + 1
<1> DEFINE id == pop_begin_id(o)
           w == pop_begin(o)
<1>1. /\ o.queue_head \in 0 .. MaxItems
      /\ o.queue_tail \in 0 .. MaxItems
      /\ o.queue_tail <= o.queue_head
      /\ o.returned \in SUBSET Ids
      /\ o.items_open \in Nat
      /\ MaxItems \in Nat
  BY StreamsAssumption DEF IsQueue, Layout
<1>2. IsFiniteSet(o.returned) /\ Cardinality(o.returned) \in Nat
  BY CountType DEF Layout
<1>3. CASE o.returned # {}
  <2>1. id \in o.returned
    BY <1>1, <1>3, MinIsLeast DEF pop_begin_id, Ids
  <2>2. w = [o EXCEPT !.returned = @ \ {id}, !.items_open = @ + 1]
    BY <1>3 DEF pop_begin
  <2> HIDE DEF id, w
  <2>3. IsQueue(w)
    BY <1>1, <2>2 DEF IsQueue
  <2>4. /\ w.journal = o.journal
        /\ w.queue_head = o.queue_head
        /\ w.queue_tail = o.queue_tail
        /\ w.returned = o.returned \ {id}
        /\ w.waiters = o.waiters
        /\ w.wake_up_it = o.wake_up_it
        /\ w.items_open = o.items_open + 1
    BY <2>2 DEF IsQueue
  <2>5. Cardinality(w.returned) = Cardinality(o.returned) - 1
    BY <1>2, <2>1, <2>4, FS_RemoveElement
  <2>6. count(w) = count(o) - 1 /\ count(o) \in Nat
    BY <1>1, <1>2, <2>4, <2>5 DEF count
  <2>7. Wakeups(w, 0)
    <3>1. o.wake_up_it \in Nat
      BY DEF IsQueue
    <3> QED
      BY <2>4, <2>6, <3>1 DEF Wakeups, WaitersEnd
  <2>8. id \in Nat /\ id \notin H /\ Layout(w, H \cup {id})
    BY <1>1, <2>1, <2>4 DEF Layout, Ids
  <2> QED
    BY <2>3, <2>4, <2>7, <2>8 DEF id, w
<1>4. CASE o.returned = {}
  <2>1. id = o.queue_tail /\ o.queue_tail < o.queue_head
    BY <1>4 DEF pop_begin_id, can_pop
  <2>2. w = [o EXCEPT !.queue_tail = @ + 1, !.items_open = @ + 1]
    BY <1>4 DEF pop_begin
  <2> HIDE DEF id, w
  <2>3. IsQueue(w)
    BY <1>1, <2>1, <2>2 DEF IsQueue
  <2>4. /\ w.journal = o.journal
        /\ w.queue_head = o.queue_head
        /\ w.queue_tail = o.queue_tail + 1
        /\ w.returned = o.returned
        /\ w.waiters = o.waiters
        /\ w.wake_up_it = o.wake_up_it
        /\ w.items_open = o.items_open + 1
    BY <2>2 DEF IsQueue
  <2>5. count(w) = count(o) - 1 /\ count(o) \in Nat
    BY <1>1, <1>2, <2>4 DEF count
  <2>6. Wakeups(w, 0)
    <3>1. o.wake_up_it \in Nat
      BY DEF IsQueue
    <3> QED
      BY <2>4, <2>5, <3>1 DEF Wakeups, WaitersEnd
  <2>7. id \in Nat /\ id \notin H /\ Layout(w, H \cup {id})
    <3>1. id \in Nat /\ id \notin H
      BY <1>1, <2>1 DEF Layout
    <3>2. o.queue_tail .. (o.queue_head - 1) =
             {id} \cup (w.queue_tail .. (w.queue_head - 1))
      BY <1>1, <2>1, <2>4
    <3>3. DOMAIN w.journal.items \subseteq
             w.returned \cup (H \cup {id}) \cup (w.queue_tail .. (w.queue_head - 1))
      BY <2>4, <3>2 DEF Layout
    <3>4. /\ w.returned \cup (H \cup {id}) \subseteq 0 .. (w.queue_tail - 1)
          /\ w.returned \cap (H \cup {id}) = {}
      BY <1>1, <1>4, <2>1, <2>4 DEF Layout
    <3> QED
      BY <1>1, <1>4, <2>1, <2>4, <3>1, <3>3, <3>4 DEF Layout
  <2> QED
    BY <2>3, <2>4, <2>6, <2>7 DEF id, w
<1> QED
  BY <1>3, <1>4

(* pop_end with erase takes the item of a holder out of the journal.         *)
LEMMA PopEndErase ==
    ASSUME NEW o, NEW H, IsQueue(o), Layout(o, H), Wakeups(o, 0),
           o.items_open > 0, NEW id \in H, NEW h \in Header
    PROVE  LET w == pop_end_erase(o, id, h) IN
           /\ IsQueue(w)
           /\ Layout(w, H \ {id})
           /\ Wakeups(w, 0)
           /\ w.waiters = o.waiters
           /\ w.items_open = o.items_open - 1
<1> DEFINE w == pop_end_erase(o, id, h)
           E == IF h.end > 1 THEN ChunkIds(h) ELSE {}
           j == [o.journal EXCEPT !.items = Without(@, {id}), !.chunks = Without(@, E)]
           b == IF o.bytes_evicted + h.size > CompactAt THEN 0
                ELSE o.bytes_evicted + h.size
<1>1. IsJournal(o.journal)
  BY DEF IsQueue
<1>2. IsJournal(j) /\ DOMAIN j.items = DOMAIN o.journal.items \ {id}
  BY <1>1, Delete, Zenon
<1>3. Without(o.journal.chunks, {}) = o.journal.chunks
  BY <1>1 DEF Without, Restrict, IsJournal, IsPartial
<1>4. j = [o.journal EXCEPT
              !.items = Without(@, {id}),
              !.chunks = IF h.end > 1 THEN Without(@, ChunkIds(h)) ELSE @]
  BY <1>1, <1>3 DEF IsJournal
<1>5. b \in 0 .. CompactAt
  BY CompactAtAssumption DEF IsQueue, Header
<1>6. w = [o EXCEPT !.journal = j, !.bytes_evicted = b, !.items_open = @ - 1]
  BY <1>4 DEF pop_end_erase, IsQueue
<1> HIDE DEF w, j, b
<1>7. /\ IsQueue(w)
      /\ w.journal = j
      /\ w.queue_head = o.queue_head
      /\ w.queue_tail = o.queue_tail
      /\ w.returned = o.returned
      /\ w.waiters = o.waiters
      /\ w.wake_up_it = o.wake_up_it
      /\ w.items_open = o.items_open - 1
  BY <1>2, <1>5, <1>6 DEF IsQueue
<1>8. Layout(w, H \ {id})
  BY <1>2, <1>7 DEF Layout
<1>9. Wakeups(w, 0)
  BY <1>7 DEF Wakeups, WaitersEnd, count
<1> QED
  BY <1>7, <1>8, <1>9 DEF w


(* pop_end without erase gives the item back and makes up the wakeup for it. *)
LEMMA PopEndReturn ==
    ASSUME NEW o, NEW H, IsQueue(o), Layout(o, H), Wakeups(o, 0),
           o.items_open > 0, NEW id \in H
    PROVE  LET w == pop_end_return(o, id) IN
           /\ IsQueue(w)
           /\ Layout(w, H \ {id})
           /\ Wakeups(w, 0)
           /\ SameClients(o, w)
           /\ w.items_open = o.items_open - 1
<1> DEFINE p == [o EXCEPT !.returned = @ \cup {id}]
           u == wake_up(p)
           w == [u EXCEPT !.items_open = @ - 1]
<1>1. /\ id \in Nat /\ id < o.queue_tail /\ id \notin o.returned
      /\ id \in Ids
  BY StreamsAssumption DEF Layout, IsQueue, Ids
<1>2. /\ IsQueue(p)
      /\ p.journal = o.journal
      /\ p.queue_head = o.queue_head
      /\ p.queue_tail = o.queue_tail
      /\ p.returned = o.returned \cup {id}
      /\ p.waiters = o.waiters
      /\ p.wake_up_it = o.wake_up_it
      /\ p.items_open = o.items_open
  BY <1>1 DEF IsQueue
<1> HIDE DEF p
<1>3. Layout(p, H \ {id})
  BY <1>1, <1>2 DEF Layout
<1>4. count(p) = count(o) + 1 /\ count(o) \in Nat
  <2>1. /\ IsFiniteSet(o.returned)
        /\ Cardinality(o.returned) \in Nat
        /\ count(o) \in Nat
    BY CountType DEF Layout
  <2>2. Cardinality(p.returned) = Cardinality(o.returned) + 1
    BY <1>1, <1>2, <2>1, FS_AddElement
  <2>3. o.queue_head \in Nat /\ o.queue_tail \in Nat
    BY DEF IsQueue
  <2> QED
    BY <1>2, <2>1, <2>2, <2>3 DEF count
<1>5. Wakeups(p, 1)
  BY <1>2, <1>4 DEF Wakeups, WaitersEnd, IsQueue
<1>6. /\ IsQueue(u)
      /\ SameButWaiters(p, u)
      /\ SameClients(p, u)
      /\ Wakeups(u, 0)
  BY <1>2, <1>4, <1>5, WakeUp
<1> HIDE DEF u
<1>7. /\ IsQueue(w)
      /\ w.journal = u.journal
      /\ w.queue_head = u.queue_head
      /\ w.queue_tail = u.queue_tail
      /\ w.returned = u.returned
      /\ w.waiters = u.waiters
      /\ w.wake_up_it = u.wake_up_it
      /\ w.items_open = o.items_open - 1
  BY <1>2, <1>6 DEF IsQueue, SameButWaiters
<1>8. w = pop_end_return(o, id)
  BY DEF pop_end_return, u, p
<1> HIDE DEF w
<1>9. Layout(w, H \ {id})
  BY <1>3, <1>6, <1>7 DEF Layout, SameButWaiters
<1>10. Wakeups(w, 0) /\ SameClients(o, w)
  BY <1>2, <1>6, <1>7 DEF Wakeups, WaitersEnd, count, SameClients
<1> QED
  BY <1>7, <1>8, <1>9, <1>10

-----------------------------------------------------------------------------
(* Waiting.                                                                  *)

(* A wait on a queue without items.                                          *)
LEMMA Wait ==
    ASSUME NEW o, NEW H, IsQueue(o), Layout(o, H), Wakeups(o, 0), ~ can_pop(o),
           NEW c \in Consumers
    PROVE  LET w == wait(o, c) IN
           /\ IsQueue(w)
           /\ Layout(w, H)
           /\ Wakeups(w, 0)
           /\ Len(w.waiters) = Len(o.waiters) + 1
           /\ \A i \in 1 .. Len(o.waiters) : w.waiters[i] = o.waiters[i]
           /\ w.waiters[Len(o.waiters) + 1].cb = c
           /\ w.items_open = o.items_open
<1> DEFINE x == [cb |-> c, timer |-> "armed"]
           ws == Append(o.waiters, x)
           w == wait(o, c)
<1>1. o.waiters \in Seq(Waiter) /\ Len(o.waiters) \in Nat
  BY DEF IsQueue
<1>2. x \in Waiter /\ x.cb = c
  BY DEF Waiter
<1> HIDE DEF x
<1>3. /\ ws \in Seq(Waiter)
      /\ Len(ws) = Len(o.waiters) + 1
      /\ \A i \in 1 .. Len(o.waiters) : ws[i] = o.waiters[i]
      /\ ws[Len(o.waiters) + 1] = x
  BY <1>1, <1>2, AppendProperties
<1>4. w = [o EXCEPT !.waiters = ws, !.wake_up_it = o.wake_up_it]
  BY DEF wait, WaitersEnd, IsQueue, x
<1> HIDE DEF ws, w
<1>5. /\ IsQueue(w)
      /\ w.journal = o.journal
      /\ w.queue_head = o.queue_head
      /\ w.queue_tail = o.queue_tail
      /\ w.returned = o.returned
      /\ w.waiters = ws
      /\ w.wake_up_it = o.wake_up_it
      /\ w.items_open = o.items_open
  BY <1>3, <1>4 DEF IsQueue
<1>6. Layout(w, H)
  BY <1>5 DEF Layout
<1>7. count(w) = 0
  BY <1>5, CannotPop DEF Layout, count
<1>8. Wakeups(w, 0)
  <2>1. o.wake_up_it \in Nat \ {0} /\ o.wake_up_it <= Len(o.waiters) + 1
    BY DEF IsQueue, Wakeups, WaitersEnd
  <2>2. w.wake_up_it <= WaitersEnd(w)
    BY <1>1, <1>3, <1>5, <2>1 DEF WaitersEnd
  <2>3. \A i \in 1 .. Len(w.waiters) :
            i < w.wake_up_it => w.waiters[i].timer # "armed"
    <3>1. \A i \in 1 .. Len(w.waiters) :
              i < w.wake_up_it => i \in 1 .. Len(o.waiters)
      BY <1>1, <1>3, <1>5, <2>1
    <3> QED
      BY <1>3, <1>5, <3>1 DEF Wakeups
  <2>4. count(w) <= w.wake_up_it - 1 + 0
    BY <1>5, <1>7, <2>1
  <2> QED
    BY <2>2, <2>3, <2>4 DEF Wakeups
<1> QED
  BY <1>2, <1>3, <1>5, <1>6, <1>8 DEF w

(* A deadline that passes.                                                   *)
LEMMA Expire ==
    ASSUME NEW o, NEW H, IsQueue(o), Layout(o, H), Wakeups(o, 0),
           NEW it \in 1 .. Len(o.waiters)
    PROVE  LET w == expire(o, it) IN
           /\ IsQueue(w)
           /\ Layout(w, H)
           /\ Wakeups(w, 0)
           /\ SameClients(o, w)
           /\ w.items_open = o.items_open
<1> DEFINE n == o.wake_up_it
           w == Fired(o, it, "expired", n)
<1>1. n \in Nat \ {0}
  BY DEF IsQueue
<1>2. expire(o, it) = w
  BY DEF expire, Fired, IsQueue
<1>3. /\ IsQueue(w)
      /\ SameButWaiters(o, w)
      /\ SameClients(o, w)
      /\ w.wake_up_it = n
  <2> HIDE DEF n
  <2> QED
    BY <1>1, SetTimer
<1> HIDE DEF w
<1>4. Layout(w, H)
  BY <1>3 DEF Layout, SameButWaiters
<1>5. Wakeups(w, 0)
  BY <1>3 DEF Wakeups, WaitersEnd, count, SameButWaiters, SameClients
<1> QED
  BY <1>2, <1>3, <1>4, <1>5 DEF SameButWaiters


(* A waiter is released: if it was awake, its wakeup is missing until it has *)
(* popped an item.                                                           *)
LEMMA Release ==
    ASSUME NEW o, NEW H, IsQueue(o), Layout(o, H), Wakeups(o, 0),
           NEW it \in 1 .. Len(o.waiters)
    PROVE  LET w == waiter_wakeup(o, it) IN
           /\ IsQueue(w)
           /\ Layout(w, H)
           /\ Wakeups(w, 1)
           /\ ~ can_pop(w) => Wakeups(w, 0)
           /\ Len(w.waiters) = Len(o.waiters) - 1
           /\ \A i \in 1 .. (Len(o.waiters) - 1) :
                 w.waiters[i] = IF i < it THEN o.waiters[i] ELSE o.waiters[i + 1]
           /\ w.items_open = o.items_open
<1> DEFINE next == IF it = o.wake_up_it THEN o.wake_up_it + 1 ELSE o.wake_up_it
           n == IF it < next THEN next - 1 ELSE next
           ws == release(o.waiters, it)
           w == waiter_wakeup(o, it)
<1>1. /\ o.waiters \in Seq(Waiter) /\ Len(o.waiters) \in Nat
      /\ o.wake_up_it \in Nat \ {0} /\ o.wake_up_it <= Len(o.waiters) + 1
  BY DEF IsQueue, Wakeups, WaitersEnd
<1>2. /\ ws \in Seq(Waiter)
      /\ Len(ws) = Len(o.waiters) - 1
      /\ \A i \in 1 .. (Len(o.waiters) - 1) :
            ws[i] = IF i < it THEN o.waiters[i] ELSE o.waiters[i + 1]
  BY <1>1, ReleaseProperties
<1>3. w = [o EXCEPT !.waiters = ws, !.wake_up_it = n]
  BY DEF waiter_wakeup
<1>4. /\ n \in Nat \ {0}
      /\ n = IF it < o.wake_up_it THEN o.wake_up_it - 1 ELSE o.wake_up_it
  BY <1>1
<1>4a. n \in Nat /\ n >= 1
  BY <1>1
<1> HIDE DEF ws, n, w
<1>5. /\ IsQueue(w)
      /\ w.journal = o.journal
      /\ w.queue_head = o.queue_head
      /\ w.queue_tail = o.queue_tail
      /\ w.returned = o.returned
      /\ w.waiters = ws
      /\ w.wake_up_it = n
      /\ w.items_open = o.items_open
  BY <1>2, <1>3, <1>4 DEF IsQueue
<1>6. Layout(w, H)
  BY <1>5 DEF Layout
<1>7. n <= Len(ws) + 1
  BY <1>1, <1>2, <1>4
<1>8. ASSUME NEW i \in 1 .. Len(ws), i < n
      PROVE  ws[i].timer # "armed"
  <2>1. CASE i < it
    BY <1>1, <1>2, <1>4, <1>8, <2>1 DEF Wakeups
  <2>2. CASE i >= it
    <3>1. i + 1 \in 1 .. Len(o.waiters) /\ i + 1 < o.wake_up_it
      BY <1>1, <1>2, <1>4, <1>8, <2>2
    <3>2. ws[i] = o.waiters[i + 1]
      BY <1>1, <1>2, <2>2
    <3>3. o.waiters[i + 1].timer # "armed"
      BY <3>1 DEF Wakeups
    <3> QED
      BY <3>2, <3>3
  <2> QED
    BY <1>1, <1>2, <2>1, <2>2
<1>9. count(w) = count(o) /\ count(o) \in Nat
  BY <1>5, CountType DEF count, Layout
<1>10. n # Len(ws) + 1 => count(w) <= n - 1 + 1
  <2>1. n # Len(ws) + 1 => o.wake_up_it # Len(o.waiters) + 1
    BY <1>1, <1>2, <1>4
  <2> QED
    BY <1>1, <1>2, <1>4, <1>9, <2>1 DEF Wakeups, WaitersEnd
<1>11. Wakeups(w, 1)
  BY <1>5, <1>7, <1>8, <1>10 DEF Wakeups, WaitersEnd
<1>12. ~ can_pop(w) => Wakeups(w, 0)
  <2> SUFFICES ASSUME ~ can_pop(w) PROVE Wakeups(w, 0)
    OBVIOUS
  <2>1. count(w) = 0
    BY <1>5, <1>6, CannotPop DEF Layout
  <2>2. count(w) <= n - 1 + 0
    BY <1>4a, <2>1
  <2> QED
    BY <1>5, <1>7, <1>8, <2>2 DEF Wakeups, WaitersEnd
<1> QED
  BY <1>2, <1>5, <1>6, <1>11, <1>12 DEF w

-----------------------------------------------------------------------------
(* Chunks.                                                                   *)

(* Nothing but the chunk store and its head is different in w.               *)
SameButChunks(o, w) ==
    /\ w.journal.items = o.journal.items
    /\ w.queue_head = o.queue_head
    /\ w.queue_tail = o.queue_tail
    /\ w.returned = o.returned
    /\ w.waiters = o.waiters
    /\ w.wake_up_it = o.wake_up_it
    /\ w.items_open = o.items_open

(* The layout of the items and the waiters do not depend on the chunks. *)
LEMMA SameButChunksKeeps ==
    ASSUME NEW o, NEW w, NEW H, SameButChunks(o, w), Layout(o, H), Wakeups(o, 0)
    PROVE  Layout(w, H) /\ Wakeups(w, 0)
BY DEF SameButChunks, Layout, Wakeups, WaitersEnd, count

(* reserve_chunks moves the chunk head within its bound. *)
LEMMA Reserve ==
    ASSUME NEW o, IsQueue(o), NEW n \in Nat, o.chunks_head + n <= MaxChunkIds
    PROVE  IsQueue(reserve_chunks(o, n)) /\ SameButChunks(o, reserve_chunks(o, n))
BY StreamsAssumption DEF IsQueue, reserve_chunks, SameButChunks

(* write_chunk below the bound changes the chunks only. *)
LEMMA WriteChunk ==
    ASSUME NEW o, IsQueue(o), NEW id \in 0 .. (MaxChunkIds - 1), NEW v \in Seq(Nat)
    PROVE  IsQueue(write_chunk(o, v, id)) /\ SameButChunks(o, write_chunk(o, v, id))
<1> DEFINE j == [o.journal EXCEPT !.chunks = With(@, id, v)]
           w == [o EXCEPT !.journal = j]
<1>1. IsJournal(o.journal)
  BY DEF IsQueue
<1>2. IsJournal(j)
  BY <1>1, PutChunk, Zenon
<1>3. j.items = o.journal.items
  BY <1>1 DEF IsJournal
<1>4. write_chunk(o, v, id) = w
  BY DEF write_chunk
<1> HIDE DEF j
<1>5. IsQueue(w) /\ SameButChunks(o, w)
  BY <1>2, <1>3 DEF IsQueue, SameButChunks
<1> QED
  BY <1>4, <1>5

(* erase_chunks changes the chunks only. *)
LEMMA EraseChunks ==
    ASSUME NEW o, IsQueue(o), NEW h
    PROVE  IsQueue(erase_chunks(o, h)) /\ SameButChunks(o, erase_chunks(o, h))
<1> DEFINE j == [o.journal EXCEPT !.chunks = Without(@, ChunkIds(h))]
           w == [o EXCEPT !.journal = j]
<1>1. IsJournal(o.journal)
  BY DEF IsQueue
<1>2. IsJournal(j) /\ j.items = o.journal.items
  BY <1>1 DEF IsJournal, IsPartial, Without, Restrict
<1>3. erase_chunks(o, h) = w
  BY DEF erase_chunks
<1> HIDE DEF j
<1>4. IsQueue(w) /\ SameButChunks(o, w)
  BY <1>2 DEF IsQueue, SameButChunks
<1> QED
  BY <1>3, <1>4

-----------------------------------------------------------------------------
(* Reopening.                                                                *)

(* The constructor, as recover has it for the journals it foresees: all of   *)
(* the items are enqueued and held by none.                                  *)
LEMMA Recover ==
    ASSUME NEW j, IsJournal(j)
    PROVE  /\ IsQueue(recover(j))
           /\ Layout(recover(j), {})
           /\ Wakeups(recover(j), 0)
           /\ recover(j).waiters = <<>>
           /\ recover(j).items_open = 0
<1> DEFINE I == DOMAIN j.items
           C == DOMAIN j.chunks
           w == recover(j)
<1>1. /\ MaxItems \in Nat /\ MaxChunkIds \in Nat
      /\ I \subseteq 0 .. (MaxItems - 1)
      /\ C \subseteq 0 .. (MaxChunkIds - 1)
  BY StreamsAssumption DEF IsJournal, IsPartial, Ids
<1>2. /\ DOMAIN w = {"journal", "queue_head", "queue_tail", "chunks_head", "items_open",
                     "bytes_evicted", "returned", "waiters", "wake_up_it"}
      /\ w.journal = j
      /\ w.queue_head = IF I = {} THEN 0 ELSE Max(I) + 1
      /\ w.queue_tail = IF I = {} THEN 0 ELSE Min(I)
      /\ w.chunks_head = IF C = {} THEN 0 ELSE Max(C) + 1
      /\ w.items_open = 0
      /\ w.bytes_evicted = 0
      /\ w.returned = {}
      /\ w.waiters = <<>>
      /\ w.wake_up_it = 1
  BY Zenon DEF recover
<1> HIDE DEF w
<1>3. I # {} => /\ Max(I) \in I /\ \A x \in I : x <= Max(I)
                /\ Min(I) \in I /\ \A x \in I : Min(I) <= x
  <2> SUFFICES ASSUME I # {}
               PROVE  /\ Max(I) \in I /\ \A x \in I : x <= Max(I)
                      /\ Min(I) \in I /\ \A x \in I : Min(I) <= x
    OBVIOUS
  <2>1. I \in SUBSET Nat /\ I \in SUBSET (0 .. MaxItems)
    BY <1>1
  <2> HIDE DEF I
  <2> QED
    BY <1>1, <2>1, MinIsLeast, MaxIsGreatest
<1>4. C # {} => Max(C) \in C
  <2> SUFFICES ASSUME C # {} PROVE Max(C) \in C
    OBVIOUS
  <2>1. C \in SUBSET (0 .. MaxChunkIds)
    BY <1>1
  <2> HIDE DEF C
  <2> QED
    BY <1>1, <2>1, MaxIsGreatest
<1> HIDE DEF I, C
<1>5. /\ w.queue_head \in 0 .. MaxItems
      /\ w.queue_tail \in 0 .. MaxItems
      /\ w.queue_tail <= w.queue_head
      /\ I \subseteq w.queue_tail .. (w.queue_head - 1)
  <2>1. CASE I = {}
    BY <1>1, <1>2, <2>1
  <2>2. CASE I # {}
    <3>1. w.queue_head = Max(I) + 1 /\ w.queue_tail = Min(I)
      BY <1>2, <2>2
    <3>2. Max(I) \in 0 .. (MaxItems - 1) /\ Min(I) \in 0 .. (MaxItems - 1)
      BY <1>1, <1>3, <2>2
    <3>3. \A x \in I : x \in Nat /\ Min(I) <= x /\ x <= Max(I)
      BY <1>1, <1>3, <2>2
    <3> QED
      BY <1>1, <1>3, <2>2, <3>1, <3>2, <3>3
  <2> QED
    BY <2>1, <2>2
<1>5a. w.chunks_head \in 0 .. MaxChunkIds
  <2>1. CASE C = {}
    BY <1>1, <1>2, <2>1
  <2>2. CASE C # {}
    <3>1. Max(C) \in 0 .. (MaxChunkIds - 1) /\ w.chunks_head = Max(C) + 1
      BY <1>1, <1>2, <1>4, <2>2
    <3> QED
      BY <1>1, <3>1
  <2> QED
    BY <2>1, <2>2
<1>6. IsQueue(w)
  BY <1>2, <1>5, <1>5a, CompactAtAssumption DEF IsQueue
<1>7. Layout(w, {})
  BY <1>2, <1>5 DEF Layout, I
<1>8. Wakeups(w, 0)
  BY <1>2 DEF Wakeups, WaitersEnd
<1> QED
  BY <1>2, <1>6, <1>7, <1>8 DEF w


==============================================================================
