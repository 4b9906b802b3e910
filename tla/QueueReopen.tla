----------------------------- MODULE QueueReopen -----------------------------
(***************************************************************************)
(* Reopening any journal a crash can leave behind, those included that the *)
(* queue's constructor does not foresee: chunks, and no queue key.  A push *)
(* of several chunks to an empty queue that a crash cuts short leaves such *)
(* a journal, and so does a cancelled push whose chunks could not be       *)
(* erased.                                                                 *)
(***************************************************************************)
EXTENDS QueueStreams

VARIABLE up \* FALSE when the process died in the constructor

(***************************************************************************)
(* The constructor seeks the first queue key and finds the first chunk,    *)
(* whose id becomes the tail; it steps back from the first chunk, off the  *)
(* beginning of the journal, and reads the key there.  That ends the       *)
(* process or gives the head some id.                                      *)
(***************************************************************************)
ReopenOrphaned(j) ==
    \/ up' = FALSE /\ UNCHANGED q
    \/ /\ up' = TRUE
       /\ \E head \in 0 .. MaxItems :
             q' = [recover(j) EXCEPT !.queue_head = head,
                                     !.queue_tail = Min(DOMAIN j.chunks)]

CrashOrphaned ==
    /\ Faults \cap {"crash", "power"} # {}
    /\ \E j \in disk : ~ Reopenable(j) /\ ReopenOrphaned(j) /\ disk' = {j}
    /\ StreamsLost
    /\ accepted' = AcceptedIn(disk')
    /\ UNCHANGED synced

ReopenInit == Init /\ up = TRUE

ReopenNext ==
    /\ up
    /\ \/ Next /\ UNCHANGED up
       \/ CrashOrphaned

ReopenSpec == ReopenInit /\ [][ReopenNext]_<<vars, up>>

(* A queue can be closed at any time and opened again, as the test           *)
(* test_queue_close_reopen does: a restart never kills the process, and      *)
(* finds the queue as empty as its journal is of items.                      *)
ReopensAnyJournal ==
    /\ up
    /\ DOMAIN q.journal.items = {} /\ OpenConsumers = {} => count(q) = 0

==============================================================================
