------------------------------- MODULE Streams -------------------------------
(***************************************************************************)
(* What oqstream and iqstream compute from their own fields and from the   *)
(* queue they are open on.  A stream is a record with the fields of its    *)
(* class, a queue is a queue object of module Queue.                       *)
(***************************************************************************)
EXTENDS Queue

(* oqstream: the stream after a chunk was written.                           *)
Advanced(s, chunk) == [s EXCEPT !.header.size = @ + Len(chunk), !.chunk_pos = @ + 1]

IsLastChunk(s) == s.chunk_pos + 1 = s.header.end

(***************************************************************************)
(* iqstream::read.  The first read (chunk_pos is 0) looks at the key: it   *)
(* gives the item, or the header of the chunks to read.                    *)
(***************************************************************************)
read_header(o, s) ==
    LET first == pop_read(o, s.id) IN
    IF s.chunk_pos # 0 THEN s.header
    ELSE IF first.header.end > 1 THEN first.header
    ELSE [first.header EXCEPT !.size = Len(first.item)]

(* Mutant of read_pos: the first read does not go to the header's range. *)
read_pos_stays(o, s) == s.chunk_pos

read_pos(o, s) ==
    IF s.chunk_pos = 0 /\ read_header(o, s).end > 1
    THEN read_header(o, s).beg ELSE s.chunk_pos

(* Whether leveldb finds every key the read asks for and the data is good.   *)
readable(o, s) ==
    /\ s.chunk_pos = 0 => s.id \in DOMAIN o.journal.items /\ pop_read(o, s.id).ok
    /\ read_header(o, s).end > 1 => read_pos(o, s) \in DOMAIN o.journal.chunks

(* The bytes a read gives: the next chunk, or the item of a single chunk.    *)
read_bytes(o, s) ==
    IF read_header(o, s).end > 1 THEN o.journal.chunks[read_pos(o, s)]
    ELSE pop_read(o, s.id).item

==============================================================================
