------------------------------ MODULE ItemCodec ------------------------------
(***************************************************************************)
(* How a queue writes an item into its journal and recognises it again.    *)
(*                                                                         *)
(* A queue key of the journal holds either an item of a single chunk or    *)
(* the header of an item of several chunks.  A header is written with the  *)
(* trailer (1, 0); an item that ends in 0 is escaped by one more 0, so     *)
(* that the two can be told apart when the key is read back.               *)
(*                                                                         *)
(* A string is a sequence of bytes.  The three 64-bit fields of a header   *)
(* stand for their eight bytes each: the code reads and writes them as one *)
(* block and never looks at a byte of theirs.                              *)
(***************************************************************************)
EXTENDS Integers, Sequences

Header == [beg : Nat, end : Nat, size : Nat]

(* header_type(): the header of an item that has no header of its own.     *)
DefaultHeader == [beg |-> 0, end |-> 1, size |-> 0]

(* header_type::str *)
header_str(h) == <<h.beg, h.end, h.size, 1, 0>>

(***************************************************************************)
(* The strings queue::push may write for an item.  For the empty item the  *)
(* code reads item[size() - 1], one byte before the string's buffer: that  *)
(* byte is whatever the build put there, so the item may be escaped or not.*)
(***************************************************************************)
escape(item) ==
    IF item = <<>> THEN {<<>>, <<0>>}
    ELSE IF item[Len(item)] = 0 THEN {Append(item, 0)} ELSE {item}

(***************************************************************************)
(* queue::pop_read on the string stored under a key: the item, the header  *)
(* (the default one for a single-chunk item), and ok = FALSE where the     *)
(* code throws io_error.  When there is a header the item is its raw text, *)
(* which the caller overwrites with the first chunk.                       *)
(***************************************************************************)
unescape(s) ==
    LET n == Len(s)
        escaped == n > 2 /\ s[n] = 0
        plain == [ok |-> TRUE, header |-> DefaultHeader, item |-> s]
    IN  IF ~ escaped THEN plain
        ELSE IF s[n - 1] = 1 THEN
            [plain EXCEPT !.header = [beg |-> s[1], end |-> s[2], size |-> s[3]]]
        ELSE IF s[n - 1] = 0 THEN
            [plain EXCEPT !.item = SubSeq(s, 1, n - 1)]
        ELSE [plain EXCEPT !.ok = FALSE]

(***************************************************************************)
(* The items the codec is exact on (ItemsAreRestored in CodecProofs).  The *)
(* empty item and the item of one zero byte are the two it is not exact on.*)
(***************************************************************************)
Storable(item) == item \notin {<<>>, <<0>>}

==============================================================================
