----------------------------- MODULE MCItemCodec -----------------------------
(* Every byte string and every header up to a bound, pushed and read back.   *)
EXTENDS ItemCodec

CONSTANTS Byte, MaxLen, MaxId

VARIABLES item,    \* the item given to push, <<>> when it was given a header
          header,  \* the header given to push, the default one for an item
          stored,  \* what the journal holds for it
          result   \* what pop_read makes of it, once it is read

vars == <<item, header, stored, result>>

Unread == [ok |-> FALSE, header |-> DefaultHeader, item |-> <<>>]

Strings == UNION {[1 .. n -> Byte] : n \in 0 .. MaxLen}

(* The headers reserve_chunks and oqstream::write build: at least two chunks. *)
Headers == {h \in [beg : 0 .. MaxId, end : 0 .. MaxId, size : 0 .. MaxId] :
                h.beg + 1 < h.end}

PushItem == /\ item \in Strings
            /\ header = DefaultHeader
            /\ stored \in escape(item)

PushHeader == /\ item = <<>>
              /\ header \in Headers
              /\ stored = header_str(header)

Init == (PushItem \/ PushHeader) /\ result = Unread

Read == /\ result = Unread
        /\ result' = unescape(stored)
        /\ UNCHANGED <<item, header, stored>>

Next == Read

Spec == Init /\ [][Next]_vars

WasRead == result # Unread

PushedItem == header = DefaultHeader

(* What the comments of push and pop_read promise of every item that ends in *)
(* 0: it is escaped on the way in and unescaped on the way out.              *)
ZeroEndedRoundTrip ==
    WasRead /\ PushedItem /\ item # <<>> /\ item[Len(item)] = 0
        => result.item = item

==============================================================================
