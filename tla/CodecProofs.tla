----------------------------- MODULE CodecProofs -----------------------------
(***************************************************************************)
(* What queue::push writes for an item is what queue::pop_read gives back, *)
(* for byte strings and headers of any size.                               *)
(***************************************************************************)
EXTENDS ItemCodec, TLAPS

(* An item that does not end in zero is stored as it is.                     *)
LEMMA PlainExact ==
    ASSUME NEW item \in Seq(Nat), item # <<>>, item[Len(item)] # 0
    PROVE  /\ escape(item) = {item}
           /\ unescape(item) = [ok |-> TRUE, header |-> DefaultHeader, item |-> item]
BY DEF escape, unescape

(* An item of two bytes or more that ends in zero is escaped and restored.   *)
LEMMA EscapedExact ==
    ASSUME NEW item \in Seq(Nat), Len(item) > 1, item[Len(item)] = 0
    PROVE  /\ escape(item) = {Append(item, 0)}
           /\ unescape(Append(item, 0)) =
                 [ok |-> TRUE, header |-> DefaultHeader, item |-> item]
<1> DEFINE s == Append(item, 0)
<1>1. /\ Len(item) \in Nat
      /\ s \in Seq(Nat)
      /\ Len(s) = Len(item) + 1
      /\ s[Len(s)] = 0
      /\ \A i \in 1 .. Len(item) : s[i] = item[i]
  OBVIOUS
<1>2. escape(item) = {s}
  BY DEF escape
<1>3. s[Len(s) - 1] = 0
  BY <1>1
<1>4. SubSeq(s, 1, Len(s) - 1) = item
  BY <1>1
<1>5. unescape(s) = [[ok |-> TRUE, header |-> DefaultHeader, item |-> s]
                        EXCEPT !.item = SubSeq(s, 1, Len(s) - 1)]
  BY <1>1, <1>3 DEF unescape
<1> QED
  BY <1>2, <1>4, <1>5

(***************************************************************************)
(* The item that pop_read returns is the item that was pushed, and it is   *)
(* never taken for a header: for every byte string but the empty one and   *)
(* the one zero byte, the two that Storable leaves out.                    *)
(***************************************************************************)
THEOREM ItemsAreRestored ==
    \A item \in Seq(Nat) : Storable(item) =>
        \A value \in escape(item) :
            unescape(value) = [ok |-> TRUE, header |-> DefaultHeader, item |-> item]
<1> SUFFICES ASSUME NEW item \in Seq(Nat), Storable(item), NEW value \in escape(item)
             PROVE  unescape(value) =
                        [ok |-> TRUE, header |-> DefaultHeader, item |-> item]
  OBVIOUS
<1>1. item # <<>> /\ Len(item) \in Nat /\ Len(item) > 0
  BY DEF Storable
<1>2. CASE item[Len(item)] # 0
  BY <1>1, <1>2, PlainExact
<1>3. CASE item[Len(item)] = 0
  <2>1. Len(item) # 1
    <3> SUFFICES ASSUME Len(item) = 1 PROVE FALSE
      OBVIOUS
    <3>1. item = <<0>>
      BY <1>3
    <3> QED
      BY <3>1 DEF Storable
  <2>2. Len(item) > 1
    <3>1. \A n \in Nat : n > 0 /\ n # 1 => n > 1
      OBVIOUS
    <3> QED
      BY <1>1, <2>1, <3>1, Zenon
  <2> QED
    BY <1>3, <2>2, EscapedExact
<1> QED
  BY <1>2, <1>3

(* The header of an item of several chunks is read back as it was written.   *)
THEOREM HeadersAreRestored ==
    \A h \in Header :
        unescape(header_str(h)).ok /\ unescape(header_str(h)).header = h
<1> SUFFICES ASSUME NEW h \in Header
             PROVE  unescape(header_str(h)).ok /\ unescape(header_str(h)).header = h
  OBVIOUS
<1> DEFINE s == header_str(h)
           g == [beg |-> s[1], end |-> s[2], size |-> s[3]]
<1>1. /\ Len(s) = 5
      /\ s[5] = 0
      /\ s[4] = 1
      /\ s[1] = h.beg
      /\ s[2] = h.end
      /\ s[3] = h.size
  BY DEF header_str
<1>2. g = h
  BY <1>1 DEF Header
<1>3. unescape(s) = [[ok |-> TRUE, header |-> DefaultHeader, item |-> s]
                        EXCEPT !.header = g]
  BY <1>1 DEF unescape
<1> HIDE DEF s, g
<1> QED
  BY <1>2, <1>3 DEF s

==============================================================================
