---------------------------- MODULE ReliableQueue ----------------------------
(***************************************************************************)
(* What a darner queue promises its clients, without heads, tails, returned*)
(* sets, chunks or streams: a first-in first-out store of items, each in   *)
(* the hands of at most one consumer.  A consumer takes the oldest item    *)
(* that nobody holds, and the item leaves the store only when its holder   *)
(* confirms it.  An item given back is the next to be taken if it is the   *)
(* oldest, and a crash gives back every item and loses none.               *)
(***************************************************************************)
EXTENDS Integers, Functions, TLC

CONSTANTS Consumers, Bodies,
          Ticket,   \* natural numbers, in the order of the items' pushes
          NoTicket  \* not one of them

VARIABLES stored, \* the items: a function from a ticket to the item's body
          held    \* the ticket each consumer holds, or NoTicket

rqvars == <<stored, held>>

RQInit == /\ stored = [t \in {} |-> <<>>]
          /\ held = [c \in Consumers |-> NoTicket]

Held == {held[c] : c \in Consumers} \ {NoTicket}

Free == DOMAIN stored \ Held

(* A producer's item is behind every item of the store.                      *)
Put(t, body) ==
    /\ UNCHANGED held
    /\ \A u \in DOMAIN stored : u < t
    /\ stored' = stored @@ (t :> body)

Take(c, t) ==
    /\ held[c] = NoTicket
    /\ held' = [held EXCEPT ![c] = t]
    /\ t \in Free /\ \A u \in Free : t <= u
    /\ UNCHANGED stored

Confirm(c) ==
    /\ held[c] # NoTicket
    /\ held' = [held EXCEPT ![c] = NoTicket]
    /\ stored' = Restrict(stored, DOMAIN stored \ {held[c]})

GiveBack(c) ==
    /\ held[c] # NoTicket
    /\ held' = [held EXCEPT ![c] = NoTicket]
    /\ UNCHANGED stored

CrashAll ==
    /\ held' = [c \in Consumers |-> NoTicket]
    /\ UNCHANGED stored

RQNext ==
    \/ \E t \in Ticket, body \in Bodies : Put(t, body)
    \/ \E c \in Consumers, t \in Ticket : Take(c, t)
    \/ \E c \in Consumers : Confirm(c) \/ GiveBack(c)
    \/ CrashAll

RQSpec == RQInit /\ [][RQNext]_rqvars

==============================================================================
