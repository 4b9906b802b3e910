------------------------------ MODULE MCServer -------------------------------
EXTENDS Server, TLC

OneByte == <<2>>

(* The queue q, and q.0, which is also where destroy() moves q.              *)
q == <<1>>
q0 == <<1, 0>>

(* A name that is left in freed memory. *)
freed == <<9>>

JustQ == {q}
QAndQ0 == {q, q0}

(* Every option, every way through get that depends on them, and the two     *)
(* combinations that get turns down.                                         *)
AllOptions ==
    {{}, {"open", "t"}, {"peek"}, {"close"}, {"close", "open"}, {"abort"},
     {"abort", "open"}, {"peek", "open"}}

OpenOrTake == {{}, {"t"}, {"open"}}

Reliable == {{}, {"open"}, {"close"}}

OnlyOpen == {{"open"}}

Symmetry == Permutations(Clients)

==============================================================================
