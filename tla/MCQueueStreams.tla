--------------------------- MODULE MCQueueStreams ----------------------------
EXTENDS QueueInvariant, QueueBodies, TLC

(* An ordinary byte, and strings that end like an escape and like a header.  *)
MCChunk == {<<2>>, <<1, 0>>}

OneChunk == {<<2>>}

Symmetry == Permutations(Producers) \cup Permutations(Consumers)

==============================================================================
