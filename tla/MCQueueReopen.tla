---------------------------- MODULE MCQueueReopen ----------------------------
EXTENDS QueueReopen

OneChunk == {<<2>>}

==============================================================================
