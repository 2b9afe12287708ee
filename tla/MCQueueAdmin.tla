---------------------------- MODULE MCQueueAdmin ----------------------------
EXTENDS QueueAdmin, TLC
=============================================================================
