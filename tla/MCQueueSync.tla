---------------------------- MODULE MCQueueSync ----------------------------
(* QueueSync on small instances.                                             *)
EXTENDS QueueSync
=============================================================================
