------------------------------ MODULE MCQueueR ------------------------------
(* Small instances of the queue_r ring.                                    *)
EXTENDS QueueR
=============================================================================
