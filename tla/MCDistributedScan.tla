-------------------------- MODULE MCDistributedScan --------------------------
(* Small instances of DistributedScan for TLC.                              *)
EXTENDS DistributedScan

CONSTANTS c1, c2, w1, w2

\* One list of two targets, one of one target.
MCSize == [c \in Coordinators |-> IF c = c1 THEN 2 ELSE 1]

\* One target in every list.
MCSizeOne == [c \in Coordinators |-> 1]

\* Batch ids of coordinators started in different milliseconds.
MCBatchOf == [c \in Coordinators |-> c]

=============================================================================
