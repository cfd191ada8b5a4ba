---------------------------- MODULE MCSnapshotLock ----------------------------
(* A small instance of SnapshotLock for TLC.                               *)
EXTENDS SnapshotLock

\* The fields that controller_service compares.
TwoFields == {"speed", "timer"}

TwoSpeeds == [TwoFields -> 0 .. 1]
===============================================================================
