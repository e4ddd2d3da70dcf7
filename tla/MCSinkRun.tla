------------------------------ MODULE MCSinkRun ------------------------------
(* Small instances of SinkRun for TLC.                                      *)
EXTENDS SinkRun, TLC

CONSTANTS r1, r2, s1, s2

(* Each thread has a stream of its own...                                   *)
OwnStreams == (r1 :> s1) @@ (r2 :> s2)

(* ...or they share one.                                                    *)
OneStream == [r \in Runs |-> s1]

Symmetric == Permutations(Events)
=============================================================================
