--------------------------- MODULE MCTransferQueue ---------------------------
(* Small instances of TransferQueue. *)
EXTENDS TransferQueue, TLC

CONSTANTS HostA, HostB

OneJob == {0}
TwoJobs == 0 .. 1
OneSession == {1}
Reconnect == 1 .. 3
SameHost == [s \in Sessions |-> HostA]
Hosts == [s \in Sessions |-> IF s = 2 THEN HostB ELSE HostA]

\* The async tasks are alike.
Tasks == Permutations(Runs)
=============================================================================
