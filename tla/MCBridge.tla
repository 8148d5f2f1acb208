------------------------------ MODULE MCBridge ------------------------------
(* Instances of IngBridge for TLC: lengths of packets and sessions.  The two *)
(* directions share tasks and a semaphore but no data, so that a session     *)
(* that is long one way is short the other way.                              *)
EXTENDS IngBridge

OneOrTwo == {1, 2}

Session(n, k, p) == [bytes |-> n, commands |-> k, peer |-> p]
Short == {Session(4, 0, 0), Session(2, 1, 0), Session(0, 1, 1), Session(1, 0, 2),
          Session(0, 0, 4)}
=============================================================================
