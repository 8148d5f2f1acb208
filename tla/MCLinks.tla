------------------------------- MODULE MCLinks -------------------------------
(* Instances of AtLinks for TLC: the peers, and the commands the host uses. *)
EXTENDS AtLinks, TLC

CONSTANTS a, b, c

Permuted == Permutations(Addrs)

NotDialling  == {"SCAN", "DISCONN", "MODE=I", "MODE=B"}
DialAndClose == {"SCAN", "CONN", "DISCONN", "DISCONN=A"}
=============================================================================
