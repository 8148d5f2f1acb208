------------------------------- MODULE MCGatt -------------------------------
(* Instances of AtGatt for TLC: two devices and the hosts.                  *)
EXTENDS AtGatt

CONSTANTS p, q

TwoLayouts(d) == IF d = p THEN [svc |-> 1, in |-> 3, out |-> 5, ccc |-> 6]
                          ELSE [svc |-> 7, in |-> 5, out |-> 3, ccc |-> 4]
NoZero   == {<<1, 2>>}

Host(ops, w) == [ops |-> ops, waits |-> w]
SomeHosts == {Host({"SWR", "CWR"}, TRUE), Host({"C", "CRD"}, TRUE), Host({"CSUB"}, TRUE),
              Host({"C", "CRD"}, FALSE)}
=============================================================================
