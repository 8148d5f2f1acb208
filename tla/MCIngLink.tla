----------------------------- MODULE MCIngLink ------------------------------
(* Instances of IngLink for TLC: peers, addresses and handles. *)
EXTENDS IngLink

CONSTANTS p, q, r, m, h1, h2

(* A module that was a master of p, or of r, which lacks the service. *)
MasterBefore == [role : {MASTER}, peer : {p, r}, mac : {m}]
=============================================================================
