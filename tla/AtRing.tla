------------------------------- MODULE AtRing -------------------------------
(***************************************************************************)
(* The UART receive ring of the 9168_AT firmware: a fixed array with a     *)
(* read index and a write index.  Equal indices mean empty; a write index  *)
(* one behind the read index means full, so one slot is never used.  The   *)
(* operators carry the names of the C functions and take the two indices   *)
(* as arguments, because the ring's owner keeps them as variables.         *)
(***************************************************************************)
EXTENDS Naturals, Sequences

CONSTANT AT_RECV_MAX_LEN   \* number of slots of gAT_env.at_recv_buffer

ASSUME RingAssumption == AT_RECV_MAX_LEN \in Nat /\ AT_RECV_MAX_LEN > 3

(* The positions an index may hold. *)
Index == 0 .. AT_RECV_MAX_LEN - 1

(* Mutant: the index reaches the length of the ring. *)
Advance_late(p, n) == IF p + n > AT_RECV_MAX_LEN THEN p + n - AT_RECV_MAX_LEN ELSE p + n

(* An index moved n slots on, n at most the length of the ring. *)
Advance(p, n) == IF p + n >= AT_RECV_MAX_LEN THEN p + n - AT_RECV_MAX_LEN ELSE p + n

(* Mutant: the modulus is forgotten. *)
at_buffer_full_flat(rp, wp) == wp + 1 = rp

at_buffer_full(rp, wp) == (wp + 1) % AT_RECV_MAX_LEN = rp

at_buffer_empty(rp, wp) == wp = rp

at_buffer_data_size(rp, wp) ==
  IF wp >= rp THEN wp - rp ELSE wp - rp + AT_RECV_MAX_LEN

(* The bytes waiting in the ring, oldest first. *)
Contents(buf, rp, wp) ==
  [k \in 1 .. at_buffer_data_size(rp, wp) |-> buf[Advance(rp, k - 1)]]

(* The newest three bytes; at_buffer_read_data(size - 1) is the newest.  *)
NewestThree(buf, rp, wp) ==
  LET n == at_buffer_data_size(rp, wp)
  IN  {buf[Advance(rp, n - k)] : k \in 1 .. 3}

(***************************************************************************)
(* What one packet takes: at most mtu bytes and never past the end of the  *)
(* array, since the stack is given a pointer into it.                      *)
(***************************************************************************)
PacketLen(rp, wp, mtu) ==
  LET size == at_buffer_data_size(rp, wp)
      cut  == IF size > mtu THEN mtu ELSE size
  IN  IF rp + cut >= AT_RECV_MAX_LEN THEN AT_RECV_MAX_LEN - rp ELSE cut
=============================================================================
