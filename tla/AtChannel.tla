----------------------------- MODULE AtChannel -----------------------------
(***************************************************************************)
(* What the serial data path promises whoever types data: the bytes reach  *)
(* the air in the order they were accepted, each at most once, and a byte  *)
(* is given up only when the buffer overflows (the oldest one goes) or the *)
(* whole buffer is discarded because the mode or the link ended.           *)
(***************************************************************************)
EXTENDS Naturals, SequencesExt

CONSTANTS
  Bytes,      \* the bytes that may be accepted, records with a number .id
  Reserve    \* bytes that must be waiting before the oldest may be given up

VARIABLES
  queue,     \* accepted and neither sent nor given up
  count,     \* how many data bytes were accepted; they are numbered from 1
  packet     \* the last packet put on the air

channel == <<queue, count, packet>>

Init == queue = <<>> /\ count = 0 /\ packet = <<>>

(* The byte just accepted is the last of the queue.  Data bytes carry the
   next number, bytes of a command line carry 0. *)
Taken(q) ==
  /\ queue' # <<>> /\ queue' = Append(q, Last(queue')) /\ Last(queue') \in Bytes
  /\ Last(queue').id \in {0, count + 1}
  /\ count' = IF Last(queue').id = 0 THEN count ELSE count + 1
  /\ UNCHANGED packet

Accept == Taken(queue)

Overflow == Len(queue) >= Reserve /\ queue # <<>> /\ Taken(Tail(queue))

(* Everything that waits is given up. *)
Discard == queue' = <<>> /\ UNCHANGED <<count, packet>>

Send(n) ==
  /\ n \in 1 .. Len(queue)
  /\ packet' = SubSeq(queue, 1, n) /\ queue' = SubSeq(queue, n + 1, Len(queue))
  /\ UNCHANGED count

Next == Accept \/ Overflow \/ Discard \/ \E n \in 1 .. Len(queue) : Send(n)

Spec == Init /\ [][Next]_channel
=============================================================================
