-------------------------- MODULE AtChannel_proofs --------------------------
(***************************************************************************)
(* AtStream implements AtChannel, for every value of the constants and as  *)
(* long as no AT line ends while a packet is at the stack.                 *)
(***************************************************************************)
EXTENDS AtStream_proofs, SequenceTheorems

-----------------------------------------------------------------------------
(* The ring, as a sequence *)

Size(r, w) == at_buffer_data_size(r, w)

(* The bytes of the ring behind the first k. *)
Rest(b, r, w, k) == [i \in 1 .. Size(r, w) - k |-> b[Advance(r, k + i - 1)]]

(* A byte put into slot w. *)
Put(b, w, x) == [b EXCEPT ![w] = x]

(* Moving an index by n and then by m. *)
LEMMA AdvanceTwice ==
  ASSUME NEW p \in Index, NEW n \in Nat, NEW m \in Nat, n + m <= AT_RECV_MAX_LEN
  PROVE  Advance(Advance(p, n), m) = Advance(p, n + m)
BY RingAssumption DEF Advance, Index

(* What a byte stored, or n bytes dropped, does to the number of bytes; the
   slot written is none of those that hold bytes. *)
LEMMA SizeMoves ==
  ASSUME NEW r \in Index, NEW w \in Index
  PROVE  /\ Size(r, w) \in 0 .. AT_RECV_MAX_LEN - 1
         /\ Size(r, w) <= AT_RECV_MAX_LEN - 2 => Size(r, Advance(w, 1)) = Size(r, w) + 1
         /\ \A n \in 0 .. Size(r, w) : /\ Advance(r, n) \in Index
                                       /\ Size(Advance(r, n), w) = Size(r, w) - n
         /\ \A n \in Nat : n < Size(r, w) => Advance(r, n) # w
         /\ Advance(r, Size(r, w)) = w
BY RingAssumption DEF Size, at_buffer_data_size, Advance, Index

(* The ring overflows exactly when the byte stored was the last to fit. *)
LEMMA FullMeans ==
  ASSUME NEW r \in Index, NEW w \in Index, Size(r, w) <= AT_RECV_MAX_LEN - 2
  PROVE  at_buffer_full(r, Advance(w, 1)) <=> Size(r, w) = AT_RECV_MAX_LEN - 2
<1> DEFINE n == AT_RECV_MAX_LEN
<1>1. n \in Nat /\ n > 3 /\ r \in 0 .. n - 1 /\ w \in 0 .. n - 1 /\ Advance(w, 1) \in 0 .. n - 1
  BY RingAssumption, AdvanceType DEF Index
<1>2. \A a \in 0 .. n - 1 : (a + 1) % n = IF a = n - 1 THEN 0 ELSE a + 1
  <2>1. ASSUME NEW a \in 0 .. n - 1, a # n - 1 PROVE (a + 1) % n = a + 1
    BY <1>1, <2>1
  <2>2. n % n = 0
    BY <1>1
  <2> QED BY <1>1, <2>1, <2>2
<1>3. at_buffer_full(r, Advance(w, 1)) <=>
        r = IF Advance(w, 1) = n - 1 THEN 0 ELSE Advance(w, 1) + 1
  BY <1>1, <1>2 DEF at_buffer_full
<1> QED BY <1>1, <1>3 DEF Size, at_buffer_data_size, Advance

LEMMA RestSeq ==
  ASSUME NEW b \in [Index -> Cell], NEW r \in Index, NEW w \in Index, NEW k \in 0 .. Size(r, w)
  PROVE  /\ Rest(b, r, w, k) \in Seq(Cell)
         /\ Len(Rest(b, r, w, k)) = Size(r, w) - k
         /\ \A i \in 1 .. Size(r, w) - k : Rest(b, r, w, k)[i] = b[Advance(r, k + i - 1)]
<1>1. Size(r, w) - k \in Nat
  BY SizeMoves
<1>2. \A i \in 1 .. Size(r, w) - k : b[Advance(r, k + i - 1)] \in Cell
  <2> TAKE i \in 1 .. Size(r, w) - k
  <2>1. k + i - 1 \in 0 .. Size(r, w)
    BY SizeMoves
  <2> QED BY <2>1, SizeMoves
<1> QED BY <1>1, <1>2 DEF Rest

(* Equal lengths and equal elements make equal sequences. *)
LEMMA RestIs ==
  ASSUME NEW b \in [Index -> Cell], NEW r \in Index, NEW w \in Index, NEW k \in 0 .. Size(r, w),
         NEW s \in Seq(Cell), Len(s) = Size(r, w) - k,
         \A i \in 1 .. Size(r, w) - k : s[i] = b[Advance(r, k + i - 1)]
  PROVE  s = Rest(b, r, w, k)
BY RestSeq, SeqEqual

(* A byte is stored behind the others. *)
LEMMA RestStore ==
  ASSUME NEW b \in [Index -> Cell], NEW r \in Index, NEW w \in Index, NEW k \in 0 .. Size(r, w),
         NEW x \in Cell, Size(r, w) <= AT_RECV_MAX_LEN - 2
  PROVE  /\ Put(b, w, x) \in [Index -> Cell] /\ Advance(w, 1) \in Index
         /\ Rest(Put(b, w, x), r, Advance(w, 1), k) = Append(Rest(b, r, w, k), x)
<1> DEFINE n == Size(r, w)
           v == Advance(w, 1)
           c == Put(b, w, x)
           s == Append(Rest(b, r, w, k), x)
<1>1. n \in 0 .. AT_RECV_MAX_LEN - 2 /\ Size(r, v) = n + 1 /\ v \in Index /\ AT_RECV_MAX_LEN \in Nat
      /\ k \in 0 .. Size(r, v)
  BY SizeMoves, AdvanceType, RingAssumption
<1>2. c \in [Index -> Cell] /\ c[w] = x /\ \A i \in Index : i # w => c[i] = b[i]
  BY DEF Put
<1>3. /\ Rest(b, r, w, k) \in Seq(Cell) /\ Len(Rest(b, r, w, k)) = n - k
      /\ \A i \in 1 .. n - k : Rest(b, r, w, k)[i] = b[Advance(r, k + i - 1)]
  BY RestSeq
<1>4. s \in Seq(Cell) /\ Len(s) = n - k + 1 /\ s[n - k + 1] = x
      /\ \A i \in 1 .. n - k : s[i] = Rest(b, r, w, k)[i]
  BY <1>3, AppendProperties
<1>5. ASSUME NEW i \in 1 .. Size(r, v) - k PROVE s[i] = c[Advance(r, k + i - 1)]
  <2>1. CASE i = n - k + 1
    <3>1. k + i - 1 = n
      BY <1>1, <2>1
    <3>2. Advance(r, n) = w
      BY SizeMoves
    <3> QED BY <1>2, <1>4, <2>1, <3>1, <3>2
  <2>2. CASE i # n - k + 1
    <3>1. i \in 1 .. n - k /\ k + i - 1 \in 0 .. n /\ k + i - 1 \in Nat /\ k + i - 1 < n
      BY <1>1, <2>2
    <3>2. Advance(r, k + i - 1) # w /\ Advance(r, k + i - 1) \in Index
      BY <3>1, SizeMoves
    <3> QED BY <1>2, <1>3, <1>4, <3>1, <3>2
  <2> QED BY <2>1, <2>2
<1>6. Len(s) = Size(r, v) - k
  BY <1>1, <1>4
<1> HIDE DEF n, v, c, s
<1>7. s = Rest(c, r, v, k)
  BY <1>1, <1>2, <1>4, <1>5, <1>6, RestIs
<1> QED BY <1>1, <1>2, <1>7 DEF c, s, v

(* The first n bytes leave. *)
LEMMA RestDrop ==
  ASSUME NEW b \in [Index -> Cell], NEW r \in Index, NEW w \in Index,
         NEW n \in 0 .. Size(r, w), NEW k \in 0 .. Size(r, w) - n
  PROVE  /\ Advance(r, n) \in Index /\ Size(Advance(r, n), w) = Size(r, w) - n
         /\ Rest(b, Advance(r, n), w, k) = Rest(b, r, w, n + k)
<1>1. /\ Size(r, w) \in 0 .. AT_RECV_MAX_LEN - 1 /\ Advance(r, n) \in Index
      /\ Size(Advance(r, n), w) = Size(r, w) - n /\ AT_RECV_MAX_LEN \in Nat
  BY SizeMoves, RingAssumption
<1>2. ASSUME NEW i \in 1 .. Size(r, w) - n - k
      PROVE  Advance(Advance(r, n), k + i - 1) = Advance(r, n + k + i - 1)
  <2>1. n \in Nat /\ k + i - 1 \in Nat /\ n + (k + i - 1) <= AT_RECV_MAX_LEN
        /\ n + (k + i - 1) = n + k + i - 1
    BY <1>1
  <2> QED BY <2>1, AdvanceTwice
<1>3. Size(Advance(r, n), w) - k = Size(r, w) - (n + k)
      /\ Size(r, w) - n - k = Size(r, w) - (n + k)
  BY <1>1
<1> QED BY <1>1, <1>2, <1>3 DEF Rest

(* The first of the bytes leaves. *)
LEMMA RestTail ==
  ASSUME NEW b \in [Index -> Cell], NEW r \in Index, NEW w \in Index, NEW k \in 0 .. Size(r, w),
         k < Size(r, w)
  PROVE  Tail(Rest(b, r, w, k)) = Rest(b, r, w, 1 + k)
<1> DEFINE n == Size(r, w)
           a == Rest(b, r, w, k)
<1>1. n \in Nat /\ k \in 0 .. n - 1 /\ 1 + k \in 0 .. n
  BY SizeMoves, RingAssumption
<1>2. /\ a \in Seq(Cell) /\ Len(a) = n - k
      /\ \A i \in 1 .. n - k : a[i] = b[Advance(r, k + i - 1)]
  BY RestSeq
<1>3. n = Size(r, w)
  OBVIOUS
<1> HIDE DEF n, a
<1>4. a # <<>>
  BY <1>1, <1>2, EmptySeq
<1>5. /\ Tail(a) \in Seq(Cell) /\ Len(Tail(a)) = n - k - 1
      /\ \A i \in 1 .. Len(Tail(a)) : Tail(a)[i] = a[i + 1]
  BY <1>2, <1>4, HeadTailProperties
<1>6. n - k - 1 = n - (1 + k)
  BY <1>1
<1>7. ASSUME NEW i \in 1 .. n - (1 + k)
      PROVE  Tail(a)[i] = b[Advance(r, (1 + k) + i - 1)]
  <2>1. i \in 1 .. n - k - 1 /\ i + 1 \in 1 .. n - k /\ k + (i + 1) - 1 = (1 + k) + i - 1
    BY <1>1
  <2> QED BY <1>2, <1>5, <2>1
<1>8. Tail(a) = Rest(b, r, w, 1 + k)
  BY <1>1, <1>3, <1>5, <1>6, <1>7, RestIs
<1> QED BY <1>8 DEF a

(* When a byte stored pushes the oldest out, what waits moves on by one. *)
LEMMA RestPush ==
  ASSUME NEW b \in [Index -> Cell], NEW r \in Index, NEW w \in Index, NEW k \in 0 .. Size(r, w),
         NEW x \in Cell, Size(r, w) <= AT_RECV_MAX_LEN - 2, k < Size(r, w),
         NEW c \in [Index -> Cell], NEW v \in Index, v = Advance(w, 1),
         Rest(c, r, v, k) = Append(Rest(b, r, w, k), x)
  PROVE  Rest(c, Advance(r, 1), v, k) = Append(Tail(Rest(b, r, w, k)), x)
<1>1. Size(r, v) = Size(r, w) + 1 /\ Size(r, w) \in Nat
  BY SizeMoves, RingAssumption
<1>2. 1 \in 0 .. Size(r, v) /\ k \in 0 .. Size(r, v) - 1 /\ k \in 0 .. Size(r, v) /\ k < Size(r, v)
  BY <1>1
<1>3. Rest(c, Advance(r, 1), v, k) = Rest(c, r, v, 1 + k)
  BY <1>2, RestDrop
<1>4. Tail(Rest(c, r, v, k)) = Rest(c, r, v, 1 + k)
  BY <1>2, RestTail
<1>5. Rest(b, r, w, k) \in Seq(Cell) /\ Rest(b, r, w, k) # <<>>
  <2>1. Rest(b, r, w, k) \in Seq(Cell) /\ Len(Rest(b, r, w, k)) = Size(r, w) - k
    BY RestSeq
  <2> QED BY <1>1, <2>1, EmptySeq
<1>6. Tail(Append(Rest(b, r, w, k), x)) = Append(Tail(Rest(b, r, w, k)), x)
  BY <1>5, HeadTailAppend
<1> QED BY <1>3, <1>4, <1>6

(* What waits is what is left of the ring behind the packet given away. *)
LEMMA ContentsRest ==
  ASSUME NEW b \in [Index -> Cell], NEW r \in Index, NEW w \in Index, NEW k \in 0 .. Size(r, w)
  PROVE  /\ Contents(b, r, w) = Rest(b, r, w, 0)
         /\ SubSeq(Contents(b, r, w), k + 1, Len(Contents(b, r, w))) = Rest(b, r, w, k)
<1> DEFINE n == Size(r, w)
           c == Contents(b, r, w)
<1>1. n \in 0 .. AT_RECV_MAX_LEN - 1 /\ n - 0 = n /\ 0 \in 0 .. n
  BY SizeMoves, RingAssumption
<1>2. c = Rest(b, r, w, 0)
  <2>1. \A i \in 1 .. n : 0 + i - 1 = i - 1
    OBVIOUS
  <2> QED BY <1>1, <2>1 DEF Contents, Rest, Size
<1>3. c \in Seq(Cell) /\ Len(c) = n /\ \A i \in 1 .. n : c[i] = b[Advance(r, i - 1)]
  BY <1>1, <1>2, RestSeq
<1> DEFINE s == SubSeq(c, k + 1, Len(c))
<1> HIDE DEF n, c
<1>4. s \in Seq(Cell) /\ Len(s) = n - k /\ \A i \in 1 .. n - k : s[i] = c[k + i]
  <2>1. k \in 0 .. n
    BY DEF n
  <2>2. k + 1 \in 1 .. Len(c) + 1 /\ Len(c) \in 0 .. Len(c)
    BY <1>1, <1>3, <2>1
  <2>3. Len(c) - (k + 1) + 1 = n - k /\ k + 1 \in Nat /\ n - k \in Nat
    BY <1>1, <1>3, <2>1
  <2>4. s \in Seq(Cell) /\ Len(s) = n - k
    BY <1>3, <2>1, <2>2, <2>3, SubSeqProperties
  <2>5. ASSUME NEW i \in 1 .. n - k PROVE s[i] = c[k + i]
    <3>1. i \in 1 .. Len(c) - (k + 1) + 1 /\ (k + 1) + i - 1 = k + i
      BY <1>1, <2>1, <2>3
    <3> QED BY <1>3, <2>2, <2>3, <3>1, SubSeqProperties
  <2> QED BY <2>4, <2>5
<1>5. ASSUME NEW i \in 1 .. n - k PROVE s[i] = b[Advance(r, k + i - 1)]
  <2>1. k + i \in 1 .. n
    BY <1>1 DEF n
  <2> QED BY <1>3, <1>4, <2>1
<1> HIDE DEF s
<1>6. s = Rest(b, r, w, k)
  BY <1>4, <1>5, RestIs DEF n
<1> QED BY <1>2, <1>6 DEF c, s

(* The packet cut at the read index is the head of the ring. *)
LEMMA PacketIsHead ==
  ASSUME NEW b \in [Index -> Cell], NEW r \in Index, NEW w \in Index, ~at_buffer_empty(r, w)
  PROVE  LET n == PacketLen(r, w, MTU)
         IN  [k \in 1 .. n |-> b[r + k - 1]] = SubSeq(Rest(b, r, w, 0), 1, n)
<1> DEFINE n == PacketLen(r, w, MTU)
           c == Rest(b, r, w, 0)
<1>1. n \in 1 .. MTU /\ n <= Size(r, w) /\ r + n <= AT_RECV_MAX_LEN /\ r \in Nat
      /\ Size(r, w) \in Nat /\ MTU \in Nat
  BY PacketLenType, SizeMoves, RingAssumption, StreamAssumption DEF Index, Size
<1>2. c \in Seq(Cell) /\ Len(c) = Size(r, w)
      /\ \A i \in 1 .. Size(r, w) : c[i] = b[Advance(r, 0 + i - 1)]
  <2>1. 0 \in 0 .. Size(r, w) /\ Size(r, w) - 0 = Size(r, w)
    BY <1>1
  <2> QED BY <2>1, RestSeq
<1> HIDE DEF n, c
<1>3. SubSeq(c, 1, n) = [k \in 1 .. n |-> c[k]]
  BY <1>1, <1>2
<1>4. \A k \in 1 .. n : c[k] = b[r + k - 1]
  <2> TAKE k \in 1 .. n
  <2>1. k \in 1 .. Size(r, w) /\ 0 + k - 1 = k - 1 /\ r + (k - 1) = r + k - 1
    BY <1>1
  <2>2. Advance(r, k - 1) = r + (k - 1)
    BY <1>1, RingAssumption DEF Advance
  <2> QED BY <1>2, <2>1, <2>2
<1> QED BY <1>3, <1>4 DEF n, c

-----------------------------------------------------------------------------
(* The ring never loses count *)

(***************************************************************************)
(* One slot of the ring stays free besides the one a full ring leaves, so  *)
(* that a byte always fits; a packet at the stack is still in the ring,    *)
(* and the exit timer does not clear the ring before its pop.              *)
(***************************************************************************)
Fits ==
  /\ Size(rp, wp) <= AT_RECV_MAX_LEN - 2
  /\ bt.pc = "adv" => bt.len \in 1 .. Size(rp, wp) /\ tpc \notin {"exit", "clear"}

(* The step leaves a packet at the stack, if there is one, where it is. *)
KeepsPacket ==
  /\ bt.pc = "adv" => bt'.pc = "adv" /\ bt'.len = bt.len
  /\ bt'.pc = "adv" => bt.pc = "adv" /\ tpc' \notin {"exit", "clear"}

(* The kinds of steps: what they do to the ring, the numbers and the air. *)
Quiet == UNCHANGED <<buf, rp, wp, rx, air>> /\ KeepsPacket

Stores(x) ==
  /\ buf' = [buf EXCEPT ![wp] = x] /\ wp' = Advance(wp, 1)
  /\ rp' = IF Size(rp, wp) = AT_RECV_MAX_LEN - 2 THEN Advance(rp, 1) ELSE rp
  /\ x.id \in {0, rx + 1} /\ rx' = IF x.id = 0 THEN rx ELSE rx + 1
  /\ UNCHANGED air /\ KeepsPacket

Resets ==
  /\ rp' = 0 /\ wp' = 0 /\ UNCHANGED <<rx, air>>
  /\ bt.pc # "adv" /\ bt'.pc # "adv"

Kind ==
  \/ Quiet \/ Resets \/ SendPacket \/ PopSent
  \/ \E x \in Cell : Stores(x)

LEMMA ByteKeeps ==
  ASSUME TypeOK, Fits, NEW c \in Char, Byte(c)
  PROVE  KeepsPacket /\ bt'.pc = bt.pc /\ UNCHANGED air
<1>1. bt \in BtStates
  BY DEF TypeOK, BtType
<1>2. bt'.pc = bt.pc /\ bt'.len = bt.len /\ UNCHANGED <<tpc, air>>
  BY <1>1 DEF Byte, BtStates, radio
<1> QED BY <1>2 DEF Fits, KeepsPacket

LEMMA IsrKind ==
  ASSUME TypeOK, Fits, NEW c \in Char, ~LineClash,
         RxTransparent(c) \/ RxOneSlot(c) \/ RxSwallowed(c) \/ RxPrefix(c) \/ RxCommand(c)
  PROVE  Kind
<1> USE DEF ring, marks, Kind
<1>1. Byte(c)
  BY DEF RxTransparent, RxOneSlot, RxSwallowed, RxPrefix, RxCommand
<1>2. KeepsPacket /\ bt'.pc = bt.pc /\ UNCHANGED air
  BY <1>1, ByteKeeps
<1>3. rp \in Index /\ wp \in Index /\ rx \in Nat /\ Size(rp, wp) <= AT_RECV_MAX_LEN - 2
  BY DEF TypeOK, UartType, WorldType, Fits
<1>4. at_buffer_full(rp, Advance(wp, 1)) <=> Size(rp, wp) = AT_RECV_MAX_LEN - 2
  BY <1>3, FullMeans
<1>5. [ch |-> c, id |-> rx + 1] \in Cell /\ [ch |-> c, id |-> 0] \in Cell /\ rx + 1 # 0
  BY <1>3 DEF Cell
<1>6. CASE RxTransparent(c)
  <2>1. Stores([ch |-> c, id |-> rx + 1])
    BY <1>2, <1>4, <1>5, <1>6 DEF RxTransparent, Stores, at_buffer_enqueue_data
  <2> QED BY <1>5, <2>1
<1>7. CASE RxOneSlot(c)
  <2>1. CASE at_buffer_data_size(rp, wp) < AT_RECV_MAX_LEN - 2
    <3>1. Size(rp, wp) # AT_RECV_MAX_LEN - 2
      BY <2>1, <1>3, SizeMoves, RingAssumption DEF Size
    <3>2. Stores([ch |-> c, id |-> rx + 1])
      BY <1>2, <1>5, <1>7, <2>1, <3>1 DEF RxOneSlot, Stores, at_buffer_enqueue_data
    <3> QED BY <1>5, <3>2
  <2>2. CASE ~(at_buffer_data_size(rp, wp) < AT_RECV_MAX_LEN - 2)
    BY <1>2, <1>7, <2>2 DEF RxOneSlot, Quiet
  <2> QED BY <2>1, <2>2
<1>8. CASE RxSwallowed(c)
  BY <1>2, <1>8 DEF RxSwallowed, Quiet, uart
<1>9. CASE RxPrefix(c)
  BY <1>2, <1>9 DEF RxPrefix, Quiet
<1>10. CASE RxCommand(c)
  <2>1. PICK ends \in {LineEnds(c, b) : b \in BOOLEAN} :
          LET reset == ends \/ at_buffer_full(rp, Advance(wp, 1))
          IN  /\ buf' = [buf EXCEPT ![wp] = [ch |-> c, id |-> 0]]
              /\ wp' = IF reset THEN 0 ELSE Advance(wp, 1)
              /\ rp' = IF reset THEN 0 ELSE rp
              /\ at_recv_state' = IF reset THEN 0 ELSE 3
    BY <1>10 DEF RxCommand
  <2>2. rx' = rx /\ at_recv_state = 3
    BY <1>10 DEF RxCommand
  <2>3. CASE ends \/ at_buffer_full(rp, Advance(wp, 1))
    <3>1. rp' = 0 /\ wp' = 0 /\ at_recv_state' = 0
      BY <2>1, <2>3
    <3>2. bt.pc # "adv"
      BY <2>2, <3>1 DEF LineClash
    <3> QED BY <1>2, <2>2, <3>1, <3>2 DEF Resets
  <2>4. CASE ~(ends \/ at_buffer_full(rp, Advance(wp, 1)))
    <3>1. Stores([ch |-> c, id |-> 0])
      BY <1>2, <1>4, <1>5, <2>1, <2>2, <2>4 DEF Stores
    <3> QED BY <1>5, <3>1
  <2> QED BY <2>3, <2>4
<1> QED BY <1>6, <1>7, <1>8, <1>9, <1>10

LEMMA TimerKind ==
  ASSUME TypeOK, Fits, TimerTask
  PROVE  Kind
<1> USE DEF ring, uart, world, marks, radio, Kind, KeepsPacket, Fits
<1>1. CASE SendTimerFires
  BY <1>1 DEF SendTimerFires, Quiet
<1>2. CASE SendTimerPosts
  BY <1>2 DEF SendTimerPosts, Quiet
<1>3. CASE ExitTimerFires
  <2>1. at_buffer_empty(rp, wp) => bt.pc # "adv"
    <3>1. rp \in Index /\ wp \in Index
      BY DEF TypeOK, UartType
    <3> QED BY <3>1, SizeType DEF Size
  <2> QED BY <1>3, <2>1 DEF ExitTimerFires, Quiet
<1>4. CASE ExitTransparent
  BY <1>4 DEF ExitTransparent, Quiet
<1>5. CASE ExitClears
  BY <1>5 DEF ExitClears, Resets
<1> QED BY <1>1, <1>2, <1>3, <1>4, <1>5 DEF TimerTask

LEMMA WorkKind ==
  ASSUME TypeOK, Fits, BtWork
  PROVE  Kind
<1> USE DEF ring, uart, world, marks, radio, Kind, KeepsPacket, Fits
<1>a. bt \in BtStates
  BY DEF TypeOK, BtType
<1>1. CASE StartTimerMsg
  BY <1>1 DEF StartTimerMsg, NextMsg, BtFree, Quiet
<1>2. CASE CommandMsg
  <2>1. bt.pc = "idle" /\ (bt' = bt \/ bt' = At("clear"))
    BY <1>2 DEF CommandMsg, NextMsg, BtFree, OtherCommand, CommandIgnored, SetTarget,
                StartOneSlot, EnterTransparent
  <2> QED BY <1>2, <2>1, AtFields DEF CommandMsg, Quiet
<1>3. CASE ClearAfterCommand
  BY <1>3, AtFields DEF ClearAfterCommand, BtAt, Idle, Resets
<1>4. CASE RecvTransparentData
  <2>1. bt.pc # "adv"
    BY <1>4 DEF RecvTransparentData, NextMsg, BtFree
  <2>2. bt'.pc # "adv"
    <3>1. Sending(transparent_method, TRUE).pc = "send"
      BY SendingFields
    <3> QED BY <1>4, <3>1, AtFields DEF RecvTransparentData
  <2> QED BY <1>4, <2>1, <2>2 DEF RecvTransparentData, Quiet, Resets
<1>5. CASE SendPacket \/ PopSent
  BY <1>5
<1>6. CASE SendEnds
  BY <1>6, AtFields DEF SendEnds, SendReturns, BtAt, Idle, Quiet
<1>7. CASE SendHangs
  BY <1>7, <1>a DEF SendHangs, BtAt, Quiet, BtStates
<1>8. CASE SendDone
  BY <1>8, AtFields DEF SendDone, BtAt, Quiet
<1>9. CASE ReportSendOk
  BY <1>9, AtFields DEF ReportSendOk, BtAt, Quiet, Idle
<1>10. CASE ClearOnDisconnect
  BY <1>10, AtFields DEF ClearOnDisconnect, BtAt, Resets
<1>11. CASE LeaveModes
  BY <1>11, AtFields DEF LeaveModes, BtAt, Idle, Quiet
<1>12. CASE AsyncDone
  BY <1>12 DEF AsyncDone, BtFree, Quiet
<1>13. ASSUME NEW l \in Links, NEW via \in Methods, CanSendNow(l, via) PROVE Kind
  BY <1>13, AtFields, SendingFields DEF CanSendNow, BtFree, Idle, Quiet
<1> QED
  BY <1>1, <1>2, <1>3, <1>4, <1>5, <1>6, <1>7, <1>8, <1>9, <1>10, <1>11, <1>12, <1>13
     DEF BtWork

LEMMA StepKind == TypeOK /\ Fits /\ [Next]_vars /\ [~LineClash]_vars => Kind \/ UNCHANGED vars
<1> SUFFICES ASSUME TypeOK, Fits, [Next]_vars, [~LineClash]_vars, ~UNCHANGED vars PROVE Kind
  OBVIOUS
<1> USE DEF ring, uart, world, marks, radio, Kind, KeepsPacket, Fits
<1>1. CASE HostTypes \/ TxDone
  BY <1>1 DEF HostTypes, TxDone, Quiet, timers
<1>2. ASSUME NEW l \in Links, Connect(l) PROVE Kind
  BY <1>2 DEF Connect, BtFree, Quiet
<1>3. ASSUME NEW l \in Links, Disconnect(l) PROVE Kind
  BY <1>3, AtFields DEF Disconnect, BtFree, Idle, Quiet
<1>4. ASSUME NEW l \in Links, NEW on \in BOOLEAN, WriteOutputDesc(l, on) PROVE Kind
  BY <1>4 DEF WriteOutputDesc, BtFree, Quiet
<1>5. CASE Isr
  BY <1>5, IsrKind DEF Isr
<1>6. CASE TimerTask \/ BtWork
  BY <1>6, TimerKind, WorkKind
<1> QED BY <1>1, <1>2, <1>3, <1>4, <1>5, <1>6 DEF Next, Peers

(* The free slot and the packet's bytes are there after every step. *)
LEMMA StepFits ==
  TypeOK /\ TypeOK' /\ Fits /\ [Next]_vars /\ [~LineClash]_vars => Fits'
<1> SUFFICES ASSUME TypeOK, TypeOK', Fits, [Next]_vars, [~LineClash]_vars PROVE Fits'
  OBVIOUS
<1>1. /\ rp \in Index /\ wp \in Index /\ AT_RECV_MAX_LEN \in Nat /\ AT_RECV_MAX_LEN > 3
      /\ Size(rp, wp) \in 0 .. AT_RECV_MAX_LEN - 2
  BY SizeMoves, RingAssumption DEF TypeOK, UartType, Fits
<1>2. CASE UNCHANGED vars
  BY <1>2 DEF vars, uart, ring, timers, Fits
<1>3. CASE Quiet
  BY <1>3 DEF Quiet, KeepsPacket, Fits
<1>4. ASSUME NEW x \in Cell, Stores(x) PROVE Fits'
  <2>1. wp' = Advance(wp, 1) /\ wp' \in Index /\ Size(rp, wp') = Size(rp, wp) + 1
    BY <1>1, <1>4, SizeMoves, AdvanceType DEF Stores
  <2>2. Size(rp', wp') \in Size(rp, wp) .. AT_RECV_MAX_LEN - 2
    <3>1. CASE Size(rp, wp) = AT_RECV_MAX_LEN - 2
      <4>1. rp' = Advance(rp, 1) /\ 1 \in 0 .. Size(rp, wp')
        BY <1>1, <1>4, <2>1, <3>1 DEF Stores
      <4>2. Size(rp', wp') = Size(rp, wp') - 1
        BY <1>1, <2>1, <4>1, SizeMoves
      <4> QED BY <1>1, <2>1, <3>1, <4>2
    <3>2. CASE Size(rp, wp) # AT_RECV_MAX_LEN - 2
      BY <1>1, <1>4, <2>1, <3>2 DEF Stores
    <3> QED BY <3>1, <3>2
  <2>3. bt'.pc = "adv" =>
          bt'.len = bt.len /\ bt.len \in 1 .. Size(rp, wp) /\ tpc' \notin {"exit", "clear"}
    BY <1>4 DEF Stores, KeepsPacket, Fits
  <2> QED BY <1>1, <2>2, <2>3 DEF Fits
<1>5. CASE Resets
  <2>1. rp' = 0 /\ wp' = 0 /\ bt'.pc # "adv"
    BY <1>5 DEF Resets
  <2>2. Size(0, 0) = 0
    BY DEF Size, at_buffer_data_size
  <2> QED BY <1>1, <2>1, <2>2 DEF Fits
<1>6. CASE SendPacket
  <2>1. /\ PacketLen(rp, wp, MTU) \in 1 .. MTU
        /\ PacketLen(rp, wp, MTU) <= Size(rp, wp)
    BY <1>1, <1>6, PacketLenType DEF SendPacket, Size
  <2>2. UNCHANGED <<rp, wp, tpc>> /\ tpc = "idle" /\ bt'.len = PacketLen(rp, wp, MTU)
    BY <1>6 DEF SendPacket, BtAt, uart, ring, timers, TypeOK, BtType, BtStates
  <2>3. bt'.len \in 1 .. Size(rp, wp)
    BY <1>1, <2>1, <2>2, StreamAssumption
  <2> QED BY <1>1, <2>2, <2>3 DEF Fits
<1>7. CASE PopSent
  <2>1. bt'.pc = "send" /\ rp' = Advance(rp, bt.len) /\ wp' = wp /\ bt.pc = "adv"
    BY <1>7 DEF PopSent, BtAt, TypeOK, BtType, BtStates
  <2>2. bt.len \in 0 .. Size(rp, wp)
    BY <1>1, <2>1 DEF Fits
  <2>3. Size(rp', wp') = Size(rp, wp) - bt.len
    BY <1>1, <2>1, <2>2, SizeMoves
  <2> QED BY <1>1, <2>1, <2>2, <2>3 DEF Fits
<1> QED BY <1>2, <1>3, <1>4, <1>5, <1>6, <1>7, StepKind DEF Kind

-----------------------------------------------------------------------------
(* Refinement *)

(* The bytes of the ring that have been given to the stack already. *)
Given == IF bt.pc = "adv" THEN bt.len ELSE 0

LEMMA WaitingIs ==
  ASSUME TypeOK, Fits
  PROVE  /\ Given \in 0 .. Size(rp, wp) /\ Waiting = Rest(buf, rp, wp, Given)
         /\ Waiting \in Seq(Cell) /\ Len(Waiting) = Size(rp, wp) - Given
<1>1. buf \in [Index -> Cell] /\ rp \in Index /\ wp \in Index
  BY DEF TypeOK, UartType
<1>2. Size(rp, wp) \in Nat
  BY <1>1, SizeMoves, RingAssumption
<1>3. Given \in 0 .. Size(rp, wp)
  BY <1>2 DEF Given, Fits
<1>4. Waiting = Rest(buf, rp, wp, Given)
  BY <1>1, <1>3, <1>2, ContentsRest DEF Waiting, Given
<1> QED BY <1>1, <1>3, <1>4, RestSeq

LEMMA WaitingNext ==
  ASSUME TypeOK', Fits'
  PROVE  Given' \in 0 .. Size(rp', wp') /\ Waiting' = Rest(buf', rp', wp', Given')
<1>1. buf' \in [Index -> Cell] /\ rp' \in Index /\ wp' \in Index
  BY DEF TypeOK, UartType
<1>2. Size(rp', wp') \in Nat
  BY <1>1, SizeMoves, RingAssumption
<1>3. Given' \in 0 .. Size(rp', wp')
  BY <1>2 DEF Given, Fits
<1> QED BY <1>1, <1>3, <1>2, ContentsRest DEF Waiting, Given

(* The byte appended to what waited is the one the channel takes. *)
LEMMA Takes ==
  ASSUME NEW q \in Seq(Cell), NEW x \in Cell, Waiting' = Append(q, x),
         x.id \in {0, rx + 1}, rx' = IF x.id = 0 THEN rx ELSE rx + 1, air' = air
  PROVE  Channel!Taken(q)
<1>1. Append(q, x) # <<>> /\ Len(Append(q, x)) = Len(q) + 1 /\ Append(q, x)[Len(q) + 1] = x
  BY AppendProperties
<1>2. Channel!Last(Append(q, x)) = x
  BY <1>1 DEF Channel!Last
<1> QED BY <1>1, <1>2 DEF Channel!Taken

LEMMA StoreStep ==
  ASSUME TypeOK, TypeOK', Fits, Fits', NEW x \in Cell, Stores(x)
  PROVE  Channel!Accept \/ Channel!Overflow
<1> DEFINE n == Size(rp, wp)
<1>1. /\ buf \in [Index -> Cell] /\ rp \in Index /\ wp \in Index
      /\ AT_RECV_MAX_LEN \in Nat /\ n \in 0 .. AT_RECV_MAX_LEN - 2 /\ MTU \in Nat
      /\ MTU < AT_RECV_MAX_LEN - 2
  BY SizeMoves, RingAssumption, StreamAssumption DEF TypeOK, UartType, Fits
<1>2. /\ Given \in 0 .. n /\ Waiting = Rest(buf, rp, wp, Given)
      /\ Waiting \in Seq(Cell) /\ Len(Waiting) = n - Given
  BY WaitingIs
<1>3. Given' = Given /\ Given <= MTU
  <2>1. bt.len \in 0 .. MTU
    BY DEF TypeOK, BtType, BtStates
  <2> QED BY <1>1, <2>1 DEF Given, Stores, KeepsPacket
<1>4. Waiting' = Rest(buf', rp', wp', Given)
  BY <1>3, WaitingNext
<1>5. /\ buf' = Put(buf, wp, x) /\ wp' = Advance(wp, 1)
      /\ buf' \in [Index -> Cell] /\ wp' \in Index
      /\ Rest(buf', rp, wp', Given) = Append(Rest(buf, rp, wp, Given), x)
  <2>1. buf' = Put(buf, wp, x) /\ wp' = Advance(wp, 1)
    BY DEF Stores, Put
  <2>2. Size(rp, wp) <= AT_RECV_MAX_LEN - 2 /\ Given \in 0 .. Size(rp, wp)
    BY <1>1, <1>2
  <2>3. /\ Put(buf, wp, x) \in [Index -> Cell] /\ Advance(wp, 1) \in Index
        /\ Rest(Put(buf, wp, x), rp, Advance(wp, 1), Given) = Append(Rest(buf, rp, wp, Given), x)
    BY <1>1, <2>2, RestStore
  <2> QED BY <2>1, <2>3
<1>6. /\ x.id \in {0, rx + 1}
      /\ rx' = IF x.id = 0 THEN rx ELSE rx + 1
      /\ air' = air
  BY DEF Stores
<1>7. CASE n # AT_RECV_MAX_LEN - 2
  <2>1. rp' = rp
    BY <1>7 DEF Stores
  <2>2. Waiting' = Append(Waiting, x)
    BY <1>2, <1>4, <1>5, <2>1
  <2>3. Channel!Taken(Waiting)
    BY <1>2, <1>6, <2>2, Takes
  <2> QED BY <2>3 DEF Channel!Accept
<1>8. CASE n = AT_RECV_MAX_LEN - 2
  <2>1. rp' = Advance(rp, 1)
    BY <1>8 DEF Stores
  <2>2. Len(Waiting) >= AT_RECV_MAX_LEN - 2 - MTU /\ Len(Waiting) >= 1 /\ Given < n
    BY <1>1, <1>2, <1>3, <1>8
  <2>3. Waiting # <<>> /\ Tail(Waiting) \in Seq(Cell)
    <3>1. Waiting # <<>>
      BY <1>2, <2>2, EmptySeq
    <3> QED BY <1>2, <3>1, HeadTailProperties
  <2>4. Rest(buf', Advance(rp, 1), wp', Given) = Append(Tail(Rest(buf, rp, wp, Given)), x)
    <3>1. Size(rp, wp) <= AT_RECV_MAX_LEN - 2 /\ Given \in 0 .. Size(rp, wp)
          /\ Given < Size(rp, wp)
      BY <1>1, <1>2, <2>2
    <3> QED BY <1>1, <1>5, <3>1, RestPush
  <2>5. Waiting' = Append(Tail(Waiting), x)
    BY <1>2, <1>4, <1>5, <2>1, <2>4
  <2>6. Channel!Taken(Tail(Waiting))
    BY <1>6, <2>3, <2>5, Takes
  <2>7. Len(Waiting) >= AT_RECV_MAX_LEN - 2 - MTU /\ Waiting # <<>>
    BY <2>2, <2>3
  <2> QED BY <2>6, <2>7 DEF Channel!Overflow
<1> QED BY <1>7, <1>8

(* Every step of the data path is a step of the channel or leaves it alone. *)
LEMMA StepChannel ==
  TypeOK /\ TypeOK' /\ Fits /\ Fits' /\ [Next]_vars /\ [~LineClash]_vars
    => [Channel!Next]_(Channel!channel)
<1> SUFFICES ASSUME TypeOK, TypeOK', Fits, Fits', [Next]_vars, [~LineClash]_vars
             PROVE  [Channel!Next]_(Channel!channel)
  OBVIOUS
<1>a. /\ buf \in [Index -> Cell] /\ rp \in Index /\ wp \in Index
      /\ Size(rp, wp) \in Nat
  BY SizeMoves, RingAssumption DEF TypeOK, UartType
<1>b. /\ Given \in 0 .. Size(rp, wp) /\ Waiting = Rest(buf, rp, wp, Given)
      /\ Waiting \in Seq(Cell) /\ Len(Waiting) = Size(rp, wp) - Given
  BY WaitingIs
<1>c. Waiting' = Rest(buf', rp', wp', Given')
  BY WaitingNext
<1>1. CASE UNCHANGED vars
  <2>1. UNCHANGED <<buf, rp, wp, bt, rx, air>>
    BY <1>1 DEF vars, uart, ring, world, radio, marks
  <2>2. Waiting' = Waiting
    BY <2>1 DEF Waiting
  <2> QED BY <2>1, <2>2 DEF Channel!channel
<1>2. CASE Quiet
  <2>1. Given' = Given
    BY <1>2 DEF Quiet, KeepsPacket, Given
  <2>2. Waiting' = Waiting /\ UNCHANGED <<rx, air>>
    BY <1>2, <1>b, <1>c, <2>1 DEF Quiet
  <2> QED BY <2>2 DEF Channel!channel
<1>3. ASSUME NEW x \in Cell, Stores(x) PROVE Channel!Next
  BY <1>3, StoreStep DEF Channel!Next
<1>4. CASE Resets
  <2>1. rp' = 0 /\ wp' = 0 /\ UNCHANGED <<rx, air>> /\ Given' = 0
    BY <1>4 DEF Resets, Given
  <2>2. Size(0, 0) - 0 = 0
    BY DEF Size, at_buffer_data_size
  <2>3. 1 .. Size(0, 0) - 0 = {}
    BY <2>2
  <2>4. Waiting' = <<>>
    <3>1. Waiting' = [i \in {} |-> buf'[Advance(0, 0 + i - 1)]]
      BY <1>c, <2>1, <2>3 DEF Rest
    <3> QED BY <3>1
  <2> QED BY <2>1, <2>4 DEF Channel!Next, Channel!Discard
<1>5. CASE SendPacket
  <2> DEFINE n == PacketLen(rp, wp, MTU)
  <2>1. /\ bt.pc = "send" /\ ~at_buffer_empty(rp, wp) /\ UNCHANGED <<buf, rp, wp, rx>>
        /\ air' = [k \in 1 .. n |-> buf[rp + k - 1]] /\ bt'.pc = "adv" /\ bt'.len = n
    BY <1>5 DEF SendPacket, BtAt, uart, ring, marks, TypeOK, BtType, BtStates
  <2>2. n \in 1 .. Size(rp, wp)
    <3>1. n \in 1 .. MTU /\ n <= Size(rp, wp)
      BY <1>a, <2>1, PacketLenType DEF Size
    <3> QED BY <1>a, <3>1, StreamAssumption
  <2>3. air' = SubSeq(Rest(buf, rp, wp, 0), 1, n)
    BY <1>a, <2>1, PacketIsHead
  <2> HIDE DEF n
  <2>4. Given = 0 /\ Given' = n
    BY <2>1 DEF Given
  <2>5. Len(Waiting) = Size(rp, wp) /\ n \in 1 .. Len(Waiting)
    BY <1>a, <1>b, <2>2, <2>4
  <2>6. Waiting' = SubSeq(Waiting, n + 1, Len(Waiting))
    <3>1. n \in 0 .. Size(rp, wp) /\ 0 \in 0 .. Size(rp, wp)
      BY <1>a, <2>2
    <3>2. Contents(buf, rp, wp) = Waiting
      BY <1>a, <1>b, <2>4, <3>1, ContentsRest
    <3>3. SubSeq(Waiting, n + 1, Len(Waiting)) = Rest(buf, rp, wp, n)
      BY <1>a, <3>1, <3>2, ContentsRest
    <3> QED BY <1>c, <2>1, <2>4, <3>3
  <2>7. Channel!Send(n)
    BY <1>b, <2>1, <2>3, <2>4, <2>5, <2>6 DEF Channel!Send
  <2> QED BY <2>5, <2>7 DEF Channel!Next
<1>6. CASE PopSent
  <2>1. /\ bt.pc = "adv" /\ bt'.pc = "send" /\ rp' = Advance(rp, bt.len)
        /\ UNCHANGED <<buf, wp, rx, air>>
    BY <1>6 DEF PopSent, BtAt, world, marks, radio, TypeOK, BtType, BtStates
  <2>2. Given = bt.len /\ Given' = 0 /\ bt.len \in 0 .. Size(rp, wp)
    BY <1>b, <2>1 DEF Given
  <2>3. 0 \in 0 .. Size(rp, wp) - bt.len /\ bt.len + 0 = bt.len
    BY <1>a, <2>2
  <2>4. Rest(buf, Advance(rp, bt.len), wp, 0) = Rest(buf, rp, wp, bt.len + 0)
    BY <1>a, <2>2, <2>3, RestDrop
  <2>5. Waiting' = Waiting
    BY <1>b, <1>c, <2>1, <2>2, <2>3, <2>4
  <2> QED BY <2>1, <2>5 DEF Channel!channel
<1> QED BY <1>1, <1>2, <1>3, <1>4, <1>5, <1>6, StepKind DEF Kind

LEMMA InitChannel == Init => Fits /\ Channel!Init
<1> SUFFICES ASSUME Init PROVE Fits /\ Channel!Init
  OBVIOUS
<1>1. rp = 0 /\ wp = 0 /\ rx = 0 /\ air = <<>> /\ bt.pc = "idle"
  BY AtFields DEF Init, Idle
<1>2. Size(0, 0) = 0 /\ 1 .. Size(0, 0) = {}
  BY DEF Size, at_buffer_data_size
<1>3. Fits
  BY <1>1, <1>2, RingAssumption DEF Fits
<1>4. Waiting = <<>>
  <2>1. Waiting = [k \in {} |-> buf[Advance(0, k - 1)]]
    BY <1>1, <1>2 DEF Waiting, Contents, Size
  <2> QED BY <2>1
<1> QED BY <1>1, <1>3, <1>4 DEF Channel!Init

(***************************************************************************)
(* The ring, with its indices that nobody protects, its overflow and the   *)
(* three contexts that move it, is an ordered channel from the host to the *)
(* air: whatever is typed and whenever, a byte is sent once, in its place, *)
(* or given up with all that waits, or as the oldest of a full ring.  One  *)
(* step is to be excluded, and excluding it is enough: the end of an AT    *)
(* line between a packet and its pop.                                      *)
(***************************************************************************)
THEOREM RingIsChannel == Spec /\ [][~LineClash]_vars => ImplementsChannel
<1>1. Spec => []TypeOK
  BY TypeCorrect
<1>2. Init => Fits /\ Channel!Init
  BY InitChannel
<1>3. TypeOK /\ TypeOK' /\ Fits /\ [Next]_vars /\ [~LineClash]_vars => Fits'
  BY StepFits
<1>4. TypeOK /\ TypeOK' /\ Fits /\ Fits' /\ [Next]_vars /\ [~LineClash]_vars
        => [Channel!Next]_(Channel!channel)
  BY StepChannel
<1> QED BY <1>1, <1>2, <1>3, <1>4, PTL DEF Spec, ImplementsChannel, Channel!Spec
=============================================================================
