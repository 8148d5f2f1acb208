--------------------------- MODULE IngBridge_proofs ---------------------------
(* What IngBridge promises of the bytes between the UART and the link,      *)
(* proved for every size of the buffers, the fifo and the packets.          *)
EXTENDS IngBridge, FiniteSets, TLAPS, FiniteSetTheorems, FunctionTheorems, SequenceTheorems,
        WellFoundedInduction

-----------------------------------------------------------------------------
(* Induction: over the naturals, and along the loop of the interrupt *)

(* Every nonempty set of naturals has a least element: the form in which  *)
(* these proofs use induction.                                            *)
LEMMA LeastNat ==
  ASSUME NEW T \in SUBSET Nat, T # {}
  PROVE  \E m \in T : \A k \in T : m <= k
<1> DEFINE Below(n) == 1 .. n
           U == {Below(n) : n \in T}
<1>1. ASSUME NEW n \in Nat PROVE Below(n) \in FiniteSubsetsOf(Nat)
  <2>1. IsFiniteSet(1 .. n)
    BY FS_Interval
  <2>2. 1 .. n \in SUBSET Nat
    OBVIOUS
  <2> QED BY <2>1, <2>2 DEF FiniteSubsetsOf
<1>2. U \subseteq FiniteSubsetsOf(Nat) /\ U # {}
  BY <1>1
<1>3. \E x \in U : \A y \in U : ~(<<y, x>> \in StrictSubsetOrdering(Nat))
  <2> HIDE DEF U
  <2> QED BY <1>2, FS_StrictSubsetOrderingWellFounded, WFMin, Zenon
<1>4. PICK m \in T : \A k \in T : ~(<<Below(k), Below(m)>> \in StrictSubsetOrdering(Nat))
  BY <1>3
<1>5. ASSUME NEW k \in T, k < m PROVE FALSE
  <2>1. m \in 1 .. m /\ m \notin 1 .. k
    BY <1>5
  <2>2. 1 .. k \subseteq 1 .. m /\ 1 .. k # 1 .. m
    <3>1. 1 .. k \subseteq 1 .. m
      BY <1>5
    <3> QED BY <2>1, <3>1, Zenon
  <2>3. 1 .. k \in SUBSET Nat /\ 1 .. m \in SUBSET Nat
    OBVIOUS
  <2>4. <<1 .. k, 1 .. m>> \in StrictSubsetOrdering(Nat)
    BY <2>2, <2>3 DEF StrictSubsetOrdering
  <2> QED BY <1>4, <2>4
<1> QED BY <1>4, <1>5

(* A nonempty set of naturals up to n has a greatest element. *)
LEMMA Greatest ==
  ASSUME NEW n \in Nat, NEW S \in SUBSET (1 .. n), S # {}
  PROVE  Max(S) \in S /\ \A k \in S : Max(S) >= k
<1> DEFINE T == {n - k : k \in S}
<1>1. T \in SUBSET Nat /\ T # {}
  <2>1. ASSUME NEW k \in S PROVE n - k \in Nat
    <3>1. k \in 1 .. n
      OBVIOUS
    <3> QED BY <3>1
  <2> QED BY <2>1
<1>2. PICK m \in T : \A k \in T : m <= k
  <2> HIDE DEF T
  <2> QED BY <1>1, LeastNat
<1>3. PICK g \in S : m = n - g
  OBVIOUS
<1>4. \A k \in S : n - k \in T
  OBVIOUS
<1>5. ASSUME NEW k \in S PROVE g >= k
  <2> HIDE DEF T
  <2> QED BY <1>2, <1>3, <1>4
<1>6. \E x \in S : \A y \in S : x >= y
  BY <1>5
<1> QED BY <1>6 DEF Max

(* What the interrupt does with the bytes of the fifo, one after the other. *)
Steps(R, buf, s) ==
  /\ R[0] = buf
  /\ \A k \in 1 .. Len(s) : R[k] = RxByte(R[k - 1], s[k])

LEMMA FoldSteps ==
  ASSUME NEW buf, NEW s \in Seq(Int)
  PROVE  \E R : Steps(R, buf, s) /\ FoldLeft(RxByte, buf, s) = R[Len(s)]
<1> DEFINE n == Len(s)
           D == 1 .. n
           Body(g, S) == IF S = {} THEN buf ELSE RxByte(g[S \ {Max(S)}], s[Max(S)])
           Good(g, m) == /\ g = [S \in SUBSET D |-> g[S]]
                         /\ \A S \in SUBSET D : Cardinality(S) <= m => g[S] = Body(g, S)
           iter == CHOOSE g : g = [S \in SUBSET D |-> Body(g, S)]
<1>1. n \in Nat /\ D = DOMAIN s
  OBVIOUS
<1> HIDE DEF n
<1>2. \A S \in SUBSET D : IsFiniteSet(S) /\ Cardinality(S) \in Nat /\ Cardinality(S) <= n
  <2>1. IsFiniteSet(D) /\ Cardinality(D) = n
    BY <1>1, FS_Interval
  <2> QED BY <2>1, FS_Subset, FS_CardinalityType
<1>3. \A S \in SUBSET D : S # {} => /\ Max(S) \in S
                                    /\ S \ {Max(S)} \in SUBSET D
                                    /\ Cardinality(S \ {Max(S)}) = Cardinality(S) - 1
  BY <1>1, <1>2, Greatest, FS_RemoveElement
<1>4. \A m \in Nat : \E g : Good(g, m)
  <2> DEFINE T == {m \in Nat : ~ \E g : Good(g, m)}
  <2>1. SUFFICES ASSUME T # {} PROVE FALSE
    OBVIOUS
  <2>2. PICK m \in T : \A k \in T : m <= k
    <3> HIDE DEF T
    <3>1. T \in SUBSET Nat
      BY DEF T
    <3> QED BY <2>1, <3>1, LeastNat
  <2>3. CASE m = 0
    <3> DEFINE g == [S \in SUBSET D |-> buf]
    <3>1. \A S \in SUBSET D : Cardinality(S) <= 0 => S = {}
      BY <1>2, FS_EmptySet
    <3>2. Good(g, 0)
      BY <3>1
    <3> HIDE DEF g, Good
    <3> QED BY <2>2, <2>3, <3>2
  <2>4. CASE m # 0
    <3>0. m \in Nat
      OBVIOUS
    <3>1. m - 1 \in Nat /\ m - 1 \notin T
      <4> HIDE DEF T
      <4> QED BY <2>2, <2>4, <3>0
    <3>2. PICK g : Good(g, m - 1)
      BY <3>1
    <3> DEFINE h == [S \in SUBSET D |-> Body(g, S)]
    <3>3. ASSUME NEW S \in SUBSET D, Cardinality(S) <= m PROVE h[S] = Body(h, S)
      <4>1. CASE S = {}
        BY <4>1
      <4>2. CASE S # {}
        <5> DEFINE U == S \ {Max(S)}
        <5>1. U \in SUBSET D /\ Cardinality(U) <= m - 1
          <6>1. Cardinality(S) \in Nat /\ Cardinality(S) <= m
            BY <1>2, <3>3
          <6>2. U \in SUBSET D /\ Cardinality(U) = Cardinality(S) - 1
            BY <1>3, <4>2
          <6> HIDE DEF U
          <6> QED BY <3>0, <6>1, <6>2
        <5>2. g[U] = Body(g, U)
          BY <3>2, <5>1
        <5>3. h[U] = Body(g, U)
          BY <5>1
        <5>4. h[S] = Body(g, S)
          OBVIOUS
        <5> QED BY <4>2, <5>2, <5>3, <5>4
      <4> QED BY <4>1, <4>2
    <3>4. h = [S \in SUBSET D |-> h[S]]
      OBVIOUS
    <3>5. Good(h, m)
      BY <3>3, <3>4
    <3> HIDE DEF h, Good
    <3> QED BY <2>2, <3>5
  <2> QED BY <2>3, <2>4
<1>5. \E g : g = [S \in SUBSET D |-> Body(g, S)]
  <2>1. PICK g : Good(g, n)
    BY <1>1, <1>4
  <2>2. \A S \in SUBSET D : g[S] = Body(g, S)
    BY <1>2, <2>1
  <2>3. g = [S \in SUBSET D |-> Body(g, S)]
    <3>1. g = [S \in SUBSET D |-> g[S]]
      BY <2>1
    <3> QED BY <2>2, <3>1
  <2> QED BY <2>3
<1>6. iter = [S \in SUBSET D |-> Body(iter, S)]
  BY <1>5
<1> DEFINE R == [k \in 0 .. n |-> iter[1 .. k]]
<1>7. R[0] = buf
  <2>1. 1 .. 0 = {} /\ {} \in SUBSET D /\ 0 \in 0 .. n
    BY <1>1
  <2>2. iter[{}] = buf
    <3> HIDE DEF iter
    <3> QED BY <1>6, <2>1
  <2> HIDE DEF iter
  <2> QED BY <2>1, <2>2
<1>8. ASSUME NEW k \in 1 .. n PROVE R[k] = RxByte(R[k - 1], s[k])
  <2>0. k \in Nat /\ 1 <= k /\ k <= n
    BY <1>1
  <2>1. k \in 0 .. n /\ k - 1 \in 0 .. n /\ 1 .. k \in SUBSET D /\ k \in 1 .. k
    BY <1>1, <2>0
  <2>2. Max(1 .. k) = k
    <3>1. Max(1 .. k) \in 1 .. k /\ Max(1 .. k) >= k
      BY <2>0, <2>1, Greatest
    <3> QED BY <2>0, <3>1
  <2>3. (1 .. k) \ {k} = 1 .. (k - 1)
    BY <1>1
  <2>4. iter[1 .. k] = Body(iter, 1 .. k)
    <3> HIDE DEF iter
    <3> QED BY <1>6, <2>1
  <2> HIDE DEF iter
  <2> QED BY <2>1, <2>2, <2>3, <2>4
<1>9. FoldLeft(RxByte, buf, s) = iter[D]
  BY <1>1 DEF FoldLeft, MapThenFoldSet
<1>10. R[n] = iter[D]
  <2> HIDE DEF iter
  <2> QED BY <1>1
<1>11. Steps(R, buf, s)
  <2> HIDE DEF R
  <2> QED BY <1>7, <1>8 DEF Steps, n
<1> HIDE DEF R, iter
<1> QED BY <1>9, <1>10, <1>11 DEF n

-----------------------------------------------------------------------------
(* Types *)

ComStates == SUBSET {PARSE_CMD, SEND_BY_BLE}
ComCells == [0 .. COM_IN -> Int]
ComBuf == [state : ComStates, top : 0 .. COM_IN - 1, topCount : Nat,
           bottom : 0 .. COM_IN, bottomCount : Nat, in : ComCells]
BleBuf == [state : SUBSET {SEND_BY_COM}, top : 0 .. BLE_IN - 1, topCount : Nat,
           bottom : 0 .. BLE_IN - 1, bottomCount : Nat, in : [0 .. BLE_IN -> Int]]

TmrPc == {"idle", "read", "store", "index", "count"}
BPc == {"wait", "parse", "end", "handle", "reset1", "reset2", "reset3", "reset4", "clear1",
        "clear2", "ble", "sent1", "sent2", "com", "out"}

ComTypes ==
  /\ com \in ComBuf
  /\ tmr.pc # "count" => com.bottom < COM_IN
  /\ fifo \in Seq(Int) /\ Len(fifo) <= RxFifo /\ pend \in Seq(Int)
TmrTypes ==
  /\ tmr \in [pc : TmrPc, byte : Int, index : 0 .. COM_IN - 1, count : Nat, have : BOOLEAN]
  /\ rx \in [canBeCmd : BOOLEAN, last : {"isr", "timer"}, ticks : 0 .. TMR_CLK_1S_COUNT]
BTypes == b \in [pc : BPc, index : 0 .. COM_IN - 1, state : ComStates]
BleTypes == ble \in BleBuf /\ peer \in Nat /\ uart \in Seq(Int)
FlagTypes ==
  /\ {sem, sending, link, credit, request, faithful, spoilt, overrun, missed} \subseteq BOOLEAN
  /\ bt \in {"idle", "sending", "wild"} /\ power \in {"saving", "leaving", "on"}
  /\ {typed, commands, executed} \subseteq Nat

Types == ComTypes /\ TmrTypes /\ BTypes /\ BleTypes /\ FlagTypes

LEMMA Sizes ==
  /\ COM_IN \in Nat /\ COM_IN >= 1 /\ BLE_IN \in Nat /\ BLE_IN >= 1
  /\ TMR_CLK_1S_COUNT \in Nat /\ TMR_CLK_1S_COUNT >= 1 /\ RxFifo \in Nat
  /\ CountReset \in Nat /\ COM_IN < CountReset /\ PacketLens \subseteq 1 .. BLE_IN
BY BridgeAssumption

LEMMA ComFields ==
  ASSUME NEW buf \in ComBuf
  PROVE  /\ buf.state \in ComStates /\ buf.top \in 0 .. COM_IN - 1 /\ buf.topCount \in Nat
         /\ buf.bottom \in 0 .. COM_IN /\ buf.bottomCount \in Nat /\ buf.in \in ComCells
BY DEF ComBuf

LEMMA ComSets ==
  ASSUME NEW buf \in ComBuf
  PROVE  /\ \A x \in ComStates : LET r == [buf EXCEPT !.state = x] IN
              /\ r \in ComBuf /\ r.state = x /\ r.top = buf.top /\ r.topCount = buf.topCount
              /\ r.bottom = buf.bottom /\ r.bottomCount = buf.bottomCount /\ r.in = buf.in
         /\ \A x \in 0 .. COM_IN : LET r == [buf EXCEPT !.bottom = x] IN
              /\ r \in ComBuf /\ r.state = buf.state /\ r.top = buf.top /\ r.topCount = buf.topCount
              /\ r.bottom = x /\ r.bottomCount = buf.bottomCount /\ r.in = buf.in
         /\ \A x \in Nat : LET r == [buf EXCEPT !.bottomCount = x] IN
              /\ r \in ComBuf /\ r.state = buf.state /\ r.top = buf.top /\ r.topCount = buf.topCount
              /\ r.bottom = buf.bottom /\ r.bottomCount = x /\ r.in = buf.in
         /\ \A x \in 0 .. COM_IN - 1 : LET r == [buf EXCEPT !.top = x] IN
              /\ r \in ComBuf /\ r.state = buf.state /\ r.top = x /\ r.topCount = buf.topCount
              /\ r.bottom = buf.bottom /\ r.bottomCount = buf.bottomCount /\ r.in = buf.in
         /\ \A x \in Nat : LET r == [buf EXCEPT !.topCount = x] IN
              /\ r \in ComBuf /\ r.state = buf.state /\ r.top = buf.top /\ r.topCount = x
              /\ r.bottom = buf.bottom /\ r.bottomCount = buf.bottomCount /\ r.in = buf.in
         /\ \A i \in 0 .. COM_IN : \A x \in Int : LET r == [buf EXCEPT !.in[i] = x] IN
              /\ r \in ComBuf /\ r.state = buf.state /\ r.top = buf.top /\ r.topCount = buf.topCount
              /\ r.bottom = buf.bottom /\ r.bottomCount = buf.bottomCount
              /\ r.in = [buf.in EXCEPT ![i] = x]
BY DEF ComBuf, ComCells

LEMMA WrappedIn ==
  ASSUME NEW i \in Nat, NEW n \in Nat, i < 2 * n
  PROVE  /\ Wrapped(i, n) \in 0 .. n - 1
         /\ i < n => Wrapped(i, n) = i
         /\ i >= n => Wrapped(i, n) = i - n
BY DEF Wrapped

(* The counts restart only if they are large and equal. *)
LEMMA RestartedDoes ==
  ASSUME NEW buf \in ComBuf
  PROVE  LET r == Restarted(buf)
         IN  /\ r \in ComBuf /\ r.state = buf.state /\ r.top = buf.top
             /\ r.bottom = buf.bottom /\ r.in = buf.in
             /\ \/ r.topCount = buf.topCount /\ r.bottomCount = buf.bottomCount
                \/ /\ buf.bottomCount >= CountReset /\ buf.bottomCount = buf.topCount
                   /\ r.topCount = 0 /\ r.bottomCount = 0
<1>1. CASE ~(buf.bottomCount >= CountReset /\ Count(buf) = 0)
  BY <1>1 DEF Restarted
<1>2. CASE buf.bottomCount >= CountReset /\ Count(buf) = 0
  <2> DEFINE r == [buf EXCEPT !.bottomCount = 0, !.topCount = 0]
  <2>1. Restarted(buf) = r
    BY <1>2 DEF Restarted
  <2>2. /\ r \in ComBuf /\ r.state = buf.state /\ r.top = buf.top
        /\ r.bottom = buf.bottom /\ r.in = buf.in /\ r.topCount = 0 /\ r.bottomCount = 0
    BY DEF ComBuf
  <2>3. buf.bottomCount = buf.topCount
    BY <1>2, ComFields DEF Count
  <2> HIDE DEF r
  <2> QED BY <1>2, <2>1, <2>2, <2>3
<1> QED BY <1>1, <1>2

(* The buffer with a byte more. *)
Grown(buf, c) ==
  [buf EXCEPT !.in[buf.bottom] = c, !.bottom = Wrapped(buf.bottom + 1, COM_IN), !.bottomCount = @ + 1]

LEMMA GrownDoes ==
  ASSUME NEW buf \in ComBuf, NEW c \in Int
  PROVE  /\ Grown(buf, c) \in ComBuf
         /\ Grown(buf, c).state = buf.state
         /\ Grown(buf, c).top = buf.top
         /\ Grown(buf, c).topCount = buf.topCount
         /\ Grown(buf, c).in = [buf.in EXCEPT ![buf.bottom] = c]
         /\ Grown(buf, c).bottom = Wrapped(buf.bottom + 1, COM_IN)
         /\ Grown(buf, c).bottomCount = buf.bottomCount + 1
<1> DEFINE cells == [buf.in EXCEPT ![buf.bottom] = c]
           w == Wrapped(buf.bottom + 1, COM_IN)
           k == buf.bottomCount + 1
<1>1. cells \in ComCells
  BY ComFields DEF ComCells
<1>2. w \in 0 .. COM_IN /\ k \in Nat
  BY Sizes, ComFields DEF Wrapped
<1>3. Grown(buf, c) = [buf EXCEPT !.in = cells, !.bottom = w, !.bottomCount = k]
  BY DEF Grown, ComBuf
<1> HIDE DEF cells, w, k
<1>4. /\ Grown(buf, c) \in ComBuf
      /\ Grown(buf, c).state = buf.state
      /\ Grown(buf, c).top = buf.top
      /\ Grown(buf, c).topCount = buf.topCount
      /\ Grown(buf, c).in = cells
      /\ Grown(buf, c).bottom = w
      /\ Grown(buf, c).bottomCount = k
  BY <1>1, <1>2, <1>3 DEF ComBuf
<1> QED BY <1>4 DEF cells, w, k

(* One byte comes. *)
LEMMA RxByteDoes ==
  ASSUME NEW buf \in ComBuf, NEW c \in Int
  PROVE  LET r == RxByte(buf, c)
         IN  /\ r \in ComBuf /\ r.state = buf.state /\ r.top = buf.top
             /\ r.in = [buf.in EXCEPT ![buf.bottom] = c]
             /\ r.bottom = Wrapped(buf.bottom + 1, COM_IN)
             /\ \/ r.topCount = buf.topCount /\ r.bottomCount = buf.bottomCount + 1
                \/ /\ buf.bottomCount >= CountReset /\ buf.bottomCount = buf.topCount
                   /\ r.topCount = 0 /\ r.bottomCount = 1
<1> DEFINE q == Restarted(buf)
<1>1. RxByte(buf, c) = Grown(q, c)
  BY DEF RxByte, Grown
<1>2. /\ q \in ComBuf /\ q.state = buf.state /\ q.top = buf.top
      /\ q.bottom = buf.bottom /\ q.in = buf.in
      /\ \/ q.topCount = buf.topCount /\ q.bottomCount = buf.bottomCount
         \/ /\ buf.bottomCount >= CountReset /\ buf.bottomCount = buf.topCount
            /\ q.topCount = 0 /\ q.bottomCount = 0
  BY RestartedDoes
<1> HIDE DEF q
<1> QED BY <1>1, <1>2, GrownDoes

(* The interrupt keeps the buffer a buffer, and its place in the text. *)
LEMMA FoldTypes ==
  ASSUME NEW buf \in ComBuf, NEW s \in Seq(Int)
  PROVE  LET r == FoldLeft(RxByte, buf, s)
         IN  /\ r \in ComBuf /\ r.state = buf.state /\ r.top = buf.top
             /\ buf.bottom < COM_IN => r.bottom < COM_IN
<1> DEFINE Kept(r) == /\ r \in ComBuf /\ r.state = buf.state /\ r.top = buf.top
                      /\ buf.bottom < COM_IN => r.bottom < COM_IN
<1>1. PICK R : Steps(R, buf, s) /\ FoldLeft(RxByte, buf, s) = R[Len(s)]
  BY FoldSteps
<1>2. ASSUME NEW r \in ComBuf, NEW c \in Int, Kept(r) PROVE Kept(RxByte(r, c))
  <2>1. /\ RxByte(r, c) \in ComBuf /\ RxByte(r, c).state = r.state /\ RxByte(r, c).top = r.top
        /\ RxByte(r, c).bottom = Wrapped(r.bottom + 1, COM_IN)
    BY RxByteDoes
  <2>2. r.bottom < COM_IN => Wrapped(r.bottom + 1, COM_IN) < COM_IN
    BY Sizes, ComFields DEF Wrapped
  <2> QED BY <1>2, <2>1, <2>2
<1> HIDE DEF Kept
<1> DEFINE T == {k \in 0 .. Len(s) : ~Kept(R[k])}
<1>3. T = {}
  <2>1. SUFFICES ASSUME T # {} PROVE FALSE
    OBVIOUS
  <2>2. T \in SUBSET Nat
    OBVIOUS
  <2>3. PICK k \in T : \A i \in T : k <= i
    <3> HIDE DEF T
    <3> QED BY <2>1, <2>2, LeastNat
  <2>4. k # 0
    <3>1. Kept(R[0])
      BY <1>1 DEF Steps, Kept
    <3> QED BY <3>1
  <2>5. k \in 1 .. Len(s) /\ k - 1 \in 0 .. Len(s)
    BY <2>4
  <2>6. Kept(R[k - 1])
    <3>1. k - 1 \notin T
      <4> HIDE DEF T
      <4> QED BY <2>2, <2>3, <2>5
    <3> QED BY <2>5, <3>1
  <2>7. R[k] = RxByte(R[k - 1], s[k]) /\ s[k] \in Int
    BY <1>1, <2>5 DEF Steps
  <2>8. Kept(R[k])
    BY <1>2, <2>6, <2>7 DEF Kept
  <2> QED BY <2>8
<1>4. Kept(R[Len(s)])
  BY <1>3
<1> QED BY <1>1, <1>4 DEF Kept

-----------------------------------------------------------------------------
(* The text in com_buf.  Between two of its resets ("reset3", "reset4") the  *)
(* buffer is read as the resets will leave it: from cell 0, counted from 0.  *)

Resetting(pc) == pc \in {"reset3", "reset4"}
From(buf, pc) == IF Resetting(pc) THEN 0 ELSE buf.top
Before(buf, pc) == IF Resetting(pc) THEN 0 ELSE buf.topCount
Free(from, s) == Wrapped(from + Len(s), COM_IN)
Holds(cells, from, s) == \A k \in 1 .. Len(s) : cells[Wrapped(from + k - 1, COM_IN)] = s[k]

(* The buffer holds just the text s. *)
Fits(buf, pc, s) ==
  /\ Len(s) <= COM_IN
  /\ buf.bottomCount = Before(buf, pc) + Len(s)
  /\ buf.bottom = Free(From(buf, pc), s)
  /\ Holds(buf.in, From(buf, pc), s)

LEMMA AppendIs ==
  ASSUME NEW s \in Seq(Int), NEW x \in Int
  PROVE  /\ Append(s, x) \in Seq(Int) /\ Len(Append(s, x)) = Len(s) + 1
         /\ \A i \in 1 .. Len(s) : Append(s, x)[i] = s[i]
         /\ Append(s, x)[Len(s) + 1] = x
BY AppendProperties

Put(cells, i, x) == [cells EXCEPT ![i] = x]

(* A byte at the end of the text leaves the text before it. *)
LEMMA HoldsMore ==
  ASSUME NEW cells \in ComCells, NEW from \in 0 .. COM_IN - 1, NEW s \in Seq(Int), NEW x \in Int,
         Len(s) < COM_IN, Holds(cells, from, s), NEW now, now = Put(cells, Free(from, s), x)
  PROVE  Holds(now, from, s) /\ now[Free(from, s)] = x /\ Holds(now, from, Append(s, x))
<1> DEFINE f == Free(from, s)
<1>1. f \in 0 .. COM_IN /\ Len(s) \in Nat
  BY Sizes DEF Free, Wrapped
<1>2. \A k \in 1 .. Len(s) : Wrapped(from + k - 1, COM_IN) # f /\ Wrapped(from + k - 1, COM_IN) \in 0 .. COM_IN
  BY Sizes, <1>1 DEF Free, Wrapped
<1>3. f = Wrapped(from + (Len(s) + 1) - 1, COM_IN)
  BY <1>1, Sizes DEF Free
<1> HIDE DEF f
<1>4. now[f] = x /\ \A i \in 0 .. COM_IN : i # f => now[i] = cells[i]
  BY <1>1 DEF ComCells, Put, f
<1>5. Holds(now, from, s)
  BY <1>2, <1>4 DEF Holds
<1> DEFINE t == Append(s, x)
<1>6. Len(t) = Len(s) + 1 /\ t[Len(s) + 1] = x /\ \A i \in 1 .. Len(s) : t[i] = s[i]
  BY AppendIs
<1> HIDE DEF t
<1>7. ASSUME NEW k \in 1 .. Len(t) PROVE now[Wrapped(from + k - 1, COM_IN)] = t[k]
  <2>1. k = Len(s) + 1 \/ k \in 1 .. Len(s)
    BY <1>1, <1>6
  <2>2. CASE k = Len(s) + 1
    BY <1>3, <1>4, <1>6, <2>2
  <2>3. CASE k \in 1 .. Len(s)
    BY <1>5, <1>6, <2>3 DEF Holds
  <2> QED BY <2>1, <2>2, <2>3
<1>8. Holds(now, from, t)
  BY <1>7 DEF Holds
<1> QED BY <1>4, <1>5, <1>8 DEF f, t

LEMMA FreeNext ==
  ASSUME NEW from \in 0 .. COM_IN - 1, NEW s \in Seq(Int), NEW x \in Int, Len(s) < COM_IN
  PROVE  Free(from, Append(s, x)) = Wrapped(Free(from, s) + 1, COM_IN)
<1>1. Len(Append(s, x)) = Len(s) + 1 /\ Len(s) \in Nat
  BY AppendIs
<1> QED BY <1>1, Sizes DEF Free, Wrapped

(* The interrupt adds a byte. *)
LEMMA RxByteFits ==
  ASSUME NEW buf \in ComBuf, NEW pc, NEW s \in Seq(Int), NEW c \in Int,
         Fits(buf, pc, s), Len(s) < COM_IN
  PROVE  Fits(RxByte(buf, c), pc, Append(s, c))
<1> DEFINE r == RxByte(buf, c)
           t == Append(s, c)
           from == From(buf, pc)
<1>1. /\ r \in ComBuf /\ r.top = buf.top
      /\ r.in = [buf.in EXCEPT ![buf.bottom] = c]
      /\ r.bottom = Wrapped(buf.bottom + 1, COM_IN)
      /\ \/ r.topCount = buf.topCount /\ r.bottomCount = buf.bottomCount + 1
         \/ /\ buf.bottomCount >= CountReset /\ buf.bottomCount = buf.topCount
            /\ r.topCount = 0 /\ r.bottomCount = 1
  BY RxByteDoes
<1>2. Len(t) = Len(s) + 1 /\ Len(s) \in Nat
  BY AppendIs
<1>3. from \in 0 .. COM_IN - 1 /\ From(r, pc) = from
  BY <1>1, Sizes, ComFields DEF From
<1>4. r.bottom = Free(from, t)
  BY <1>1, <1>3, FreeNext DEF Fits
<1>5. Holds(r.in, from, t)
  <2>1. buf.in \in ComCells /\ Len(s) < COM_IN /\ buf.bottom = Free(from, s) /\ Holds(buf.in, from, s)
    BY <1>1, ComFields DEF Fits
  <2>2. r.in = Put(buf.in, Free(from, s), c)
    BY <1>1, <2>1 DEF Put
  <2> HIDE DEF from, t, r
  <2>3. Holds(r.in, from, Append(s, c))
    BY <1>3, <2>1, <2>2, HoldsMore
  <2> QED BY <2>3 DEF t
<1>6. r.bottomCount = Before(r, pc) + Len(t)
  <2>1. /\ buf.bottomCount \in Nat /\ buf.topCount \in Nat
        /\ buf.bottomCount = Before(buf, pc) + Len(s)
    BY ComFields DEF Fits
  <2> HIDE DEF r, t
  <2>2. CASE Resetting(pc)
    <3>1. Before(buf, pc) = 0 /\ Before(r, pc) = 0
      BY <2>2 DEF Before
    <3>2. buf.bottomCount = Len(s) /\ buf.bottomCount < CountReset
      BY <1>2, <2>1, <3>1, Sizes
    <3>3. r.bottomCount = buf.bottomCount + 1
      BY <1>1, <2>1, <3>2, Sizes
    <3> QED BY <1>2, <2>1, <3>1, <3>2, <3>3
  <2>3. CASE ~Resetting(pc)
    <3>1. Before(buf, pc) = buf.topCount /\ Before(r, pc) = r.topCount
      BY <2>3 DEF Before
    <3>2. CASE r.topCount = buf.topCount /\ r.bottomCount = buf.bottomCount + 1
      BY <1>2, <2>1, <3>1, <3>2
    <3>3. CASE buf.bottomCount = buf.topCount /\ r.topCount = 0 /\ r.bottomCount = 1
      <4>1. Len(s) = 0
        BY <1>2, <2>1, <3>1, <3>3
      <4> QED BY <1>2, <3>1, <3>3, <4>1
    <3> QED BY <1>1, <3>2, <3>3
  <2> QED BY <2>2, <2>3
<1>8. Len(t) <= COM_IN
  BY <1>2, Sizes
<1> HIDE DEF r, t, from
<1>7. Fits(r, pc, t)
  BY <1>3, <1>4, <1>5, <1>6, <1>8 DEF Fits
<1> QED BY <1>7 DEF r, t

(* The interrupt adds all it found in the fifo. *)
LEMMA FoldFits ==
  ASSUME NEW buf \in ComBuf, NEW pc, NEW s \in Seq(Int), NEW u \in Seq(Int),
         Fits(buf, pc, s), Len(s \o u) <= COM_IN
  PROVE  Fits(FoldLeft(RxByte, buf, u), pc, s \o u)
<1> DEFINE Upto(k) == s \o SubSeq(u, 1, k)
           Good(r, k) == r \in ComBuf /\ Fits(r, pc, Upto(k))
<1>1. PICK R : Steps(R, buf, u) /\ FoldLeft(RxByte, buf, u) = R[Len(u)]
  BY FoldSteps
<1>2. Len(s) \in Nat /\ Len(u) \in Nat /\ Len(s \o u) = Len(s) + Len(u) /\ s \o u \in Seq(Int)
  BY ConcatProperties, LenProperties
<1>3. \A k \in 0 .. Len(u) : /\ SubSeq(u, 1, k) \in Seq(Int) /\ Len(SubSeq(u, 1, k)) = k
                             /\ \A i \in 1 .. k : SubSeq(u, 1, k)[i] = u[i]
  BY SubSeqProperties
<1>4. \A k \in 0 .. Len(u) : /\ Upto(k) \in Seq(Int) /\ Len(Upto(k)) = Len(s) + k
                             /\ \A i \in 1 .. Len(s) : Upto(k)[i] = s[i]
                             /\ \A i \in 1 .. k : Upto(k)[Len(s) + i] = u[i]
  <2>1. ASSUME NEW k \in 0 .. Len(u)
        PROVE  /\ Upto(k) \in Seq(Int) /\ Len(Upto(k)) = Len(s) + k
               /\ \A i \in 1 .. Len(s) : Upto(k)[i] = s[i]
               /\ \A i \in 1 .. k : Upto(k)[Len(s) + i] = u[i]
    <3> DEFINE v == SubSeq(u, 1, k)
    <3>1. v \in Seq(Int) /\ Len(v) = k /\ \A i \in 1 .. k : v[i] = u[i]
      BY <1>3
    <3> HIDE DEF v
    <3>2. /\ s \o v \in Seq(Int) /\ Len(s \o v) = Len(s) + k
          /\ \A i \in 1 .. Len(s) : (s \o v)[i] = s[i]
          /\ \A i \in 1 .. k : (s \o v)[Len(s) + i] = v[i]
      BY <1>2, <3>1, ConcatProperties
    <3>3. \A i \in 1 .. k : (s \o v)[Len(s) + i] = u[i]
      BY <3>1, <3>2
    <3> QED BY <3>2, <3>3 DEF v
  <2> QED BY <2>1
<1>5. Upto(Len(u)) = s \o u
  <2>1. SubSeq(u, 1, Len(u)) = u
    BY <1>2, <1>3, SeqEqual
  <2> QED BY <2>1
<1> HIDE DEF Upto
<1>6. ASSUME NEW k \in 1 .. Len(u) PROVE Upto(k) = Append(Upto(k - 1), u[k])
  <2>1. PICK p \in 0 .. Len(u) : k = p + 1
    BY <1>2
  <2>2. /\ k \in 0 .. Len(u) /\ k - 1 = p /\ u[k] \in Int /\ p \in Nat
        /\ \A i \in 1 .. p : i \in 1 .. k
    BY <1>2, <2>1
  <2> DEFINE v == Append(Upto(p), u[k])
             w == Upto(p)
             x == Upto(k)
  <2>3. w \in Seq(Int) /\ Len(w) = Len(s) + p /\ x \in Seq(Int) /\ Len(x) = Len(s) + k
    BY <1>4, <2>2
  <2>4. /\ \A i \in 1 .. Len(s) : w[i] = s[i] /\ x[i] = s[i]
        /\ \A i \in 1 .. p : w[Len(s) + i] = u[i] /\ x[Len(s) + i] = u[i]
        /\ x[Len(s) + k] = u[k]
    <3>1. k \in 1 .. k
      BY <2>1, <2>2
    <3>2. /\ \A i \in 1 .. Len(s) : x[i] = s[i]
          /\ \A i \in 1 .. k : x[Len(s) + i] = u[i]
      BY <1>4, <2>2
    <3>3. /\ \A i \in 1 .. Len(s) : w[i] = s[i]
          /\ \A i \in 1 .. p : w[Len(s) + i] = u[i]
      BY <1>4
    <3> HIDE DEF w, x
    <3> QED BY <2>2, <3>1, <3>2, <3>3
  <2>5. /\ v \in Seq(Int) /\ Len(v) = Len(w) + 1
        /\ \A i \in 1 .. Len(w) : v[i] = w[i]
        /\ v[Len(w) + 1] = u[k]
    BY <2>2, <2>3, AppendIs
  <2> HIDE DEF v, w, x
  <2>6. ASSUME NEW i \in 1 .. Len(s) + k PROVE v[i] = x[i]
    <3>0. /\ i \in Nat /\ 1 <= i /\ i <= Len(s) + p + 1
          /\ Len(s) \in Nat /\ p \in Nat /\ k = p + 1
      BY <1>2, <2>1, <2>2
    <3>1. CASE i <= Len(s)
      BY <1>2, <2>2, <2>3, <2>4, <2>5, <3>1
    <3>2. CASE i > Len(s) /\ i <= Len(s) + p
      <4>1. PICK j \in 1 .. p : i = Len(s) + j
        <5>1. i - Len(s) \in 1 .. p /\ i = Len(s) + (i - Len(s))
          BY <1>2, <2>2, <3>2
        <5> QED BY <5>1
      <4>2. x[i] = u[j] /\ w[i] = u[j]
        BY <2>4, <4>1
      <4>3. i \in 1 .. Len(w)
        BY <1>2, <2>2, <2>3, <3>2
      <4> QED BY <2>5, <4>2, <4>3
    <3>3. CASE i > Len(s) + p
      <4>1. i = Len(w) + 1
        BY <2>3, <3>0, <3>3
      <4>2. i = Len(s) + k
        BY <3>0, <3>3
      <4> QED BY <2>4, <2>5, <4>1, <4>2
    <3>4. i <= Len(s) \/ (i > Len(s) /\ i <= Len(s) + p) \/ i > Len(s) + p
      BY <3>0
    <3> QED BY <3>1, <3>2, <3>3, <3>4
  <2>7. Len(v) = Len(s) + k
    BY <1>2, <2>1, <2>2, <2>3, <2>5
  <2>8. v = x
    BY <2>3, <2>5, <2>6, <2>7, SeqEqual
  <2> QED BY <2>2, <2>8 DEF v, x
<1> DEFINE T == {k \in 0 .. Len(u) : ~Good(R[k], k)}
<1>7. T = {}
  <2>1. SUFFICES ASSUME T # {} PROVE FALSE
    OBVIOUS
  <2>2. T \in SUBSET Nat
    OBVIOUS
  <2>3. PICK k \in T : \A i \in T : k <= i
    <3> HIDE DEF T
    <3> QED BY <2>1, <2>2, LeastNat
  <2>4. k # 0
    <3>1. Upto(0) = s
      BY <1>2, <1>4, SeqEqual
    <3>2. Good(R[0], 0)
      BY <1>1, <3>1 DEF Steps
    <3> QED BY <3>2
  <2>5. k \in 1 .. Len(u) /\ k - 1 \in 0 .. Len(u) /\ u[k] \in Int
    BY <1>2, <2>4
  <2>6. Good(R[k - 1], k - 1)
    <3>1. k - 1 \notin T
      <4> HIDE DEF T
      <4> QED BY <2>2, <2>3, <2>5
    <3> QED BY <2>5, <3>1
  <2>7. R[k] = RxByte(R[k - 1], u[k])
    BY <1>1, <2>5 DEF Steps
  <2>8. Upto(k - 1) \in Seq(Int) /\ Len(Upto(k - 1)) < COM_IN
    <3>1. Len(Upto(k - 1)) = Len(s) + (k - 1) /\ Upto(k - 1) \in Seq(Int)
      BY <1>4, <2>5
    <3> QED BY <1>2, <2>5, <3>1, Sizes
  <2>9. R[k] \in ComBuf
    BY <2>5, <2>6, <2>7, RxByteDoes
  <2>10. Fits(R[k], pc, Upto(k))
    BY <1>6, <2>5, <2>6, <2>7, <2>8, RxByteFits
  <2> QED BY <2>9, <2>10
<1>8. Good(R[Len(u)], Len(u))
  BY <1>2, <1>7
<1> QED BY <1>1, <1>5, <1>8

(* The piece taken is the beginning of the text. *)
LEMMA PieceIs ==
  ASSUME NEW cells \in ComCells, NEW from \in 0 .. COM_IN - 1, NEW s \in Seq(Int),
         NEW n \in 1 .. Len(s), n <= COM_IN - from, Len(s) <= COM_IN, Holds(cells, from, s)
  PROVE  SubSeq(s, 1, n) = [i \in 1 .. n |-> cells[Least(from + i - 1, COM_IN)]]
<1>0. Len(s) \in Nat /\ n \in Nat
  BY LenProperties
<1>1. SubSeq(s, 1, n) = [i \in 1 .. n |-> s[i]]
  <2> DEFINE v == SubSeq(s, 1, n)
  <2>1. v \in Seq(Int) /\ Len(v) = n /\ \A i \in 1 .. n : v[i] = s[i]
    BY <1>0, SubSeqProperties
  <2> HIDE DEF v
  <2>2. v = [i \in 1 .. n |-> v[i]]
    BY <2>1, LenProperties
  <2> QED BY <2>1, <2>2 DEF v
<1>2. ASSUME NEW i \in 1 .. n PROVE s[i] = cells[Least(from + i - 1, COM_IN)]
  <2>1. Least(from + i - 1, COM_IN) = Wrapped(from + i - 1, COM_IN)
    BY <1>0, Sizes DEF Least, Wrapped
  <2>2. i \in 1 .. Len(s)
    BY <1>0
  <2> QED BY <2>1, <2>2 DEF Holds
<1> QED BY <1>1, <1>2

(* A piece is taken from the front. *)
LEMMA Popped ==
  ASSUME NEW cells \in ComCells, NEW from \in 0 .. COM_IN - 1, NEW s \in Seq(Int),
         NEW n \in 1 .. Len(s), n <= COM_IN - from, Len(s) <= COM_IN, Holds(cells, from, s)
  PROVE  LET t  == SubSeq(s, n + 1, Len(s))
             to == Wrapped(from + n, COM_IN)
         IN  /\ t \in Seq(Int) /\ Len(t) = Len(s) - n /\ to \in 0 .. COM_IN - 1
             /\ Free(to, t) = Free(from, s) /\ Holds(cells, to, t)
<1> DEFINE t == SubSeq(s, n + 1, Len(s))
           to == Wrapped(from + n, COM_IN)
<1>1. Len(s) \in Nat /\ n \in Nat
  BY LenProperties
<1>2. /\ t \in Seq(Int) /\ Len(t) = Len(s) - n /\ \A i \in 1 .. Len(t) : t[i] = s[n + i]
  <2>1. n + 1 \in 1 .. Len(s) + 1 /\ Len(s) \in (n + 1) - 1 .. Len(s)
    BY <1>1
  <2>2. /\ t \in Seq(Int) /\ Len(t) = (IF n + 1 <= Len(s) THEN Len(s) - (n + 1) + 1 ELSE 0)
        /\ \A i \in 1 .. Len(s) - (n + 1) + 1 : t[i] = s[(n + 1) + i - 1]
    BY <2>1, SubSeqProperties
  <2>3. Len(t) = Len(s) - n
    BY <1>1, <2>2
  <2>4. ASSUME NEW i \in 1 .. Len(s) - n PROVE t[i] = s[n + i]
    <3>1. i \in 1 .. Len(s) - (n + 1) + 1 /\ (n + 1) + i - 1 = n + i
      BY <1>1
    <3> QED BY <2>2, <3>1
  <2> HIDE DEF t
  <2> QED BY <2>2, <2>3, <2>4
<1>3. to \in 0 .. COM_IN - 1
  BY <1>1, Sizes DEF Wrapped
<1>4. Free(to, t) = Free(from, s)
  <2>1. Len(t) \in Nat
    BY <1>1, <1>2
  <2> HIDE DEF t
  <2> QED BY <1>1, <1>2, <2>1, Sizes DEF Free, Wrapped
<1>5. ASSUME NEW i \in 1 .. Len(t) PROVE cells[Wrapped(to + i - 1, COM_IN)] = t[i]
  <2>1. n + i \in 1 .. Len(s) /\ i \in Nat /\ 1 <= i
    BY <1>1, <1>2
  <2>2. Wrapped(to + i - 1, COM_IN) = Wrapped(from + (n + i) - 1, COM_IN)
    <3> HIDE DEF t
    <3> QED BY <1>1, <2>1, Sizes DEF Wrapped
  <2>3. cells[Wrapped(from + (n + i) - 1, COM_IN)] = s[n + i]
    BY <2>1 DEF Holds
  <2> QED BY <1>2, <2>2, <2>3
<1>6. Holds(cells, to, t)
  BY <1>5 DEF Holds
<1> QED BY <1>2, <1>3, <1>4, <1>6

-----------------------------------------------------------------------------
(* What a step does to com_buf *)

(* Only what cmd_process_task is asked for may change. *)
SameText ==
  /\ com' \in ComBuf /\ com'.top = com.top /\ com'.topCount = com.topCount
  /\ com'.bottom = com.bottom /\ com'.bottomCount = com.bottomCount /\ com'.in = com.in

Halfway == {"reset2", "reset3", "reset4"}

Quiet ==
  /\ SameText /\ UNCHANGED <<pend, spoilt, tmr>>
  /\ UNCHANGED fifo \/ HostTypes
  /\ b'.pc = b.pc \/ (b.pc \notin Halfway /\ b'.pc \notin Halfway)

Taken ==
  \E n \in Nat : /\ n >= 1 /\ n <= Count(com) /\ n <= COM_IN - com.top /\ PopData(n)
                 /\ tmr.pc = "idle" /\ UNCHANGED <<tmr, b, fifo, executed, commands>>

Still ==
  /\ UNCHANGED <<com, pend, spoilt, tmr, fifo>>
  /\ b'.pc = b.pc \/ (b.pc \notin Halfway /\ b'.pc \notin Halfway)

LEMMA StillQuiet == ComTypes /\ Still => Quiet
BY DEF ComTypes, Still, Quiet, SameText

LEMMA PopNumIn ==
  ASSUME Types, NEW m \in Nat, PopNum(m) > 0
  PROVE  PopNum(m) \in Nat /\ PopNum(m) <= Count(com) /\ PopNum(m) <= COM_IN - com.top
<1> DEFINE count == Count(com)
           room  == COM_IN - com.top
<1>1. com \in ComBuf
  BY DEF Types, ComTypes
<1>2. com.top \in 0 .. COM_IN - 1 /\ com.topCount \in Nat /\ com.bottomCount \in Nat
  BY <1>1, ComFields
<1>3. count \in Int /\ room \in Int
  BY <1>2, Sizes DEF Count
<1>4. PopNum(m) = Least(Least(count, m), room)
  BY DEF PopNum
<1> HIDE DEF count, room
<1>5. Least(Least(count, m), room) > 0
  BY <1>4
<1>6. LET n == Least(Least(count, m), room) IN n \in Nat /\ n <= count /\ n <= room
  BY <1>3, <1>5 DEF Least
<1> QED BY <1>4, <1>6 DEF count, room

LEMMA KindsHere == Types /\ (HostTypes \/ LowPowerTask \/ Credit \/ LinkChanges \/ WakeUp
                              \/ (\E n \in PacketLens : PeerSends(n)) \/ UNCHANGED vars) => Quiet
<1> SUFFICES ASSUME Types, HostTypes \/ LowPowerTask \/ Credit \/ LinkChanges \/ WakeUp
                             \/ (\E n \in PacketLens : PeerSends(n)) \/ UNCHANGED vars
             PROVE  Quiet
  OBVIOUS
<1>1. CASE HostTypes
  BY <1>1 DEF HostTypes, Types, ComTypes, Quiet, SameText
<1>2. CASE LowPowerTask
  BY <1>2, StillQuiet DEF LowPowerTask, comVars, Still, Types
<1>3. CASE Credit
  BY <1>3, StillQuiet DEF Credit, comVars, Still, Types
<1>4. CASE LinkChanges
  BY <1>4, StillQuiet DEF LinkChanges, comVars, Still, Types
<1>5. CASE WakeUp
  BY <1>5, StillQuiet DEF WakeUp, comVars, Still, Types
<1>6. CASE \E n \in PacketLens : PeerSends(n)
  BY <1>6, StillQuiet DEF PeerSends, comVars, Still, Types
<1>7. CASE UNCHANGED vars
  BY <1>7, StillQuiet DEF vars, comVars, Still, Types
<1> QED BY <1>1, <1>2, <1>3, <1>4, <1>5, <1>6, <1>7

LEMMA KindsBt == Types /\ Bt => Quiet \/ Taken \/ BtWild
<1> SUFFICES ASSUME Types, Bt PROVE Quiet \/ Taken \/ BtWild
  OBVIOUS
<1>1. CASE BtRecv
  BY <1>1, StillQuiet DEF BtRecv, UNCHANGED_Bt, Still, Types
<1>2. CASE BtStart
  BY <1>2, StillQuiet DEF BtStart, UNCHANGED_Bt, Still, Types
<1>3. CASE BtClear
  <2> DEFINE n == PopNum(COM_IN)
  <2>1. n > 0 /\ PopData(n) /\ tmr.pc = "idle" /\ UNCHANGED <<tmr, b, fifo, executed, commands>>
    BY <1>3 DEF BtClear, UNCHANGED_Bt, TmrDone
  <2>2. n \in Nat /\ n <= Count(com) /\ n <= COM_IN - com.top
    BY <2>1, PopNumIn, Sizes
  <2> HIDE DEF n
  <2> QED BY <2>1, <2>2 DEF Taken
<1>4. CASE BtSend
  <2> DEFINE n == PopNum(Mtu)
  <2>1. n > 0 /\ PopData(n) /\ tmr.pc = "idle" /\ UNCHANGED <<tmr, b, fifo, executed, commands>>
    BY <1>4 DEF BtSend, UNCHANGED_Bt, TmrDone
  <2>2. n \in Nat /\ n <= Count(com) /\ n <= COM_IN - com.top
    BY <2>1, PopNumIn, BridgeAssumption
  <2> HIDE DEF n
  <2> QED BY <2>1, <2>2 DEF Taken
<1>5. CASE BtEnd
  BY <1>5, StillQuiet DEF BtEnd, UNCHANGED_Bt, Still, Types
<1> QED BY <1>1, <1>2, <1>3, <1>4, <1>5 DEF Bt

(* Task "b" asks for a state. *)
LEMMA StateQuiet ==
  ASSUME ComTypes, NEW x \in ComStates, com' = [com EXCEPT !.state = x],
         UNCHANGED <<pend, spoilt, tmr, fifo>>, b'.pc = b.pc \/ (b.pc \notin Halfway /\ b'.pc \notin Halfway)
  PROVE  Quiet
<1>1. SameText
  BY ComSets DEF ComTypes, SameText
<1> QED BY <1>1 DEF Quiet

LEMMA KindsB == Types /\ B => Quiet \/ BTerminate \/ BReset
<1> SUFFICES ASSUME Types, B PROVE Quiet \/ BTerminate \/ BReset
  OBVIOUS
<1> USE DEF Goto, UNCHANGED_B
<1>0. com.state \in ComStates /\ b.state \in ComStates /\ b \in [pc : BPc, index : 0 .. COM_IN - 1, state : ComStates]
  BY ComFields DEF Types, ComTypes, BTypes
<1>1. CASE BTake
  <2>1. b.pc = "wait" /\ b'.pc \in {"wait", "parse"}
    BY <1>0, <1>1 DEF BTake
  <2> QED BY <1>1, <2>1, StillQuiet DEF BTake, Still, Types, Halfway
<1>2. CASE BParse
  <2>1. b.pc = "parse" /\ b'.pc \in {"end", "ble"}
    BY <1>0, <1>2 DEF BParse
  <2> QED BY <1>2, <2>1, StillQuiet DEF BParse, Still, Types, Halfway
<1>3. CASE BHandle
  <2>1. b.pc = "handle" /\ b'.pc \in {"reset1", "clear1"} /\ UNCHANGED <<pend, spoilt, tmr, fifo>>
    BY <1>0, <1>3 DEF BHandle
  <2>2. b.pc \notin Halfway /\ b'.pc \notin Halfway
    BY <2>1 DEF Halfway
  <2>3. UNCHANGED com \/ com' = [com EXCEPT !.state = @ \cup {SEND_BY_BLE}]
    BY <1>3 DEF BHandle
  <2>4. CASE UNCHANGED com
    BY <2>1, <2>2, <2>4 DEF Types, ComTypes, Quiet, SameText
  <2>5. CASE com' = [com EXCEPT !.state = @ \cup {SEND_BY_BLE}]
    <3>1. com' = [com EXCEPT !.state = com.state \cup {SEND_BY_BLE}]
      BY <2>5
    <3>2. com.state \cup {SEND_BY_BLE} \in ComStates
      BY <1>0 DEF ComStates
    <3> QED BY <2>1, <2>2, <3>1, <3>2, StateQuiet DEF Types
  <2> QED BY <2>3, <2>4, <2>5
<1>4. CASE BClear
  <2>1. /\ b.pc \in {"clear1", "clear2", "sent1", "sent2"} /\ b'.pc \in {"clear2", "ble", "sent2", "com"}
        /\ UNCHANGED <<pend, spoilt, tmr, fifo>>
    BY <1>0, <1>4 DEF BClear
  <2>2. b.pc \notin Halfway /\ b'.pc \notin Halfway
    BY <2>1 DEF Halfway
  <2>3. UNCHANGED com \/ com' = [com EXCEPT !.state = b.state]
    BY <1>4 DEF BClear
  <2>4. CASE UNCHANGED com
    BY <2>1, <2>2, <2>4 DEF Types, ComTypes, Quiet, SameText
  <2>5. CASE com' = [com EXCEPT !.state = b.state]
    BY <1>0, <2>1, <2>2, <2>5, StateQuiet DEF Types
  <2> QED BY <2>3, <2>4, <2>5
<1>5. CASE BSendByBle
  <2>1. b.pc = "ble" /\ b'.pc \in {"sent1", "com"}
    BY <1>0, <1>5 DEF BSendByBle
  <2> QED BY <1>5, <2>1, StillQuiet DEF BSendByBle, Still, Types, Halfway
<1>6. CASE BOut
  BY <1>6, StillQuiet DEF BOut, Still, Types
<1>7. CASE BOutEnd
  <2>1. b.pc = "com" /\ b'.pc \in {"out", "wait"}
    BY <1>0, <1>7 DEF BOutEnd
  <2> QED BY <1>7, <2>1, StillQuiet DEF BOutEnd, Still, Types, Halfway
<1>8. CASE BOutClear
  <2>1. b.pc = "out" /\ b'.pc = "wait"
    BY <1>0, <1>8 DEF BOutClear
  <2> QED BY <1>8, <2>1, StillQuiet DEF BOutClear, Still, Types, Halfway
<1> QED BY <1>1, <1>2, <1>3, <1>4, <1>5, <1>6, <1>7, <1>8 DEF B

LEMMA Kinds == Types /\ [Next]_vars => Quiet \/ Isr \/ Tmr \/ Taken \/ BtWild \/ BTerminate \/ BReset
BY KindsHere, KindsBt, KindsB DEF Next

-----------------------------------------------------------------------------
(* Types *)

(* The end of the routine that reads the UART leaves the text alone. *)
LEMMA AfterReadDoes ==
  ASSUME NEW buf \in ComBuf, NEW source \in {"isr", "timer"}, NEW have \in BOOLEAN, TmrTypes,
         sem \in BOOLEAN, sending \in BOOLEAN, AfterRead(source, have, buf)
  PROVE  /\ com' \in ComBuf /\ com'.top = buf.top /\ com'.topCount = buf.topCount
         /\ com'.bottom = buf.bottom /\ com'.bottomCount = buf.bottomCount /\ com'.in = buf.in
         /\ rx' \in [canBeCmd : BOOLEAN, last : {"isr", "timer"}, ticks : 0 .. TMR_CLK_1S_COUNT]
         /\ sem' \in BOOLEAN
<1> DEFINE ticks == IF source = "isr" THEN 0 ELSE Least(rx.ticks + 1, TMR_CLK_1S_COUNT)
           cmd   == ~have /\ rx.canBeCmd /\ ticks >= TMR_CLK_1S_COUNT
           asks  == AsksBle(buf, ~have /\ ~cmd)
           x == buf.state \cup (IF cmd THEN {PARSE_CMD} ELSE {}) \cup (IF asks THEN {SEND_BY_BLE} ELSE {})
           can == have /\ (rx.canBeCmd \/ (source = "timer" /\ rx.last = "timer"))
<1>1. com' = [buf EXCEPT !.state = x]
  <2> HIDE DEF ticks
  <2> QED BY Zenon DEF AfterRead, ticks
<1>2. rx' = [canBeCmd |-> can, last |-> source, ticks |-> ticks] /\ sem' = (sem \/ cmd \/ asks)
  BY Zenon DEF AfterRead
<1>3. x \in ComStates
  BY ComFields DEF ComStates
<1>4. ticks \in 0 .. TMR_CLK_1S_COUNT
  <2>1. rx.ticks \in 0 .. TMR_CLK_1S_COUNT
    BY DEF TmrTypes
  <2> QED BY <2>1, Sizes DEF Least
<1>5. can \in BOOLEAN
  BY DEF TmrTypes
<1> HIDE DEF ticks, x, can
<1>6. /\ com' \in ComBuf /\ com'.top = buf.top /\ com'.topCount = buf.topCount
      /\ com'.bottom = buf.bottom /\ com'.bottomCount = buf.bottomCount /\ com'.in = buf.in
  BY <1>1, <1>3, ComSets
<1>7. rx' \in [canBeCmd : BOOLEAN, last : {"isr", "timer"}, ticks : 0 .. TMR_CLK_1S_COUNT]
  BY <1>2, <1>4, <1>5
<1>8. sem' \in BOOLEAN
  <2> HIDE DEF cmd, asks
  <2> QED BY <1>2, Zenon
<1> QED BY <1>6, <1>7, <1>8

(* What the interrupt leaves in com_buf. *)
LEMMA IsrDoes ==
  ASSUME Types, Isr
  PROVE  LET buf == FoldLeft(RxByte, com, fifo)
         IN  /\ com' \in ComBuf /\ com'.top = buf.top /\ com'.topCount = buf.topCount
             /\ com'.bottom = buf.bottom /\ com'.bottomCount = buf.bottomCount /\ com'.in = buf.in
             /\ buf \in ComBuf /\ buf.top = com.top
             /\ com.bottom < COM_IN => buf.bottom < COM_IN
             /\ rx' \in [canBeCmd : BOOLEAN, last : {"isr", "timer"}, ticks : 0 .. TMR_CLK_1S_COUNT]
             /\ sem' \in BOOLEAN
<1> DEFINE buf == FoldLeft(RxByte, com, fifo)
<1>1. AfterRead("isr", TRUE, buf)
  BY DEF Isr
<1>2. /\ buf \in ComBuf /\ buf.top = com.top
      /\ com.bottom < COM_IN => buf.bottom < COM_IN
  BY FoldTypes DEF Types, ComTypes
<1>3. TmrTypes /\ sem \in BOOLEAN /\ sending \in BOOLEAN
  BY DEF Types, FlagTypes
<1> HIDE DEF buf
<1>4. /\ com' \in ComBuf /\ com'.top = buf.top /\ com'.topCount = buf.topCount
      /\ com'.bottom = buf.bottom /\ com'.bottomCount = buf.bottomCount /\ com'.in = buf.in
      /\ rx' \in [canBeCmd : BOOLEAN, last : {"isr", "timer"}, ticks : 0 .. TMR_CLK_1S_COUNT]
      /\ sem' \in BOOLEAN
  BY <1>1, <1>2, <1>3, AfterReadDoes
<1> QED BY <1>2, <1>4 DEF buf

(* What each step of the timer task does. *)
LEMMA TmrStoreDoes ==
  ASSUME Types, TmrStore
  PROVE  /\ com' \in ComBuf /\ com'.top = com.top /\ com'.bottom = com.bottom
         /\ com'.in = [com.in EXCEPT ![com.bottom] = tmr.byte]
         /\ \/ com'.topCount = com.topCount /\ com'.bottomCount = com.bottomCount
            \/ /\ com.bottomCount >= CountReset /\ com.bottomCount = com.topCount
               /\ com'.topCount = 0 /\ com'.bottomCount = 0
         /\ tmr.pc = "store" /\ tmr'.pc = "index" /\ tmr'.index = com.bottom /\ tmr'.byte = tmr.byte
         /\ UNCHANGED <<pend, spoilt, b, fifo>>
         /\ TmrTypes'
<1> DEFINE q == Restarted(com)
<1>1. /\ q \in ComBuf /\ q.state = com.state /\ q.top = com.top
      /\ q.bottom = com.bottom /\ q.in = com.in
      /\ \/ q.topCount = com.topCount /\ q.bottomCount = com.bottomCount
         \/ /\ com.bottomCount >= CountReset /\ com.bottomCount = com.topCount
            /\ q.topCount = 0 /\ q.bottomCount = 0
  BY RestartedDoes DEF Types, ComTypes
<1>2. com' = [q EXCEPT !.in[q.bottom] = tmr.byte]
  BY DEF TmrStore
<1> HIDE DEF q
<1>3. q.bottom \in 0 .. COM_IN /\ tmr.byte \in Int
  BY <1>1, ComFields DEF Types, TmrTypes
<1>4. /\ com' \in ComBuf /\ com'.state = q.state /\ com'.top = q.top /\ com'.topCount = q.topCount
      /\ com'.bottom = q.bottom /\ com'.bottomCount = q.bottomCount
      /\ com'.in = [q.in EXCEPT ![q.bottom] = tmr.byte]
  BY <1>1, <1>2, <1>3, ComSets
<1>5. tmr.pc = "store" /\ tmr' = [tmr EXCEPT !.pc = "index", !.index = com.bottom]
  BY DEF TmrStore
<1>6. com.bottom \in 0 .. COM_IN - 1
  BY <1>5, ComFields, Sizes DEF Types, ComTypes
<1>7. /\ tmr' \in [pc : TmrPc, byte : Int, index : 0 .. COM_IN - 1, count : Nat, have : BOOLEAN]
      /\ tmr'.pc = "index" /\ tmr'.index = com.bottom /\ tmr'.byte = tmr.byte
  BY <1>5, <1>6 DEF Types, TmrTypes, TmrPc
<1>8. UNCHANGED <<pend, spoilt, b, fifo, rx>>
  BY DEF TmrStore, UNCHANGED_Tmr
<1> QED BY <1>1, <1>4, <1>5, <1>7, <1>8 DEF Types, TmrTypes

LEMMA TmrIndexDoes ==
  ASSUME Types, TmrIndex
  PROVE  /\ com' \in ComBuf /\ com'.top = com.top /\ com'.topCount = com.topCount
         /\ com'.bottom = tmr.index + 1 /\ com'.bottomCount = com.bottomCount /\ com'.in = com.in
         /\ tmr.pc = "index" /\ tmr'.pc = "count" /\ tmr'.index = tmr.index /\ tmr'.byte = tmr.byte
         /\ tmr'.count = com.bottomCount
         /\ UNCHANGED <<pend, spoilt, b, fifo>>
         /\ TmrTypes'
<1>1. tmr.pc = "index" /\ com' = [com EXCEPT !.bottom = tmr.index + 1]
  BY DEF TmrIndex
<1>2. tmr' = [tmr EXCEPT !.pc = "count", !.count = com.bottomCount]
  BY DEF TmrIndex
<1>3. tmr.index + 1 \in 0 .. COM_IN
  BY Sizes DEF Types, TmrTypes
<1>4. /\ com' \in ComBuf /\ com'.top = com.top /\ com'.topCount = com.topCount
      /\ com'.bottom = tmr.index + 1 /\ com'.bottomCount = com.bottomCount /\ com'.in = com.in
  BY <1>1, <1>3, ComSets DEF Types, ComTypes
<1>5. com.bottomCount \in Nat
  BY ComFields DEF Types, ComTypes
<1>6. /\ tmr' \in [pc : TmrPc, byte : Int, index : 0 .. COM_IN - 1, count : Nat, have : BOOLEAN]
      /\ tmr'.pc = "count" /\ tmr'.index = tmr.index /\ tmr'.byte = tmr.byte
      /\ tmr'.count = com.bottomCount
  BY <1>2, <1>5 DEF Types, TmrTypes, TmrPc
<1>7. UNCHANGED <<pend, spoilt, b, fifo, rx>>
  BY DEF TmrIndex, UNCHANGED_Tmr
<1> QED BY <1>1, <1>4, <1>6, <1>7 DEF Types, TmrTypes

LEMMA TmrCountDoes ==
  ASSUME Types, TmrCount
  PROVE  /\ com' \in ComBuf /\ com'.top = com.top /\ com'.topCount = com.topCount
         /\ com'.bottom = Wrapped(com.bottom, COM_IN) /\ com'.bottom < COM_IN
         /\ com'.bottomCount = tmr.count + 1 /\ com'.in = com.in
         /\ tmr.pc = "count" /\ tmr'.pc = "read"
         /\ pend' = Append(pend, tmr.byte) /\ UNCHANGED <<b, fifo>>
         /\ spoilt' = (spoilt \/ Len(pend') > COM_IN \/ b.pc = "reset2")
         /\ TmrTypes'
<1> DEFINE w == Wrapped(com.bottom, COM_IN)
           k == tmr.count + 1
<1>1. tmr.pc = "count" /\ com' = [com EXCEPT !.bottomCount = k, !.bottom = w]
  BY DEF TmrCount
<1>2. tmr' = [tmr EXCEPT !.pc = "read"]
  BY DEF TmrCount
<1>3. w \in 0 .. COM_IN /\ w < COM_IN /\ k \in Nat
  BY Sizes, ComFields DEF Types, ComTypes, TmrTypes, Wrapped
<1> HIDE DEF w, k
<1>4. /\ com' \in ComBuf /\ com'.top = com.top /\ com'.topCount = com.topCount
      /\ com'.bottom = w /\ com'.bottomCount = k /\ com'.in = com.in
  <2>1. com \in ComBuf
    BY DEF Types, ComTypes
  <2> QED BY <1>1, <1>3, <2>1 DEF ComBuf
<1>6. /\ tmr' \in [pc : TmrPc, byte : Int, index : 0 .. COM_IN - 1, count : Nat, have : BOOLEAN]
      /\ tmr'.pc = "read"
  BY <1>2 DEF Types, TmrTypes, TmrPc
<1>7. pend' = Append(pend, tmr.byte) /\ UNCHANGED <<b, fifo, rx>>
  BY DEF TmrCount, UNCHANGED_Tmr
<1>8. spoilt' = (spoilt \/ Len(pend') > COM_IN \/ b.pc = "reset2")
  BY DEF TmrCount
<1> QED BY <1>1, <1>3, <1>4, <1>6, <1>7, <1>8 DEF Types, TmrTypes, w, k

LEMMA TmrElseDoes ==
  ASSUME Types, TmrTick \/ TmrRead \/ TmrEnd
  PROVE  /\ SameText /\ UNCHANGED <<pend, spoilt, b>> /\ fifo' \in Seq(Int) /\ Len(fifo') <= RxFifo
         /\ {tmr.pc, tmr'.pc} \subseteq {"idle", "read", "store"}
         /\ sem' \in BOOLEAN
         /\ TmrTypes'
<1>0. com \in ComBuf /\ tmr \in [pc : TmrPc, byte : Int, index : 0 .. COM_IN - 1, count : Nat, have : BOOLEAN]
  BY DEF Types, ComTypes, TmrTypes
<1>1. CASE TmrTick
  <2>1. tmr.pc = "idle" /\ tmr' = [TmrIdle EXCEPT !.pc = "read"] /\ UNCHANGED <<com, pend, spoilt, b, fifo, rx, sem>>
    BY <1>1 DEF TmrTick, TmrDone, UNCHANGED_Tmr
  <2>2. tmr'.pc = "read" /\ tmr' \in [pc : TmrPc, byte : Int, index : 0 .. COM_IN - 1, count : Nat, have : BOOLEAN]
    <3>1. tmr' = [pc |-> "read", byte |-> 0, index |-> 0, count |-> 0, have |-> FALSE]
      BY <2>1 DEF TmrIdle, NUL
    <3>2. 0 \in Int /\ 0 \in 0 .. COM_IN - 1 /\ 0 \in Nat /\ "read" \in TmrPc
      BY Sizes DEF TmrPc
    <3> QED BY <3>1, <3>2
  <2> QED BY <2>1, <2>2 DEF Types, ComTypes, TmrTypes, SameText, FlagTypes
<1>2. CASE TmrRead
  <2>1. /\ tmr.pc = "read" /\ tmr' = [tmr EXCEPT !.pc = "store", !.byte = Head(fifo), !.have = TRUE]
        /\ fifo # <<>> /\ fifo' = Tail(fifo) /\ UNCHANGED <<com, pend, spoilt, b, rx, sem>>
    BY <1>2 DEF TmrRead, UNCHANGED_Tmr
  <2>2. fifo \in Seq(Int) /\ Len(fifo) <= RxFifo
    BY DEF Types, ComTypes
  <2>3. Head(fifo) \in Int /\ Tail(fifo) \in Seq(Int) /\ Len(Tail(fifo)) = Len(fifo) - 1 /\ Len(fifo) \in Nat
    BY <2>1, <2>2, HeadTailProperties, LenProperties
  <2>4. tmr'.pc = "store" /\ tmr' \in [pc : TmrPc, byte : Int, index : 0 .. COM_IN - 1, count : Nat, have : BOOLEAN]
    BY <1>0, <2>1, <2>3 DEF TmrPc
  <2>5. fifo' \in Seq(Int) /\ Len(fifo') <= RxFifo
    BY <2>1, <2>2, <2>3, Sizes
  <2> QED BY <2>1, <2>4, <2>5 DEF Types, ComTypes, TmrTypes, SameText, FlagTypes
<1>3. CASE TmrEnd
  <2>1. AfterRead("timer", tmr.have, com) /\ tmr.pc = "read" /\ tmr' = TmrIdle /\ UNCHANGED <<pend, spoilt, b, fifo>>
    BY <1>3 DEF TmrEnd, UNCHANGED_Tmr
  <2>2. tmr.have \in BOOLEAN /\ TmrTypes /\ sem \in BOOLEAN /\ sending \in BOOLEAN
    BY DEF Types, TmrTypes, FlagTypes
  <2>3. /\ com' \in ComBuf /\ com'.top = com.top /\ com'.topCount = com.topCount
        /\ com'.bottom = com.bottom /\ com'.bottomCount = com.bottomCount /\ com'.in = com.in
        /\ rx' \in [canBeCmd : BOOLEAN, last : {"isr", "timer"}, ticks : 0 .. TMR_CLK_1S_COUNT]
        /\ sem' \in BOOLEAN
    BY <1>0, <2>1, <2>2, AfterReadDoes
  <2>4. tmr'.pc = "idle" /\ tmr' \in [pc : TmrPc, byte : Int, index : 0 .. COM_IN - 1, count : Nat, have : BOOLEAN]
    BY <2>1, Sizes DEF TmrIdle, TmrPc, NUL
  <2> QED BY <2>1, <2>3, <2>4 DEF Types, ComTypes, TmrTypes, SameText
<1> QED BY <1>1, <1>2, <1>3

(* What a piece taken from the buffer leaves. *)
LEMMA TakenDoes ==
  ASSUME Types, NEW n \in Nat, n >= 1, n <= Count(com), n <= COM_IN - com.top, PopData(n)
  PROVE  /\ com' \in ComBuf /\ com'.top = Wrapped(com.top + n, COM_IN)
         /\ com'.topCount = com.topCount + n /\ com'.bottom = com.bottom
         /\ com'.bottomCount = com.bottomCount /\ com'.in = com.in
         /\ pend' = SubSeq(pend, n + 1, Len(pend)) /\ pend' \in Seq(Int)
         /\ spoilt' = (spoilt \/ b.pc \in {"handle", "reset2", "reset3", "reset4"})
<1> DEFINE w == Wrapped(com.top + n, COM_IN)
           k == com.topCount + n
<1>0. com \in ComBuf /\ pend \in Seq(Int)
  BY DEF Types, ComTypes
<1>1. com' = [com EXCEPT !.top = w, !.topCount = k]
  BY DEF PopData
<1>2. w \in 0 .. COM_IN - 1 /\ k \in Nat
  BY <1>0, Sizes, ComFields DEF Wrapped
<1> HIDE DEF w, k
<1>3. /\ com' \in ComBuf /\ com'.top = w /\ com'.topCount = k /\ com'.bottom = com.bottom
      /\ com'.bottomCount = com.bottomCount /\ com'.in = com.in
  BY <1>0, <1>1, <1>2 DEF ComBuf
<1>4. pend' = SubSeq(pend, n + 1, Len(pend))
  BY DEF PopData
<1>5. SubSeq(pend, n + 1, Len(pend)) \in Seq(Int)
  <2>1. Len(pend) \in Int /\ n + 1 \in Int /\ \A i \in n + 1 .. Len(pend) : pend[i] \in Int
    BY <1>0
  <2> QED BY <2>1, SubSeqProperties
<1>6. spoilt' = (spoilt \/ b.pc \in {"handle", "reset2", "reset3", "reset4"})
  BY DEF PopData
<1> QED BY <1>3, <1>4, <1>5, <1>6 DEF w, k

LEMMA BTerminateDoes ==
  ASSUME Types, BTerminate
  PROVE  /\ com' \in ComBuf /\ com'.top = com.top /\ com'.topCount = com.topCount
         /\ com'.bottom = com.bottom /\ com'.bottomCount = com.bottomCount
         /\ com'.in = [com.in EXCEPT ![b.index] = NUL]
         /\ b.pc = "end" /\ b' = [b EXCEPT !.pc = "handle"] /\ tmr.pc = "idle"
         /\ UNCHANGED <<pend, tmr, fifo, executed, commands>>
         /\ spoilt' = (spoilt \/ com.bottom # b.index \/ Count(com) >= COM_IN)
<1>1. com \in ComBuf /\ b.index \in 0 .. COM_IN /\ NUL \in Int
  BY Sizes DEF Types, ComTypes, BTypes, NUL
<1>2. com' = [com EXCEPT !.in[b.index] = NUL]
  BY DEF BTerminate
<1>3. /\ com' \in ComBuf /\ com'.top = com.top /\ com'.topCount = com.topCount
      /\ com'.bottom = com.bottom /\ com'.bottomCount = com.bottomCount
      /\ com'.in = [com.in EXCEPT ![b.index] = NUL]
  BY <1>1, <1>2, ComSets
<1> QED BY <1>3 DEF BTerminate, Goto, UNCHANGED_B, BtDone, TmrDone

LEMMA BResetDoes ==
  ASSUME Types, BReset
  PROVE  /\ com' \in ComBuf /\ com'.in = com.in /\ UNCHANGED <<spoilt, tmr, fifo, executed, commands>>
         /\ tmr.pc = "idle" /\ com'.bottom < COM_IN
         /\ b' = [b EXCEPT !.pc = b'.pc]
         /\ \/ /\ b.pc = "reset1" /\ b'.pc = "reset2" /\ com'.bottom = 0 /\ UNCHANGED pend
            \/ /\ b.pc = "reset2" /\ b'.pc = "reset3" /\ com'.bottomCount = 0 /\ pend' = <<>>
               /\ com'.bottom = com.bottom
            \/ /\ b.pc = "reset3" /\ b'.pc = "reset4" /\ com'.top = 0 /\ UNCHANGED pend
               /\ com'.bottom = com.bottom /\ com'.bottomCount = com.bottomCount
            \/ /\ b.pc = "reset4" /\ b'.pc = "clear1" /\ com'.topCount = 0 /\ UNCHANGED pend
               /\ com'.top = com.top /\ com'.bottom = com.bottom /\ com'.bottomCount = com.bottomCount
<1>1. com \in ComBuf /\ b \in [pc : BPc, index : 0 .. COM_IN - 1, state : ComStates]
  BY DEF Types, ComTypes, BTypes
<1>2. UNCHANGED <<spoilt, tmr, fifo, executed, commands>> /\ tmr.pc = "idle" /\ com.bottom < COM_IN
  BY DEF BReset, UNCHANGED_B, BtDone, TmrDone, Types, ComTypes
<1>3. 0 \in 0 .. COM_IN /\ 0 \in 0 .. COM_IN - 1 /\ 0 \in Nat /\ 0 < COM_IN
  BY Sizes
<1>4. CASE b.pc = "reset1" /\ Goto("reset2") /\ com' = [com EXCEPT !.bottom = 0] /\ UNCHANGED pend
  <2>1. com' \in ComBuf /\ com'.bottom = 0 /\ com'.in = com.in
    BY <1>1, <1>3, <1>4, ComSets
  <2> QED BY <1>1, <1>2, <1>3, <1>4, <2>1 DEF Goto
<1>5. CASE b.pc = "reset2" /\ Goto("reset3") /\ com' = [com EXCEPT !.bottomCount = 0] /\ pend' = <<>>
  <2>1. com' \in ComBuf /\ com'.bottomCount = 0 /\ com'.in = com.in /\ com'.bottom = com.bottom
    BY <1>1, <1>3, <1>5, ComSets
  <2> QED BY <1>1, <1>2, <1>5, <2>1 DEF Goto
<1>6. CASE b.pc = "reset3" /\ Goto("reset4") /\ com' = [com EXCEPT !.top = 0] /\ UNCHANGED pend
  <2>1. /\ com' \in ComBuf /\ com'.top = 0 /\ com'.in = com.in /\ com'.bottom = com.bottom
        /\ com'.bottomCount = com.bottomCount
    BY <1>1, <1>3, <1>6, ComSets
  <2> QED BY <1>1, <1>2, <1>6, <2>1 DEF Goto
<1>7. CASE b.pc = "reset4" /\ Goto("clear1") /\ com' = [com EXCEPT !.topCount = 0] /\ UNCHANGED pend
  <2>1. /\ com' \in ComBuf /\ com'.topCount = 0 /\ com'.in = com.in /\ com'.bottom = com.bottom
        /\ com'.bottomCount = com.bottomCount /\ com'.top = com.top
    BY <1>1, <1>3, <1>7, ComSets
  <2> QED BY <1>1, <1>2, <1>7, <2>1 DEF Goto
<1> QED BY <1>4, <1>5, <1>6, <1>7 DEF BReset

LEMMA StepComTypes == Types /\ [Next]_vars => ComTypes'
<1> SUFFICES ASSUME Types, [Next]_vars PROVE ComTypes'
  OBVIOUS
<1>0. /\ com \in ComBuf /\ fifo \in Seq(Int) /\ Len(fifo) <= RxFifo /\ pend \in Seq(Int)
      /\ tmr.pc # "count" => com.bottom < COM_IN
  BY DEF Types, ComTypes
<1>1. CASE Quiet
  <2>1. fifo' \in Seq(Int) /\ Len(fifo') <= RxFifo
    <3>1. CASE HostTypes
      <4>1. \E x \in Int : fifo' = Append(fifo, x)
        BY <3>1 DEF HostTypes, Types, FlagTypes, AT
      <4>2. Len(fifo) < RxFifo /\ Len(fifo) \in Nat
        BY <1>0, <3>1, LenProperties DEF HostTypes
      <4> QED BY <1>0, <4>1, <4>2, AppendIs, Sizes
    <3> QED BY <1>0, <1>1, <3>1 DEF Quiet
  <2> QED BY <1>0, <1>1, <2>1 DEF Quiet, SameText, ComTypes
<1>2. CASE Isr
  <2>1. fifo' = <<>> /\ pend' = pend \o fifo /\ UNCHANGED tmr
    BY <1>2 DEF Isr
  <2>2. com' \in ComBuf /\ (com.bottom < COM_IN => com'.bottom < COM_IN)
    BY <1>2, IsrDoes
  <2>3. pend' \in Seq(Int) /\ fifo' \in Seq(Int) /\ Len(fifo') <= RxFifo
    BY <1>0, <2>1, ConcatProperties, Sizes
  <2> QED BY <1>0, <2>1, <2>2, <2>3 DEF ComTypes
<1>3. CASE TmrStore
  <2>1. com.bottom < COM_IN
    BY <1>0, <1>3, TmrStoreDoes
  <2> QED BY <1>0, <1>3, <2>1, TmrStoreDoes DEF ComTypes
<1>4. CASE TmrIndex
  BY <1>0, <1>4, TmrIndexDoes DEF ComTypes
<1>5. CASE TmrCount
  <2>1. tmr.byte \in Int
    BY DEF Types, TmrTypes
  <2> QED BY <1>0, <1>5, <2>1, TmrCountDoes, AppendIs DEF ComTypes
<1>6. CASE TmrTick \/ TmrRead \/ TmrEnd
  BY <1>0, <1>6, TmrElseDoes DEF ComTypes, SameText
<1>7. CASE Taken
  <2>1. PICK n \in Nat : /\ n >= 1 /\ n <= Count(com) /\ n <= COM_IN - com.top /\ PopData(n)
                         /\ UNCHANGED <<tmr, b, fifo>>
    BY <1>7 DEF Taken
  <2> QED BY <1>0, <2>1, TakenDoes DEF ComTypes
<1>8. CASE BtWild
  BY <1>0, <1>8 DEF BtWild, UNCHANGED_Bt, ComTypes
<1>9. CASE BTerminate
  BY <1>0, <1>9, BTerminateDoes DEF ComTypes
<1>10. CASE BReset
  <2>1. pend' \in Seq(Int)
    <3>1. pend' = pend \/ pend' = <<>>
      BY <1>10, BResetDoes
    <3>2. <<>> \in Seq(Int)
      BY EmptySeq
    <3> QED BY <1>0, <3>1, <3>2
  <2> QED BY <1>0, <1>10, <2>1, BResetDoes DEF ComTypes
<1> QED BY <1>1, <1>2, <1>3, <1>4, <1>5, <1>6, <1>7, <1>8, <1>9, <1>10, Kinds DEF Tmr

LEMMA StepTmrTypes == Types /\ [Next]_vars => TmrTypes'
<1> SUFFICES ASSUME Types, [Next]_vars PROVE TmrTypes'
  OBVIOUS
<1>0. TmrTypes
  BY DEF Types
<1>1. CASE Isr
  <2>1. UNCHANGED tmr
    BY <1>1 DEF Isr
  <2> QED BY <1>0, <1>1, <2>1, IsrDoes DEF TmrTypes
<1>2. CASE Tmr
  BY <1>2, TmrStoreDoes, TmrIndexDoes, TmrCountDoes, TmrElseDoes DEF Tmr
<1>3. CASE ~Isr /\ ~Tmr
  <2>1. UNCHANGED <<tmr, rx>>
    <3>1. CASE HostTypes
      BY <3>1 DEF HostTypes
    <3>2. CASE Bt
      BY <3>2 DEF Bt, BtRecv, BtStart, BtClear, BtSend, BtWild, BtEnd, UNCHANGED_Bt
    <3>3. CASE B
      BY <3>3 DEF B, BTake, BParse, BTerminate, BHandle, BReset, BClear, BSendByBle, BOut, BOutEnd,
                  BOutClear, UNCHANGED_B
    <3>4. CASE LowPowerTask \/ Credit \/ LinkChanges \/ WakeUp \/ UNCHANGED vars
      BY <3>4 DEF LowPowerTask, Credit, LinkChanges, WakeUp, vars, comVars
    <3>5. CASE \E n \in PacketLens : PeerSends(n)
      BY <3>5 DEF PeerSends, comVars
    <3> QED BY <1>3, <3>1, <3>2, <3>3, <3>4, <3>5 DEF Next
  <2> QED BY <1>0, <2>1 DEF TmrTypes
<1> QED BY <1>1, <1>2, <1>3

LEMMA StepBTypes == Types /\ [Next]_vars => BTypes'
<1> SUFFICES ASSUME Types, [Next]_vars PROVE BTypes'
  OBVIOUS
<1>0. /\ b \in [pc : BPc, index : 0 .. COM_IN - 1, state : ComStates]
      /\ com \in ComBuf /\ com.state \in ComStates
      /\ tmr.pc # "count" => com.bottom \in 0 .. COM_IN - 1
  BY ComFields, Sizes DEF Types, BTypes, ComTypes
<1>1. ASSUME NEW pc \in BPc, Goto(pc) PROVE BTypes'
  BY <1>0, <1>1 DEF Goto, BTypes
<1>2. CASE BParse
  <2>1. tmr.pc = "idle"
    BY <1>2 DEF BParse, BtDone, TmrDone
  <2>2. CASE b' = [b EXCEPT !.pc = "end", !.index = com.bottom]
    BY <1>0, <2>1, <2>2 DEF BTypes, BPc
  <2> QED BY <1>1, <1>2, <2>2 DEF BParse, BPc
<1>3. CASE BClear
  <2>1. \E pc \in BPc, x \in ComStates : b' = [b EXCEPT !.pc = pc, !.state = x]
    <3>1. com.state \ {PARSE_CMD} \in ComStates /\ com.state \ {SEND_BY_BLE} \in ComStates /\ {} \in ComStates
      BY <1>0 DEF ComStates
    <3>2. {"clear2", "ble", "sent2", "com"} \subseteq BPc
      BY DEF BPc
    <3> QED BY <1>3, <3>1, <3>2 DEF BClear
  <2> QED BY <1>0, <2>1 DEF BTypes
<1>4. CASE BTake
  BY <1>1, <1>4 DEF BTake, BPc
<1>5. CASE BTerminate
  BY <1>1, <1>5 DEF BTerminate, BPc
<1>6. CASE BHandle
  BY <1>1, <1>6 DEF BHandle, BPc
<1>7. CASE BReset
  BY <1>1, <1>7 DEF BReset, BPc
<1>8. CASE BSendByBle
  BY <1>1, <1>8 DEF BSendByBle, BPc
<1>9. CASE BOutEnd
  BY <1>1, <1>9 DEF BOutEnd, BPc
<1>10. CASE BOutClear
  BY <1>1, <1>10 DEF BOutClear, BPc
<1>11. CASE UNCHANGED b
  BY <1>0, <1>11 DEF BTypes
<1>12. CASE ~B
  <2>1. UNCHANGED b
    <3>1. CASE HostTypes \/ Isr
      BY <3>1 DEF HostTypes, Isr
    <3>2. CASE Bt
      BY <3>2 DEF Bt, BtRecv, BtStart, BtClear, BtSend, BtWild, BtEnd, UNCHANGED_Bt
    <3>3. CASE Tmr
      BY <3>3 DEF Tmr, TmrTick, TmrRead, TmrStore, TmrIndex, TmrCount, TmrEnd, UNCHANGED_Tmr
    <3>4. CASE LowPowerTask \/ Credit \/ LinkChanges \/ WakeUp \/ UNCHANGED vars
      BY <3>4 DEF LowPowerTask, Credit, LinkChanges, WakeUp, vars
    <3>5. CASE \E n \in PacketLens : PeerSends(n)
      BY <3>5 DEF PeerSends
    <3> QED BY <1>12, <3>1, <3>2, <3>3, <3>4, <3>5 DEF Next
  <2> QED BY <1>11, <2>1
<1>13. CASE BOut
  BY <1>11, <1>13 DEF BOut
<1> QED BY <1>2, <1>3, <1>4, <1>5, <1>6, <1>7, <1>8, <1>9, <1>10, <1>12, <1>13 DEF B

(* What a step does to ble_buf. *)
SameBle ==
  /\ ble' \in BleBuf /\ ble'.top = ble.top /\ ble'.topCount = ble.topCount
  /\ ble'.bottom = ble.bottom /\ ble'.bottomCount = ble.bottomCount /\ ble'.in = ble.in
  /\ UNCHANGED <<peer, uart, overrun>>

LEMMA BleFields ==
  ASSUME NEW buf \in BleBuf
  PROVE  /\ buf.top \in 0 .. BLE_IN - 1 /\ buf.topCount \in Nat
         /\ buf.bottom \in 0 .. BLE_IN - 1 /\ buf.bottomCount \in Nat
         /\ buf.in \in [0 .. BLE_IN -> Int]
BY DEF BleBuf

(* The packet in the cells: byte k of n after the last one. *)
Packet(buf, n) ==
  [i \in DOMAIN buf.in |->
     IF \E k \in 1 .. n : Wrapped(buf.bottom + k - 1, BLE_IN) = i
     THEN peer + CHOOSE k \in 1 .. n : Wrapped(buf.bottom + k - 1, BLE_IN) = i ELSE buf.in[i]]

LEMMA BtRecvDoes ==
  ASSUME BleTypes, BtRecv
  PROVE  \E n \in 1 .. BLE_IN :
           /\ ble' \in BleBuf /\ ble'.top = ble.top /\ ble'.bottom = Wrapped(ble.bottom + n, BLE_IN)
           /\ ble'.in = Packet(ble, n)
           /\ \/ ble'.topCount = ble.topCount /\ ble'.bottomCount = ble.bottomCount + n
              \/ ble.bottomCount = ble.topCount /\ ble'.topCount = 0 /\ ble'.bottomCount = n
           /\ peer' = peer + n /\ UNCHANGED uart
           /\ overrun' = (overrun \/ Count(ble') > BLE_IN)
<1> DEFINE n == Head(queue)
           r == Restarted(ble)
           x == ble.state \cup {SEND_BY_COM}
           w == Wrapped(ble.bottom + n, BLE_IN)
           cells == Packet(ble, n)
<1>0. ble \in BleBuf /\ peer \in Nat
  BY DEF BleTypes
<1>1. n \in 1 .. BLE_IN
  BY Sizes DEF BtRecv
<1>2. /\ r \in BleBuf /\ r.state = ble.state /\ r.top = ble.top
      /\ r.bottom = ble.bottom /\ r.in = ble.in
      /\ \/ r.topCount = ble.topCount /\ r.bottomCount = ble.bottomCount
         \/ ble.bottomCount = ble.topCount /\ r.topCount = 0 /\ r.bottomCount = 0
  <2>1. CASE ~(ble.bottomCount >= CountReset /\ Count(ble) = 0)
    BY <1>0, <2>1 DEF Restarted
  <2>2. CASE ble.bottomCount >= CountReset /\ Count(ble) = 0
    <3>1. r = [ble EXCEPT !.bottomCount = 0, !.topCount = 0]
      BY <2>2 DEF Restarted
    <3>2. /\ r \in BleBuf /\ r.state = ble.state /\ r.top = ble.top
          /\ r.bottom = ble.bottom /\ r.in = ble.in /\ r.topCount = 0 /\ r.bottomCount = 0
      <4> HIDE DEF r
      <4> QED BY <1>0, <3>1 DEF BleBuf
    <3>3. ble.bottomCount = ble.topCount
      BY <1>0, <2>2, BleFields DEF Count
    <3> QED BY <3>2, <3>3
  <2> QED BY <2>1, <2>2
<1>3. ble' = [r EXCEPT !.in = [i \in DOMAIN r.in |->
                                 IF \E k \in 1 .. n : Wrapped(r.bottom + k - 1, BLE_IN) = i
                                 THEN peer + CHOOSE k \in 1 .. n : Wrapped(r.bottom + k - 1, BLE_IN) = i
                                 ELSE r.in[i]],
                       !.bottom = Wrapped(@ + n, BLE_IN), !.bottomCount = @ + n,
                       !.state = @ \cup {SEND_BY_COM}]
  BY DEF BtRecv
<1>4. peer' = peer + n /\ UNCHANGED uart /\ overrun' = (overrun \/ Count(ble') > BLE_IN)
  BY DEF BtRecv
<1> HIDE DEF n, r
<1>5. ble' = [r EXCEPT !.in = cells, !.bottom = w, !.bottomCount = r.bottomCount + n, !.state = x]
  BY <1>2, <1>3 DEF Packet
<1>6. cells \in [0 .. BLE_IN -> Int]
  <2>1. DOMAIN ble.in = 0 .. BLE_IN /\ \A i \in 0 .. BLE_IN : ble.in[i] \in Int
    BY <1>0, BleFields
  <2>2. ASSUME NEW i \in 0 .. BLE_IN, \E k \in 1 .. n : Wrapped(ble.bottom + k - 1, BLE_IN) = i
        PROVE  (CHOOSE k \in 1 .. n : Wrapped(ble.bottom + k - 1, BLE_IN) = i) \in 1 .. n
    BY <2>2
  <2>3. ASSUME NEW i \in 0 .. BLE_IN PROVE cells[i] \in Int
    <3>1. CASE \E k \in 1 .. n : Wrapped(ble.bottom + k - 1, BLE_IN) = i
      <4> DEFINE c == CHOOSE k \in 1 .. n : Wrapped(ble.bottom + k - 1, BLE_IN) = i
      <4>1. c \in 1 .. n
        BY <2>2, <3>1
      <4>2. cells[i] = peer + c
        BY <2>1, <3>1 DEF Packet
      <4> HIDE DEF c, cells
      <4> QED BY <1>0, <1>1, <4>1, <4>2
    <3>2. CASE ~ \E k \in 1 .. n : Wrapped(ble.bottom + k - 1, BLE_IN) = i
      BY <2>1, <3>2 DEF Packet
    <3> QED BY <3>1, <3>2
  <2> QED BY <2>1, <2>3 DEF Packet
<1>7. w \in 0 .. BLE_IN - 1 /\ r.bottomCount + n \in Nat /\ x \in SUBSET {SEND_BY_COM}
  <2>1. r.bottomCount \in Nat /\ ble.bottom \in 0 .. BLE_IN - 1
    BY <1>0, <1>2, BleFields
  <2>2. ble.state \in SUBSET {SEND_BY_COM}
    BY <1>0 DEF BleBuf
  <2> QED BY <1>1, <2>1, <2>2, Sizes DEF Wrapped
<1> DEFINE k == r.bottomCount + n
<1> HIDE DEF cells, w, x, k
<1>8. ble' = [r EXCEPT !.in = cells, !.bottom = w, !.bottomCount = k, !.state = x]
  BY <1>5 DEF k
<1>9. /\ ble' \in BleBuf /\ ble'.top = r.top /\ ble'.topCount = r.topCount
      /\ ble'.bottom = w /\ ble'.bottomCount = k /\ ble'.in = cells
  <2>1. r \in BleBuf /\ k \in Nat
    BY <1>2, <1>7 DEF k
  <2> QED BY <1>6, <1>7, <1>8, <2>1 DEF BleBuf
<1> QED BY <1>1, <1>2, <1>4, <1>9 DEF cells, w, k

LEMMA BOutDoes ==
  ASSUME BleTypes, BOut
  PROVE  /\ Count(ble) > 0
         /\ ble' \in BleBuf /\ ble'.top = Wrapped(ble.top + 1, BLE_IN) /\ ble'.bottom = ble.bottom
         /\ ble'.in = ble.in /\ ble'.topCount = ble.topCount + 1 /\ ble'.bottomCount = ble.bottomCount
         /\ uart' = Append(uart, ble.in[ble.top]) /\ ble.in[ble.top] \in Int
         /\ UNCHANGED <<peer, overrun>>
<1> DEFINE w == Wrapped(ble.top + 1, BLE_IN)
           k == ble.topCount + 1
<1>0. ble \in BleBuf
  BY DEF BleTypes
<1>1. ble' = [ble EXCEPT !.top = w, !.topCount = k]
  BY DEF BOut
<1>2. w \in 0 .. BLE_IN - 1 /\ k \in Nat /\ ble.in[ble.top] \in Int
  <2>1. /\ ble.top \in 0 .. BLE_IN - 1 /\ ble.topCount \in Nat
        /\ ble.in \in [0 .. BLE_IN -> Int]
    BY <1>0, BleFields
  <2>2. BLE_IN \in Nat /\ BLE_IN > 0
    BY Sizes
  <2>3. w \in 0 .. BLE_IN - 1
    BY <2>1, <2>2 DEF Wrapped
  <2>4. ble.top \in 0 .. BLE_IN
    BY <2>1, <2>2
  <2>5. ble.in[ble.top] \in Int
    BY <2>1, <2>4
  <2> QED BY <2>1, <2>3, <2>5
<1> HIDE DEF w, k
<1>3. /\ ble' \in BleBuf /\ ble'.top = w /\ ble'.topCount = k /\ ble'.bottom = ble.bottom
      /\ ble'.bottomCount = ble.bottomCount /\ ble'.in = ble.in
  BY <1>0, <1>1, <1>2 DEF BleBuf
<1> QED BY <1>2, <1>3 DEF BOut, UNCHANGED_B, w, k

LEMMA BleKinds == BleTypes /\ [Next]_vars => SameBle \/ BtRecv \/ BOut
<1> SUFFICES ASSUME BleTypes, [Next]_vars, ~BtRecv, ~BOut PROVE SameBle
  OBVIOUS
<1>0. ble \in BleBuf
  BY DEF BleTypes
<1>1. CASE BOutClear
  <2>1. ble' = [ble EXCEPT !.state = {}] /\ UNCHANGED <<peer, uart, overrun>>
    BY <1>1 DEF BOutClear, UNCHANGED_B
  <2> QED BY <1>0, <2>1 DEF SameBle, BleBuf
<1>2. CASE ~BOutClear
  <2>1. UNCHANGED <<ble, peer, uart, overrun>>
    <3>1. CASE HostTypes \/ Isr
      BY <3>1 DEF HostTypes, Isr, bleVars
    <3>2. CASE Bt
      BY <3>2 DEF Bt, BtStart, BtClear, BtSend, BtWild, BtEnd, UNCHANGED_Bt, bleVars
    <3>3. CASE Tmr
      BY <3>3 DEF Tmr, TmrTick, TmrRead, TmrStore, TmrIndex, TmrCount, TmrEnd, UNCHANGED_Tmr, bleVars
    <3>4. CASE LowPowerTask \/ Credit \/ LinkChanges \/ WakeUp \/ UNCHANGED vars
      BY <3>4 DEF LowPowerTask, Credit, LinkChanges, WakeUp, vars, bleVars
    <3>5. CASE \E n \in PacketLens : PeerSends(n)
      BY <3>5 DEF PeerSends, bleVars
    <3>6. CASE B
      BY <1>2, <3>6 DEF B, BTake, BParse, BTerminate, BHandle, BReset, BClear, BSendByBle, BOutEnd,
                        UNCHANGED_B
    <3> QED BY <3>1, <3>2, <3>3, <3>4, <3>5, <3>6 DEF Next
  <2> QED BY <1>0, <2>1 DEF SameBle
<1> QED BY <1>1, <1>2

LEMMA StepBleTypes == BleTypes /\ [Next]_vars => BleTypes'
<1> SUFFICES ASSUME BleTypes, [Next]_vars PROVE BleTypes'
  OBVIOUS
<1>1. CASE SameBle
  BY <1>1 DEF SameBle, BleTypes
<1>2. CASE BtRecv
  <2>1. PICK n \in 1 .. BLE_IN : ble' \in BleBuf /\ peer' = peer + n /\ UNCHANGED uart
    BY <1>2, BtRecvDoes
  <2> QED BY <2>1, Sizes DEF BleTypes
<1>3. CASE BOut
  BY <1>3, BOutDoes, AppendIs DEF BleTypes
<1> QED BY <1>1, <1>2, <1>3, BleKinds

LEMMA StepFlagTypes == Types /\ [Next]_vars => FlagTypes'
<1> SUFFICES ASSUME Types, [Next]_vars PROVE FlagTypes'
  OBVIOUS
<1> USE DEF FlagTypes
<1>0. FlagTypes
  BY DEF Types
<1>1. CASE HostTypes
  BY <1>0, <1>1 DEF HostTypes, bleVars, linkVars
<1>2. CASE Isr
  <2>1. sem' \in BOOLEAN
    BY <1>2, IsrDoes
  <2>2. /\ UNCHANGED <<sending, link, credit, request, power, faithful, overrun, missed, bt, typed,
                       commands, executed>>
        /\ spoilt' \in BOOLEAN
    BY <1>0, <1>2 DEF Isr, bleVars, linkVars, hist
  <2> QED BY <1>0, <2>1, <2>2
<1>3. CASE Tmr
  <2>1. /\ UNCHANGED <<sending, link, credit, request, power, faithful, overrun, missed, bt, typed,
                       commands, executed>>
    BY <1>3 DEF Tmr, TmrTick, TmrRead, TmrStore, TmrIndex, TmrCount, TmrEnd, UNCHANGED_Tmr, bleVars,
                linkVars, hist
  <2>2. sem' \in BOOLEAN /\ spoilt' \in BOOLEAN
    <3>1. CASE TmrStore
      BY <1>0, <3>1 DEF TmrStore
    <3>2. CASE TmrIndex
      BY <1>0, <3>2 DEF TmrIndex
    <3>3. CASE TmrCount
      BY <1>0, <3>3 DEF TmrCount
    <3>4. CASE TmrTick \/ TmrRead \/ TmrEnd
      BY <1>0, <3>4, TmrElseDoes
    <3> QED BY <1>3, <3>1, <3>2, <3>3, <3>4 DEF Tmr
  <2> QED BY <1>0, <2>1, <2>2
<1>4. CASE LowPowerTask
  BY <1>0, <1>4 DEF LowPowerTask, comVars, bleVars, hist
<1>5. CASE BtRecv
  BY <1>0, <1>5 DEF BtRecv, UNCHANGED_Bt, ExitSaving
<1>6. CASE BtStart
  BY <1>0, <1>6 DEF BtStart, UNCHANGED_Bt, bleVars, linkVars
<1>7. CASE BtClear
  BY <1>0, <1>7 DEF BtClear, UNCHANGED_Bt, bleVars, linkVars, PopData
<1>8. CASE BtSend
  <2>1. faithful' \in BOOLEAN /\ spoilt' \in BOOLEAN /\ credit' \in BOOLEAN
    BY <1>0, <1>8 DEF BtSend, PopData
  <2> QED BY <1>0, <1>8, <2>1 DEF BtSend, UNCHANGED_Bt, bleVars
<1>9. CASE BtWild
  BY <1>0, <1>9 DEF BtWild, UNCHANGED_Bt, bleVars, linkVars
<1>10. CASE BtEnd
  <2>1. request' \in BOOLEAN
    BY <1>0, <1>10 DEF BtEnd
  <2> QED BY <1>0, <1>10, <2>1 DEF BtEnd, UNCHANGED_Bt, bleVars
<1>11. CASE B
  <2>1. /\ UNCHANGED <<sending, link, credit, request, power, faithful, overrun, missed, bt, typed,
                       commands>>
    BY <1>11 DEF B, BTake, BParse, BTerminate, BHandle, BReset, BClear, BSendByBle, BOut, BOutEnd,
                 BOutClear, UNCHANGED_B, linkVars
  <2>2. sem' \in BOOLEAN
    <3>1. CASE BHandle
      BY <1>0, <3>1 DEF BHandle
    <3> QED BY <1>0, <1>11, <3>1 DEF B, BTake, BParse, BTerminate, BReset, BClear, BSendByBle, BOut,
                                      BOutEnd, BOutClear
  <2>3. spoilt' \in BOOLEAN
    <3>1. CASE BTerminate
      BY <1>0, <3>1 DEF BTerminate
    <3> QED BY <1>0, <1>11, <3>1 DEF B, BTake, BParse, BHandle, BReset, BClear, BSendByBle, BOut,
                                      BOutEnd, BOutClear
  <2>4. executed' \in Nat
    <3>0. executed \in Nat
      BY <1>0
    <3>1. CASE BHandle
      <4>1. executed' = executed + 1 \/ executed' = executed
        BY <3>1 DEF BHandle
      <4> QED BY <3>0, <4>1
    <3>2. CASE ~BHandle
      <4>1. executed' = executed
        BY <1>11, <3>2 DEF B, BTake, BParse, BTerminate, BReset, BClear, BSendByBle, BOut, BOutEnd,
                           BOutClear
      <4> QED BY <3>0, <4>1
    <3> QED BY <3>1, <3>2
  <2> QED BY <1>0, <2>1, <2>2, <2>3, <2>4
<1>12. CASE \E n \in PacketLens : PeerSends(n)
  BY <1>0, <1>12 DEF PeerSends, comVars, bleVars, linkVars, hist
<1>13. CASE Credit
  BY <1>0, <1>13 DEF Credit, comVars, bleVars, hist
<1>14. CASE LinkChanges
  <2>1. link' \in BOOLEAN
    BY <1>0, <1>14 DEF LinkChanges
  <2> QED BY <1>0, <1>14, <2>1 DEF LinkChanges, comVars, bleVars, hist
<1>15. CASE WakeUp
  BY <1>0, <1>15 DEF WakeUp, ExitSaving, comVars, bleVars, hist
<1>16. CASE UNCHANGED vars
  BY <1>0, <1>16 DEF vars, comVars, bleVars, linkVars, hist
<1> QED BY <1>1, <1>2, <1>3, <1>4, <1>5, <1>6, <1>7, <1>8, <1>9, <1>10, <1>11, <1>12, <1>13, <1>14,
           <1>15, <1>16 DEF Next, Bt

LEMMA InitTypes == Init => Types
<1> SUFFICES ASSUME Init PROVE Types
  OBVIOUS
<1>1. <<>> \in Seq(Int) /\ Len(<<>>) = 0
  BY EmptySeq
<1>2. Empty(COM_IN) \in ComBuf /\ Empty(COM_IN).bottom = 0
  <2>1. 0 \in 0 .. COM_IN - 1 /\ 0 \in 0 .. COM_IN /\ 0 \in Nat /\ {} \in ComStates
    BY Sizes DEF ComStates
  <2>2. [i \in 0 .. COM_IN |-> NUL] \in ComCells
    BY DEF ComCells, NUL
  <2> QED BY <2>1, <2>2 DEF Empty, ComBuf
<1>3. Empty(BLE_IN) \in BleBuf
  <2>1. 0 \in 0 .. BLE_IN - 1 /\ 0 \in Nat /\ {} \in SUBSET {SEND_BY_COM}
    BY Sizes
  <2>2. [i \in 0 .. BLE_IN |-> NUL] \in [0 .. BLE_IN -> Int]
    BY DEF NUL
  <2> QED BY <2>1, <2>2 DEF Empty, BleBuf
<1>4. ComTypes
  BY <1>1, <1>2, Sizes DEF Init, ComTypes
<1>5. TmrTypes
  <2>1. tmr = [pc |-> "idle", byte |-> 0, index |-> 0, count |-> 0, have |-> FALSE]
    BY DEF Init, TmrIdle, NUL
  <2>2. 0 \in Int /\ 0 \in 0 .. COM_IN - 1 /\ 0 \in Nat /\ "idle" \in TmrPc /\ 0 \in 0 .. TMR_CLK_1S_COUNT
    BY Sizes DEF TmrPc
  <2> QED BY <2>1, <2>2 DEF Init, TmrTypes
<1>6. BTypes
  <2>1. 0 \in 0 .. COM_IN - 1 /\ "wait" \in BPc /\ {} \in ComStates
    BY Sizes DEF BPc, ComStates
  <2> QED BY <2>1 DEF Init, BTypes
<1>7. BleTypes
  BY <1>1, <1>3 DEF Init, BleTypes
<1>8. FlagTypes
  <2>1. /\ sem = FALSE /\ sending = FALSE /\ link = FALSE /\ credit = TRUE /\ request = FALSE
        /\ faithful = TRUE /\ spoilt = FALSE /\ overrun = FALSE /\ missed = FALSE
    BY DEF Init
  <2>2. bt = "idle" /\ power = "saving" /\ typed = 0 /\ commands = 0 /\ executed = 0
    BY DEF Init
  <2>3. {sem, sending, link, credit, request, faithful, spoilt, overrun, missed} \subseteq BOOLEAN
    BY <2>1, Zenon
  <2>4. {typed, commands, executed} \subseteq Nat
    BY <2>2
  <2> QED BY <2>2, <2>3, <2>4 DEF FlagTypes
<1> QED BY <1>4, <1>5, <1>6, <1>7, <1>8 DEF Types

LEMMA StepTypes == Types /\ [Next]_vars => Types'
BY StepComTypes, StepTmrTypes, StepBTypes, StepBleTypes, StepFlagTypes DEF Types

LEMMA AlwaysTypes == FairSpec => []Types
BY InitTypes, StepTypes, PTL DEF FairSpec

(***************************************************************************)
(* No index leaves its buffer, not even while the tick has moved it one    *)
(* cell too far and the interrupt comes, and every flag is a flag.         *)
(***************************************************************************)
THEOREM BridgeTypeCorrect == FairSpec => []TypeOK
<1>1. Types => TypeOK
  BY ComFields, Sizes DEF Types, ComTypes, TmrTypes, BTypes, BleTypes, FlagTypes, TypeOK, ComBuf,
     BleBuf, ComStates
<1> QED BY <1>1, AlwaysTypes, PTL

-----------------------------------------------------------------------------
(* From the peer to the UART *)

(* ble_buf holds the bytes that came and were not written yet, in order. *)
Queued(buf) ==
  /\ Count(buf) \in 0 .. BLE_IN /\ Count(buf) = peer - Len(uart)
  /\ buf.bottom = Wrapped(buf.top + Count(buf), BLE_IN)
  /\ \A k \in 1 .. Count(buf) : buf.in[Wrapped(buf.top + k - 1, BLE_IN)] = Len(uart) + k
  /\ \A i \in 1 .. Len(uart) : uart[i] = i
BleKept == ~overrun => Queued(ble)

(* The index c cells on from t in a buffer of len cells, and the cell of   *)
(* the k-th byte when the first one is at t.                               *)
Onward(t, c, len) == Wrapped(t + c, len)
Place(t, k, len)  == Wrapped(t + k - 1, len)

LEMMA OnwardOn ==
  ASSUME NEW len \in Nat, NEW t \in Nat, NEW c \in Nat, NEW n \in Nat, t < len, c + n <= len
  PROVE  /\ Onward(t, c, len) \in Int
         /\ Onward(Onward(t, c, len), n, len) = Onward(t, c + n, len)
<1>1. CASE t + c >= len
  <2>1. Wrapped(t + c, len) = t + c - len
    BY <1>1 DEF Wrapped
  <2>2. ~(t + c - len + n >= len) /\ t + (c + n) >= len /\ t + c - len + n = t + (c + n) - len
    BY <1>1
  <2> QED BY <2>1, <2>2 DEF Wrapped, Onward
<1>2. CASE ~(t + c >= len)
  <2>1. Wrapped(t + c, len) = t + c
    BY <1>2 DEF Wrapped
  <2>2. t + c + n = t + (c + n)
    OBVIOUS
  <2> QED BY <2>1, <2>2 DEF Onward
<1> QED BY <1>1, <1>2

LEMMA PlaceOn ==
  ASSUME NEW len \in Nat, NEW t \in Nat, NEW c \in Nat, NEW k \in Nat, t < len, 1 <= k, c + k <= len
  PROVE  Place(Onward(t, c, len), k, len) = Place(t, c + k, len)
<1> DEFINE q == k - 1
           w == Onward(t, c, len)
<1>1. q \in Nat /\ c + q <= len /\ k = q + 1
  OBVIOUS
<1> HIDE DEF q
<1>2. w \in Int /\ Onward(w, q, len) = Onward(t, c + q, len)
  BY <1>1, OnwardOn
<1> HIDE DEF w
<1>4. w + k - 1 = w + q /\ t + (c + k) - 1 = t + (c + q)
  BY <1>1, <1>2
<1> QED BY <1>2, <1>4 DEF w, Place, Onward

(* No two of len indices in a row are the same cell. *)
LEMMA WrappedApart ==
  ASSUME NEW len \in Nat, NEW t \in Nat, NEW k \in Nat, NEW j \in Nat, t < len,
         1 <= k, k <= len, 1 <= j, j <= len
  PROVE  /\ Wrapped(t + k - 1, len) = Wrapped(t + j - 1, len) => k = j
         /\ Wrapped(t + k - 1, len) \in 0 .. len
<1>1. \/ Wrapped(t + k - 1, len) = t + k - 1 /\ t + k - 1 < len
      \/ Wrapped(t + k - 1, len) = t + k - 1 - len /\ t + k - 1 >= len
  BY DEF Wrapped
<1>2. \/ Wrapped(t + j - 1, len) = t + j - 1 /\ t + j - 1 < len
      \/ Wrapped(t + j - 1, len) = t + j - 1 - len /\ t + j - 1 >= len
  BY DEF Wrapped
<1> DEFINE x == Wrapped(t + k - 1, len)
           y == Wrapped(t + j - 1, len)
<1> HIDE DEF x, y
<1>3. x = y => k = j
  BY <1>1, <1>2 DEF x, y
<1>4. x \in 0 .. len
  BY <1>1 DEF x
<1> QED BY <1>3, <1>4 DEF x, y

LEMMA RecvKept == BleTypes /\ BleKept /\ BtRecv => BleKept'
<1> SUFFICES ASSUME BleTypes, BleKept, BtRecv, ~overrun' PROVE Queued(ble)'
  BY DEF BleKept
<1>0. PICK n \in 1 .. BLE_IN :
        /\ ble' \in BleBuf /\ ble'.top = ble.top /\ ble'.bottom = Wrapped(ble.bottom + n, BLE_IN)
        /\ ble'.in = Packet(ble, n)
        /\ \/ ble'.topCount = ble.topCount /\ ble'.bottomCount = ble.bottomCount + n
           \/ ble.bottomCount = ble.topCount /\ ble'.topCount = 0 /\ ble'.bottomCount = n
        /\ peer' = peer + n /\ UNCHANGED uart
        /\ overrun' = (overrun \/ Count(ble') > BLE_IN)
  BY BtRecvDoes
<1> DEFINE c == Count(ble)
           d == ble'.bottomCount - ble'.topCount
           m == Len(uart)
           Cell(k) == Wrapped(ble.top + k - 1, BLE_IN)
<1>1. /\ ble \in BleBuf /\ peer \in Nat /\ uart \in Seq(Int) /\ m \in Nat
  BY LenProperties DEF BleTypes
<1>2. /\ ble.top \in 0 .. BLE_IN - 1 /\ ble.bottom \in 0 .. BLE_IN - 1
      /\ ble.topCount \in Nat /\ ble.bottomCount \in Nat /\ ble.in \in [0 .. BLE_IN -> Int]
  BY <1>1, BleFields
<1>3. /\ c \in 0 .. BLE_IN /\ c = peer - m
      /\ ble.bottom = Wrapped(ble.top + c, BLE_IN)
      /\ \A k \in 1 .. c : ble.in[Cell(k)] = m + k
      /\ \A i \in 1 .. m : uart[i] = i
  <2>1. Queued(ble)
    BY <1>0 DEF BleKept
  <2> QED BY <2>1 DEF Queued
<1>4. d = c + n
  BY <1>0, <1>2 DEF Count
<1>5. d <= BLE_IN
  <2>1. ~(d > BLE_IN)
    BY <1>0 DEF Count
  <2>2. d \in Int
    BY <1>3, <1>4
  <2> QED BY <2>1, <2>2, Sizes
<1> HIDE DEF c, d, m
<1>6. /\ c \in Nat /\ n \in Nat /\ 1 <= n /\ c + n <= BLE_IN
      /\ BLE_IN \in Nat /\ ble.top \in Nat /\ ble.top < BLE_IN
  BY <1>2, <1>3, <1>4, <1>5, Sizes
<1>7. ble'.bottom = Wrapped(ble.top + d, BLE_IN)
  <2>1. Onward(Onward(ble.top, c, BLE_IN), n, BLE_IN) = Onward(ble.top, c + n, BLE_IN)
    BY <1>6, OnwardOn
  <2> QED BY <1>0, <1>3, <1>4, <2>1 DEF Onward
<1>8. \A k \in 1 .. n : Wrapped(ble.bottom + k - 1, BLE_IN) = Cell(c + k)
  <2> TAKE k \in 1 .. n
  <2>1. k \in Nat /\ 1 <= k /\ c + k <= BLE_IN
    BY <1>6
  <2>2. Place(Onward(ble.top, c, BLE_IN), k, BLE_IN) = Place(ble.top, c + k, BLE_IN)
    BY <1>6, <2>1, PlaceOn
  <2> QED BY <1>3, <2>2, Zenon DEF Place, Onward
<1>9. \A k, j \in 1 .. BLE_IN : Cell(k) = Cell(j) => k = j
  <2> TAKE k, j \in 1 .. BLE_IN
  <2>1. k \in Nat /\ 1 <= k /\ k <= BLE_IN /\ j \in Nat /\ 1 <= j /\ j <= BLE_IN
    BY <1>6
  <2> QED BY <1>6, <2>1, WrappedApart
<1>10. \A k \in 1 .. BLE_IN : Cell(k) \in 0 .. BLE_IN
  <2> TAKE k \in 1 .. BLE_IN
  <2>1. k \in Nat /\ 1 <= k /\ k <= BLE_IN
    BY <1>6
  <2> QED BY <1>6, <2>1, WrappedApart
<1> HIDE DEF Cell
<1>11. ASSUME NEW k \in 1 .. d PROVE ble'.in[Cell(k)] = m + k
  <2>0. k \in Nat /\ 1 <= k /\ k <= c + n /\ k \in 1 .. BLE_IN
    BY <1>4, <1>6, Sizes
  <2>1. CASE k <= c
    <3>1. \A j \in 1 .. n : Wrapped(ble.bottom + j - 1, BLE_IN) # Cell(k)
      <4> SUFFICES ASSUME NEW j \in 1 .. n, Cell(c + j) = Cell(k) PROVE FALSE
        BY <1>8
      <4>0. j \in Nat /\ 1 <= j /\ j <= n
        BY <1>6
      <4>1. c + j \in Nat /\ 1 <= c + j /\ c + j <= BLE_IN /\ c + j # k
        BY <1>6, <2>0, <2>1, <4>0
      <4> QED BY <1>9, <2>0, <4>1
    <3>2. Packet(ble, n)[Cell(k)] = ble.in[Cell(k)]
      BY <1>2, <1>10, <2>0, <3>1 DEF Packet
    <3>3. k \in 1 .. c
      BY <2>0, <2>1, <1>6
    <3> QED BY <1>0, <1>3, <3>2, <3>3
  <2>2. CASE k > c
    <3> DEFINE j == k - c
    <3>1. j \in 1 .. n /\ k = c + j
      BY <1>6, <2>0, <2>2
    <3> HIDE DEF j
    <3>2. Wrapped(ble.bottom + j - 1, BLE_IN) = Cell(k)
      BY <1>8, <3>1
    <3>3. ASSUME NEW i \in 1 .. n, Wrapped(ble.bottom + i - 1, BLE_IN) = Cell(k) PROVE i = j
      <4>1. Cell(c + i) = Cell(k) /\ c + i \in 1 .. BLE_IN
        BY <1>6, <1>8, <3>3
      <4>2. c + i = k
        BY <1>9, <2>0, <4>1
      <4> QED BY <1>6, <3>1, <4>2
    <3>4. (CHOOSE i \in 1 .. n : Wrapped(ble.bottom + i - 1, BLE_IN) = Cell(k)) = j
      BY <3>1, <3>2, <3>3
    <3>5. Packet(ble, n)[Cell(k)] = peer + j
      <4>1. Cell(k) \in DOMAIN ble.in
        BY <1>2, <1>10, <2>0
      <4> QED BY <3>1, <3>2, <3>4, <4>1 DEF Packet
    <3>6. peer + j = m + k
      BY <1>1, <1>3, <1>6, <3>1
    <3> QED BY <1>0, <3>5, <3>6
  <2> QED BY <2>0, <2>1, <2>2, <1>6
<1>12. d \in 0 .. BLE_IN /\ d = peer' - m
  <2>1. peer' = peer + n
    BY <1>0
  <2>2. d = c + n /\ c = peer - m /\ peer \in Nat /\ m \in Nat
    BY <1>1, <1>3, <1>4
  <2> QED BY <1>6, <2>1, <2>2
<1> QED BY <1>0, <1>3, <1>7, <1>11, <1>12 DEF Queued, Count, d, m, Cell

LEMMA OutKept == BleTypes /\ BleKept /\ BOut => BleKept'
<1> SUFFICES ASSUME BleTypes, BleKept, BOut, ~overrun' PROVE Queued(ble)'
  BY DEF BleKept
<1> DEFINE c == Count(ble)
           d == ble'.bottomCount - ble'.topCount
           m == Len(uart)
<1>0. /\ c > 0
      /\ ble' \in BleBuf /\ ble'.top = Wrapped(ble.top + 1, BLE_IN) /\ ble'.bottom = ble.bottom
      /\ ble'.in = ble.in /\ ble'.topCount = ble.topCount + 1 /\ ble'.bottomCount = ble.bottomCount
      /\ uart' = Append(uart, ble.in[ble.top]) /\ ble.in[ble.top] \in Int
      /\ UNCHANGED <<peer, overrun>>
  BY BOutDoes
<1>1. /\ ble \in BleBuf /\ peer \in Nat /\ uart \in Seq(Int) /\ m \in Nat
  BY LenProperties DEF BleTypes
<1>2. /\ ble.top \in 0 .. BLE_IN - 1 /\ ble.bottom \in 0 .. BLE_IN - 1
      /\ ble.topCount \in Nat /\ ble.bottomCount \in Nat
  BY <1>1, BleFields
<1>3. /\ c \in 0 .. BLE_IN /\ c = peer - m
      /\ ble.bottom = Wrapped(ble.top + c, BLE_IN)
      /\ \A k \in 1 .. c : ble.in[Wrapped(ble.top + k - 1, BLE_IN)] = m + k
      /\ \A i \in 1 .. m : uart[i] = i
  <2>1. Queued(ble)
    BY <1>0 DEF BleKept
  <2> QED BY <2>1 DEF Queued
<1>4. d = c - 1
  BY <1>0, <1>2 DEF Count
<1> HIDE DEF c, d, m
<1>5. c \in Nat /\ c >= 1 /\ c <= BLE_IN
  BY <1>0, <1>3, Sizes
<1>60. /\ BLE_IN \in Nat /\ 1 <= BLE_IN /\ ble.top \in Nat /\ ble.top < BLE_IN
       /\ d \in Nat /\ c = 1 + d /\ 1 + d <= BLE_IN
  BY <1>2, <1>4, <1>5, Sizes
<1>6. ble'.bottom = Wrapped(ble'.top + d, BLE_IN)
  <2>1. Onward(Onward(ble.top, 1, BLE_IN), d, BLE_IN) = Onward(ble.top, 1 + d, BLE_IN)
    BY <1>60, OnwardOn
  <2> QED BY <1>0, <1>3, <1>60, <2>1 DEF Onward
<1>7. ble.in[ble.top] = m + 1
  <2>1. Wrapped(ble.top + 1 - 1, BLE_IN) = ble.top /\ 1 \in 1 .. c
    BY <1>5, <1>60 DEF Wrapped
  <2> QED BY <1>3, <2>1
<1>8. /\ Len(uart') = m + 1 /\ uart'[m + 1] = m + 1
      /\ \A i \in 1 .. m : uart'[i] = i
  BY <1>0, <1>1, <1>3, <1>7, AppendIs DEF m
<1>9. \A i \in 1 .. m + 1 : uart'[i] = i
  BY <1>1, <1>8
<1>10. ASSUME NEW k \in 1 .. d PROVE ble'.in[Wrapped(ble'.top + k - 1, BLE_IN)] = (m + 1) + k
  <2>1. k + 1 \in 1 .. c /\ k \in Nat /\ 1 <= k
    BY <1>4, <1>5
  <2>2. Wrapped(ble'.top + k - 1, BLE_IN) = Wrapped(ble.top + (k + 1) - 1, BLE_IN)
    <3>1. 1 + k <= BLE_IN /\ 1 + k = k + 1
      BY <1>60, <2>1
    <3>2. Place(Onward(ble.top, 1, BLE_IN), k, BLE_IN) = Place(ble.top, 1 + k, BLE_IN)
      BY <1>60, <2>1, <3>1, PlaceOn
    <3>3. Place(ble'.top, k, BLE_IN) = Place(ble.top, k + 1, BLE_IN)
      BY <1>0, <3>1, <3>2 DEF Onward
    <3> QED BY <3>3, Zenon DEF Place
  <2>3. ble.in[Wrapped(ble.top + (k + 1) - 1, BLE_IN)] = m + (k + 1)
    BY <1>3, <2>1
  <2> QED BY <1>0, <1>1, <2>1, <2>2, <2>3
<1>11. d \in 0 .. BLE_IN /\ d = peer' - (m + 1)
  <2>1. peer' = peer
    BY <1>0
  <2>2. c = peer - m /\ peer \in Nat /\ m \in Nat
    BY <1>1, <1>3
  <2> QED BY <1>60, <2>1, <2>2
<1> QED BY <1>6, <1>8, <1>9, <1>10, <1>11 DEF Queued, Count, d

LEMMA InitBle == Init => BleKept
<1> SUFFICES ASSUME Init PROVE Queued(ble)
  BY DEF BleKept
<1>1. /\ ble.top = 0 /\ ble.bottom = 0 /\ ble.topCount = 0 /\ ble.bottomCount = 0
      /\ peer = 0 /\ Len(uart) = 0
  BY EmptySeq DEF Init, Empty
<1> QED BY <1>1, Sizes DEF Queued, Count, Wrapped

LEMMA StepBle == BleTypes /\ BleKept /\ [Next]_vars => BleKept'
<1>1. BleTypes /\ BleKept /\ SameBle => BleKept'
  BY DEF SameBle, BleKept, Queued, Count
<1> QED BY <1>1, RecvKept, OutKept, BleKinds

(***************************************************************************)
(* The UART gets the peer's bytes in order and without a gap, whatever     *)
(* packets come while the task writes them and however the counts restart, *)
(* until ble_buf overflows.                                                *)
(***************************************************************************)
THEOREM HostAlwaysGets == FairSpec => []HostGetsPeerBytes
<1>1. BleTypes /\ BleKept => HostGetsPeerBytes
  <2> SUFFICES ASSUME BleTypes, Queued(ble)
               PROVE  uart = [i \in 1 .. Len(uart) |-> i] /\ Count(ble) = peer - Len(uart)
    BY DEF BleKept, HostGetsPeerBytes
  <2>1. uart = [i \in 1 .. Len(uart) |-> uart[i]]
    BY LenProperties DEF BleTypes
  <2> QED BY <2>1 DEF Queued
<1>2. Types /\ BleKept /\ [Next]_vars => BleKept'
  BY StepBle DEF Types
<1>3. Types => BleTypes
  BY DEF Types
<1> QED BY <1>1, <1>2, <1>3, InitBle, AlwaysTypes, PTL DEF FairSpec

-----------------------------------------------------------------------------
(* From the host to the peer *)

(* The timer task is in the middle of a byte. *)
Storing(t) == t.pc \in {"index", "count"}

(* The buffer holds the text s, and the byte that follows is half stored; a *)
(* full buffer will overflow.                                               *)
Partly(buf, pc, s, t) ==
  /\ Len(s) <= COM_IN
  /\ buf.bottomCount = Before(buf, pc) + Len(s)
  /\ t.index = Free(From(buf, pc), s)
  /\ Len(s) < COM_IN => Holds(buf.in, From(buf, pc), s) /\ buf.in[t.index] = t.byte
  /\ t.pc = "index" => buf.bottom = t.index
  /\ t.pc = "count" => buf.bottom = t.index + 1 /\ t.count = buf.bottomCount

(* com_buf holds what it should, as far as the resets and the timer task   *)
(* have come.                                                               *)
InPlace ==
  /\ (b.pc = "reset2" /\ tmr.pc # "count") => com.bottom = 0
  /\ b.pc = "reset4" => com.top = 0
  /\ (b.pc # "reset2" /\ ~Storing(tmr)) => Fits(com, b.pc, pend)
  /\ (b.pc # "reset2" /\ Storing(tmr)) => Partly(com, b.pc, pend, tmr)
Placed == ~spoilt => InPlace

LEMMA SameFits ==
  ASSUME NEW buf, NEW now, NEW pc, NEW next, NEW s,
         now.top = buf.top, now.topCount = buf.topCount, now.bottom = buf.bottom,
         now.bottomCount = buf.bottomCount, now.in = buf.in,
         next = pc \/ (pc \notin Halfway /\ next \notin Halfway)
  PROVE  /\ Fits(buf, pc, s) => Fits(now, next, s)
         /\ \A t : Partly(buf, pc, s, t) => Partly(now, next, s, t)
<1>1. From(now, next) = From(buf, pc) /\ Before(now, next) = Before(buf, pc)
  BY DEF From, Before, Resetting, Halfway
<1> QED BY <1>1 DEF Fits, Partly

LEMMA QuietPlaced == Types /\ Placed /\ Quiet => Placed'
<1> SUFFICES ASSUME Types, Placed, Quiet, ~spoilt' PROVE InPlace'
  BY DEF Placed
<1>1. InPlace /\ UNCHANGED <<tmr, pend>>
  BY DEF Placed, Quiet
<1>2. /\ com'.top = com.top /\ com'.topCount = com.topCount /\ com'.bottom = com.bottom
      /\ com'.bottomCount = com.bottomCount /\ com'.in = com.in
      /\ b'.pc = b.pc \/ (b.pc \notin Halfway /\ b'.pc \notin Halfway)
  BY DEF Quiet, SameText
<1>3. /\ Fits(com, b.pc, pend) => Fits(com', b'.pc, pend)
      /\ Partly(com, b.pc, pend, tmr) => Partly(com', b'.pc, pend, tmr)
  BY <1>2, SameFits
<1>4. (b'.pc = "reset2" <=> b.pc = "reset2") /\ (b'.pc = "reset4" <=> b.pc = "reset4")
  BY <1>2 DEF Halfway
<1> QED BY <1>1, <1>2, <1>3, <1>4 DEF InPlace

LEMMA IsrPlaced == Types /\ Placed /\ Isr => Placed'
<1> SUFFICES ASSUME Types, Placed, Isr, ~spoilt' PROVE InPlace'
  BY DEF Placed
<1> DEFINE buf == FoldLeft(RxByte, com, fifo)
<1>1. /\ com' \in ComBuf /\ com'.top = buf.top /\ com'.topCount = buf.topCount
      /\ com'.bottom = buf.bottom /\ com'.bottomCount = buf.bottomCount /\ com'.in = buf.in
      /\ buf \in ComBuf /\ buf.top = com.top
  BY IsrDoes
<1>2. /\ ~spoilt /\ Len(pend') <= COM_IN /\ b.pc # "reset2"
      /\ tmr.pc \notin {"store", "index", "count"}
      /\ pend' = pend \o fifo /\ UNCHANGED <<b, tmr>>
  <2>1. /\ spoilt' = (spoilt \/ Len(pend') > COM_IN \/ b.pc = "reset2"
                             \/ tmr.pc \in {"store", "index", "count"})
        /\ pend' = pend \o fifo /\ UNCHANGED <<b, tmr>>
    BY DEF Isr
  <2>2. pend' \in Seq(Int)
    BY <2>1, ConcatProperties DEF Types, ComTypes
  <2>3. Len(pend') \in Nat
    BY <2>2, LenProperties
  <2>4. /\ ~spoilt /\ ~(Len(pend') > COM_IN) /\ b.pc # "reset2"
        /\ tmr.pc \notin {"store", "index", "count"}
    BY <2>1, Zenon
  <2>5. Len(pend') <= COM_IN
    BY <2>3, <2>4, Sizes
  <2> QED BY <2>1, <2>4, <2>5
<1>3. ~Storing(tmr) /\ Fits(com, b.pc, pend) /\ (b.pc = "reset4" => com.top = 0)
  BY <1>2 DEF Placed, InPlace, Storing
<1>4. Fits(buf, b.pc, pend \o fifo)
  <2>1. com \in ComBuf /\ pend \in Seq(Int) /\ fifo \in Seq(Int) /\ Len(pend \o fifo) <= COM_IN
    BY <1>2 DEF Types, ComTypes
  <2> QED BY <1>3, <2>1, FoldFits
<1> HIDE DEF buf
<1>5. Fits(com', b.pc, pend')
  BY <1>1, <1>2, <1>4, SameFits
<1> QED BY <1>1, <1>2, <1>3, <1>5 DEF InPlace

(* The timer task stores the byte: the counts restart only when no text is *)
(* there.                                                                   *)
LEMMA StorePlaced == Types /\ Placed /\ TmrStore => Placed'
<1> SUFFICES ASSUME Types, Placed, TmrStore, ~spoilt' PROVE InPlace'
  BY DEF Placed
<1>1. /\ com' \in ComBuf /\ com'.top = com.top /\ com'.bottom = com.bottom
      /\ com'.in = [com.in EXCEPT ![com.bottom] = tmr.byte]
      /\ \/ com'.topCount = com.topCount /\ com'.bottomCount = com.bottomCount
         \/ /\ com.bottomCount >= CountReset /\ com.bottomCount = com.topCount
            /\ com'.topCount = 0 /\ com'.bottomCount = 0
      /\ tmr.pc = "store" /\ tmr'.pc = "index" /\ tmr'.index = com.bottom /\ tmr'.byte = tmr.byte
      /\ UNCHANGED <<pend, spoilt, b, fifo>>
  BY TmrStoreDoes
<1>2. InPlace /\ ~Storing(tmr) /\ Storing(tmr')
  BY <1>1 DEF Placed, Storing
<1>3. com \in ComBuf /\ pend \in Seq(Int) /\ tmr.byte \in Int
  BY DEF Types, ComTypes, TmrTypes
<1>4. ASSUME b.pc # "reset2" PROVE Partly(com', b.pc, pend, tmr')
  <2>1. Fits(com, b.pc, pend)
    BY <1>2, <1>4 DEF InPlace
  <2> DEFINE from == From(com, b.pc)
  <2>2. from \in 0 .. COM_IN - 1 /\ From(com', b.pc) = from /\ com.bottom = Free(from, pend)
    BY <1>1, <1>3, <2>1, Sizes, ComFields DEF From, Fits
  <2>3. Len(pend) \in Nat /\ Len(pend) <= COM_IN /\ Holds(com.in, from, pend)
    BY <1>3, <2>1, LenProperties DEF Fits
  <2>4. com'.bottomCount = Before(com', b.pc) + Len(pend)
    <3>1. /\ com.bottomCount \in Nat /\ com.topCount \in Nat
          /\ com.bottomCount = Before(com, b.pc) + Len(pend)
      BY <1>3, <2>1, ComFields DEF Fits
    <3>2. CASE com'.topCount = com.topCount /\ com'.bottomCount = com.bottomCount
      BY <3>1, <3>2 DEF Before
    <3>3. CASE /\ com.bottomCount >= CountReset /\ com.bottomCount = com.topCount
               /\ com'.topCount = 0 /\ com'.bottomCount = 0
      <4>1. ~Resetting(b.pc)
        <5>1. Resetting(b.pc) => com.bottomCount = Len(pend)
          BY <2>3, <3>1 DEF Before
        <5> QED BY <2>3, <3>3, <5>1, Sizes
      <4>2. Len(pend) = 0
        BY <2>3, <3>1, <3>3, <4>1 DEF Before
      <4> QED BY <3>3, <4>1, <4>2 DEF Before
    <3> QED BY <1>1, <3>2, <3>3
  <2>5. Len(pend) < COM_IN => Holds(com'.in, from, pend) /\ com'.in[com.bottom] = tmr.byte
    <3>1. com.in \in ComCells
      BY <1>3, ComFields
    <3> HIDE DEF from
    <3>2. com'.in = Put(com.in, Free(from, pend), tmr.byte)
      BY <1>1, <2>2 DEF Put
    <3>3. Len(pend) < COM_IN => Holds(com'.in, from, pend) /\ com'.in[Free(from, pend)] = tmr.byte
      <4>1. from \in 0 .. COM_IN - 1 /\ Holds(com.in, from, pend)
        BY <2>2, <2>3
      <4>2. pend \in Seq(Int) /\ tmr.byte \in Int
        BY <1>3
      <4> SUFFICES ASSUME Len(pend) < COM_IN
                   PROVE  Holds(com'.in, from, pend) /\ com'.in[Free(from, pend)] = tmr.byte
        OBVIOUS
      <4> QED BY <3>1, <3>2, <4>1, <4>2, HoldsMore
    <3> QED BY <2>2, <3>3
  <2> HIDE DEF from
  <2> QED BY <1>1, <2>2, <2>3, <2>4, <2>5 DEF Partly
<1> QED BY <1>1, <1>2, <1>4 DEF InPlace

LEMMA IndexPlaced == Types /\ Placed /\ TmrIndex => Placed'
<1> SUFFICES ASSUME Types, Placed, TmrIndex, ~spoilt' PROVE InPlace'
  BY DEF Placed
<1>1. /\ com' \in ComBuf /\ com'.top = com.top /\ com'.topCount = com.topCount
      /\ com'.bottom = tmr.index + 1 /\ com'.bottomCount = com.bottomCount /\ com'.in = com.in
      /\ tmr.pc = "index" /\ tmr'.pc = "count" /\ tmr'.index = tmr.index /\ tmr'.byte = tmr.byte
      /\ tmr'.count = com.bottomCount
      /\ UNCHANGED <<pend, spoilt, b, fifo>>
  BY TmrIndexDoes
<1>2. InPlace /\ Storing(tmr) /\ Storing(tmr')
  BY <1>1 DEF Placed, Storing
<1>3. Partly(com, b.pc, pend, tmr) => Partly(com', b.pc, pend, tmr')
  BY <1>1 DEF Partly, From, Before
<1> QED BY <1>1, <1>2, <1>3 DEF InPlace

LEMMA CountPlaced == Types /\ Placed /\ TmrCount => Placed'
<1> SUFFICES ASSUME Types, Placed, TmrCount, ~spoilt' PROVE InPlace'
  BY DEF Placed
<1>1. /\ com' \in ComBuf /\ com'.top = com.top /\ com'.topCount = com.topCount
      /\ com'.bottom = Wrapped(com.bottom, COM_IN) /\ com'.bottom < COM_IN
      /\ com'.bottomCount = tmr.count + 1 /\ com'.in = com.in
      /\ tmr.pc = "count" /\ tmr'.pc = "read"
      /\ pend' = Append(pend, tmr.byte) /\ UNCHANGED <<b, fifo>>
      /\ spoilt' = (spoilt \/ Len(pend') > COM_IN \/ b.pc = "reset2")
  BY TmrCountDoes
<1>2. com \in ComBuf /\ pend \in Seq(Int) /\ tmr.byte \in Int
  BY DEF Types, ComTypes, TmrTypes
<1>3. pend' \in Seq(Int) /\ Len(pend') = Len(pend) + 1 /\ Len(pend) \in Nat
  BY <1>1, <1>2, AppendIs, LenProperties
<1>4. ~spoilt /\ Len(pend') <= COM_IN /\ Len(pend) < COM_IN /\ b.pc # "reset2"
  <2>1. ~spoilt /\ ~(Len(pend') > COM_IN) /\ b.pc # "reset2"
    BY <1>1, Zenon
  <2>2. Len(pend') <= COM_IN /\ Len(pend) < COM_IN
    BY <1>3, <2>1, Sizes
  <2> QED BY <2>1, <2>2
<1>5. Partly(com, b.pc, pend, tmr) /\ Storing(tmr) /\ ~Storing(tmr') /\ (b.pc = "reset4" => com.top = 0)
  BY <1>1, <1>4 DEF Placed, InPlace, Storing
<1> DEFINE from == From(com, b.pc)
<1>6. from \in 0 .. COM_IN - 1 /\ From(com', b.pc) = from /\ Before(com', b.pc) = Before(com, b.pc)
  BY <1>1, <1>2, Sizes, ComFields DEF From, Before
<1>7. /\ Holds(com.in, from, pend) /\ com.in[Free(from, pend)] = tmr.byte
      /\ com.bottom = Free(from, pend) + 1
      /\ tmr.count = Before(com, b.pc) + Len(pend)
  BY <1>1, <1>4, <1>5 DEF Partly
<1>8. com'.bottom = Free(from, pend')
  BY <1>1, <1>2, <1>4, <1>6, <1>7, FreeNext
<1>9. com'.bottomCount = Before(com', b.pc) + Len(pend')
  <2>1. Before(com, b.pc) \in Nat
    BY <1>2, ComFields DEF Before
  <2> HIDE DEF from
  <2> QED BY <1>1, <1>3, <1>6, <1>7, <2>1
<1>10. Holds(com'.in, from, pend')
  <2>1. com.in = Put(com.in, Free(from, pend), tmr.byte)
    BY <1>2, <1>7, ComFields DEF ComCells, Put
  <2>2. com.in \in ComCells
    BY <1>2, ComFields
  <2> HIDE DEF from
  <2> QED BY <1>1, <1>2, <1>4, <1>6, <1>7, <2>1, <2>2, HoldsMore
<1> HIDE DEF from
<1>11. Fits(com', b.pc, pend')
  BY <1>4, <1>6, <1>8, <1>9, <1>10 DEF Fits
<1> QED BY <1>1, <1>4, <1>5, <1>11 DEF InPlace

LEMMA TmrPlaced == Types /\ Placed /\ Tmr => Placed'
<1> SUFFICES ASSUME Types, Placed, TmrTick \/ TmrRead \/ TmrEnd PROVE Placed'
  BY StorePlaced, IndexPlaced, CountPlaced DEF Tmr
<1>1. SameText /\ UNCHANGED <<pend, spoilt, b>> /\ ~Storing(tmr) /\ ~Storing(tmr') /\ tmr.pc # "count"
  BY TmrElseDoes DEF Storing
<1>2. Fits(com, b.pc, pend) => Fits(com', b.pc, pend)
  BY <1>1, SameFits DEF SameText
<1> QED BY <1>1, <1>2 DEF Placed, InPlace, SameText

LEMMA TakenPlaced == Types /\ Placed /\ Taken => Placed'
<1> SUFFICES ASSUME Types, Placed, Taken, ~spoilt' PROVE InPlace'
  BY DEF Placed
<1>1. PICK n \in Nat : /\ n >= 1 /\ n <= Count(com) /\ n <= COM_IN - com.top /\ PopData(n)
                       /\ tmr.pc = "idle" /\ UNCHANGED <<tmr, b, fifo>>
  BY DEF Taken
<1>2. /\ com' \in ComBuf /\ com'.top = Wrapped(com.top + n, COM_IN)
      /\ com'.topCount = com.topCount + n /\ com'.bottom = com.bottom
      /\ com'.bottomCount = com.bottomCount /\ com'.in = com.in
      /\ pend' = SubSeq(pend, n + 1, Len(pend)) /\ pend' \in Seq(Int)
      /\ spoilt' = (spoilt \/ b.pc \in {"handle", "reset2", "reset3", "reset4"})
  BY <1>1, TakenDoes
<1>3. ~spoilt /\ b.pc \notin {"handle", "reset2", "reset3", "reset4"}
  BY <1>2, Zenon
<1>4. ~Storing(tmr) /\ ~Storing(tmr') /\ Fits(com, b.pc, pend)
  BY <1>1, <1>3 DEF Placed, InPlace, Storing
<1>5. com \in ComBuf /\ pend \in Seq(Int)
  BY DEF Types, ComTypes
<1>6. /\ From(com, b.pc) = com.top /\ From(com', b.pc) = com'.top
      /\ Before(com, b.pc) = com.topCount /\ Before(com', b.pc) = com'.topCount
  BY <1>3 DEF From, Before, Resetting
<1>7. /\ com.top \in 0 .. COM_IN - 1 /\ com.topCount \in Nat /\ com.bottomCount \in Nat
      /\ com.in \in ComCells /\ Len(pend) \in Nat
  BY <1>5, ComFields, LenProperties
<1>8. /\ Len(pend) <= COM_IN /\ com.bottomCount = com.topCount + Len(pend)
      /\ com.bottom = Free(com.top, pend) /\ Holds(com.in, com.top, pend)
  BY <1>4, <1>6 DEF Fits
<1>9. n \in 1 .. Len(pend)
  BY <1>1, <1>7, <1>8 DEF Count
<1> DEFINE t  == SubSeq(pend, n + 1, Len(pend))
           to == Wrapped(com.top + n, COM_IN)
<1>10. /\ Len(t) = Len(pend) - n
       /\ Free(to, t) = Free(com.top, pend) /\ Holds(com.in, to, t)
  BY <1>1, <1>5, <1>7, <1>8, <1>9, Popped
<1> HIDE DEF t, to
<1>11. pend' = t /\ com'.top = to
  BY <1>2 DEF t, to
<1>12. Len(t) <= COM_IN /\ com'.bottomCount = com'.topCount + Len(t)
  BY <1>2, <1>7, <1>8, <1>9, <1>10, Sizes
<1>13. Fits(com', b.pc, pend')
  BY <1>2, <1>6, <1>8, <1>10, <1>11, <1>12 DEF Fits
<1> QED BY <1>1, <1>3, <1>4, <1>13 DEF InPlace

(* The terminator goes to the free cell. *)
LEMMA TerminatePlaced == Types /\ Placed /\ BTerminate => Placed'
<1> SUFFICES ASSUME Types, Placed, BTerminate, ~spoilt' PROVE InPlace'
  BY DEF Placed
<1>1. /\ com' \in ComBuf /\ com'.top = com.top /\ com'.topCount = com.topCount
      /\ com'.bottom = com.bottom /\ com'.bottomCount = com.bottomCount
      /\ com'.in = [com.in EXCEPT ![b.index] = NUL]
      /\ b.pc = "end" /\ b' = [b EXCEPT !.pc = "handle"] /\ tmr.pc = "idle"
      /\ UNCHANGED <<pend, tmr>>
      /\ spoilt' = (spoilt \/ com.bottom # b.index \/ Count(com) >= COM_IN)
  BY BTerminateDoes
<1>2. ~spoilt /\ com.bottom = b.index /\ ~(Count(com) >= COM_IN)
  BY <1>1, Zenon
<1>3. b'.pc = "handle" /\ ~Storing(tmr) /\ ~Storing(tmr') /\ Fits(com, b.pc, pend)
  BY <1>1, <1>2 DEF Placed, InPlace, Storing, Types, BTypes
<1>5. com \in ComBuf /\ pend \in Seq(Int)
  BY DEF Types, ComTypes
<1>6. /\ From(com, b.pc) = com.top /\ From(com', b'.pc) = com.top
      /\ Before(com, b.pc) = com.topCount /\ Before(com', b'.pc) = com.topCount
  BY <1>1, <1>3 DEF From, Before, Resetting
<1>7. /\ com.top \in 0 .. COM_IN - 1 /\ com.topCount \in Nat /\ com.bottomCount \in Nat
      /\ com.in \in ComCells /\ Len(pend) \in Nat
  BY <1>5, ComFields, LenProperties
<1>8. /\ Len(pend) <= COM_IN /\ com.bottomCount = com.topCount + Len(pend)
      /\ com.bottom = Free(com.top, pend) /\ Holds(com.in, com.top, pend)
  BY <1>3, <1>6 DEF Fits
<1>9. Len(pend) < COM_IN
  BY <1>2, <1>7, <1>8, Sizes DEF Count
<1>10. Holds(com'.in, com.top, pend)
  <2>1. com'.in = Put(com.in, Free(com.top, pend), NUL) /\ NUL \in Int
    BY <1>1, <1>2, <1>8 DEF NUL, Put
  <2> QED BY <1>5, <1>7, <1>8, <1>9, <2>1, HoldsMore
<1>11. Fits(com', b'.pc, pend)
  BY <1>1, <1>6, <1>8, <1>10 DEF Fits
<1> QED BY <1>1, <1>3, <1>11 DEF InPlace

(* Once the count is reset, the buffer is read as empty. *)
LEMMA ResetPlaced == Types /\ Placed /\ BReset => Placed'
<1> SUFFICES ASSUME Types, Placed, BReset, ~spoilt' PROVE InPlace'
  BY DEF Placed
<1>1. /\ com' \in ComBuf /\ com'.in = com.in /\ UNCHANGED <<spoilt, tmr>>
      /\ tmr.pc = "idle"
      /\ \/ /\ b.pc = "reset1" /\ b'.pc = "reset2" /\ com'.bottom = 0 /\ UNCHANGED pend
         \/ /\ b.pc = "reset2" /\ b'.pc = "reset3" /\ com'.bottomCount = 0 /\ pend' = <<>>
            /\ com'.bottom = com.bottom
         \/ /\ b.pc = "reset3" /\ b'.pc = "reset4" /\ com'.top = 0 /\ UNCHANGED pend
            /\ com'.bottom = com.bottom /\ com'.bottomCount = com.bottomCount
         \/ /\ b.pc = "reset4" /\ b'.pc = "clear1" /\ com'.topCount = 0 /\ UNCHANGED pend
            /\ com'.top = com.top /\ com'.bottom = com.bottom /\ com'.bottomCount = com.bottomCount
  BY BResetDoes
<1>2. InPlace /\ ~Storing(tmr) /\ ~Storing(tmr')
  BY <1>1 DEF Placed, Storing
<1>3. CASE b.pc = "reset1" /\ b'.pc = "reset2" /\ com'.bottom = 0
  BY <1>2, <1>3 DEF InPlace
<1>4. CASE /\ b.pc = "reset2" /\ b'.pc = "reset3" /\ com'.bottomCount = 0 /\ pend' = <<>>
           /\ com'.bottom = com.bottom
  <2>1. com'.bottom = 0 /\ From(com', b'.pc) = 0 /\ Before(com', b'.pc) = 0
    BY <1>1, <1>2, <1>4 DEF InPlace, From, Before, Resetting
  <2>2. Len(pend') = 0
    BY <1>4, EmptySeq
  <2>3. Free(0, pend') = 0 /\ Holds(com'.in, 0, pend')
    BY <2>2, Sizes DEF Free, Wrapped, Holds
  <2>4. Fits(com', b'.pc, pend')
    BY <1>4, <2>1, <2>2, <2>3, Sizes DEF Fits
  <2> QED BY <1>2, <1>4, <2>4 DEF InPlace
<1>5. CASE /\ b.pc = "reset3" /\ b'.pc = "reset4" /\ com'.top = 0 /\ UNCHANGED pend
           /\ com'.bottom = com.bottom /\ com'.bottomCount = com.bottomCount
  <2>1. /\ From(com', b'.pc) = From(com, b.pc) /\ Before(com', b'.pc) = Before(com, b.pc)
        /\ Fits(com, b.pc, pend)
    BY <1>2, <1>5 DEF InPlace, From, Before, Resetting
  <2>2. Fits(com', b'.pc, pend')
    BY <1>1, <1>5, <2>1 DEF Fits
  <2> QED BY <1>2, <1>5, <2>2 DEF InPlace
<1>6. CASE /\ b.pc = "reset4" /\ b'.pc = "clear1" /\ com'.topCount = 0 /\ UNCHANGED pend
           /\ com'.top = com.top /\ com'.bottom = com.bottom /\ com'.bottomCount = com.bottomCount
  <2>1. /\ From(com', b'.pc) = From(com, b.pc) /\ Before(com', b'.pc) = Before(com, b.pc)
        /\ Fits(com, b.pc, pend)
    BY <1>2, <1>6 DEF InPlace, From, Before, Resetting
  <2>2. Fits(com', b'.pc, pend')
    BY <1>1, <1>6, <2>1 DEF Fits
  <2> QED BY <1>2, <1>6, <2>2 DEF InPlace
<1> QED BY <1>1, <1>3, <1>4, <1>5, <1>6

LEMMA InitPlaced == Init => Placed
<1> SUFFICES ASSUME Init PROVE InPlace
  BY DEF Placed
<1>1. b.pc = "wait" /\ tmr.pc = "idle" /\ pend = <<>> /\ Len(pend) = 0
  BY EmptySeq DEF Init, TmrIdle
<1>2. com.top = 0 /\ com.topCount = 0 /\ com.bottom = 0 /\ com.bottomCount = 0
  BY DEF Init, Empty
<1>3. From(com, b.pc) = 0 /\ Before(com, b.pc) = 0
  BY <1>1, <1>2 DEF From, Before, Resetting
<1>4. Free(0, pend) = 0 /\ Holds(com.in, 0, pend)
  BY <1>1, Sizes DEF Free, Wrapped, Holds
<1>5. Fits(com, b.pc, pend)
  BY <1>1, <1>2, <1>3, <1>4, Sizes DEF Fits
<1> QED BY <1>1, <1>5 DEF InPlace, Storing

LEMMA StepPlaced == Types /\ Placed /\ [Next]_vars => Placed'
<1>1. BtWild => Placed'
  BY DEF BtWild, Placed
<1> QED BY <1>1, Kinds, QuietPlaced, IsrPlaced, TmrPlaced, TakenPlaced, TerminatePlaced, ResetPlaced

(* No packet differs from what com_buf should have held. *)
Faithful == ~spoilt => faithful

LEMMA StepFaithful == Types /\ Placed /\ Faithful /\ [Next]_vars => Faithful'
<1> SUFFICES ASSUME Types, Placed, Faithful, [Next]_vars, ~spoilt' PROVE faithful'
  BY DEF Faithful
<1>1. ~spoilt
  <2>1. CASE Quiet
    BY <2>1 DEF Quiet
  <2>2. CASE Isr
    BY <2>2, Zenon DEF Isr
  <2>3. CASE Tmr
    BY <2>3, Zenon DEF Tmr, TmrTick, TmrRead, TmrStore, TmrIndex, TmrCount, TmrEnd
  <2>4. CASE Taken
    BY <2>4, Zenon DEF Taken, PopData
  <2>5. CASE BtWild
    BY <2>5 DEF BtWild
  <2>6. CASE BTerminate
    BY <2>6, Zenon DEF BTerminate
  <2>7. CASE BReset
    BY <2>7 DEF BReset
  <2> QED BY <2>1, <2>2, <2>3, <2>4, <2>5, <2>6, <2>7, Kinds
<1>2. faithful
  BY <1>1 DEF Faithful
<1>3. CASE BtSend
  <2> DEFINE n == PopNum(Mtu)
  <2>1. n > 0 /\ PopData(n) /\ tmr.pc = "idle" /\ faithful' = (faithful /\ (spoilt' \/ Piece(n) = SubSeq(pend, 1, n)))
    BY <1>3 DEF BtSend, TmrDone
  <2>2. n \in Nat /\ n >= 1 /\ n <= Count(com) /\ n <= COM_IN - com.top
    BY <2>1, PopNumIn, BridgeAssumption
  <2> HIDE DEF n
  <2>3. b.pc \notin {"handle", "reset2", "reset3", "reset4"}
    BY <2>1, Zenon DEF PopData
  <2>4. Fits(com, b.pc, pend) /\ From(com, b.pc) = com.top /\ Before(com, b.pc) = com.topCount
    BY <1>1, <2>1, <2>3 DEF Placed, InPlace, Storing, From, Before, Resetting
  <2>5. com \in ComBuf /\ pend \in Seq(Int)
    BY DEF Types, ComTypes
  <2>6. /\ com.top \in 0 .. COM_IN - 1 /\ com.topCount \in Nat /\ com.bottomCount \in Nat
        /\ com.in \in ComCells /\ Len(pend) \in Nat
    BY <2>5, ComFields, LenProperties
  <2>7. /\ Len(pend) <= COM_IN /\ com.bottomCount = com.topCount + Len(pend)
        /\ Holds(com.in, com.top, pend)
    BY <2>4 DEF Fits
  <2>8. n \in 1 .. Len(pend)
    BY <2>2, <2>6, <2>7 DEF Count
  <2>9. SubSeq(pend, 1, n) = [i \in 1 .. n |-> com.in[Least(com.top + i - 1, COM_IN)]]
    BY <2>2, <2>5, <2>6, <2>7, <2>8, PieceIs
  <2> QED BY <1>2, <2>1, <2>9, Zenon DEF Piece
<1>4. CASE ~BtSend
  <2>1. CASE Bt
    BY <1>2, <1>4, <2>1 DEF Bt, BtRecv, BtStart, BtClear, BtWild, BtEnd
  <2>2. CASE B
    BY <1>2, <2>2 DEF B, UNCHANGED_B, BTake, BParse, BTerminate, BHandle, BReset, BClear, BSendByBle,
                      BOut, BOutEnd, BOutClear
  <2>3. CASE Tmr
    BY <1>2, <2>3 DEF Tmr, UNCHANGED_Tmr, hist, TmrTick, TmrRead, TmrStore, TmrIndex, TmrCount, TmrEnd
  <2>4. CASE HostTypes \/ Isr \/ LowPowerTask \/ Credit \/ LinkChanges \/ WakeUp \/ UNCHANGED vars
             \/ \E n \in PacketLens : PeerSends(n)
    BY <1>2, <2>4 DEF HostTypes, Isr, LowPowerTask, Credit, LinkChanges, WakeUp, PeerSends, vars, hist
  <2> QED BY <2>1, <2>2, <2>3, <2>4 DEF Next
<1> QED BY <1>3, <1>4

(***************************************************************************)
(* What the peer gets is what the host typed, and index and count of       *)
(* com_buf stay in step, whatever the interrupt, the tick and the reset    *)
(* after a command do to each other, until an overflow or one of the races *)
(* of "spoilt".                                                            *)
(***************************************************************************)
THEOREM PeerAlwaysGets == FairSpec => []PeerGetsHostBytes
<1>1. Types /\ Placed /\ Faithful => PeerGetsHostBytes
  <2> SUFFICES ASSUME Types, InPlace, faithful, b.pc \notin {"reset2", "reset3", "reset4"},
                      tmr.pc \notin {"index", "count"}
               PROVE  Count(com) = Len(pend) /\ com.bottom = Wrapped(com.top + Count(com), COM_IN)
    BY Zenon DEF Placed, Faithful, PeerGetsHostBytes
  <2>1. Fits(com, b.pc, pend) /\ From(com, b.pc) = com.top /\ Before(com, b.pc) = com.topCount
    BY DEF InPlace, Storing, From, Before, Resetting
  <2>2. com.topCount \in Nat /\ com.bottomCount \in Nat /\ Len(pend) \in Nat
    BY ComFields, LenProperties DEF Types, ComTypes
  <2>3. com.bottomCount = com.topCount + Len(pend)
    BY <2>1 DEF Fits
  <2>4. Count(com) = Len(pend)
    BY <2>2, <2>3 DEF Count
  <2> QED BY <2>1, <2>4 DEF Fits, Free
<1>2. Init => Faithful
  BY DEF Init, Faithful
<1> QED BY <1>1, <1>2, InitPlaced, StepPlaced, StepFaithful, AlwaysTypes, PTL DEF FairSpec

-----------------------------------------------------------------------------
(* Commands: counting them in a sequence of bytes *)

Where(s) == {i \in 1 .. Len(s) : s[i] = AT}
ATs(s) == Cardinality(Where(s))

LEMMA ATsNat ==
  ASSUME NEW s \in Seq(Int)
  PROVE  IsFiniteSet(Where(s)) /\ ATs(s) \in Nat
<1>1. IsFiniteSet(1 .. Len(s)) /\ Where(s) \in SUBSET (1 .. Len(s))
  BY FS_Interval, LenProperties DEF Where
<1> QED BY <1>1, FS_Subset, FS_CardinalityType DEF ATs

LEMMA ATsJoin ==
  ASSUME NEW s \in Seq(Int), NEW u \in Seq(Int), NEW v \in Seq(Int), Len(v) = Len(s) + Len(u),
         \A i \in 1 .. Len(s) : v[i] = s[i], \A i \in 1 .. Len(u) : v[Len(s) + i] = u[i]
  PROVE  ATs(v) = ATs(s) + ATs(u)
<1> DEFINE n == Len(s)
           m == Len(u)
           A == Where(s)
           Z == Where(u)
           D == {n + i : i \in Z}
           f == [i \in Z |-> n + i]
<1>1. n \in Nat /\ m \in Nat
  BY LenProperties
<1>2. /\ IsFiniteSet(A) /\ IsFiniteSet(Z) /\ Cardinality(A) = ATs(s) /\ Cardinality(Z) = ATs(u)
      /\ ATs(s) \in Nat /\ ATs(u) \in Nat
  BY ATsNat DEF ATs
<1>3. A \subseteq 1 .. n /\ Z \subseteq 1 .. m
  BY DEF Where
<1>4. IsFiniteSet(D) /\ Cardinality(D) = Cardinality(Z)
  <2>0. Z \subseteq Int /\ n \in Int
    BY <1>1, <1>3
  <2> HIDE DEF n, Z
  <2>1. f \in [Z -> D]
    OBVIOUS
  <2>2. \A x, y \in Z : f[x] = f[y] => x = y
    BY <2>0
  <2>3. \A t \in D : \E x \in Z : f[x] = t
    OBVIOUS
  <2> HIDE DEF D, f
  <2>4. f \in Bijection(Z, D)
    BY <2>1, <2>2, <2>3, Fun_IsBij
  <2>5. ExistsBijection(Z, D)
    BY <2>4 DEF ExistsBijection
  <2> QED BY <1>2, <2>5, FS_Bijection
<1>5. Where(v) = A \cup D
  <2>1. ASSUME NEW i \in Where(v) PROVE i \in A \cup D
    <3>1. i \in 1 .. n + m /\ v[i] = AT
      BY DEF Where
    <3>2. CASE i <= n
      <4>1. i \in 1 .. n
        BY <1>1, <3>1, <3>2
      <4> QED BY <3>1, <4>1 DEF Where
    <3>3. CASE ~(i <= n)
      <4>1. i - n \in 1 .. m /\ n + (i - n) = i
        BY <1>1, <3>1, <3>3
      <4>2. u[i - n] = AT
        BY <3>1, <4>1
      <4> QED BY <4>1, <4>2 DEF Where
    <3> QED BY <3>2, <3>3
  <2>2. ASSUME NEW i \in A PROVE i \in Where(v)
    <3>1. i \in 1 .. n /\ s[i] = AT
      BY DEF Where
    <3>2. i \in 1 .. n + m
      BY <1>1, <3>1
    <3> QED BY <3>1, <3>2 DEF Where
  <2>3. ASSUME NEW i \in Z PROVE n + i \in Where(v)
    <3>1. i \in 1 .. m /\ u[i] = AT
      BY DEF Where
    <3>2. n + i \in 1 .. n + m
      BY <1>1, <3>1
    <3> QED BY <3>1, <3>2 DEF Where
  <2> QED BY <2>1, <2>2, <2>3
<1>6. A \cap D = {}
  BY <1>1, <1>3
<1> HIDE DEF A, D, Z
<1>7. Cardinality(A \cup D) = Cardinality(A) + Cardinality(D)
  <2>1. Cardinality(A \cup D) = Cardinality(A) + Cardinality(D) - Cardinality(A \cap D)
    BY <1>2, <1>4, FS_Union
  <2>2. Cardinality(A \cap D) = 0
    BY <1>6, FS_EmptySet
  <2>3. Cardinality(A) \in Nat /\ Cardinality(D) \in Nat
    BY <1>2, <1>4
  <2> QED BY <2>1, <2>2, <2>3
<1> QED BY <1>2, <1>4, <1>5, <1>7 DEF ATs

LEMMA ATsNone ==
  ASSUME NEW s \in Seq(Int), Len(s) = 0
  PROVE  ATs(s) = 0
BY FS_EmptySet DEF ATs, Where

LEMMA ATsOne ==
  ASSUME NEW s \in Seq(Int), Len(s) = 1
  PROVE  ATs(s) = IF s[1] = AT THEN 1 ELSE 0
<1>1. Where(s) = IF s[1] = AT THEN {1} ELSE {}
  BY DEF Where
<1> QED BY <1>1, FS_Singleton, FS_EmptySet DEF ATs

LEMMA ATsAppend ==
  ASSUME NEW s \in Seq(Int), NEW x \in Int
  PROVE  ATs(Append(s, x)) = ATs(s) + (IF x = AT THEN 1 ELSE 0)
<1> DEFINE u == <<x>>
           v == Append(s, x)
<1>1. u \in Seq(Int) /\ Len(u) = 1 /\ u[1] = x
  OBVIOUS
<1>2. /\ v \in Seq(Int) /\ Len(v) = Len(s) + 1
      /\ \A i \in 1 .. Len(s) : v[i] = s[i]
      /\ v[Len(s) + 1] = x
  BY AppendIs
<1> HIDE DEF u, v
<1>3. \A i \in 1 .. Len(u) : v[Len(s) + i] = u[i]
  BY <1>1, <1>2
<1>4. ATs(v) = ATs(s) + ATs(u)
  <2>1. Len(v) = Len(s) + Len(u)
    BY <1>1, <1>2
  <2> QED BY <1>1, <1>2, <1>3, <2>1, ATsJoin
<1> QED BY <1>1, <1>4, ATsOne DEF v

LEMMA ATsTail ==
  ASSUME NEW s \in Seq(Int), s # <<>>
  PROVE  ATs(s) = (IF Head(s) = AT THEN 1 ELSE 0) + ATs(Tail(s))
<1> DEFINE h == <<Head(s)>>
           t == Tail(s)
<1>1. /\ t \in Seq(Int) /\ Len(t) = Len(s) - 1 /\ Len(s) \in Nat /\ Len(s) >= 1
      /\ Head(s) = s[1] /\ Head(s) \in Int
      /\ \A i \in 1 .. Len(t) : t[i] = s[i + 1]
  BY HeadTailProperties, LenProperties, EmptySeq
<1>2. h \in Seq(Int) /\ Len(h) = 1 /\ h[1] = s[1]
  BY <1>1
<1> HIDE DEF h, t
<1>3. /\ Len(s) = Len(h) + Len(t)
      /\ \A i \in 1 .. Len(h) : s[i] = h[i]
      /\ \A i \in 1 .. Len(t) : s[Len(h) + i] = t[i]
  <2>1. \A i \in 1 .. Len(t) : s[1 + i] = t[i]
    <3>1. \A i \in 1 .. Len(t) : 1 + i = i + 1
      BY <1>1
    <3> QED BY <1>1, <3>1
  <2> QED BY <1>1, <1>2, <2>1
<1>4. ATs(s) = ATs(h) + ATs(t)
  BY <1>1, <1>2, <1>3, ATsJoin
<1>5. ATs(h) = IF Head(s) = AT THEN 1 ELSE 0
  BY <1>1, <1>2, ATsOne
<1> QED BY <1>4, <1>5 DEF t

LEMMA ATsConcat ==
  ASSUME NEW s \in Seq(Int), NEW u \in Seq(Int)
  PROVE  ATs(s \o u) = ATs(s) + ATs(u)
<1> DEFINE v == s \o u
<1>1. /\ v \in Seq(Int) /\ Len(v) = Len(s) + Len(u)
      /\ \A i \in 1 .. Len(s) : v[i] = s[i]
      /\ \A i \in 1 .. Len(u) : v[Len(s) + i] = u[i]
  BY ConcatProperties
<1> HIDE DEF v
<1>2. ATs(v) = ATs(s) + ATs(u)
  BY <1>1, ATsJoin
<1> QED BY <1>2 DEF v

LEMMA ATsRest ==
  ASSUME NEW s \in Seq(Int), NEW n \in Nat, n <= Len(s)
  PROVE  ATs(SubSeq(s, n + 1, Len(s))) <= ATs(s)
<1> DEFINE p == SubSeq(s, 1, n)
           t == SubSeq(s, n + 1, Len(s))
<1>1. Len(s) \in Nat
  BY LenProperties
<1>2. p \in Seq(Int) /\ Len(p) = n /\ \A i \in 1 .. n : p[i] = s[i]
  BY <1>1, SubSeqProperties
<1>3. t \in Seq(Int) /\ Len(t) = Len(s) - n /\ \A i \in 1 .. Len(s) - n : t[i] = s[n + i]
  <2>1. /\ t \in Seq(Int) /\ Len(t) = (IF n + 1 <= Len(s) THEN Len(s) - (n + 1) + 1 ELSE 0)
        /\ \A i \in 1 .. Len(s) - (n + 1) + 1 : t[i] = s[(n + 1) + i - 1]
    BY <1>1, SubSeqProperties
  <2>2. Len(t) = Len(s) - n
    BY <1>1, <2>1
  <2>3. ASSUME NEW i \in 1 .. Len(s) - n PROVE t[i] = s[n + i]
    <3>1. i \in 1 .. Len(s) - (n + 1) + 1 /\ (n + 1) + i - 1 = n + i
      BY <1>1
    <3> QED BY <2>1, <3>1
  <2> HIDE DEF t
  <2> QED BY <2>1, <2>2, <2>3
<1> HIDE DEF p, t
<1>4. /\ Len(s) = Len(p) + Len(t)
      /\ \A i \in 1 .. Len(p) : s[i] = p[i]
      /\ \A i \in 1 .. Len(t) : s[Len(p) + i] = t[i]
  BY <1>1, <1>2, <1>3
<1>5. ATs(s) = ATs(p) + ATs(t)
  BY <1>2, <1>3, <1>4, ATsJoin
<1>6. ATs(p) \in Nat /\ ATs(t) \in Nat
  BY <1>2, <1>3, ATsNat
<1>7. ATs(t) <= ATs(s)
  BY <1>5, <1>6
<1> QED BY <1>7 DEF t

LEMMA ATsFirst ==
  ASSUME NEW s \in Seq(Int), Len(s) > 0, s[1] = AT
  PROVE  ATs(s) >= 1
<1>1. Head(s) = s[1] /\ s # <<>> /\ Tail(s) \in Seq(Int)
  BY HeadTailProperties, EmptySeq
<1>2. ATs(Tail(s)) \in Nat
  BY <1>1, ATsNat
<1>3. ATs(s) = 1 + ATs(Tail(s))
  BY <1>1, ATsTail
<1> QED BY <1>2, <1>3

-----------------------------------------------------------------------------
(* Commands: each is executed once *)

(* A command the timer task has read and not yet counted. *)
InHand(t) == IF t.pc \in {"store", "index", "count"} /\ t.byte = AT THEN 1 ELSE 0

(* Commands that were typed and are still to be executed are in the fifo, in *)
(* hand or in com_buf, but for those a reset is about to throw away; and an *)
(* empty buffer shows no command to the task that looks at it.              *)
Unseen == (b.pc = "handle" /\ pend = <<>> /\ ~Storing(tmr)) => com.in[com.top] # AT
Ahead  == executed + ATs(fifo) + InHand(tmr) <= commands
Owed   == b.pc \notin {"reset1", "reset2"} =>
            executed + ATs(pend) + ATs(fifo) + InHand(tmr) <= commands
Once   == ~spoilt => Unseen /\ Ahead /\ Owed

LEMMA InHandIn == \A t : InHand(t) \in {0, 1}
BY DEF InHand

LEMMA CountsNat ==
  ASSUME Types
  PROVE  /\ executed \in Nat /\ commands \in Nat /\ typed \in Nat
         /\ fifo \in Seq(Int) /\ pend \in Seq(Int)
         /\ ATs(fifo) \in Nat /\ ATs(pend) \in Nat /\ InHand(tmr) \in {0, 1}
BY ATsNat, InHandIn DEF Types, ComTypes, FlagTypes

(* Steps that neither bring a command nor end one. *)
Aside ==
  /\ UNCHANGED <<fifo, pend, tmr, executed, commands, spoilt>>
  /\ com'.in = com.in /\ com'.top = com.top
  /\ b'.pc = b.pc \/ (b.pc \notin {"reset1", "reset2"} /\ b'.pc # "handle")

LEMMA OnceKinds ==
  Types /\ [Next]_vars =>
    Aside \/ HostTypes \/ Isr \/ Tmr \/ Taken \/ BtWild \/ BTerminate \/ BHandle \/ BReset
<1> SUFFICES ASSUME Types, [Next]_vars,
                    ~(HostTypes \/ Isr \/ Tmr \/ Taken \/ BtWild \/ BTerminate \/ BHandle \/ BReset)
             PROVE  Aside
  BY Zenon
<1>0. com'.in = com.in /\ com'.top = com.top /\ UNCHANGED <<pend, spoilt, tmr, fifo>>
  BY Kinds DEF Quiet, SameText
<1>1. b \in [pc : BPc, index : 0 .. COM_IN - 1, state : ComStates]
  BY DEF Types, BTypes
<1>2. CASE LowPowerTask \/ Credit \/ LinkChanges \/ WakeUp \/ UNCHANGED vars
           \/ \E n \in PacketLens : PeerSends(n)
  BY <1>0, <1>2 DEF Aside, LowPowerTask, Credit, LinkChanges, WakeUp, PeerSends, vars, hist
<1>3. CASE Bt
  <2>1. UNCHANGED <<executed, commands>>
    BY <1>3 DEF Bt, BtRecv, BtStart, BtClear, BtSend, BtWild, BtEnd, UNCHANGED_Bt
  <2>2. UNCHANGED b
    BY <1>3 DEF Bt, BtRecv, BtStart, BtClear, BtSend, BtWild, BtEnd
  <2> QED BY <1>0, <2>1, <2>2 DEF Aside
<1>4. CASE B
  <2>0. UNCHANGED <<executed, commands>>
    BY <1>4 DEF B, UNCHANGED_B, BTake, BParse, BClear, BSendByBle, BOut, BOutEnd, BOutClear
  <2>1. b'.pc = b.pc \/ (b.pc \notin {"reset1", "reset2"} /\ b'.pc # "handle")
    <3>1. CASE BTake
      BY <1>1, <3>1 DEF BTake, Goto
    <3>2. CASE BParse
      BY <1>1, <3>2 DEF BParse, Goto
    <3>3. CASE BClear
      BY <1>1, <3>3 DEF BClear
    <3>4. CASE BSendByBle
      BY <1>1, <3>4 DEF BSendByBle, Goto
    <3>5. CASE BOut
      BY <3>5 DEF BOut
    <3>6. CASE BOutEnd
      BY <1>1, <3>6 DEF BOutEnd, Goto
    <3>7. CASE BOutClear
      BY <1>1, <3>7 DEF BOutClear, Goto
    <3> QED BY <1>4, <3>1, <3>2, <3>3, <3>4, <3>5, <3>6, <3>7 DEF B
  <2> QED BY <1>0, <2>0, <2>1 DEF Aside
<1> QED BY <1>2, <1>3, <1>4 DEF Next

LEMMA AsideOnce == Once /\ Aside => Once'
BY DEF Once, Aside, Unseen, Ahead, Owed

LEMMA HostOnce == Types /\ Once /\ HostTypes => Once'
<1> SUFFICES ASSUME Types, HostTypes, Unseen, Ahead, Owed PROVE Unseen' /\ Ahead' /\ Owed'
  BY DEF Once, HostTypes
<1>1. UNCHANGED <<com, b, tmr, pend, executed>>
  BY DEF HostTypes, hist
<1>2. /\ executed \in Nat /\ commands \in Nat /\ typed \in Nat
      /\ fifo \in Seq(Int) /\ pend \in Seq(Int)
      /\ ATs(fifo) \in Nat /\ ATs(pend) \in Nat /\ InHand(tmr) \in {0, 1}
  BY CountsNat
<1>3. ATs(fifo') - ATs(fifo) = commands' - commands /\ ATs(fifo') \in Nat /\ commands' \in Nat
  <2>1. CASE fifo' = Append(fifo, typed + 1) /\ UNCHANGED commands
    <3>1. typed + 1 \in Int /\ typed + 1 # AT
      BY <1>2 DEF AT
    <3>2. ATs(fifo') = ATs(fifo) + 0
      BY <1>2, <2>1, <3>1, ATsAppend
    <3> QED BY <1>2, <2>1, <3>2
  <2>2. CASE fifo' = Append(fifo, AT) /\ commands' = commands + 1
    <3>1. AT \in Int
      BY DEF AT
    <3>2. ATs(fifo') = ATs(fifo) + 1
      BY <1>2, <2>2, <3>1, ATsAppend
    <3> QED BY <1>2, <2>2, <3>2
  <2> QED BY <2>1, <2>2 DEF HostTypes
<1>4. Unseen'
  BY <1>1 DEF Unseen
<1>5. Ahead'
  BY <1>1, <1>2, <1>3 DEF Ahead
<1>6. Owed'
  BY <1>1, <1>2, <1>3 DEF Owed
<1> QED BY <1>4, <1>5, <1>6

LEMMA IsrOnce == Types /\ Once /\ Isr => Once'
<1> SUFFICES ASSUME Types, Once, Isr, ~spoilt' PROVE Unseen' /\ Ahead' /\ Owed'
  BY DEF Once
<1>1. /\ Len(fifo) >= WaterLevel /\ pend' = pend \o fifo /\ fifo' = <<>>
      /\ UNCHANGED <<b, tmr, executed, commands>>
      /\ spoilt' = (spoilt \/ Len(pend') > COM_IN \/ b.pc = "reset2"
                           \/ tmr.pc \in {"store", "index", "count"})
  BY DEF Isr, hist
<1>2. ~spoilt /\ b.pc # "reset2"
  BY <1>1, Zenon
<1>3. Ahead /\ Owed
  BY <1>2 DEF Once
<1>4. /\ executed \in Nat /\ commands \in Nat
      /\ fifo \in Seq(Int) /\ pend \in Seq(Int)
      /\ ATs(fifo) \in Nat /\ ATs(pend) \in Nat /\ InHand(tmr) \in {0, 1}
  BY CountsNat
<1>5. ATs(pend') = ATs(pend) + ATs(fifo) /\ ATs(fifo') = 0
  BY <1>1, <1>4, ATsConcat, ATsNone, EmptySeq
<1>6. Len(pend') # 0 /\ pend' # <<>>
  <2>1. Len(pend') = Len(pend) + Len(fifo) /\ Len(pend) \in Nat /\ Len(fifo) \in Nat
    BY <1>1, <1>4, ConcatProperties, LenProperties
  <2>2. WaterLevel \in Nat /\ WaterLevel >= 1
    BY BridgeAssumption
  <2>3. Len(pend') # 0
    BY <1>1, <2>1, <2>2
  <2> QED BY <2>3, EmptySeq
<1>7. Unseen'
  BY <1>6 DEF Unseen
<1>8. Ahead'
  BY <1>1, <1>3, <1>4, <1>5 DEF Ahead
<1>9. Owed'
  BY <1>1, <1>3, <1>4, <1>5 DEF Owed
<1> QED BY <1>7, <1>8, <1>9

LEMMA TmrOnce == Types /\ Once /\ Tmr => Once'
<1> SUFFICES ASSUME Types, Once, Tmr, ~spoilt' PROVE Unseen' /\ Ahead' /\ Owed'
  BY DEF Once
<1>1. ~spoilt /\ UNCHANGED <<b, executed, commands>>
  <2>1. ~spoilt
    BY Zenon DEF Tmr, TmrTick, TmrRead, TmrStore, TmrIndex, TmrCount, TmrEnd
  <2>2. UNCHANGED <<b, executed, commands>>
    BY DEF Tmr, UNCHANGED_Tmr, hist, TmrTick, TmrRead, TmrStore, TmrIndex, TmrCount, TmrEnd
  <2> QED BY <2>1, <2>2
<1>2. Unseen /\ Ahead /\ Owed
  BY <1>1 DEF Once
<1>3. /\ executed \in Nat /\ commands \in Nat
      /\ fifo \in Seq(Int) /\ pend \in Seq(Int)
      /\ ATs(fifo) \in Nat /\ ATs(pend) \in Nat /\ InHand(tmr) \in {0, 1}
  BY CountsNat
<1>4. CASE TmrTick
  <2>1. UNCHANGED <<com, pend, fifo>> /\ tmr.pc = "idle" /\ tmr' = [TmrIdle EXCEPT !.pc = "read"]
    BY <1>4 DEF TmrTick, TmrDone
  <2>2. InHand(tmr) = 0 /\ InHand(tmr') = 0 /\ ~Storing(tmr)
    BY <2>1 DEF InHand, TmrIdle, Storing
  <2> QED BY <1>1, <1>2, <2>1, <2>2 DEF Unseen, Ahead, Owed
<1>5. CASE TmrRead
  <2>1. /\ UNCHANGED <<com, pend>> /\ tmr.pc = "read" /\ fifo # <<>> /\ fifo' = Tail(fifo)
        /\ tmr' = [tmr EXCEPT !.pc = "store", !.byte = Head(fifo), !.have = TRUE]
    BY <1>5 DEF TmrRead
  <2>2. tmr'.pc = "store" /\ tmr'.byte = Head(fifo)
    BY <2>1 DEF Types, TmrTypes
  <2>3. /\ InHand(tmr) = 0 /\ ~Storing(tmr)
        /\ InHand(tmr') = IF Head(fifo) = AT THEN 1 ELSE 0
    BY <2>1, <2>2 DEF InHand, Storing
  <2>4. ATs(fifo) = InHand(tmr') + ATs(fifo')
    BY <1>3, <2>1, <2>3, ATsTail
  <2>5. InHand(tmr') \in {0, 1} /\ ATs(fifo') \in Nat
    BY <1>3, <2>1, InHandIn, ATsNat, HeadTailProperties
  <2>6. Unseen'
    BY <1>1, <1>2, <2>1, <2>3 DEF Unseen
  <2>7. Ahead'
    BY <1>1, <1>2, <1>3, <2>3, <2>4, <2>5 DEF Ahead
  <2>8. Owed'
    BY <1>1, <1>2, <1>3, <2>1, <2>3, <2>4, <2>5 DEF Owed
  <2> QED BY <2>6, <2>7, <2>8
<1>6. CASE TmrStore \/ TmrIndex
  <2>1. /\ tmr.pc \in {"store", "index"} /\ tmr'.pc \in {"index", "count"} /\ tmr'.byte = tmr.byte
        /\ UNCHANGED <<pend, fifo>>
    BY <1>6, TmrStoreDoes, TmrIndexDoes
  <2>2. InHand(tmr') = InHand(tmr) /\ Storing(tmr')
    BY <2>1 DEF InHand, Storing
  <2> QED BY <1>1, <1>2, <2>1, <2>2 DEF Unseen, Ahead, Owed
<1>7. CASE TmrCount
  <2>1. tmr.pc = "count" /\ tmr'.pc = "read" /\ pend' = Append(pend, tmr.byte) /\ UNCHANGED fifo
    BY <1>7, TmrCountDoes
  <2>2. tmr.byte \in Int
    BY DEF Types, TmrTypes
  <2>3. InHand(tmr') = 0 /\ InHand(tmr) = IF tmr.byte = AT THEN 1 ELSE 0
    BY <2>1 DEF InHand
  <2>4. ATs(pend') = ATs(pend) + InHand(tmr)
    BY <1>3, <2>1, <2>2, <2>3, ATsAppend
  <2>5. pend' # <<>>
    BY <1>3, <2>1, <2>2, AppendProperties
  <2>6. Unseen'
    BY <2>5 DEF Unseen
  <2>7. Ahead'
    BY <1>1, <1>2, <1>3, <2>1, <2>3 DEF Ahead
  <2>8. Owed'
    BY <1>1, <1>2, <1>3, <2>1, <2>3, <2>4 DEF Owed
  <2> QED BY <2>6, <2>7, <2>8
<1>8. CASE TmrEnd
  <2>1. tmr.pc = "read" /\ tmr' = TmrIdle /\ UNCHANGED <<pend, fifo>>
    BY <1>8 DEF TmrEnd
  <2>2. com'.in = com.in /\ com'.top = com.top
    BY <1>8, TmrElseDoes DEF SameText
  <2>3. InHand(tmr) = 0 /\ InHand(tmr') = 0 /\ ~Storing(tmr)
    BY <2>1 DEF InHand, TmrIdle, Storing
  <2> QED BY <1>1, <1>2, <2>1, <2>2, <2>3 DEF Unseen, Ahead, Owed
<1> QED BY <1>4, <1>5, <1>6, <1>7, <1>8 DEF Tmr

LEMMA TakenOnce == Types /\ Once /\ Taken /\ Placed => Once'
<1> SUFFICES ASSUME Types, Placed, Once, Taken, ~spoilt' PROVE Unseen' /\ Ahead' /\ Owed'
  BY DEF Once
<1>1. PICK n \in Nat : /\ n >= 1 /\ n <= Count(com) /\ n <= COM_IN - com.top /\ PopData(n)
                       /\ tmr.pc = "idle" /\ UNCHANGED <<tmr, b, fifo, executed, commands>>
  BY DEF Taken
<1>2. /\ pend' = SubSeq(pend, n + 1, Len(pend)) /\ pend' \in Seq(Int)
      /\ spoilt' = (spoilt \/ b.pc \in {"handle", "reset2", "reset3", "reset4"})
  BY <1>1, TakenDoes
<1>3. ~spoilt /\ b.pc \notin {"handle", "reset2", "reset3", "reset4"}
  BY <1>2, Zenon
<1>4. Ahead /\ Owed
  BY <1>3 DEF Once
<1>5. /\ executed \in Nat /\ commands \in Nat
      /\ fifo \in Seq(Int) /\ pend \in Seq(Int)
      /\ ATs(fifo) \in Nat /\ ATs(pend) \in Nat /\ InHand(tmr) \in {0, 1}
  BY CountsNat
<1>6. n <= Len(pend)
  <2>1. Fits(com, b.pc, pend) /\ Before(com, b.pc) = com.topCount
    BY <1>1, <1>3 DEF Placed, InPlace, Storing, Before, Resetting
  <2>2. com.topCount \in Nat /\ com.bottomCount \in Nat /\ Len(pend) \in Nat
    BY <1>5, ComFields, LenProperties DEF Types, ComTypes
  <2> QED BY <1>1, <2>1, <2>2 DEF Fits, Count
<1>7. ATs(pend') <= ATs(pend) /\ ATs(pend') \in Nat
  BY <1>2, <1>5, <1>6, ATsRest, ATsNat
<1>8. Unseen'
  BY <1>1, <1>3 DEF Unseen
<1>9. Ahead'
  BY <1>1, <1>4 DEF Ahead
<1>10. Owed'
  BY <1>1, <1>4, <1>5, <1>7 DEF Owed
<1> QED BY <1>8, <1>9, <1>10

(* The terminator is what hides an old command. *)
LEMMA TerminateOnce == Types /\ Placed /\ Once /\ BTerminate => Once'
<1> SUFFICES ASSUME Types, Placed, Once, BTerminate, ~spoilt' PROVE Unseen' /\ Ahead' /\ Owed'
  BY DEF Once
<1>1. /\ com'.top = com.top /\ com'.in = [com.in EXCEPT ![b.index] = NUL]
      /\ b.pc = "end" /\ b' = [b EXCEPT !.pc = "handle"] /\ tmr.pc = "idle"
      /\ UNCHANGED <<pend, tmr, fifo, executed, commands>>
      /\ spoilt' = (spoilt \/ com.bottom # b.index \/ Count(com) >= COM_IN)
  BY BTerminateDoes
<1>2. ~spoilt /\ com.bottom = b.index
  BY <1>1, Zenon
<1>3. Ahead /\ Owed
  BY <1>2 DEF Once
<1>4. ASSUME pend = <<>> PROVE com'.in[com'.top] # AT
  <2>1. Fits(com, b.pc, pend) /\ From(com, b.pc) = com.top
    BY <1>1, <1>2 DEF Placed, InPlace, Storing, From, Resetting
  <2>2. com.top \in 0 .. COM_IN - 1 /\ com.in \in ComCells
    BY ComFields DEF Types, ComTypes
  <2>3. com.bottom = com.top
    <3>1. Len(pend) = 0
      BY <1>4, EmptySeq
    <3> QED BY <2>1, <2>2, <3>1, Sizes DEF Fits, Free, Wrapped
  <2>4. com'.in[com'.top] = NUL
    BY <1>1, <1>2, <2>2, <2>3, Sizes DEF ComCells
  <2> QED BY <2>4 DEF NUL, AT
<1>5. b'.pc = "handle"
  BY <1>1 DEF Types, BTypes
<1>6. Unseen'
  BY <1>1, <1>4 DEF Unseen
<1>7. Ahead' /\ Owed'
  BY <1>1, <1>3 DEF Ahead, Owed
<1> QED BY <1>6, <1>7

LEMMA HandleOnce == Types /\ Placed /\ Once /\ BHandle => Once'
<1> SUFFICES ASSUME Types, Placed, Once, BHandle, ~spoilt' PROVE Unseen' /\ Ahead' /\ Owed'
  BY DEF Once
<1>1. /\ UNCHANGED <<pend, tmr, fifo, commands, spoilt>> /\ b.pc = "handle" /\ tmr.pc = "idle"
      /\ b'.pc \in {"reset1", "clear1"}
  BY DEF BHandle, UNCHANGED_B, BtDone, TmrDone, Goto, Types, BTypes
<1>2. Unseen /\ Ahead /\ Owed /\ Fits(com, b.pc, pend) /\ From(com, b.pc) = com.top /\ ~Storing(tmr)
  BY <1>1 DEF Once, Placed, InPlace, Storing, From, Resetting
<1>3. /\ executed \in Nat /\ commands \in Nat
      /\ fifo \in Seq(Int) /\ pend \in Seq(Int)
      /\ ATs(fifo) \in Nat /\ ATs(pend) \in Nat /\ InHand(tmr) \in {0, 1}
  BY CountsNat
<1>4. executed + ATs(pend) + ATs(fifo) + InHand(tmr) <= commands
  BY <1>1, <1>2 DEF Owed
<1>5. Unseen'
  BY <1>1 DEF Unseen
<1>6. CASE com.in[com.top] = AT
  <2>1. executed' = executed + 1 /\ b'.pc = "reset1"
    BY <1>6 DEF BHandle, Goto, Types, BTypes
  <2>2. ATs(pend) >= 1
    <3>1. pend # <<>>
      BY <1>1, <1>2, <1>6 DEF Unseen
    <3>2. Len(pend) > 0 /\ Len(pend) \in Nat /\ 1 \in 1 .. Len(pend)
      <4>1. Len(pend) \in Nat /\ Len(pend) # 0
        BY <1>3, <3>1, EmptySeq, LenProperties
      <4> QED BY <4>1
    <3>3. com.top \in 0 .. COM_IN - 1
      BY ComFields DEF Types, ComTypes
    <3>4. Wrapped(com.top + 1 - 1, COM_IN) = com.top
      BY <3>3, Sizes DEF Wrapped
    <3>5. pend[1] = AT
      BY <1>2, <1>6, <3>2, <3>4 DEF Fits, Holds
    <3> QED BY <1>3, <3>2, <3>5, ATsFirst
  <2>3. Ahead'
    BY <1>1, <1>3, <1>4, <2>1, <2>2 DEF Ahead
  <2> QED BY <1>5, <2>1, <2>3 DEF Owed
<1>7. CASE com.in[com.top] # AT
  <2>1. executed' = executed
    BY <1>7 DEF BHandle
  <2> QED BY <1>1, <1>2, <1>4, <1>5, <2>1 DEF Ahead, Owed
<1> QED BY <1>6, <1>7

LEMMA ResetOnce == Types /\ Once /\ BReset => Once'
<1> SUFFICES ASSUME Types, Once, BReset, ~spoilt' PROVE Unseen' /\ Ahead' /\ Owed'
  BY DEF Once
<1>1. /\ UNCHANGED <<spoilt, tmr, fifo, executed, commands>>
      /\ \/ b.pc = "reset1" /\ b'.pc = "reset2" /\ UNCHANGED pend
         \/ b.pc = "reset2" /\ b'.pc = "reset3" /\ pend' = <<>>
         \/ b.pc = "reset3" /\ b'.pc = "reset4" /\ UNCHANGED pend
         \/ b.pc = "reset4" /\ b'.pc = "clear1" /\ UNCHANGED pend
  BY BResetDoes
<1>2. Ahead /\ Owed
  BY <1>1 DEF Once
<1>3. Ahead'
  BY <1>1, <1>2 DEF Ahead
<1>4. Unseen'
  BY <1>1 DEF Unseen
<1>5. CASE b.pc = "reset1" /\ b'.pc = "reset2"
  BY <1>3, <1>4, <1>5 DEF Owed
<1>6. CASE b.pc = "reset2" /\ b'.pc = "reset3" /\ pend' = <<>>
  <2>1. /\ executed \in Nat /\ commands \in Nat /\ ATs(fifo) \in Nat /\ InHand(tmr) \in {0, 1}
    BY CountsNat
  <2>2. ATs(pend') = 0
    BY <1>6, ATsNone, EmptySeq
  <2>3. executed' + ATs(pend') + ATs(fifo') + InHand(tmr') <= commands'
    BY <1>1, <1>2, <2>1, <2>2 DEF Ahead
  <2> QED BY <1>3, <1>4, <2>3 DEF Owed
<1>7. CASE b.pc \in {"reset3", "reset4"} /\ UNCHANGED pend
  BY <1>1, <1>2, <1>3, <1>4, <1>7 DEF Owed
<1> QED BY <1>1, <1>5, <1>6, <1>7

LEMMA InitOnce == Init => Once
<1> SUFFICES ASSUME Init PROVE Unseen /\ Ahead /\ Owed
  BY DEF Once
<1>1. /\ ATs(fifo) = 0 /\ ATs(pend) = 0
  BY ATsNone, EmptySeq DEF Init
<1>2. tmr.pc = "idle" /\ b.pc = "wait" /\ executed = 0 /\ commands = 0
  BY DEF Init, TmrIdle
<1>3. InHand(tmr) = 0
  BY <1>2 DEF InHand
<1> QED BY <1>1, <1>2, <1>3 DEF Unseen, Ahead, Owed

LEMMA StepOnce == Types /\ Placed /\ Once /\ [Next]_vars => Once'
<1>1. BtWild => Once'
  BY DEF BtWild, Once
<1> QED BY <1>1, OnceKinds, AsideOnce, HostOnce, IsrOnce, TmrOnce, TakenOnce, TerminateOnce, HandleOnce,
           ResetOnce

(***************************************************************************)
(* No command is executed twice, though its text stays in com_buf after    *)
(* the reset and any later silence may have it parsed again.               *)
(***************************************************************************)
THEOREM CommandsAlwaysOnce == FairSpec => []CommandsOnce
<1>1. Types /\ Once => CommandsOnce
  <2> SUFFICES ASSUME Types, Ahead PROVE executed <= commands
    BY DEF Once, CommandsOnce
  <2>1. executed \in Nat /\ commands \in Nat /\ ATs(fifo) \in Nat /\ InHand(tmr) \in {0, 1}
    BY CountsNat
  <2> QED BY <2>1 DEF Ahead
<1> QED BY <1>1, InitOnce, StepOnce, InitPlaced, StepPlaced, AlwaysTypes, PTL DEF FairSpec
=============================================================================
