--------------------------- MODULE AtStream_proofs ---------------------------
(***************************************************************************)
(* Proofs about AtStream for every ring length, level, packet size, set of *)
(* links and set of lines: type correctness, and the invariants that say   *)
(* the interrupt, the timers and the Bluetooth task never lose each        *)
(* other's requests.                                                       *)
(***************************************************************************)
EXTENDS AtStream, TLAPS

-----------------------------------------------------------------------------
(* The ring *)

(* An index moved by at most the length of the ring stays an index. *)
LEMMA AdvanceType ==
  ASSUME NEW p \in Index, NEW n \in 0 .. AT_RECV_MAX_LEN
  PROVE  Advance(p, n) \in Index
BY RingAssumption DEF Advance, Index

LEMMA SizeType ==
  ASSUME NEW r \in Index, NEW w \in Index
  PROVE  /\ at_buffer_data_size(r, w) \in 0 .. AT_RECV_MAX_LEN - 1
         /\ at_buffer_data_size(r, w) = 0 <=> at_buffer_empty(r, w)
BY RingAssumption DEF at_buffer_data_size, at_buffer_empty, Index

(* A packet cut from a ring that is not empty has a byte at least, at most
   what the ring holds and a packet takes, and does not wrap around. *)
LEMMA PacketLenType ==
  ASSUME NEW r \in Index, NEW w \in Index, ~at_buffer_empty(r, w)
  PROVE  /\ PacketLen(r, w, MTU) \in 1 .. MTU
         /\ PacketLen(r, w, MTU) <= at_buffer_data_size(r, w)
         /\ r + PacketLen(r, w, MTU) <= AT_RECV_MAX_LEN
<1>1. at_buffer_data_size(r, w) \in 1 .. AT_RECV_MAX_LEN - 1
  BY SizeType, RingAssumption
<1>2. MTU \in Nat /\ MTU > 0 /\ r \in 0 .. AT_RECV_MAX_LEN - 1 /\ AT_RECV_MAX_LEN \in Nat
  BY RingAssumption, StreamAssumption DEF Index
<1> QED BY <1>1, <1>2 DEF PacketLen

-----------------------------------------------------------------------------
(* Messages *)

LEMMA MsgTypes == START \in Msg /\ RECV \in Msg /\ START.type = "START" /\ RECV.type = "RECV"
BY DEF START, RECV, Msg

Types == {"START", "RECV", "CMD"}

(* A message of the type waits in q. *)
In(type, q) == \E i \in 1 .. Len(q) : q[i].type = type

LEMMA Appending ==
  ASSUME NEW q \in Seq(Msg), NEW e \in Msg, NEW type
  PROVE  /\ Append(q, e) \in Seq(Msg)
         /\ In(type, Append(q, e)) <=> In(type, q) \/ e.type = type
<1>1. /\ Append(q, e) \in Seq(Msg) /\ Len(Append(q, e)) = Len(q) + 1 /\ Len(q) \in Nat
      /\ \A i \in 1 .. Len(q) : Append(q, e)[i] = q[i]
      /\ Append(q, e)[Len(q) + 1] = e
  OBVIOUS
<1>2. In(type, Append(q, e)) => In(type, q) \/ e.type = type
  BY <1>1 DEF In
<1>3. In(type, q) \/ e.type = type => In(type, Append(q, e))
  <2>1. CASE In(type, q)
    BY <1>1, <2>1 DEF In
  <2>2. CASE e.type = type
    <3>1. Len(q) + 1 \in 1 .. Len(Append(q, e))
      BY <1>1
    <3> QED BY <1>1, <2>2, <3>1 DEF In
  <2> QED BY <2>1, <2>2
<1> QED BY <1>1, <1>2, <1>3

(* What Post leaves in the queue. *)
LEMMA Posting ==
  ASSUME msgq \in Seq(Msg), NEW start \in BOOLEAN, NEW recv \in BOOLEAN, Post(start, recv)
  PROVE  /\ msgq' \in Seq(Msg)
         /\ \A type \in Types : Queued(type)' <=>
              Queued(type) \/ (type = "START" /\ start) \/ (type = "RECV" /\ recv)
<1> DEFINE q == IF start THEN Append(msgq, START) ELSE msgq
<1>1. /\ q \in Seq(Msg)
      /\ \A type \in Types : In(type, q) <=> In(type, msgq) \/ (type = "START" /\ start)
  BY Appending, MsgTypes DEF Types
<1>2. msgq' = IF recv THEN Append(q, RECV) ELSE q
  BY DEF Post
<1> HIDE DEF q
<1>3. /\ msgq' \in Seq(Msg)
      /\ \A type \in Types : In(type, msgq') <=> In(type, q) \/ (type = "RECV" /\ recv)
  BY <1>1, <1>2, Appending, MsgTypes DEF Types
<1>4. \A type \in Types : (Queued(type) <=> In(type, msgq)) /\ (Queued(type)' <=> In(type, msgq'))
  BY <1>3 DEF Queued, In
<1> QED BY <1>1, <1>3, <1>4

(* Taking the first message leaves the messages of the other types. *)
LEMMA Taking ==
  ASSUME msgq \in Seq(Msg), NEW type \in Types, NextMsg(type)
  PROVE  /\ msgq' \in Seq(Msg) /\ Queued(type)
         /\ \A other \in Types \ {type} : Queued(other)' <=> Queued(other)
         /\ \A other \in Types : Queued(other)' => Queued(other)
<1>1. /\ msgq' \in Seq(Msg) /\ Len(msgq') = Len(msgq) - 1 /\ Len(msgq) > 0
      /\ msgq[1].type = type
      /\ \A i \in 1 .. Len(msgq') : msgq'[i] = msgq[i + 1]
  BY DEF NextMsg
<1>2. \A i \in 2 .. Len(msgq) : i - 1 \in 1 .. Len(msgq') /\ msgq'[i - 1] = msgq[i]
  BY <1>1
<1>3. DOMAIN msgq = 1 .. Len(msgq) /\ DOMAIN msgq' = 1 .. Len(msgq')
  BY <1>1
<1>4. Queued(type)
  BY <1>1, <1>3 DEF Queued
<1>5. ASSUME NEW other \in Types, Queued(other)'
      PROVE  Queued(other)
  BY <1>1, <1>3, <1>5 DEF Queued
<1>6. ASSUME NEW other \in Types \ {type}, Queued(other)
      PROVE  Queued(other)'
  <2>1. PICK i \in 1 .. Len(msgq) : msgq[i].type = other
    BY <1>3, <1>6 DEF Queued
  <2>2. i \in 2 .. Len(msgq)
    BY <1>1, <2>1
  <2> QED BY <1>2, <1>3, <2>1, <2>2 DEF Queued
<1> QED BY <1>1, <1>4, <1>5, <1>6

-----------------------------------------------------------------------------
(* Type correctness *)

LEMMA InitType == Init => TypeOK
BY RingAssumption, StreamAssumption
   DEF Init, TypeOK, UartType, TaskType, TimerType, BtType, BtStates,
       WorldType, Index, Cell, Blank, Idle, At, Char, Words, Links, Methods

(* A byte stored in the ring. *)
LEMMA Storing ==
  ASSUME UartType, NEW c \in Char, NEW n \in Nat
  PROVE  /\ Advance(wp, 1) \in Index /\ Advance(rp, 1) \in Index /\ 0 \in Index
         /\ [buf EXCEPT ![wp] = [ch |-> c, id |-> n]] \in [Index -> Cell]
<1>1. 1 \in 0 .. AT_RECV_MAX_LEN /\ 0 \in Index
  BY RingAssumption DEF Index
<1> QED BY <1>1, AdvanceType DEF UartType, Cell

LEMMA StepUartType == TypeOK /\ [Next]_vars => UartType'
<1> SUFFICES ASSUME TypeOK, [Next]_vars PROVE UartType'
  OBVIOUS
<1> USE DEF TypeOK, uart, ring, mode
<1>a. UartType /\ rx \in Nat /\ rx + 1 \in Nat /\ 0 \in Nat /\ 0 \in Index
  BY Storing, RingAssumption DEF WorldType, Index
<1>1. ASSUME NEW c \in Char, RxTransparent(c) PROVE UartType'
  <2>1. buf' \in [Index -> Cell] /\ rp' \in Index /\ wp' \in Index
    BY <1>a, <1>1, Storing DEF RxTransparent, at_buffer_enqueue_data, UartType
  <2> QED BY <1>a, <1>1, <2>1 DEF RxTransparent, UartType
<1>2. ASSUME NEW c \in Char, RxOneSlot(c) PROVE UartType'
  <2>1. buf' \in [Index -> Cell] /\ rp' \in Index /\ wp' \in Index
    BY <1>a, <1>2, Storing DEF RxOneSlot, at_buffer_enqueue_data, UartType
  <2> QED BY <1>a, <1>2, <2>1 DEF RxOneSlot, UartType
<1>3. ASSUME NEW c \in Char, RxPrefix(c) PROVE UartType'
  BY <1>3 DEF RxPrefix, UartType
<1>4. ASSUME NEW c \in Char, RxCommand(c) PROVE UartType'
  <2>1. buf' \in [Index -> Cell]
    BY <1>a, <1>4, Storing DEF RxCommand
  <2>2. rp' \in Index /\ wp' \in Index /\ at_recv_state' \in 0 .. 3
    BY <1>a, <1>4, Storing DEF RxCommand, UartType
  <2> QED BY <1>4, <2>1, <2>2 DEF RxCommand, UartType
<1>5. ASSUME NEW c \in Char, RxSwallowed(c) PROVE UartType'
  BY <1>5 DEF RxSwallowed, UartType
<1>6. CASE TimerTask
  BY <1>a, <1>6 DEF TimerTask, SendTimerFires, SendTimerPosts, ExitTimerFires, ExitTransparent,
              ExitClears, UartType
<1>7. CASE CommandMsg
  BY <1>7, StreamAssumption
     DEF CommandMsg, OtherCommand, CommandIgnored, SetTarget, StartOneSlot, EnterTransparent,
         UartType
<1>8. CASE PopSent
  <2>1. bt.len \in 0 .. AT_RECV_MAX_LEN
    BY StreamAssumption, RingAssumption DEF BtType, BtStates
  <2> QED BY <1>8, <2>1, AdvanceType DEF PopSent, UartType
<1>9. CASE ClearAfterCommand \/ ClearOnDisconnect
  BY <1>a, <1>9 DEF ClearAfterCommand, ClearOnDisconnect, UartType
<1>10. CASE RecvTransparentData
  BY <1>a, <1>10 DEF RecvTransparentData, UartType
<1>11. CASE SendDone \/ ReportSendOk \/ LeaveModes
  BY <1>a, <1>11 DEF SendDone, ReportSendOk, LeaveModes, UartType
<1>12. CASE StartTimerMsg \/ SendPacket \/ SendEnds \/ SendHangs \/ AsyncDone
  BY <1>12 DEF StartTimerMsg, SendPacket, SendEnds, SendHangs, AsyncDone, UartType
<1>13. ASSUME NEW l \in Links, NEW via \in Methods, CanSendNow(l, via) PROVE UartType'
  BY <1>13 DEF CanSendNow, UartType
<1>14. CASE Peers \/ HostTypes \/ TxDone \/ UNCHANGED vars
  BY <1>14 DEF Peers, HostTypes, TxDone, vars, Connect, Disconnect, WriteOutputDesc, UartType
<1> QED
  BY <1>1, <1>2, <1>3, <1>4, <1>5, <1>6, <1>7, <1>8, <1>9, <1>10, <1>11, <1>12, <1>13, <1>14
     DEF Next, Isr, BtWork

LEMMA StepTaskType == TypeOK /\ [Next]_vars => TaskType'
<1> SUFFICES ASSUME TypeOK, [Next]_vars PROVE TaskType'
  OBVIOUS
<1> USE DEF TypeOK, task, target
<1>a. TaskType /\ msgq \in Seq(Msg) /\ up \subseteq Links
  BY DEF TaskType, WorldType
<1>1. ASSUME NEW c \in Char, RxTransparent(c) PROVE TaskType'
  <2>1. msgq' \in Seq(Msg)
    BY <1>a, <1>1, Posting DEF RxTransparent, WasEmpty, at_buffer_empty, AboveLevel
  <2> QED BY <1>1, <2>1 DEF RxTransparent, Byte, TaskType
<1>2. ASSUME NEW c \in Char, RxOneSlot(c) PROVE TaskType'
  <2>1. msgq' \in Seq(Msg)
    BY <1>a, <1>2, Posting DEF RxOneSlot, WasEmpty, at_buffer_empty, AboveLevel, LastByte
  <2> QED BY <1>2, <2>1 DEF RxOneSlot, Byte, TaskType
<1>3. ASSUME NEW c \in Char, RxSwallowed(c) \/ RxPrefix(c) PROVE TaskType'
  BY <1>3 DEF RxSwallowed, RxPrefix, Byte, TaskType
<1>4. ASSUME NEW c \in Char, RxCommand(c) PROVE TaskType'
  <2>1. CommandWord \in Char /\ first' \in Char
    <3>1. buf' \in [Index -> Cell] /\ 0 \in Index
      BY <1>4, StepUartType, Storing DEF UartType, Next, Isr
    <3> QED BY <1>4, <3>1 DEF CommandWord, Cell, RxCommand, WorldType
  <2>2. [type |-> "CMD", word |-> CommandWord, typed |-> first'] \in Msg
    BY <2>1 DEF Msg
  <2>3. msgq' \in Seq(Msg)
    BY <1>a, <1>4, <2>2, Appending DEF RxCommand
  <2> QED BY <1>4, <2>3 DEF RxCommand, Byte, TaskType
<1>5. CASE SendTimerPosts
  <2>1. msgq' \in Seq(Msg)
    BY <1>a, <1>5, Posting DEF SendTimerPosts
  <2> QED BY <1>5, <2>1 DEF SendTimerPosts, TaskType
<1>6. CASE SendTimerFires \/ ExitTimerFires \/ ExitTransparent \/ ExitClears
  BY <1>6 DEF SendTimerFires, ExitTimerFires, ExitTransparent, ExitClears, TaskType
<1>7. CASE StartTimerMsg
  BY <1>a, <1>7, Taking DEF StartTimerMsg, TaskType, Types
<1>8. CASE CommandMsg
  <2>1. msgq' \in Seq(Msg)
    BY <1>a, <1>8, Taking DEF CommandMsg, Types
  <2> QED
    BY <1>a, <1>8, <2>1 DEF CommandMsg, OtherCommand, CommandIgnored, SetTarget, StartOneSlot,
       EnterTransparent, TaskType, Methods
<1>9. CASE RecvTransparentData
  BY <1>a, <1>9, Taking DEF RecvTransparentData, TaskType, Types
<1>10. CASE SendEnds
  BY <1>10 DEF SendEnds, TaskType
<1>11. CASE AsyncDone
  BY <1>11 DEF AsyncDone, TaskType
<1>12. CASE ClearAfterCommand \/ SendPacket \/ PopSent \/ SendHangs \/ SendDone
            \/ ReportSendOk \/ ClearOnDisconnect \/ LeaveModes
  BY <1>12 DEF ClearAfterCommand, SendPacket, PopSent, SendHangs, SendDone, ReportSendOk,
               ClearOnDisconnect, LeaveModes, TaskType
<1>13. ASSUME NEW l \in Links, NEW via \in Methods, CanSendNow(l, via) PROVE TaskType'
  BY <1>13 DEF CanSendNow, TaskType
<1>14. CASE Peers
  BY <1>14 DEF Peers, Connect, Disconnect, WriteOutputDesc, TaskType
<1>15. CASE HostTypes \/ TxDone \/ UNCHANGED vars
  BY <1>15 DEF HostTypes, TxDone, vars, TaskType
<1> QED
  BY <1>1, <1>2, <1>3, <1>4, <1>5, <1>6, <1>7, <1>8, <1>9, <1>10, <1>11, <1>12, <1>13, <1>14,
     <1>15 DEF Next, Isr, TimerTask, BtWork

LEMMA StepTimerType == TypeOK /\ [Next]_vars => TimerType'
<1> SUFFICES ASSUME TypeOK, [Next]_vars PROVE TimerType'
  OBVIOUS
<1> USE DEF TypeOK, TimerType, timers
<1>1. ASSUME NEW c \in Char, RxTransparent(c) PROVE TimerType'
  BY <1>1 DEF RxTransparent, Byte
<1>2. ASSUME NEW c \in Char,
             RxOneSlot(c) \/ RxSwallowed(c) \/ RxPrefix(c) \/ RxCommand(c)
      PROVE  TimerType'
  BY <1>2 DEF RxOneSlot, RxSwallowed, RxPrefix, RxCommand, Byte
<1>3. CASE TimerTask
  BY <1>3 DEF TimerTask, SendTimerFires, SendTimerPosts, ExitTimerFires, ExitTransparent,
              ExitClears
<1>4. CASE StartTimerMsg \/ CommandMsg \/ RecvTransparentData
  BY <1>4 DEF StartTimerMsg, CommandMsg, RecvTransparentData
<1>5. CASE ClearAfterCommand \/ SendPacket \/ PopSent \/ SendEnds \/ SendHangs \/ SendDone
           \/ ReportSendOk \/ ClearOnDisconnect \/ LeaveModes \/ AsyncDone
  BY <1>5 DEF ClearAfterCommand, SendPacket, PopSent, SendEnds, SendHangs, SendDone,
              ReportSendOk, ClearOnDisconnect, LeaveModes, AsyncDone
<1>6. ASSUME NEW l \in Links, NEW via \in Methods, CanSendNow(l, via) PROVE TimerType'
  BY <1>6 DEF CanSendNow
<1>7. CASE Peers \/ HostTypes \/ TxDone \/ UNCHANGED vars
  BY <1>7 DEF Peers, HostTypes, TxDone, vars, Connect, Disconnect, WriteOutputDesc
<1> QED
  BY <1>1, <1>2, <1>3, <1>4, <1>5, <1>6, <1>7 DEF Next, Isr, BtWork

Places == {"idle", "clear", "send", "sent", "report", "lost", "leave"}

(* Back to the event loop, or on to a step that needs no packet. *)
LEMMA AtType == \A p \in Places : At(p) \in BtStates
<1>1. 0 \in Index /\ 0 \in 0 .. MTU /\ 0 \in 0 .. MaxBurst /\ "M2S_W" \in Methods
  BY RingAssumption, StreamAssumption DEF Index, Methods
<1> QED BY <1>1 DEF At, BtStates, Places

LEMMA SendingType ==
  ASSUME NEW l \in Links \cup {NoLink}, transparent_conidx = l,
         NEW via \in Methods, NEW recv \in BOOLEAN
  PROVE  Sending(via, recv) \in BtStates
<1>1. ASSUME NEW s \in BtStates
      PROVE  [s EXCEPT !.irq = recv, !.recv = recv, !.via = via, !.to = l] \in BtStates
  BY <1>1 DEF BtStates
<1> QED BY <1>1, AtType DEF Sending, Places

LEMMA StepBtType == TypeOK /\ [Next]_vars => BtType'
<1> SUFFICES ASSUME TypeOK, [Next]_vars PROVE BtType'
  OBVIOUS
<1> USE DEF TypeOK, BtType
<1>a. /\ transparent_conidx \in Links \cup {NoLink} /\ transparent_method \in Methods
      /\ TRUE \in BOOLEAN /\ FALSE \in BOOLEAN
  BY DEF TaskType
<1>1. ASSUME NEW c \in Char, Byte(c) PROVE BtType'
  <2>1. CASE bt.pc = "adv"
    <3>1. bt.burst + 1 \in 0 .. MaxBurst
      BY <1>1, <2>1, StreamAssumption DEF Byte, BtStates
    <3> QED BY <1>1, <2>1, <3>1 DEF Byte, BtStates
  <2>2. CASE bt.pc # "adv"
    BY <1>1, <2>2 DEF Byte
  <2> QED BY <2>1, <2>2
<1>2. ASSUME NEW c \in Char,
             RxTransparent(c) \/ RxOneSlot(c) \/ RxSwallowed(c) \/ RxPrefix(c) \/ RxCommand(c)
      PROVE  BtType'
  BY <1>1, <1>2 DEF RxTransparent, RxOneSlot, RxSwallowed, RxPrefix, RxCommand
<1>3. CASE TimerTask
  BY <1>3 DEF TimerTask, SendTimerFires, SendTimerPosts, ExitTimerFires, ExitTransparent,
              ExitClears
<1>4. CASE StartTimerMsg
  BY <1>4 DEF StartTimerMsg
<1>5. CASE CommandMsg
  BY <1>5, AtType
     DEF Places, CommandMsg, OtherCommand, CommandIgnored, SetTarget, StartOneSlot, EnterTransparent
<1>6. CASE RecvTransparentData
  BY <1>a, <1>6, AtType, SendingType DEF RecvTransparentData, Places
<1>7. CASE SendPacket
  <2>1. PacketLen(rp, wp, MTU) \in 0 .. MTU
    BY <1>7, PacketLenType, StreamAssumption DEF SendPacket, UartType
  <2>2. rp \in Index /\ 0 \in 0 .. MaxBurst
    BY StreamAssumption DEF UartType
  <2> QED BY <1>7, <2>1, <2>2 DEF SendPacket, BtStates
<1>8. CASE PopSent
  <2>1. 0 \in 0 .. MaxBurst
    BY StreamAssumption
  <2>2. bt' = [bt EXCEPT !.pc = "send", !.burst = 0]
    BY <1>8 DEF PopSent
  <2> QED BY <2>1, <2>2 DEF BtStates
<1>9. CASE SendEnds
  BY <1>9, AtType DEF Places, Idle, SendEnds, SendReturns
<1>10. CASE SendHangs
  BY <1>10 DEF SendHangs, BtStates
<1>11. CASE ClearAfterCommand \/ SendDone \/ ReportSendOk \/ ClearOnDisconnect \/ LeaveModes
  BY <1>11, AtType DEF Places, Idle, ClearAfterCommand, SendDone, ReportSendOk, ClearOnDisconnect, LeaveModes
<1>12. CASE AsyncDone
  BY <1>12 DEF AsyncDone
<1>13. ASSUME NEW l \in Links, NEW via \in Methods, CanSendNow(l, via) PROVE BtType'
  BY <1>a, <1>13, AtType, SendingType DEF CanSendNow, Idle, Places
<1>14. ASSUME NEW l \in Links, Disconnect(l) PROVE BtType'
  BY <1>14, AtType DEF Places, Idle, Disconnect
<1>15. ASSUME NEW l \in Links, Connect(l) \/ \E on \in BOOLEAN : WriteOutputDesc(l, on)
       PROVE  BtType'
  BY <1>15 DEF Connect, WriteOutputDesc
<1>16. CASE HostTypes \/ TxDone \/ UNCHANGED vars
  BY <1>16 DEF HostTypes, TxDone, vars
<1> QED
  BY <1>2, <1>3, <1>4, <1>5, <1>6, <1>7, <1>8, <1>9, <1>10, <1>11, <1>12, <1>13, <1>14, <1>15,
     <1>16 DEF Next, Isr, BtWork, Peers

LEMMA StepWorldType == TypeOK /\ [Next]_vars => WorldType'
<1> SUFFICES ASSUME TypeOK, [Next]_vars PROVE WorldType'
  OBVIOUS
<1> USE DEF TypeOK, world, radio, peers, host, marks
<1>a. WorldType
  OBVIOUS
<1>1. CASE HostTypes
  BY <1>a, <1>1, StreamAssumption DEF HostTypes, WorldType
<1>2. ASSUME NEW c \in Char, Byte(c)
      PROVE  UNCHANGED <<radio, peers, cmds_left, data_left>> /\ typing' \in Seq(Char)
  BY <1>a, <1>2 DEF Byte, WorldType
<1>3. ASSUME NEW c \in Char, RxTransparent(c) PROVE WorldType'
  BY <1>a, <1>2, <1>3 DEF RxTransparent, WorldType
<1>4. ASSUME NEW c \in Char, RxOneSlot(c) PROVE WorldType'
  BY <1>a, <1>2, <1>4 DEF RxOneSlot, WorldType
<1>5. ASSUME NEW c \in Char, RxSwallowed(c) PROVE WorldType'
  BY <1>a, <1>2, <1>5 DEF RxSwallowed, WorldType
<1>6. ASSUME NEW c \in Char, RxPrefix(c) PROVE WorldType'
  BY <1>a, <1>2, <1>6 DEF RxPrefix, WorldType
<1>7. ASSUME NEW c \in Char, RxCommand(c) PROVE WorldType'
  BY <1>a, <1>2, <1>7 DEF RxCommand, WorldType
<1>8. CASE TimerTask
  BY <1>a, <1>8 DEF TimerTask, SendTimerFires, SendTimerPosts, ExitTimerFires, ExitTransparent,
              ExitClears, WorldType
<1>9. CASE StartTimerMsg \/ CommandMsg \/ ClearAfterCommand \/ RecvTransparentData \/ PopSent
           \/ SendHangs \/ SendDone \/ ReportSendOk \/ ClearOnDisconnect \/ AsyncDone
  BY <1>a, <1>9 DEF StartTimerMsg, CommandMsg, ClearAfterCommand, RecvTransparentData, PopSent,
              SendHangs, SendDone, ReportSendOk, ClearOnDisconnect, AsyncDone, WorldType
<1>10. CASE SendPacket
  <2> DEFINE n == PacketLen(rp, wp, MTU)
  <2>1. n \in 1 .. MTU /\ rp + n <= AT_RECV_MAX_LEN
    BY <1>10, PacketLenType DEF SendPacket, UartType
  <2>2. \A k \in 1 .. n : buf[rp + k - 1] \in Cell
    BY <2>1, StreamAssumption, RingAssumption DEF UartType, Index
  <2>3. n \in Nat /\ air' = [k \in 1 .. n |-> buf[rp + k - 1]]
    BY <1>10, <2>1, StreamAssumption DEF SendPacket
  <2> HIDE DEF n
  <2>4. air' \in Seq(Cell)
    BY <2>2, <2>3
  <2>5. acl' \in 0 .. MaxAcl
    BY <1>a, <1>10, StreamAssumption DEF SendPacket, WorldType
  <2> QED BY <1>a, <1>10, <2>4, <2>5 DEF SendPacket, WorldType
<1>11. CASE SendEnds
  <2>1. bt.to \in up => <<bt.to, bt.via>> \in Links \X Methods
    BY <1>a DEF WorldType, BtType, BtStates
  <2> QED BY <1>a, <1>11, <2>1 DEF SendEnds, WorldType
<1>12. CASE LeaveModes
  BY <1>a, <1>12 DEF LeaveModes, WorldType
<1>13. ASSUME NEW l \in Links, NEW via \in Methods, CanSendNow(l, via) PROVE WorldType'
  BY <1>a, <1>13 DEF CanSendNow, WorldType
<1>14. ASSUME NEW l \in Links, Connect(l) PROVE WorldType'
  BY <1>a, <1>14 DEF Connect, WorldType
<1>15. ASSUME NEW l \in Links, Disconnect(l) PROVE WorldType'
  BY <1>a, <1>15 DEF Disconnect, WorldType
<1>16. ASSUME NEW l \in Links, NEW on \in BOOLEAN, WriteOutputDesc(l, on) PROVE WorldType'
  BY <1>a, <1>16 DEF WriteOutputDesc, WorldType
<1>17. CASE TxDone
  BY <1>a, <1>17, StreamAssumption DEF TxDone, WorldType
<1>18. CASE UNCHANGED vars
  BY <1>a, <1>18 DEF vars, WorldType
<1> QED
  BY <1>1, <1>3, <1>4, <1>5, <1>6, <1>7, <1>8, <1>9, <1>10, <1>11, <1>12, <1>13, <1>14, <1>15,
     <1>16, <1>17, <1>18 DEF Next, Isr, BtWork, Peers

(***************************************************************************)
(* Every variable keeps its type: the indices of the ring never leave the  *)
(* array, and a packet never holds more than the stack was promised.       *)
(***************************************************************************)
THEOREM TypeCorrect == Spec => []TypeOK
<1>1. TypeOK /\ [Next]_vars => TypeOK'
  BY StepUartType, StepTaskType, StepTimerType, StepBtType, StepWorldType DEF TypeOK
<1> QED BY InitType, <1>1, PTL DEF Spec

-----------------------------------------------------------------------------
(* Who may run when *)

(***************************************************************************)
(* Only recv_transparent_data masks interrupts, and only around its loop;  *)
(* while it does, and until it has reset its flag, no timer callback is in *)
(* progress and the send timer is stopped.  The loop sends to the target.  *)
(***************************************************************************)
TaskShape ==
  /\ bt.irq <=> bt.recv
  /\ bt.recv => bt.pc \in {"send", "adv", "hung"} /\ tpc = "idle"
  /\ InRecv => ~t1
  /\ bt.pc \in {"send", "adv"} => bt.to = transparent_conidx

(* What the fields of bt are after a step that names only some of them. *)
LEMMA AtFields == \A p : At(p).pc = p /\ ~At(p).irq /\ ~At(p).recv
BY DEF At

LEMMA SendingFields ==
  \A via : /\ Sending(via, TRUE).irq /\ Sending(via, TRUE).recv
           /\ ~Sending(via, FALSE).irq /\ ~Sending(via, FALSE).recv
           /\ \A recv : /\ Sending(via, recv).pc = "send" /\ Sending(via, recv).via = via
                        /\ Sending(via, recv).to = transparent_conidx
BY DEF Sending, At

LEMMA InitShape == Init => TaskShape
BY AtFields DEF Idle, Init, TaskShape, InRecv

LEMMA StepShape == TypeOK /\ TaskShape /\ [Next]_vars => TaskShape'
<1> SUFFICES ASSUME TypeOK, TaskShape, [Next]_vars PROVE TaskShape'
  OBVIOUS
<1> USE DEF TaskShape, InRecv, task, timers, target
<1>a. bt \in BtStates /\ TRUE \in BOOLEAN /\ FALSE \in BOOLEAN /\ t1 \in BOOLEAN
  BY DEF TypeOK, BtType, TimerType
<1>1. ASSUME NEW c \in Char, Byte(c), UNCHANGED t1 PROVE TaskShape'
  BY <1>a, <1>1 DEF Byte, BtStates
<1>2. ASSUME NEW c \in Char,
             RxTransparent(c) \/ RxOneSlot(c) \/ RxSwallowed(c) \/ RxPrefix(c) \/ RxCommand(c)
      PROVE  TaskShape'
  BY <1>1, <1>2 DEF RxTransparent, RxOneSlot, RxSwallowed, RxPrefix, RxCommand
<1>3. CASE SendTimerFires \/ ExitTimerFires
  BY <1>3 DEF SendTimerFires, ExitTimerFires
<1>4. CASE SendTimerPosts \/ ExitTransparent \/ ExitClears
  <2>1. tpc # "idle" /\ (t1' = t1 \/ ~t1') /\ UNCHANGED <<bt, transparent_conidx>>
    BY <1>4 DEF SendTimerPosts, ExitTransparent, ExitClears
  <2>2. ~bt.recv
    BY <2>1
  <2> QED BY <1>a, <2>1, <2>2
<1>5. CASE StartTimerMsg
  <2>1. bt.pc = "idle" /\ UNCHANGED <<bt, tpc>>
    BY <1>5 DEF StartTimerMsg, NextMsg, BtFree
  <2> QED BY <2>1
<1>6. CASE CommandMsg
  <2>1. BtFree /\ bt'.pc \in {"idle", "clear"} /\ ~bt'.irq /\ ~bt'.recv /\ UNCHANGED <<tpc, t1>>
    BY <1>6, AtFields DEF Idle, CommandMsg, NextMsg, BtFree, OtherCommand, CommandIgnored, SetTarget,
                            StartOneSlot, EnterTransparent
  <2> QED BY <2>1
<1>7. CASE RecvTransparentData
  <2>1. tpc' = "idle" /\ ~t1'
    BY <1>7 DEF RecvTransparentData, NextMsg, BtFree
  <2>2. \/ bt' = Sending(transparent_method, TRUE)
        \/ bt' = At("sent")
    BY <1>7 DEF RecvTransparentData
  <2>3. UNCHANGED transparent_conidx
    BY <1>7 DEF RecvTransparentData
  <2>4. CASE bt' = Sending(transparent_method, TRUE)
    BY <2>1, <2>3, <2>4, SendingFields
  <2>5. CASE bt' = At("sent")
    BY <2>1, <2>3, <2>5, AtFields
  <2> QED BY <2>2, <2>4, <2>5
<1>8. CASE SendPacket \/ PopSent \/ SendHangs
  <2>1. /\ bt'.pc \in {"send", "adv", "hung"} /\ bt.pc \in {"send", "adv"}
        /\ bt'.irq = bt.irq /\ bt'.recv = bt.recv /\ bt'.to = bt.to
        /\ UNCHANGED <<timers, transparent_conidx>>
    BY <1>a, <1>8 DEF SendPacket, PopSent, SendHangs, BtAt, BtStates
  <2> QED BY <1>a, <2>1
<1>9. CASE SendEnds
  BY <1>9, AtFields DEF Idle, SendEnds, SendReturns, BtAt
<1>10. CASE ClearAfterCommand \/ SendDone \/ ReportSendOk \/ ClearOnDisconnect \/ LeaveModes
  BY <1>10, AtFields DEF Idle, ClearAfterCommand, SendDone, ReportSendOk, ClearOnDisconnect, LeaveModes
<1>11. CASE AsyncDone
  BY <1>11 DEF AsyncDone
<1>12. ASSUME NEW l \in Links, NEW via \in Methods, CanSendNow(l, via) PROVE TaskShape'
  BY <1>a, <1>12, AtFields, SendingFields DEF CanSendNow, Idle
<1>13. ASSUME NEW l \in Links, Disconnect(l) PROVE TaskShape'
  BY <1>13, AtFields DEF Idle, Disconnect
<1>14. ASSUME NEW l \in Links, Connect(l) \/ \E on \in BOOLEAN : WriteOutputDesc(l, on)
       PROVE  TaskShape'
  BY <1>14 DEF Connect, WriteOutputDesc
<1>15. CASE HostTypes \/ TxDone \/ UNCHANGED vars
  BY <1>15 DEF HostTypes, TxDone, vars
<1> QED
  BY <1>2, <1>3, <1>4, <1>5, <1>6, <1>7, <1>8, <1>9, <1>10, <1>11, <1>12, <1>13, <1>14, <1>15
     DEF Next, Isr, TimerTask, BtWork, Peers

-----------------------------------------------------------------------------
(* What a step does to the queue, to bt and to the target *)

LEMMA KeptQueue == UNCHANGED msgq => \A type : Queued(type)' <=> Queued(type)
BY DEF Queued

LEMMA CommandQueue ==
  ASSUME TypeOK, TypeOK', NEW c \in Char, RxCommand(c)
  PROVE  \A type \in {"START", "RECV"} : Queued(type)' <=> Queued(type)
<1>1. msgq \in Seq(Msg) /\ msgq' \in Seq(Msg)
  BY DEF TypeOK, TaskType
<1>2. \A type : (Queued(type) <=> In(type, msgq)) /\ (Queued(type)' <=> In(type, msgq'))
  BY <1>1 DEF Queued, In
<1>3. CASE UNCHANGED msgq
  BY <1>3, KeptQueue
<1>4. CASE msgq' # msgq
  <2>1. PICK e : e.type = "CMD" /\ msgq' = Append(msgq, e)
    BY <1>4 DEF RxCommand
  <2>2. Len(msgq') = Len(msgq) + 1 /\ e = msgq'[Len(msgq) + 1]
        /\ \A i \in 1 .. Len(msgq) : msgq'[i] = msgq[i]
    BY <1>1, <2>1
  <2>3. e \in Msg
    BY <1>1, <2>2
  <2> QED BY <1>1, <1>2, <2>1, <2>3, Appending
<1> QED BY <1>3, <1>4

LEMMA ByteFields ==
  ASSUME TypeOK, NEW c, Byte(c)
  PROVE  /\ bt'.pc = bt.pc /\ bt'.recv = bt.recv /\ bt'.irq = bt.irq /\ bt'.to = bt.to
         /\ bt'.via = bt.via /\ bt'.len = bt.len /\ bt'.from = bt.from
BY DEF Byte, TypeOK, BtType, BtStates

(* A command may give the data another target, a live link. *)
LEMMA TargetMoves ==
  [Next]_vars => transparent_conidx' = transparent_conidx \/ transparent_conidx' \in up
<1> USE DEF task, target, vars
<1>1. ASSUME NEW c \in Char,
             RxTransparent(c) \/ RxOneSlot(c) \/ RxSwallowed(c) \/ RxPrefix(c) \/ RxCommand(c)
      PROVE  UNCHANGED transparent_conidx
  BY <1>1 DEF RxTransparent, RxOneSlot, RxSwallowed, RxPrefix, RxCommand, Byte
<1>2. TimerTask => UNCHANGED transparent_conidx
  BY DEF TimerTask, SendTimerFires, SendTimerPosts, ExitTimerFires, ExitTransparent, ExitClears
<1>3. CommandMsg => transparent_conidx' = transparent_conidx \/ transparent_conidx' \in up
  BY DEF CommandMsg, OtherCommand, CommandIgnored, SetTarget, StartOneSlot, EnterTransparent
<1>4. StartTimerMsg \/ ClearAfterCommand \/ RecvTransparentData \/ SendPacket \/ PopSent
      \/ SendEnds \/ SendHangs \/ SendDone \/ ReportSendOk \/ ClearOnDisconnect \/ LeaveModes
      \/ AsyncDone => UNCHANGED transparent_conidx
  BY DEF StartTimerMsg, ClearAfterCommand, RecvTransparentData, SendPacket, PopSent, SendEnds,
         SendHangs, SendDone, ReportSendOk, ClearOnDisconnect, LeaveModes, AsyncDone
<1>5. ASSUME NEW l \in Links, NEW via \in Methods, CanSendNow(l, via)
      PROVE  UNCHANGED transparent_conidx
  BY <1>5 DEF CanSendNow
<1>6. Peers \/ HostTypes \/ TxDone => UNCHANGED transparent_conidx
  BY DEF Peers, Connect, Disconnect, WriteOutputDesc, HostTypes, TxDone
<1> QED BY <1>1, <1>2, <1>3, <1>4, <1>5, <1>6 DEF Next, Isr, BtWork

-----------------------------------------------------------------------------
(* TargetKnown *)

LEMMA StepTarget == TypeOK /\ TypeOK' /\ TargetKnown /\ [Next]_vars => TargetKnown'
<1> SUFFICES ASSUME TypeOK, TypeOK', TargetKnown, [Next]_vars, transparent_conidx' = NoLink
             PROVE  NothingToSend'
  BY DEF TargetKnown
<1> USE DEF NothingToSend, uart, mode, task, target, timers, world, radio
<1>a. transparent_conidx = NoLink /\ up \subseteq Links /\ NoLink \notin up
  BY TargetMoves, StreamAssumption DEF TypeOK, WorldType
<1>b. NothingToSend /\ msgq \in Seq(Msg)
  BY <1>a DEF TargetKnown, TypeOK, TaskType
<1>1. ASSUME NEW c \in Char, RxTransparent(c) \/ RxOneSlot(c) \/ RxSwallowed(c) PROVE FALSE
  BY <1>b, <1>1 DEF RxTransparent, RxOneSlot, RxSwallowed
<1>2. ASSUME NEW c \in Char, RxPrefix(c) PROVE NothingToSend'
  BY <1>b, <1>2, KeptQueue, ByteFields DEF RxPrefix, Byte
<1>3. ASSUME NEW c \in Char, RxCommand(c) PROVE NothingToSend'
  BY <1>b, <1>3, CommandQueue, ByteFields DEF RxCommand, Byte
<1>4. ~SendTimerFires /\ ~SendTimerPosts
  BY <1>b DEF SendTimerFires, SendTimerPosts
<1>5. CASE ExitTimerFires \/ ExitTransparent \/ ExitClears
  BY <1>b, <1>5, KeptQueue DEF ExitTimerFires, ExitTransparent, ExitClears
<1>6. ~StartTimerMsg /\ ~RecvTransparentData
  BY <1>b, Taking DEF StartTimerMsg, RecvTransparentData, Types
<1>7. CASE CommandMsg
  <2>1. ~Queued("RECV")' /\ ~Queued("START")'
    BY <1>b, <1>7, Taking DEF CommandMsg, Types
  <2>2. ~SetTarget(Head(msgq).word) /\ ~StartOneSlot(Head(msgq).word)
        /\ ~EnterTransparent(Head(msgq).word)
    BY <1>a DEF SetTarget, StartOneSlot, EnterTransparent, MayEnterTransparent
  <2>3. UNCHANGED <<mode, bt>>
    BY <1>7, <2>2 DEF CommandMsg, OtherCommand, CommandIgnored
  <2> QED BY <1>b, <1>7, <2>1, <2>3 DEF CommandMsg
<1>8. ~ClearAfterCommand /\ ~SendPacket /\ ~PopSent /\ ~SendEnds /\ ~SendHangs
  BY <1>b DEF ClearAfterCommand, SendPacket, PopSent, SendEnds, SendHangs, BtAt
<1>9. CASE SendDone \/ ClearOnDisconnect
  BY <1>b, <1>9, KeptQueue, AtFields DEF SendDone, ClearOnDisconnect
<1>10. CASE ReportSendOk \/ LeaveModes
  <2>1. ~transparent_start' /\ ~one_slot_send_start'
    <3>1. CASE ReportSendOk
      BY <1>b, <3>1, Zenon DEF ReportSendOk
    <3>2. CASE LeaveModes
      BY <1>b, <3>2, Zenon DEF LeaveModes
    <3> QED BY <1>10, <3>1, <3>2
  <2>2. bt'.pc = "idle" /\ UNCHANGED <<msgq, timers, evreq>>
    BY <1>10, AtFields DEF Idle, ReportSendOk, LeaveModes
  <2> QED BY <1>b, <2>1, <2>2, KeptQueue
<1>11. CASE AsyncDone
  BY <1>b, <1>11, KeptQueue DEF AsyncDone
<1>12. ASSUME NEW l \in Links, NEW via \in Methods PROVE ~CanSendNow(l, via)
  BY <1>b DEF CanSendNow
<1>13. ASSUME NEW l \in Links, Disconnect(l) PROVE NothingToSend'
  BY <1>b, <1>13, KeptQueue, AtFields DEF Idle, Disconnect
<1>14. ASSUME NEW l \in Links, Connect(l) \/ \E on \in BOOLEAN : WriteOutputDesc(l, on)
       PROVE  NothingToSend'
  BY <1>b, <1>14, KeptQueue DEF Connect, WriteOutputDesc
<1>15. CASE HostTypes \/ TxDone \/ UNCHANGED vars
  BY <1>b, <1>15, KeptQueue DEF HostTypes, TxDone, vars
<1> QED
  BY <1>1, <1>2, <1>3, <1>4, <1>5, <1>6, <1>7, <1>8, <1>9, <1>10, <1>11, <1>12, <1>13, <1>14,
     <1>15 DEF Next, Isr, TimerTask, BtWork, Peers

(***************************************************************************)
(* Without a target nothing ever reaches the send functions: 0xFF is never *)
(* used there as an index of conn_infos.                                   *)
(***************************************************************************)
THEOREM TargetAlwaysKnown == Spec => []TargetKnown
<1>1. Init => TargetKnown
  BY AtFields DEF Init, TargetKnown, NothingToSend, Queued, Idle
<1> QED BY <1>1, TypeCorrect, StepTarget, PTL DEF Spec

-----------------------------------------------------------------------------
(* A send that is owed stays owed until it is done *)

THEOREM ShapeKept == Spec => []TaskShape
BY TypeCorrect, InitShape, StepShape, PTL DEF Spec

Owed == Queued("RECV") \/ InRecv

LEMMA OwedStays ==
  ASSUME TypeOK, TypeOK', TaskShape, [Next]_vars, Owed
  PROVE  Owed' \/ SendDone
<1> USE DEF Owed, InRecv, task, timers
<1>a. msgq \in Seq(Msg) /\ bt \in BtStates
  BY DEF TypeOK, TaskType, BtType
<1>b. bt.pc \notin {"send", "adv", "hung", "sent"} => Queued("RECV")
  BY DEF TaskShape
<1>1. ASSUME NEW c \in Char, RxTransparent(c) PROVE Owed'
  <2>1. Queued("RECV") => Queued("RECV")'
    BY <1>a, <1>1, Posting DEF RxTransparent, WasEmpty, at_buffer_empty, AboveLevel, Types
  <2> QED BY <1>1, <2>1, ByteFields DEF RxTransparent
<1>2. ASSUME NEW c \in Char, RxOneSlot(c) PROVE Owed'
  <2>1. Queued("RECV") => Queued("RECV")'
    BY <1>a, <1>2, Posting
       DEF RxOneSlot, WasEmpty, at_buffer_empty, AboveLevel, LastByte, Types
  <2> QED BY <1>2, <2>1, ByteFields DEF RxOneSlot
<1>3. ASSUME NEW c \in Char, RxSwallowed(c) \/ RxPrefix(c) PROVE Owed'
  BY <1>3, KeptQueue, ByteFields DEF RxSwallowed, RxPrefix
<1>4. ASSUME NEW c \in Char, RxCommand(c) PROVE Owed'
  BY <1>4, CommandQueue, ByteFields DEF RxCommand
<1>5. CASE SendTimerFires \/ ExitTimerFires \/ ExitTransparent \/ ExitClears
  BY <1>5, KeptQueue DEF SendTimerFires, ExitTimerFires, ExitTransparent, ExitClears
<1>6. CASE SendTimerPosts
  BY <1>a, <1>6, Posting DEF SendTimerPosts, Types
<1>7. CASE StartTimerMsg \/ CommandMsg
  <2>1. bt.pc = "idle" /\ (NextMsg("START") \/ NextMsg("CMD"))
    BY <1>7 DEF StartTimerMsg, CommandMsg, NextMsg, BtFree
  <2> QED BY <1>a, <1>b, <2>1, Taking DEF Types
<1>8. CASE RecvTransparentData
  <2>1. bt' = Sending(transparent_method, TRUE) \/ bt' = At("sent")
    BY <1>8 DEF RecvTransparentData
  <2> QED BY <2>1, SendingFields, AtFields
<1>9. CASE SendPacket \/ PopSent \/ SendHangs
  <2>1. bt.pc # "sent" /\ bt'.recv = bt.recv /\ UNCHANGED msgq
    BY <1>a, <1>9 DEF SendPacket, PopSent, SendHangs, BtAt, BtStates
  <2> QED BY <2>1, KeptQueue
<1>10. CASE SendEnds
  <2>1. bt.pc # "sent" /\ (bt.recv => bt'.pc = "sent") /\ UNCHANGED msgq
    BY <1>10, AtFields DEF SendEnds, SendReturns, BtAt
  <2> QED BY <2>1, KeptQueue
<1>11. CASE ClearAfterCommand \/ ReportSendOk \/ ClearOnDisconnect \/ LeaveModes
  <2>1. bt.pc \in {"clear", "report", "lost", "leave"} /\ UNCHANGED msgq
    BY <1>11 DEF ClearAfterCommand, ReportSendOk, ClearOnDisconnect, LeaveModes, BtAt
  <2> QED BY <1>b, <2>1, KeptQueue
<1>12. CASE AsyncDone
  BY <1>12, KeptQueue DEF AsyncDone
<1>13. ASSUME NEW l \in Links, NEW via \in Methods, CanSendNow(l, via) PROVE Owed'
  BY <1>b, <1>13, KeptQueue DEF CanSendNow, BtFree
<1>14. ASSUME NEW l \in Links,
              Connect(l) \/ Disconnect(l) \/ \E on \in BOOLEAN : WriteOutputDesc(l, on)
       PROVE  Owed'
  BY <1>b, <1>14, KeptQueue DEF Connect, Disconnect, WriteOutputDesc, BtFree
<1>15. CASE HostTypes \/ TxDone \/ UNCHANGED vars
  BY <1>15, KeptQueue DEF HostTypes, TxDone, vars
<1> QED
  BY <1>1, <1>2, <1>3, <1>4, <1>5, <1>6, <1>7, <1>8, <1>9, <1>10, <1>11, <1>12, <1>13, <1>14,
     <1>15 DEF Next, Isr, TimerTask, BtWork, Peers

LEMMA StepOngoing ==
  TypeOK /\ TypeOK' /\ TaskShape /\ OngoingCovered /\ [Next]_vars => OngoingCovered'
<1> SUFFICES ASSUME TypeOK, TypeOK', TaskShape, OngoingCovered, [Next]_vars,
                    transparent_data_send_ongoing' = 1
             PROVE  Owed'
  BY DEF OngoingCovered, Owed, InRecv
<1> USE DEF uart, task
<1>1. CASE transparent_data_send_ongoing = 1
  <2>1. Owed
    BY <1>1 DEF OngoingCovered, Owed
  <2>2. ~SendDone
    BY DEF SendDone
  <2> QED BY <2>1, <2>2, OwedStays
<1>2. CASE transparent_data_send_ongoing # 1
  <2>a. msgq \in Seq(Msg)
    BY DEF TypeOK, TaskType
  <2>1. ASSUME NEW c \in Char, RxTransparent(c) PROVE Queued("RECV")'
    <3>1. AboveLevel(Advance(wp, 1))
      BY <1>2, <2>1 DEF RxTransparent
    <3> QED
      BY <2>a, <2>1, <3>1, Posting DEF RxTransparent, WasEmpty, at_buffer_empty, AboveLevel, Types
  <2>2. ASSUME NEW c \in Char, RxOneSlot(c) PROVE Queued("RECV")'
    <3>1. AboveLevel(wp') \/ LastByte
      BY <1>2, <2>2 DEF RxOneSlot
    <3> QED
      BY <2>a, <2>2, <3>1, Posting
         DEF RxOneSlot, WasEmpty, at_buffer_empty, AboveLevel, LastByte, Types
  <2>3. ASSUME NEW c \in Char PROVE ~RxSwallowed(c) /\ ~RxPrefix(c) /\ ~RxCommand(c)
    BY <1>2 DEF RxSwallowed, RxPrefix, RxCommand
  <2>4. CASE SendTimerPosts
    BY <2>a, <2>4, Posting DEF SendTimerPosts, Types, Owed
  <2>5. ~SendTimerFires /\ ~ExitTimerFires /\ ~ExitTransparent /\ ~ExitClears
    BY <1>2 DEF SendTimerFires, ExitTimerFires, ExitTransparent, ExitClears
  <2>6. /\ ~StartTimerMsg /\ ~CommandMsg /\ ~RecvTransparentData /\ ~SendPacket /\ ~SendEnds
        /\ ~SendHangs /\ ~AsyncDone
    BY <1>2 DEF StartTimerMsg, CommandMsg, RecvTransparentData, SendPacket, SendEnds, SendHangs,
                AsyncDone
  <2>9. /\ ~ClearAfterCommand /\ ~PopSent /\ ~SendDone /\ ~ReportSendOk /\ ~ClearOnDisconnect
        /\ ~LeaveModes
    BY <1>2 DEF ClearAfterCommand, PopSent, SendDone, ReportSendOk, ClearOnDisconnect, LeaveModes
  <2>7. ASSUME NEW l \in Links, NEW via \in Methods PROVE ~CanSendNow(l, via)
    BY <1>2 DEF CanSendNow
  <2>8. ~Peers /\ ~HostTypes /\ ~TxDone /\ ~(UNCHANGED vars)
    BY <1>2 DEF Peers, Connect, Disconnect, WriteOutputDesc, HostTypes, TxDone, vars
  <2> QED
    BY <2>1, <2>2, <2>3, <2>4, <2>5, <2>6, <2>7, <2>8, <2>9
       DEF Next, Isr, TimerTask, BtWork, Owed
<1> QED BY <1>1, <1>2

(***************************************************************************)
(* transparent_data_send_ongoing never outlives the request it stands for, *)
(* although three contexts write it and none of them locks.                *)
(***************************************************************************)
THEOREM OngoingAlwaysCovered == Spec => []OngoingCovered
<1>1. Init => OngoingCovered
  BY DEF Init, OngoingCovered
<1> QED BY <1>1, TypeCorrect, ShapeKept, StepOngoing, PTL DEF Spec

-----------------------------------------------------------------------------
(* One-shot sends are reported *)

(* A one-shot send that has every byte. *)
Complete == one_slot_send_start /\ one_slot_send_len = 0

(* How a one-shot send comes to have every byte. *)
LEMMA CompleteSteps ==
  ASSUME TypeOK, TypeOK', 0 \notin SendLens, [Next]_vars, Complete'
  PROVE  \/ Complete /\ ~ReportSendOk
         \/ Queued("RECV")'
<1> USE DEF Complete, uart, mode
<1>a. msgq \in Seq(Msg) /\ one_slot_send_len \in Nat
  BY DEF TypeOK, TaskType, UartType
<1>1. ASSUME NEW c \in Char, RxOneSlot(c) PROVE Queued("RECV")'
  <2>1. LastByte
    BY <1>a, <1>1 DEF RxOneSlot, LastByte
  <2> QED BY <1>a, <1>1, <2>1, Posting
             DEF RxOneSlot, WasEmpty, at_buffer_empty, AboveLevel, LastByte, Types
<1>2. ASSUME NEW c \in Char, RxTransparent(c) \/ RxSwallowed(c) \/ RxPrefix(c) \/ RxCommand(c)
      PROVE  UNCHANGED <<one_slot_send_start, one_slot_send_len>>
  BY <1>2 DEF RxTransparent, RxSwallowed, RxPrefix, RxCommand
<1>3. TimerTask => UNCHANGED <<one_slot_send_start, one_slot_send_len>>
  BY DEF TimerTask, SendTimerFires, SendTimerPosts, ExitTimerFires, ExitTransparent, ExitClears
<1>4. CommandMsg => UNCHANGED <<one_slot_send_start, one_slot_send_len>>
  <2>1. ~StartOneSlot(Head(msgq).word)
    BY DEF StartOneSlot
  <2> QED BY <2>1 DEF CommandMsg, OtherCommand, CommandIgnored, SetTarget, EnterTransparent
<1>5. ~ReportSendOk
  <2> SUFFICES ASSUME ReportSendOk PROVE FALSE
    OBVIOUS
  <2>1. one_slot_send_start' => one_slot_send_len > 0
    BY Zenon DEF ReportSendOk
  <2>2. one_slot_send_start' /\ one_slot_send_len = 0
    BY DEF ReportSendOk
  <2> QED BY <2>1, <2>2
<1>6. LeaveModes => Complete
  BY DEF LeaveModes
<1>7. StartTimerMsg \/ ClearAfterCommand \/ RecvTransparentData \/ SendPacket \/ PopSent
      \/ SendEnds \/ SendHangs \/ SendDone \/ ClearOnDisconnect \/ AsyncDone
      => UNCHANGED <<one_slot_send_start, one_slot_send_len>>
  BY DEF StartTimerMsg, ClearAfterCommand, RecvTransparentData, SendPacket, PopSent, SendEnds,
         SendHangs, SendDone, ClearOnDisconnect, AsyncDone
<1>8. ASSUME NEW l \in Links, NEW via \in Methods, CanSendNow(l, via)
      PROVE  UNCHANGED <<one_slot_send_start, one_slot_send_len>>
  BY <1>8 DEF CanSendNow
<1>9. Peers \/ HostTypes \/ TxDone \/ UNCHANGED vars
      => UNCHANGED <<one_slot_send_start, one_slot_send_len>>
  BY DEF Peers, Connect, Disconnect, WriteOutputDesc, HostTypes, TxDone, vars
<1> QED
  BY <1>1, <1>2, <1>3, <1>4, <1>5, <1>6, <1>7, <1>8, <1>9 DEF Next, Isr, BtWork

(* The report is the next thing the Bluetooth task does. *)
LEMMA ReportStays ==
  ASSUME TypeOK, [Next]_vars, bt.pc = "report"
  PROVE  bt'.pc = "report" \/ ReportSendOk
<1>1. ASSUME NEW c \in Char, Byte(c) PROVE bt'.pc = "report"
  BY <1>1, ByteFields
<1>2. ASSUME NEW c \in Char,
             RxTransparent(c) \/ RxOneSlot(c) \/ RxSwallowed(c) \/ RxPrefix(c) \/ RxCommand(c)
      PROVE  bt'.pc = "report"
  BY <1>1, <1>2 DEF RxTransparent, RxOneSlot, RxSwallowed, RxPrefix, RxCommand
<1>3. TimerTask => UNCHANGED bt
  BY DEF TimerTask, SendTimerFires, SendTimerPosts, ExitTimerFires, ExitTransparent, ExitClears
<1>4. ~StartTimerMsg /\ ~CommandMsg /\ ~RecvTransparentData
  BY DEF StartTimerMsg, CommandMsg, RecvTransparentData, NextMsg, BtFree
<1>5. /\ ~ClearAfterCommand /\ ~SendPacket /\ ~PopSent /\ ~SendEnds /\ ~SendHangs /\ ~SendDone
      /\ ~ClearOnDisconnect /\ ~LeaveModes
  BY DEF ClearAfterCommand, SendPacket, PopSent, SendEnds, SendHangs, SendDone,
         ClearOnDisconnect, LeaveModes, BtAt
<1>6. ~AsyncDone
  BY DEF AsyncDone, BtFree
<1>7. ASSUME NEW l \in Links, NEW via \in Methods PROVE ~CanSendNow(l, via)
  BY DEF CanSendNow, BtFree
<1>8. ~Peers
  BY DEF Peers, Connect, Disconnect, WriteOutputDesc, BtFree
<1>9. HostTypes \/ TxDone \/ UNCHANGED vars => UNCHANGED bt
  BY DEF HostTypes, TxDone, vars
<1> QED BY <1>2, <1>3, <1>4, <1>5, <1>6, <1>7, <1>8, <1>9 DEF Next, Isr, BtWork

LEMMA StepOneSlot ==
  TypeOK /\ TypeOK' /\ TaskShape /\ OneSlotWillEnd /\ [Next]_vars => OneSlotWillEnd'
<1> SUFFICES ASSUME TypeOK, TypeOK', TaskShape, OneSlotWillEnd, [Next]_vars,
                    0 \notin SendLens, Complete'
             PROVE  Owed' \/ bt'.pc = "report"
  BY DEF OneSlotWillEnd, Owed, InRecv, Complete
<1>1. CASE Queued("RECV")'
  BY <1>1 DEF Owed
<1>2. CASE Complete /\ ~ReportSendOk
  <2>1. Owed \/ bt.pc = "report"
    BY <1>2 DEF OneSlotWillEnd, Owed, Complete
  <2>2. SendDone => bt'.pc = "report"
    BY AtFields DEF SendDone
  <2> QED BY <1>2, <2>1, <2>2, OwedStays, ReportStays
<1> QED BY <1>1, <1>2, CompleteSteps

(***************************************************************************)
(* Once the last byte of a one-shot send has arrived its report is owed,   *)
(* whatever the timers, the events and the loss of links do: the modem     *)
(* never swallows the serial line without an end in sight.                 *)
(***************************************************************************)
THEOREM OneSlotAlwaysEnds == Spec => []OneSlotWillEnd
<1>1. Init => OneSlotWillEnd
  BY DEF Init, OneSlotWillEnd
<1> QED BY <1>1, TypeCorrect, ShapeKept, StepOneSlot, PTL DEF Spec

-----------------------------------------------------------------------------
(* recv_transparent_data pops what it sent *)

LEMMA StepPop ==
  TypeOK /\ TypeOK' /\ TaskShape /\ MaskedPopExact /\ [Next]_vars => MaskedPopExact'
<1> SUFFICES ASSUME TypeOK, TypeOK', TaskShape, MaskedPopExact, [Next]_vars,
                    bt'.recv, bt'.pc = "adv"
             PROVE  MaskedPopExact'
  BY DEF MaskedPopExact
<1> USE DEF ring, uart, world, radio
<1>1. CASE SendPacket
  <2> DEFINE n == PacketLen(rp, wp, MTU)
  <2>1. /\ n \in 1 .. MTU /\ n <= at_buffer_data_size(rp, wp) /\ rp + n <= AT_RECV_MAX_LEN
        /\ rp \in Index /\ at_buffer_data_size(rp, wp) \in Nat
    BY <1>1, PacketLenType, SizeType, RingAssumption DEF SendPacket, TypeOK, UartType
  <2>2. bt'.len = n /\ bt'.from = rp /\ air' = [k \in 1 .. n |-> buf[rp + k - 1]] /\ UNCHANGED ring
    BY <1>1 DEF SendPacket, TypeOK, BtType, BtStates
  <2> HIDE DEF n
  <2>3. \A k \in 1 .. n : Advance(rp, k - 1) = rp + k - 1
    BY <2>1, RingAssumption, StreamAssumption DEF Advance, Index
  <2>4. SubSeq(Contents(buf, rp, wp), 1, n) = [k \in 1 .. n |-> Contents(buf, rp, wp)[k]]
    BY <2>1, StreamAssumption DEF Contents
  <2>5. \A k \in 1 .. n : Contents(buf, rp, wp)[k] = buf[rp + k - 1]
    BY <2>1, <2>3, StreamAssumption DEF Contents
  <2>6. air' = SubSeq(Contents(buf, rp, wp), 1, n)
    BY <2>2, <2>4, <2>5
  <2> QED BY <2>1, <2>2, <2>6 DEF MaskedPopExact
<1>2. CASE bt.recv /\ bt.pc = "adv" /\ UNCHANGED <<ring, air, bt>>
  BY <1>2 DEF MaskedPopExact
<1>3. ASSUME NEW c \in Char, Byte(c) PROVE FALSE
  BY <1>3, ByteFields DEF Byte, TaskShape
<1>4. ASSUME NEW c \in Char
      PROVE  /\ ~RxTransparent(c) /\ ~RxOneSlot(c) /\ ~RxSwallowed(c) /\ ~RxPrefix(c)
             /\ ~RxCommand(c)
  BY <1>3 DEF RxTransparent, RxOneSlot, RxSwallowed, RxPrefix, RxCommand
<1>5. ~TimerTask
  <2>1. TimerTask => UNCHANGED bt
    BY DEF TimerTask, SendTimerFires, SendTimerPosts, ExitTimerFires, ExitTransparent, ExitClears
  <2>2. TimerTask => ~bt.irq \/ tpc # "idle"
    BY DEF TimerTask, SendTimerFires, SendTimerPosts, ExitTimerFires, ExitTransparent, ExitClears
  <2> QED BY <2>1, <2>2 DEF TaskShape
<1>6. StartTimerMsg \/ AsyncDone => FALSE
  BY DEF StartTimerMsg, AsyncDone, NextMsg, BtFree
<1>7. ~CommandMsg
  BY AtFields DEF CommandMsg, NextMsg, BtFree, OtherCommand, CommandIgnored, SetTarget,
                  StartOneSlot, EnterTransparent
<1>8. ~RecvTransparentData
  BY AtFields, SendingFields DEF RecvTransparentData
<1>9. ~PopSent /\ ~SendHangs
  <2>1. bt \in BtStates
    BY DEF TypeOK, BtType
  <2>2. PopSent => bt'.pc = "send"
    BY <2>1 DEF PopSent, BtStates
  <2>3. SendHangs => bt'.pc = "hung"
    BY <2>1 DEF SendHangs, BtStates
  <2> QED BY <2>2, <2>3
<1>10. ~SendEnds
  BY AtFields DEF SendEnds, SendReturns, Idle
<1>11. /\ ~ClearAfterCommand /\ ~SendDone /\ ~ReportSendOk /\ ~ClearOnDisconnect /\ ~LeaveModes
  BY AtFields DEF ClearAfterCommand, SendDone, ReportSendOk, ClearOnDisconnect, LeaveModes, Idle
<1>12. ASSUME NEW l \in Links, NEW via \in Methods PROVE ~CanSendNow(l, via)
  BY AtFields, SendingFields DEF CanSendNow, Idle
<1>13. ~Peers
  BY AtFields DEF Peers, Connect, Disconnect, WriteOutputDesc, BtFree, Idle
<1>14. HostTypes \/ TxDone \/ UNCHANGED vars => UNCHANGED <<ring, air, bt>>
  BY DEF HostTypes, TxDone, vars
<1> QED
  BY <1>1, <1>2, <1>4, <1>5, <1>6, <1>7, <1>8, <1>9, <1>10, <1>11, <1>12, <1>13, <1>14
     DEF Next, Isr, BtWork

(***************************************************************************)
(* Under the mask the packet handed to the stack is the head of the ring,  *)
(* and rp has not moved when its bytes are popped.                         *)
(***************************************************************************)
THEOREM PopAlwaysExact == Spec => []MaskedPopExact
<1>1. Init => MaskedPopExact
  BY AtFields DEF Init, MaskedPopExact, Idle
<1> QED BY <1>1, TypeCorrect, ShapeKept, StepPop, PTL DEF Spec

-----------------------------------------------------------------------------
(* No lost wakeup, for a modem that is master of all its links *)

(* Transparent mode has a live target until the loss of it has been handled. *)
LiveTarget ==
  transparent_start => transparent_conidx \in up \/ bt.pc \in {"lost", "leave"}

LEMMA StepLive ==
  TypeOK /\ TypeOK' /\ TargetKnown /\ LiveTarget /\ [Next]_vars => LiveTarget'
<1> SUFFICES ASSUME TypeOK, TypeOK', TargetKnown, LiveTarget, [Next]_vars, transparent_start'
             PROVE  transparent_conidx' \in up' \/ bt'.pc \in {"lost", "leave"}
  BY DEF LiveTarget
<1> USE DEF uart, mode, task, target, world, peers
<1> DEFINE Same == UNCHANGED <<transparent_start, transparent_conidx, up>>
<1>a. Same /\ bt'.pc = bt.pc => transparent_conidx' \in up' \/ bt'.pc \in {"lost", "leave"}
  BY DEF LiveTarget
<1>b. Same /\ bt.pc \notin {"lost", "leave"}
      => transparent_conidx' \in up' \/ bt'.pc \in {"lost", "leave"}
  BY DEF LiveTarget
<1>1. ASSUME NEW c \in Char, Byte(c), UNCHANGED transparent_start
      PROVE  Same /\ bt'.pc = bt.pc
  BY <1>1, ByteFields DEF Byte
<1>2. ASSUME NEW c \in Char,
             RxTransparent(c) \/ RxOneSlot(c) \/ RxSwallowed(c) \/ RxPrefix(c) \/ RxCommand(c)
      PROVE  Same /\ bt'.pc = bt.pc
  BY <1>1, <1>2 DEF RxTransparent, RxOneSlot, RxSwallowed, RxPrefix, RxCommand
<1>3. ~ExitTransparent /\ ~LeaveModes
  BY DEF ExitTransparent, LeaveModes
<1>4. CASE SendTimerFires \/ SendTimerPosts \/ ExitTimerFires \/ ExitClears
  <2>1. Same /\ bt' = bt
    BY <1>4 DEF SendTimerFires, SendTimerPosts, ExitTimerFires, ExitClears
  <2> QED BY <1>a, <2>1
<1>5. CASE CommandMsg
  <2>1. bt.pc = "idle" /\ UNCHANGED up
    BY <1>5 DEF CommandMsg, NextMsg, BtFree
  <2>2. transparent_start => transparent_conidx \in up
    BY <2>1 DEF LiveTarget
  <2> DEFINE word == Head(msgq).word
  <2>3. CASE OtherCommand(word) \/ CommandIgnored(word)
    <3>1. Same
      BY <2>1, <2>3 DEF OtherCommand, CommandIgnored
    <3> QED BY <1>b, <2>1, <3>1
  <2>4. CASE SetTarget(word) \/ StartOneSlot(word)
    <3>1. transparent_conidx' \in up
      BY <2>4 DEF SetTarget, StartOneSlot
    <3> QED BY <2>1, <3>1
  <2>5. CASE EnterTransparent(word)
    <3>1. transparent_conidx' = transparent_conidx /\ transparent_conidx \in up
      BY <2>5 DEF EnterTransparent, MayEnterTransparent
    <3> QED BY <2>1, <3>1
  <2> QED BY <1>5, <2>3, <2>4, <2>5 DEF CommandMsg
<1>6. CASE StartTimerMsg \/ AsyncDone
  <2>1. Same /\ bt' = bt
    BY <1>6 DEF StartTimerMsg, AsyncDone
  <2> QED BY <1>a, <2>1
<1>7. CASE RecvTransparentData
  <2>1. Same /\ bt.pc = "idle"
    BY <1>7 DEF RecvTransparentData, NextMsg, BtFree
  <2> QED BY <1>b, <2>1
<1>8. CASE ClearAfterCommand \/ SendPacket \/ PopSent \/ SendHangs \/ SendDone \/ ReportSendOk
           \/ SendEnds
  <2>1. bt.pc \notin {"lost", "leave"} /\ Same
    BY <1>8 DEF ClearAfterCommand, SendPacket, PopSent, SendHangs, SendDone, ReportSendOk,
                SendEnds, BtAt
  <2> QED BY <1>b, <2>1
<1>9. CASE ClearOnDisconnect
  BY <1>9, AtFields DEF ClearOnDisconnect
<1>10. ASSUME NEW l \in Links, NEW via \in Methods, CanSendNow(l, via)
       PROVE  Same /\ bt.pc = "idle"
  BY <1>10 DEF CanSendNow, BtFree
<1>11. ASSUME NEW l \in Links, \E on \in BOOLEAN : WriteOutputDesc(l, on)
       PROVE  Same /\ bt.pc = "idle"
  BY <1>11 DEF WriteOutputDesc, BtFree
<1>12. ASSUME NEW l \in Links, Connect(l)
       PROVE  transparent_conidx' \in up' \/ bt'.pc \in {"lost", "leave"}
  <2>1. UNCHANGED <<transparent_start, transparent_conidx>> /\ up \subseteq up' /\ bt.pc = "idle"
    BY <1>12 DEF Connect, BtFree
  <2> QED BY <2>1 DEF LiveTarget
<1>13. ASSUME NEW l \in Links, Disconnect(l)
       PROVE  transparent_conidx' \in up' \/ bt'.pc \in {"lost", "leave"}
  <2>1. UNCHANGED <<transparent_start, transparent_conidx>>
    BY <1>13 DEF Disconnect
  <2>2. transparent_conidx # NoLink
    BY <2>1 DEF TargetKnown, NothingToSend
  <2>3. bt' = IF transparent_conidx \notin up' THEN At("lost") ELSE Idle
    BY <1>13, <2>2 DEF Disconnect
  <2> QED BY <2>1, <2>3, AtFields
<1>14. CASE HostTypes \/ TxDone \/ UNCHANGED vars
  <2>1. Same /\ bt' = bt
    BY <1>14 DEF HostTypes, TxDone, vars
  <2> QED BY <1>a, <2>1
<1> HIDE DEF Same
<1> QED
  BY <1>a, <1>b, <1>2, <1>3, <1>4, <1>5, <1>6, <1>7, <1>8, <1>9, <1>10, <1>11, <1>12, <1>13,
     <1>14 DEF Next, Isr, TimerTask, BtWork, Peers

(***************************************************************************)
(* AT+TO has chosen no link of which we are the slave: all that is sent is *)
(* sent by writes.                                                         *)
(***************************************************************************)
WritesOnly == transparent_method = "M2S_W"

(***************************************************************************)
(* Then one event at most is asked of the stack, and can_send_now is false *)
(* as long as it is awaited.                                               *)
(***************************************************************************)
OneRequest ==
  /\ WritesOnly /\ bt.via = "M2S_W"
  /\ \A e \in evreq : e[2] = "M2S_W"
  /\ \A e, f \in evreq : e = f
  /\ can_send_now => evreq = {}
  /\ bt.pc \in {"send", "adv"} => can_send_now

LEMMA AtVia == \A p : At(p).via = "M2S_W"
BY DEF At

LEMMA StepRequest ==
  TypeOK /\ OneRequest /\ WritesOnly' /\ [Next]_vars => OneRequest'
<1> SUFFICES ASSUME TypeOK, OneRequest, WritesOnly', [Next]_vars PROVE OneRequest'
  OBVIOUS
<1> USE DEF OneRequest, WritesOnly, task, target, world, radio
<1>a. bt \in BtStates
  BY DEF TypeOK, BtType
<1>b. /\ UNCHANGED <<evreq, can_send_now>> /\ transparent_method' = "M2S_W"
      /\ bt'.via = "M2S_W" /\ (bt'.pc \in {"send", "adv"} => bt.pc \in {"send", "adv"})
      => OneRequest'
  OBVIOUS
<1>1. ASSUME NEW c \in Char, Byte(c) PROVE OneRequest'
  BY <1>1, ByteFields DEF Byte
<1>2. ASSUME NEW c \in Char,
             RxTransparent(c) \/ RxOneSlot(c) \/ RxSwallowed(c) \/ RxPrefix(c) \/ RxCommand(c)
      PROVE  OneRequest'
  BY <1>1, <1>2 DEF RxTransparent, RxOneSlot, RxSwallowed, RxPrefix, RxCommand
<1>3. CASE TimerTask
  <2>1. UNCHANGED <<evreq, can_send_now, transparent_method, bt>>
    BY <1>3 DEF TimerTask, SendTimerFires, SendTimerPosts, ExitTimerFires, ExitTransparent,
                ExitClears
  <2> QED BY <1>b, <2>1
<1>4. CASE CommandMsg
  <2>1. transparent_method' = "M2S_W" /\ UNCHANGED <<evreq, can_send_now>>
    BY <1>4 DEF CommandMsg
  <2>2. bt' = bt \/ bt' = At("clear")
    BY <1>4 DEF CommandMsg, OtherCommand, CommandIgnored, SetTarget, StartOneSlot,
                EnterTransparent
  <2>3. bt'.via = "M2S_W" /\ (bt'.pc \in {"send", "adv"} => bt.pc \in {"send", "adv"})
    BY <2>2, AtVia, AtFields
  <2> QED BY <1>b, <2>1, <2>3
<1>5. CASE StartTimerMsg
  BY <1>5 DEF StartTimerMsg
<1>6. CASE RecvTransparentData
  <2>1. UNCHANGED <<transparent_method, evreq, can_send_now>>
    BY <1>6 DEF RecvTransparentData
  <2>2. \/ can_send_now /\ bt' = Sending(transparent_method, TRUE)
        \/ bt' = At("sent")
    BY <1>6 DEF RecvTransparentData, MaySend
  <2>3. CASE can_send_now /\ bt' = Sending(transparent_method, TRUE)
    <3>1. bt'.via = "M2S_W" /\ can_send_now
      BY <2>3, SendingFields
    <3> QED BY <2>1, <3>1
  <2>4. CASE bt' = At("sent")
    <3>1. bt'.via = "M2S_W" /\ bt'.pc = "sent"
      BY <2>4, AtVia, AtFields
    <3> QED BY <2>1, <3>1
  <2> QED BY <2>2, <2>3, <2>4
<1>7. CASE SendPacket \/ PopSent \/ SendHangs
  <2>1. /\ bt'.via = bt.via /\ bt.pc \in {"send", "adv"}
        /\ UNCHANGED <<transparent_method, evreq, can_send_now>>
    BY <1>a, <1>7 DEF SendPacket, PopSent, SendHangs, BtAt, BtStates
  <2> QED BY <2>1
<1>8. CASE SendEnds
  <2>1. bt'.via = "M2S_W" /\ bt'.pc \notin {"send", "adv"} /\ bt.via = "M2S_W" /\ evreq = {}
    BY <1>8, AtVia, AtFields DEF SendEnds, SendReturns, Idle, BtAt
  <2>2. \/ UNCHANGED <<can_send_now, evreq>>
        \/ ~can_send_now' /\ evreq' = {<<bt.to, bt.via>>}
    BY <1>8, <2>1 DEF SendEnds
  <2>3. UNCHANGED transparent_method
    BY <1>8 DEF SendEnds
  <2> QED BY <2>1, <2>2, <2>3
<1>9. CASE ClearAfterCommand \/ SendDone \/ ReportSendOk \/ ClearOnDisconnect \/ LeaveModes
  BY <1>9, AtVia, AtFields
     DEF ClearAfterCommand, SendDone, ReportSendOk, ClearOnDisconnect, LeaveModes, Idle
<1>10. CASE AsyncDone
  BY <1>10 DEF AsyncDone
<1>11. ASSUME NEW l \in Links, NEW via \in Methods, CanSendNow(l, via) PROVE OneRequest'
  <2>1. via = "M2S_W" /\ evreq' = {} /\ can_send_now' /\ UNCHANGED transparent_method
    BY <1>11 DEF CanSendNow
  <2>2. bt' = Sending(via, FALSE) \/ bt' = At("idle")
    BY <1>11 DEF CanSendNow, Idle
  <2>3. bt'.via = "M2S_W"
    BY <2>1, <2>2, AtVia, SendingFields
  <2> QED BY <2>1, <2>3
<1>12. ASSUME NEW l \in Links, Disconnect(l) PROVE OneRequest'
  <2>1. /\ evreq' \subseteq evreq /\ UNCHANGED <<transparent_method, can_send_now>>
        /\ bt'.via = "M2S_W" /\ bt'.pc \notin {"send", "adv"}
    BY <1>12, AtVia, AtFields DEF Disconnect, Idle
  <2> QED BY <2>1
<1>13. ASSUME NEW l \in Links, Connect(l) \/ \E on \in BOOLEAN : WriteOutputDesc(l, on)
       PROVE  OneRequest'
  BY <1>13 DEF Connect, WriteOutputDesc
<1>14. CASE HostTypes \/ TxDone \/ UNCHANGED vars
  BY <1>14 DEF HostTypes, TxDone, vars
<1> QED
  BY <1>2, <1>3, <1>4, <1>5, <1>6, <1>7, <1>8, <1>9, <1>10, <1>11, <1>12, <1>13, <1>14
     DEF Next, Isr, BtWork, Peers

(* A step that leaves alone whatever makes a look at the ring certain. *)
LEMMA OwedKept ==
  ASSUME UNCHANGED <<t1, tpc, evreq>>, SendOwed,
         bt'.pc = bt.pc \/ bt.pc \in {"idle", "sent", "report"},
         \A type \in {"START", "RECV"} : Queued(type) => Queued(type)'
  PROVE  SendOwed'
BY DEF SendOwed

LEMMA StepWakeup ==
  ASSUME TypeOK, TypeOK', TaskShape, LiveTarget, OneRequest, OngoingCovered, NoLostWakeup,
         [Next]_vars
  PROVE  NoLostWakeup'
<1> SUFFICES ASSUME BytesWait', can_send_now' PROVE SendOwed'
  BY DEF NoLostWakeup
<1> USE DEF uart, ring, mode, task, target, timers, world, radio, peers
<1>a. /\ msgq \in Seq(Msg) /\ can_send_now \in BOOLEAN /\ transparent_start \in BOOLEAN
      /\ transparent_start' /\ transparent_conidx' \in up' /\ ~at_buffer_empty(rp', wp')
  BY DEF TypeOK, TaskType, UartType, BytesWait, at_buffer_empty
<1>b. ASSUME UNCHANGED <<rp, wp, transparent_start, can_send_now>>, transparent_conidx \in up
      PROVE  SendOwed
  BY <1>a, <1>b DEF NoLostWakeup, BytesWait, at_buffer_empty, OneRequest, WritesOnly
<1>c. ASSUME UNCHANGED <<rp, wp, transparent_start, can_send_now, transparent_conidx, up,
                         t1, tpc, evreq, msgq>>,
             bt'.pc = bt.pc \/ bt.pc \in {"idle", "sent", "report"}
      PROVE  SendOwed'
  BY <1>a, <1>b, <1>c, KeptQueue, OwedKept
<1>1. ASSUME NEW c \in Char, RxTransparent(c) PROVE SendOwed'
  <2>1. /\ \A type \in Types : Queued(type) => Queued(type)'
        /\ WasEmpty => Queued("START")'
    BY <1>a, <1>1, Posting DEF RxTransparent, WasEmpty, at_buffer_empty, AboveLevel, Types
  <2>2. UNCHANGED <<t1, tpc, evreq, transparent_start, can_send_now, transparent_conidx, up>>
        /\ bt'.pc = bt.pc
    BY <1>1, ByteFields DEF RxTransparent, Byte
  <2>3. ~WasEmpty => SendOwed
    BY <1>a, <2>2 DEF NoLostWakeup, BytesWait, OneRequest, WritesOnly, WasEmpty
  <2>4. CASE WasEmpty
    BY <2>1, <2>4 DEF SendOwed
  <2> QED BY <2>1, <2>2, <2>3, <2>4, OwedKept DEF Types
<1>2. ASSUME NEW c \in Char PROVE ~RxOneSlot(c) /\ ~RxSwallowed(c) /\ ~RxPrefix(c) /\ ~RxCommand(c)
  BY <1>a DEF RxOneSlot, RxSwallowed, RxPrefix, RxCommand, CommandMode
<1>3. CASE SendTimerFires
  <2>1. CASE tpc' = "send"
    BY <2>1 DEF SendOwed
  <2>2. CASE tpc' # "send"
    <3>1. transparent_data_send_ongoing = 1 /\ t1 /\ UNCHANGED msgq
      BY <1>3, <2>2 DEF SendTimerFires, TypeOK, UartType
    <3>2. Queued("RECV")
      BY <3>1 DEF OngoingCovered, TaskShape
    <3> QED BY <3>1, <3>2, KeptQueue DEF SendOwed
  <2> QED BY <2>1, <2>2
<1>4. CASE SendTimerPosts
  <2>1. Queued("RECV")'
    BY <1>a, <1>4, Posting DEF SendTimerPosts, Types
  <2> QED BY <2>1 DEF SendOwed
<1>5. CASE ExitTimerFires
  <2>1. /\ UNCHANGED <<rp, wp, transparent_start, can_send_now, transparent_conidx, up,
                       t1, evreq, msgq, bt>>
        /\ tpc = "idle"
    BY <1>5 DEF ExitTimerFires
  <2>2. SendOwed
    BY <1>a, <1>b, <2>1
  <2> QED BY <2>1, <2>2, KeptQueue DEF SendOwed
<1>6. ~ExitTransparent /\ ~ExitClears /\ ~ClearAfterCommand /\ ~ClearOnDisconnect /\ ~LeaveModes
  BY <1>a DEF ExitTransparent, ExitClears, ClearAfterCommand, ClearOnDisconnect, LeaveModes,
              at_buffer_empty
<1>7. CASE StartTimerMsg
  BY <1>7 DEF StartTimerMsg, SendOwed
<1>8. CASE CommandMsg
  <2> DEFINE word == Head(msgq).word
  <2>1. /\ UNCHANGED <<rp, wp, can_send_now, up, t1, tpc, evreq>>
        /\ bt.pc = "idle"
        /\ \A type \in {"START", "RECV"} : Queued(type) => Queued(type)'
    BY <1>a, <1>8, Taking DEF CommandMsg, Types, NextMsg, BtFree
  <2>2. CASE UNCHANGED transparent_start
    <3>1. transparent_conidx \in up
      BY <1>a, <2>1, <2>2 DEF LiveTarget
    <3> QED BY <1>b, <2>1, <2>2, <3>1, OwedKept
  <2>3. CASE EnterTransparent(word)
    BY <2>3, AtFields DEF EnterTransparent, SendOwed
  <2> QED
    BY <1>8, <2>2, <2>3 DEF CommandMsg, OtherCommand, CommandIgnored, SetTarget, StartOneSlot
<1>9. CASE RecvTransparentData
  <2>1. transparent_conidx \in up /\ transparent_method = "M2S_W" /\ can_send_now
    BY <1>a, <1>9 DEF RecvTransparentData, OneRequest, WritesOnly
  <2>2. bt' = Sending("M2S_W", TRUE)
    BY <1>9, <2>1 DEF RecvTransparentData, MaySend
  <2> QED BY <2>2, SendingFields DEF SendOwed
<1>10. CASE SendPacket \/ PopSent \/ SendHangs
  <2>1. bt'.pc \in {"send", "adv", "hung"}
    BY <1>10 DEF SendPacket, PopSent, SendHangs, TypeOK, BtType, BtStates
  <2> QED BY <2>1 DEF SendOwed
<1>11. ~SendEnds
  <2>1. bt.via = "M2S_W"
    BY DEF OneRequest
  <2> QED BY <1>a, <2>1 DEF SendEnds
<1>12. CASE SendDone \/ ReportSendOk
  <2>1. /\ UNCHANGED <<rp, wp, transparent_start, can_send_now, transparent_conidx, up,
                       t1, tpc, evreq, msgq>>
        /\ bt.pc \in {"sent", "report"}
    BY <1>12 DEF SendDone, ReportSendOk, BtAt
  <2> QED BY <1>c, <2>1
<1>13. CASE AsyncDone \/ HostTypes \/ TxDone \/ UNCHANGED vars
  <2>1. UNCHANGED <<rp, wp, transparent_start, can_send_now, transparent_conidx, up,
                    t1, tpc, evreq, msgq, bt>>
    BY <1>13 DEF AsyncDone, HostTypes, TxDone, vars
  <2> QED BY <1>c, <2>1
<1>14. ASSUME NEW l \in Links, NEW via \in Methods, CanSendNow(l, via) PROVE SendOwed'
  <2>1. via = "M2S_W"
    BY <1>14 DEF CanSendNow, OneRequest
  <2>2. bt' = Sending(via, FALSE)
    BY <1>14, <2>1 DEF CanSendNow, MaySend
  <2> QED BY <2>2, SendingFields DEF SendOwed
<1>15. ASSUME NEW l \in Links, Connect(l) PROVE SendOwed'
  <2>1. /\ UNCHANGED <<rp, wp, transparent_start, can_send_now, transparent_conidx,
                       t1, tpc, evreq, msgq, bt>>
        /\ bt.pc = "idle"
    BY <1>15 DEF Connect, BtFree
  <2>2. transparent_conidx \in up
    BY <1>a, <2>1 DEF LiveTarget
  <2>3. SendOwed
    BY <1>b, <2>1, <2>2
  <2> QED BY <2>1, <2>3, KeptQueue, OwedKept
<1>16. ASSUME NEW l \in Links, Disconnect(l) PROVE SendOwed'
  <2>1. /\ UNCHANGED <<rp, wp, transparent_start, can_send_now, transparent_conidx,
                       t1, tpc, msgq>>
        /\ bt.pc = "idle" /\ evreq' \subseteq evreq /\ up' \subseteq up
    BY <1>16 DEF Disconnect, BtFree
  <2>2. transparent_conidx \in up /\ can_send_now
    BY <1>a, <2>1
  <2>3. evreq = {} /\ evreq' = {}
    BY <2>1, <2>2 DEF OneRequest
  <2>4. SendOwed
    BY <1>b, <2>1, <2>2
  <2> QED BY <2>1, <2>3, <2>4, KeptQueue, OwedKept
<1>17. ASSUME NEW l \in Links, NEW on \in BOOLEAN, WriteOutputDesc(l, on) PROVE SendOwed'
  <2>1. UNCHANGED <<rp, wp, transparent_start, can_send_now, transparent_conidx, up,
                    t1, tpc, evreq, msgq, bt>>
    BY <1>17 DEF WriteOutputDesc
  <2> QED BY <1>c, <2>1
<1> QED
  BY <1>1, <1>2, <1>3, <1>4, <1>5, <1>6, <1>7, <1>8, <1>9, <1>10, <1>11, <1>12, <1>13, <1>14,
     <1>15, <1>16, <1>17 DEF Next, Isr, TimerTask, BtWork, Peers

(***************************************************************************)
(* While AT+TO chooses only links of which we are the master, whatever     *)
(* else is connected, the modem never leaves bytes in the ring in          *)
(* transparent mode without somebody who will look at them.                *)
(***************************************************************************)
THEOREM NoWakeupLost == Spec /\ []WritesOnly => []NoLostWakeup
<1>1. Init => LiveTarget /\ OneRequest /\ NoLostWakeup
  BY AtFields, AtVia DEF Init, LiveTarget, OneRequest, WritesOnly, NoLostWakeup, BytesWait, Idle
<1>2. TypeOK /\ OneRequest /\ WritesOnly' /\ [Next]_vars => OneRequest'
  BY StepRequest
<1>3. /\ TypeOK /\ TypeOK' /\ TaskShape /\ LiveTarget /\ OneRequest /\ OngoingCovered
      /\ NoLostWakeup /\ [Next]_vars
      => NoLostWakeup'
  BY StepWakeup
<1> QED
  BY <1>1, <1>2, <1>3, StepLive, TypeCorrect, ShapeKept, TargetAlwaysKnown,
     OngoingAlwaysCovered, PTL DEF Spec

(* The case of a modem that is master of all its links. *)
LEMMA MasterWrites == ASSUME SlaveLinks = {} PROVE Spec => []WritesOnly
<1>1. Init => WritesOnly
  BY DEF Init, WritesOnly
<1>2. TypeOK /\ WritesOnly /\ [Next]_vars => WritesOnly'
  <2> SUFFICES ASSUME TypeOK, WritesOnly, [Next]_vars, ~UNCHANGED transparent_method
               PROVE  WritesOnly'
    BY DEF WritesOnly
  <2> USE DEF task, target, world
  <2>1. ASSUME NEW c \in Char,
               RxTransparent(c) \/ RxOneSlot(c) \/ RxSwallowed(c) \/ RxPrefix(c) \/ RxCommand(c)
        PROVE  FALSE
    BY <2>1 DEF RxTransparent, RxOneSlot, RxSwallowed, RxPrefix, RxCommand, Byte
  <2>2. CASE TimerTask
    BY <2>2 DEF TimerTask, SendTimerFires, SendTimerPosts, ExitTimerFires, ExitTransparent,
                ExitClears
  <2>3. CASE CommandMsg
    <3>1. PICK id \in up :
            transparent_method' = IF id \in MasterLinks THEN "M2S_W" ELSE "S2M_N"
      BY <2>3 DEF CommandMsg, OtherCommand, CommandIgnored, SetTarget, StartOneSlot,
                  EnterTransparent
    <3> QED BY <3>1 DEF TypeOK, WorldType, Links, WritesOnly
  <2>4. CASE ClearAfterCommand \/ StartTimerMsg \/ RecvTransparentData
    BY <2>4 DEF ClearAfterCommand, StartTimerMsg, RecvTransparentData
  <2>5. CASE SendPacket \/ PopSent \/ SendEnds \/ SendHangs
    BY <2>5 DEF SendPacket, PopSent, SendEnds, SendHangs
  <2>6. CASE SendDone \/ ReportSendOk \/ ClearOnDisconnect \/ LeaveModes \/ AsyncDone
    BY <2>6 DEF SendDone, ReportSendOk, ClearOnDisconnect, LeaveModes, AsyncDone
  <2>7. ASSUME NEW l \in Links, NEW via \in Methods, CanSendNow(l, via) PROVE FALSE
    BY <2>7 DEF CanSendNow
  <2>8. ASSUME NEW l \in Links,
               Connect(l) \/ Disconnect(l) \/ \E on \in BOOLEAN : WriteOutputDesc(l, on)
        PROVE  FALSE
    BY <2>8 DEF Connect, Disconnect, WriteOutputDesc
  <2>9. CASE HostTypes \/ TxDone \/ UNCHANGED vars
    BY <2>9 DEF HostTypes, TxDone, vars
  <2> QED
    BY <2>1, <2>2, <2>3, <2>4, <2>5, <2>6, <2>7, <2>8, <2>9 DEF Next, Isr, BtWork, Peers
<1> QED
  BY <1>1, <1>2, TypeCorrect, PTL DEF Spec

(***************************************************************************)
(* A modem that is master of all its links leaves no bytes without         *)
(* somebody who will look at them, whatever the host types.                *)
(***************************************************************************)
COROLLARY MasterLosesNoWakeup == ASSUME SlaveLinks = {} PROVE Spec => []NoLostWakeup
BY NoWakeupLost, MasterWrites, PTL

-----------------------------------------------------------------------------
(* Commands alone *)

(***************************************************************************)
(* A modem that has not left command mode: nothing but commands waits, the *)
(* line being received starts at slot 0, and first is its first character. *)
(***************************************************************************)
CommandsWait ==
  \A i \in DOMAIN msgq : msgq[i].type = "CMD" /\ msgq[i].word = msgq[i].typed

NothingPending == ~t1 /\ ~t2 /\ tpc = "idle" /\ bt.pc = "idle" /\ evreq = {}

LineAtZero ==
  /\ rp = 0 /\ wp <= AT_RECV_MAX_LEN - 2
  /\ at_recv_state < 3 => wp = 0
  /\ at_recv_state = 3 => IF wp = 0 THEN first = "none" ELSE first = buf[0].ch

Undisturbed == CommandsWait /\ NothingPending /\ LineAtZero

(* What a line's end hands over is what the line began with. *)
LEMMA LineStays ==
  ASSUME TypeOK, Undisturbed, NEW c \in Char, RxCommand(c)
  PROVE  LineAtZero' /\ CommandsWait'
<1> DEFINE w == Advance(wp, 1)
<1>1. /\ rp = 0 /\ wp \in 0 .. AT_RECV_MAX_LEN - 2 /\ AT_RECV_MAX_LEN \in Nat
      /\ AT_RECV_MAX_LEN > 3 /\ buf \in [Index -> Cell] /\ 0 \in Index /\ wp \in Index
      /\ at_recv_state = 3 /\ msgq \in Seq(Msg)
      /\ IF wp = 0 THEN first = "none" ELSE first = buf[0].ch
  BY RingAssumption DEF TypeOK, UartType, TaskType, Undisturbed, LineAtZero, Index, RxCommand
<1>2. w = wp + 1
  BY <1>1 DEF Advance
<1>3. w = AT_RECV_MAX_LEN - 1 => at_buffer_full(rp, w)
  BY <1>1 DEF at_buffer_full
<1> HIDE DEF w
<1>4. PICK ends \in {LineEnds(c, b) : b \in BOOLEAN} :
        LET reset == ends \/ at_buffer_full(rp, w)
        IN  /\ buf' = [buf EXCEPT ![wp] = [ch |-> c, id |-> 0]]
            /\ first' = IF first = "none" THEN c ELSE first
            /\ wp' = IF reset THEN 0 ELSE w
            /\ rp' = IF reset THEN 0 ELSE rp
            /\ at_recv_state' = IF reset THEN 0 ELSE 3
            /\ msgq' = IF ends THEN Append(msgq, [type |-> "CMD", word |-> CommandWord,
                                                  typed |-> first'])
                               ELSE msgq
  BY DEF RxCommand, w
<1>5. buf'[0].ch = first' /\ first' # "none"
  <2>1. c # "none" /\ \A cell \in Cell : cell.ch # "none"
    BY DEF Char, Words, Cell
  <2>2. CASE wp = 0
    BY <1>1, <1>4, <2>1, <2>2
  <2>3. CASE wp # 0
    BY <1>1, <1>4, <2>1, <2>3
  <2> QED BY <2>2, <2>3
<1>6. LineAtZero'
  <2>1. CASE ends \/ at_buffer_full(rp, w)
    BY <1>1, <1>4, <2>1 DEF LineAtZero
  <2>2. CASE ~(ends \/ at_buffer_full(rp, w))
    <3>1. rp' = 0 /\ wp' = wp + 1 /\ wp' <= AT_RECV_MAX_LEN - 2 /\ at_recv_state' = 3
      BY <1>1, <1>2, <1>3, <1>4, <2>2
    <3>2. wp' # 0
      BY <1>1, <3>1
    <3> QED BY <1>5, <3>1, <3>2 DEF LineAtZero
  <2> QED BY <2>1, <2>2
<1>7. CommandsWait'
  <2> DEFINE e == [type |-> "CMD", word |-> CommandWord, typed |-> first']
  <2>1. e.type = "CMD" /\ e.word = e.typed
    BY <1>5 DEF CommandWord
  <2> HIDE DEF e
  <2>2. msgq' = IF ends THEN Append(msgq, e) ELSE msgq
    BY <1>4 DEF e
  <2>3. CASE ~ends
    BY <2>2, <2>3 DEF CommandsWait, Undisturbed
  <2>4. CASE ends
    <3>1. /\ DOMAIN msgq' = 1 .. Len(msgq) + 1 /\ DOMAIN msgq = 1 .. Len(msgq)
          /\ Len(msgq) \in Nat /\ msgq'[Len(msgq) + 1] = e
          /\ \A i \in 1 .. Len(msgq) : msgq'[i] = msgq[i]
      BY <1>1, <2>2, <2>4
    <3>2. \A i \in 1 .. Len(msgq) : msgq[i].type = "CMD" /\ msgq[i].word = msgq[i].typed
      BY <3>1 DEF CommandsWait, Undisturbed
    <3>3. \A i \in 1 .. Len(msgq) + 1 : i \in 1 .. Len(msgq) \/ i = Len(msgq) + 1
      BY <3>1
    <3> QED BY <2>1, <3>1, <3>2, <3>3 DEF CommandsWait
  <2> QED BY <2>3, <2>4
<1> QED BY <1>6, <1>7

LEMMA StepUndisturbed ==
  /\ TypeOK /\ TypeOK' /\ Undisturbed /\ CommandMode /\ CommandMode'
  /\ [Next]_vars /\ [up \subseteq up']_vars
  => Undisturbed'
<1> SUFFICES ASSUME TypeOK, TypeOK', Undisturbed, CommandMode, CommandMode',
                    [Next]_vars, [up \subseteq up']_vars
             PROVE  Undisturbed'
  OBVIOUS
<1> USE DEF ring, timers, radio, marks, uart, task, world
<1>a. /\ CommandsWait /\ LineAtZero /\ ~t1 /\ ~t2 /\ tpc = "idle" /\ bt.pc = "idle" /\ evreq = {}
      /\ msgq \in Seq(Msg) /\ bt \in BtStates
  BY DEF Undisturbed, NothingPending, TypeOK, TaskType, BtType
<1>b. ASSUME UNCHANGED <<msgq, timers, evreq>>, bt'.pc = "idle", LineAtZero'
      PROVE  Undisturbed'
  BY <1>a, <1>b DEF Undisturbed, CommandsWait, NothingPending
<1>c. ASSUME UNCHANGED <<ring, at_recv_state, first>> PROVE LineAtZero'
  BY <1>a, <1>c DEF LineAtZero
<1>d. \A type : Queued(type) => type = "CMD"
  BY <1>a DEF Queued, CommandsWait
<1>1. CASE HostTypes \/ TxDone \/ AsyncDone \/ UNCHANGED vars
  BY <1>1, <1>a, <1>b, <1>c DEF HostTypes, TxDone, AsyncDone, vars
<1>2. ASSUME NEW c \in Char, RxPrefix(c) PROVE Undisturbed'
  <2>1. bt'.pc = "idle" /\ UNCHANGED <<msgq, timers, evreq, ring>> /\ first' = "none"
        /\ at_recv_state \in 0 .. 2
    BY <1>2, <1>a DEF RxPrefix, Byte, TypeOK, UartType
  <2>2. LineAtZero'
    BY <1>a, <2>1 DEF LineAtZero
  <2> QED BY <1>b, <2>1, <2>2
<1>3. ASSUME NEW c \in Char, RxCommand(c) PROVE Undisturbed'
  <2>1. bt'.pc = "idle" /\ UNCHANGED <<timers, evreq>>
    BY <1>3, <1>a DEF RxCommand, Byte
  <2>2. LineAtZero' /\ CommandsWait'
    BY <1>3, LineStays
  <2> QED BY <1>a, <2>1, <2>2 DEF Undisturbed, NothingPending
<1>4. ASSUME NEW c \in Char PROVE ~RxTransparent(c) /\ ~RxOneSlot(c) /\ ~RxSwallowed(c)
  BY DEF RxTransparent, RxOneSlot, RxSwallowed, CommandMode
<1>5. ~TimerTask
  BY <1>a DEF TimerTask, SendTimerFires, SendTimerPosts, ExitTimerFires, ExitTransparent, ExitClears
<1>6. ~StartTimerMsg /\ ~RecvTransparentData
  <2>1. ASSUME NEW type \in Types \ {"CMD"}, NextMsg(type) PROVE FALSE
    BY <1>a, <1>d, <2>1, Taking
  <2> QED BY <2>1 DEF StartTimerMsg, RecvTransparentData, Types
<1>7. CASE CommandMsg
  <2>1. UNCHANGED <<ring, at_recv_state, timers, evreq, first>> /\ msgq' = Tail(msgq) /\ msgq # <<>>
    BY <1>7 DEF CommandMsg, NextMsg
  <2>2. bt' = bt
    BY <1>7 DEF CommandMsg, CommandMode, OtherCommand, CommandIgnored, SetTarget, StartOneSlot,
                EnterTransparent
  <2>3. CommandsWait'
    <3>1. /\ DOMAIN msgq' = 1 .. Len(msgq) - 1 /\ DOMAIN msgq = 1 .. Len(msgq)
          /\ Len(msgq) \in Nat /\ \A i \in 1 .. Len(msgq) - 1 : msgq'[i] = msgq[i + 1]
      BY <1>a, <2>1
    <3>2. \A i \in 1 .. Len(msgq) - 1 : i + 1 \in 1 .. Len(msgq)
      BY <3>1
    <3> QED BY <1>a, <3>1, <3>2 DEF CommandsWait
  <2> QED BY <1>a, <1>c, <2>1, <2>2, <2>3 DEF Undisturbed, NothingPending
<1>8. /\ ~ClearAfterCommand /\ ~SendPacket /\ ~PopSent /\ ~SendEnds /\ ~SendHangs
      /\ ~SendDone /\ ~ReportSendOk /\ ~ClearOnDisconnect /\ ~LeaveModes
  BY <1>a DEF ClearAfterCommand, SendPacket, PopSent, SendEnds, SendHangs, SendDone, ReportSendOk,
              ClearOnDisconnect, LeaveModes, BtAt
<1>9. ASSUME NEW l \in Links, NEW via \in Methods PROVE ~CanSendNow(l, via)
  BY <1>a DEF CanSendNow
<1>10. ASSUME NEW l \in Links, Connect(l) PROVE Undisturbed'
  BY <1>10, <1>a, <1>b, <1>c DEF Connect
<1>11. ASSUME NEW l \in Links, Disconnect(l) PROVE FALSE
  <2>1. l \in up /\ up' = up \ {l}
    BY <1>11 DEF Disconnect
  <2>2. up \subseteq up'
    BY <2>1 DEF vars, peers
  <2> QED BY <2>1, <2>2
<1>12. ASSUME NEW l \in Links, NEW on \in BOOLEAN, WriteOutputDesc(l, on) PROVE Undisturbed'
  BY <1>12, <1>a, <1>b, <1>c DEF WriteOutputDesc
<1> QED
  BY <1>1, <1>2, <1>3, <1>4, <1>5, <1>6, <1>7, <1>8, <1>9, <1>10, <1>11, <1>12
     DEF Next, Isr, BtWork, Peers

(***************************************************************************)
(* As long as no link is lost and no data mode is entered, each command    *)
(* handed over is the one whose line was typed, whatever else is typed:    *)
(* wrong prefixes, a line feed too early, lines longer than the ring.  The *)
(* copy from slot 0 needs rp to be there, and only data moves it.          *)
(***************************************************************************)
THEOREM CommandsAreFaithful ==
  Spec /\ [][up \subseteq up']_vars /\ []CommandMode => []CmdFaithful
<1>1. Init => Undisturbed
  BY RingAssumption, AtFields
     DEF Init, Undisturbed, CommandsWait, NothingPending, LineAtZero, Idle
<1>2. Undisturbed => CmdFaithful
  BY DEF Undisturbed, CommandsWait, CmdFaithful
<1> QED BY <1>1, <1>2, TypeCorrect, StepUndisturbed, PTL DEF Spec
=============================================================================
