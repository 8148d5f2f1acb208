------------------------------ MODULE IngBridge ------------------------------
(***************************************************************************)
(* The UART bridge of AT_ING: bytes from the host wait in com_buf until    *)
(* they are sent to the peer or turn out to be an AT command; bytes from   *)
(* the peer wait in ble_buf until they are written to the UART.            *)
(*                                                                         *)
(* Four contexts share the two buffers without a lock.  From the most to   *)
(* the least urgent: the UART interrupt (one action), the timer task with  *)
(* its 50 ms tick (Tmr actions), the Bluetooth task (Bt actions) and the   *)
(* task "b", cmd_process_task (B actions).  A context runs only while      *)
(* every more urgent one is idle and may be interrupted after each step.   *)
(*                                                                         *)
(* A cell of a buffer is a byte the host typed (a number), NUL, or AT, a   *)
(* whole AT command: the commands' effects are in IngLink.                 *)
(***************************************************************************)
EXTENDS Integers, Sequences, SequencesExt

CONSTANTS
  COM_IN,              \* CMD_IO_PORT_BUF_LEN_COM_IN
  THRESHOLD,           \* CMD_IO_PORT_BUF_LEN_COM_IN_HELF_THRESHOLD
  BLE_IN,              \* CMD_IO_PORT_BUF_LEN_BLE_IN
  TMR_CLK_1S_COUNT,    \* ticks in a second
  CountReset,          \* 0xEFFFFFFF: the counts restart beyond it
  RxFifo, WaterLevel,  \* size of the UART's fifo, level of its interrupt
  Mtu,                 \* bytes in a packet to the peer
  PacketLens,          \* lengths of the peer's packets
  Sessions             \* bounds: what is typed and what the peer sends in one run

ASSUME BridgeAssumption ==
  /\ {COM_IN, THRESHOLD, BLE_IN, TMR_CLK_1S_COUNT, CountReset, RxFifo, WaterLevel, Mtu}
       \subseteq Nat \ {0}
  /\ Sessions \subseteq [bytes : Nat, commands : Nat, peer : Nat]
  /\ COM_IN < CountReset
  /\ PacketLens \subseteq 1 .. BLE_IN

VARIABLES
  session,     \* the bounds of this run
  fifo,        \* the UART's receive fifo
  com,         \* com_buf
  rx,          \* the statics of bt_cmd_data_uart_recv_data
  tmr,         \* the timer task: pc, the byte in hand, its registers
  ble,         \* ble_buf
  sem,         \* sem_cmd_process
  b,           \* cmd_process_task: pc and register
  bt,          \* the Bluetooth task: "idle" or in throughput_send_data
  queue,       \* its events
  sending,     \* g_throughput_is_sending_data
  link,        \* a peer is there to take the bytes
  credit,      \* the stack can take a packet
  request,     \* a can-send-now event was asked for
  power,       \* "saving", "leaving" or "on": the tick runs only in "on"
  pend,        \* history: what com_buf should hold
  spoilt,      \* history: a race or an overrun befell com_buf
  faithful,    \* history: every packet held what com_buf should have held
  typed, commands, executed,   \* history: bytes and commands typed, commands done
  peer, uart,  \* history: bytes the peer sent, bytes written to the UART
  overrun,     \* history: ble_buf was overwritten
  missed       \* history: a request to send by UART was cleared unseen

comVars  == <<fifo, com, rx, tmr, pend, spoilt>>
bleVars  == <<ble, peer, uart, overrun, missed>>
linkVars == <<link, credit, request, power>>
hist     == <<session, faithful, typed, commands, executed>>
vars     == <<comVars, bleVars, sem, b, bt, queue, sending, linkVars, hist>>

-----------------------------------------------------------------------------
(* Data *)

NUL == 0
AT  == 0 - 1
PARSE_CMD   == "START_PARSE_CMD"
SEND_BY_BLE == "START_SEND_BY_BLE"
SEND_BY_COM == "START_SEND_BY_COM"

(* Events of the Bluetooth task; a positive number is a packet of the peer. *)
UART_RX_TO_BLE == 0
CAN_SEND_NOW   == 0 - 1

Empty(n) == [state |-> {}, top |-> 0, topCount |-> 0, bottom |-> 0, bottomCount |-> 0,
             in |-> [i \in 0 .. n |-> NUL]]

Count(buf) == buf.bottomCount - buf.topCount

TmrIdle == [pc |-> "idle", byte |-> NUL, index |-> 0, count |-> 0, have |-> FALSE]

Init ==
  /\ session \in Sessions
  /\ fifo = <<>> /\ com = Empty(COM_IN) /\ ble = Empty(BLE_IN)
  /\ rx = [canBeCmd |-> FALSE, last |-> "timer", ticks |-> 0]
  /\ tmr = TmrIdle /\ b = [pc |-> "wait", index |-> 0, state |-> {}] /\ bt = "idle"
  /\ sem = FALSE /\ queue = <<>> /\ sending = FALSE
  /\ link = FALSE /\ credit = TRUE /\ request = FALSE /\ power = "saving"
  /\ pend = <<>> /\ spoilt = FALSE /\ faithful = TRUE
  /\ typed = 0 /\ commands = 0 /\ executed = 0
  /\ peer = 0 /\ uart = <<>> /\ overrun = FALSE /\ missed = FALSE

-----------------------------------------------------------------------------
(* Operators *)

(* Mutant: they restart though bytes wait. *)
Restarted_anyway(buf) ==
  IF buf.bottomCount >= CountReset
  THEN [buf EXCEPT !.bottomCount = 0, !.topCount = 0] ELSE buf

(* The counts restart when they are large and the buffer is empty. *)
Restarted(buf) ==
  IF buf.bottomCount >= CountReset /\ Count(buf) = 0
  THEN [buf EXCEPT !.bottomCount = 0, !.topCount = 0] ELSE buf

(* Mutant: the index wraps one cell late. *)
Wrapped_late(i, len) == IF i > len THEN i - len ELSE i

Wrapped(i, len) == IF i >= len THEN i - len ELSE i

(* bt_cmd_data_uart_rx_data_fun *)
RxByte(buf, c) ==
  LET r == Restarted(buf)
  IN  [r EXCEPT !.in[r.bottom] = c, !.bottom = Wrapped(r.bottom + 1, COM_IN),
                !.bottomCount = @ + 1]

(* Mutant: the threshold holds always. *)
AsksBle_half(buf, now) == ~sending /\ Count(buf) >= THRESHOLD

(* give_sem_send_data_by_ble: does it ask cmd_process_task? *)
AsksBle(buf, now) ==
  /\ ~sending /\ Count(buf) # 0
  /\ now \/ Count(buf) >= THRESHOLD

Least(x, y) == IF x < y THEN x ELSE y

(* The part of bt_cmd_data_uart_recv_data that follows the read loop. *)
AfterRead(source, have, buf) ==
  LET ticks == IF source = "isr" THEN 0
               ELSE Least(rx.ticks + 1, TMR_CLK_1S_COUNT)   \* more is as good
      cmd   == ~have /\ rx.canBeCmd /\ ticks >= TMR_CLK_1S_COUNT
      asks  == AsksBle(buf, ~have /\ ~cmd)
  IN  /\ rx' = [canBeCmd |-> have /\ (rx.canBeCmd \/ (source = "timer" /\ rx.last = "timer")),
                last |-> source, ticks |-> ticks]
      /\ com' = [buf EXCEPT !.state = @ \cup (IF cmd THEN {PARSE_CMD} ELSE {})
                                         \cup (IF asks THEN {SEND_BY_BLE} ELSE {})]
      /\ sem' = (sem \/ cmd \/ asks)

(* Mutant: the piece may run past the end of the buffer. *)
PopNum_unclamped(mtu) == Least(Count(com), mtu)

(* bt_cmd_data_com_buf_pop_num: bytes that can be taken in one piece. *)
PopNum(mtu) == Least(Least(Count(com), mtu), COM_IN - com.top)

(* bt_cmd_data_com_buf_pop_data; task "b" may be in the middle of a command. *)
PopData(n) ==
  /\ spoilt' = (spoilt \/ b.pc \in {"handle", "reset2", "reset3", "reset4"})
  /\ com' = [com EXCEPT !.top = Wrapped(@ + n, COM_IN), !.topCount = @ + n]
  /\ pend' = SubSeq(pend, n + 1, Len(pend))

Piece(n) == [i \in 1 .. n |-> com.in[Least(com.top + i - 1, COM_IN)]]

(* low_power_exit_saving wakes the low power task once. *)
ExitSaving == power' = IF power = "saving" THEN "leaving" ELSE power

TmrDone == tmr.pc = "idle"
BtDone  == TmrDone /\ bt = "idle" /\ queue = <<>>

-----------------------------------------------------------------------------
(* The host and the UART interrupt *)

(* The fifo is never overfull: the interrupt is faster than the line. *)
HostTypes ==
  /\ Len(fifo) < RxFifo
  /\ \/ /\ typed < session.bytes
        /\ fifo' = Append(fifo, typed + 1) /\ typed' = typed + 1
        /\ UNCHANGED commands
     \/ /\ commands < session.commands
        /\ fifo' = Append(fifo, AT) /\ commands' = commands + 1
        /\ UNCHANGED typed
  /\ UNCHANGED <<com, rx, tmr, pend, spoilt, bleVars, sem, b, bt, queue, sending, linkVars,
                 session, faithful, executed>>

(* bt_cmd_data_uart1_isr empties the fifo.  It may meet the timer task     *)
(* with a byte in hand, or task "b" between two of its resets.             *)
Isr ==
  /\ Len(fifo) >= WaterLevel
  /\ LET buf == FoldLeft(RxByte, com, fifo)
     IN  /\ AfterRead("isr", TRUE, buf)
         /\ pend' = pend \o fifo
         /\ spoilt' = (spoilt \/ Len(pend') > COM_IN \/ b.pc = "reset2"
                              \/ tmr.pc \in {"store", "index", "count"})
  /\ fifo' = <<>>
  /\ UNCHANGED <<tmr, bleVars, b, bt, queue, sending, linkVars, hist>>

-----------------------------------------------------------------------------
(* The timer task: the same routine, one access at a time *)

UNCHANGED_Tmr == UNCHANGED <<bleVars, b, bt, queue, sending, linkVars, hist>>

TmrTick ==
  /\ TmrDone /\ power = "on"
  /\ tmr' = [TmrIdle EXCEPT !.pc = "read"]
  /\ UNCHANGED <<fifo, com, rx, pend, spoilt, sem>> /\ UNCHANGED_Tmr

TmrRead ==
  /\ tmr.pc = "read" /\ fifo # <<>>
  /\ tmr' = [tmr EXCEPT !.pc = "store", !.byte = Head(fifo), !.have = TRUE]
  /\ fifo' = Tail(fifo)
  /\ UNCHANGED <<com, rx, pend, spoilt, sem>> /\ UNCHANGED_Tmr

TmrStore ==
  /\ tmr.pc = "store"
  /\ LET r == Restarted(com)
     IN  com' = [r EXCEPT !.in[r.bottom] = tmr.byte]
  /\ tmr' = [tmr EXCEPT !.pc = "index", !.index = com.bottom]
  /\ UNCHANGED <<fifo, rx, pend, spoilt, sem>> /\ UNCHANGED_Tmr

TmrIndex ==
  /\ tmr.pc = "index"
  /\ com' = [com EXCEPT !.bottom = tmr.index + 1]
  /\ tmr' = [tmr EXCEPT !.pc = "count", !.count = com.bottomCount]
  /\ UNCHANGED <<fifo, rx, pend, spoilt, sem>> /\ UNCHANGED_Tmr

TmrCount ==
  /\ tmr.pc = "count"
  /\ com' = [com EXCEPT !.bottomCount = tmr.count + 1, !.bottom = Wrapped(@, COM_IN)]
  /\ tmr' = [tmr EXCEPT !.pc = "read"]
  /\ pend' = Append(pend, tmr.byte)
  /\ spoilt' = (spoilt \/ Len(pend') > COM_IN \/ b.pc = "reset2")
  /\ UNCHANGED <<fifo, rx, sem>> /\ UNCHANGED_Tmr

TmrEnd ==
  /\ tmr.pc = "read" /\ fifo = <<>>
  /\ AfterRead("timer", tmr.have, com)
  /\ tmr' = TmrIdle
  /\ UNCHANGED <<fifo, pend, spoilt>> /\ UNCHANGED_Tmr

(* low_power_task starts the tick. *)
LowPowerTask ==
  /\ power = "leaving" /\ power' = "on"
  /\ UNCHANGED <<comVars, bleVars, sem, b, bt, queue, sending, link, credit, request, hist>>

-----------------------------------------------------------------------------
(* The Bluetooth task *)

UNCHANGED_Bt == UNCHANGED <<session, fifo, rx, tmr, typed, commands, executed>>

(* A write or a notification of the peer is on its way. *)
PeerSends(n) ==
  /\ link /\ peer + n <= session.peer
  /\ \A i \in DOMAIN queue : queue[i] \notin PacketLens   \* one at a time
  /\ queue' = Append(queue, n)
  /\ UNCHANGED <<comVars, bleVars, sem, b, bt, sending, linkVars, hist>>

(* bt_cmd_data_ble_recv_data *)
BtRecv ==
  /\ TmrDone /\ bt = "idle" /\ queue # <<>> /\ Head(queue) \in PacketLens
  /\ LET n == Head(queue)
         r == Restarted(ble)
         At(k) == Wrapped(r.bottom + k - 1, BLE_IN)
     IN  /\ ble' = [r EXCEPT !.in = [i \in DOMAIN @ |->
                                       IF \E k \in 1 .. n : At(k) = i
                                       THEN peer + CHOOSE k \in 1 .. n : At(k) = i ELSE @[i]],
                             !.bottom = Wrapped(@ + n, BLE_IN), !.bottomCount = @ + n,
                             !.state = @ \cup {SEND_BY_COM}]
         /\ peer' = peer + n
         /\ overrun' = (overrun \/ Count(ble') > BLE_IN)
         /\ missed' = (b.pc = "out")
  /\ queue' = Tail(queue) /\ sem' = TRUE /\ ExitSaving
  /\ UNCHANGED <<com, pend, spoilt, uart, b, bt, sending, link, credit, request, faithful>>
  /\ UNCHANGED_Bt

(* USER_MSG_ID_UART_RX_TO_BLE_DATA_SERVICE or a can-send-now event. *)
BtStart ==
  /\ TmrDone /\ bt = "idle" /\ queue # <<>> /\ Head(queue) \notin PacketLens
  /\ bt' = "sending" /\ sending' = TRUE /\ queue' = Tail(queue)
  /\ UNCHANGED <<com, pend, spoilt, bleVars, sem, b, linkVars, faithful>> /\ UNCHANGED_Bt

(* throughput_clear_send_data: nobody to send to. *)
BtClear ==
  /\ TmrDone /\ bt = "sending" /\ ~link /\ PopNum(COM_IN) > 0
  /\ PopData(PopNum(COM_IN))
  /\ UNCHANGED <<bleVars, sem, b, bt, queue, sending, linkVars, faithful>> /\ UNCHANGED_Bt

(* throughput_i_am_slave_send_data, throughput_i_am_master_send_data: one  *)
(* packet of the loop.                                                     *)
BtSend ==
  /\ TmrDone /\ bt = "sending" /\ link /\ PopNum(Mtu) > 0 /\ credit
  /\ LET n == PopNum(Mtu)
     IN  /\ PopData(n)
         /\ faithful' = (faithful /\ (spoilt' \/ Piece(n) = SubSeq(pend, 1, n)))
  /\ credit' \in BOOLEAN
  /\ UNCHANGED <<bleVars, sem, b, bt, queue, sending, link, request, power>>
  /\ UNCHANGED_Bt

(* The reset after a command is half done and the count is negative: the   *)
(* piece is some 65000 bytes long.  What follows is not modelled.          *)
BtWild ==
  /\ TmrDone /\ bt = "sending" /\ Count(com) < 0 /\ (link => credit)
  /\ bt' = "wild" /\ spoilt' = TRUE
  /\ UNCHANGED <<com, pend, bleVars, sem, b, queue, sending, linkVars, faithful>>
  /\ UNCHANGED_Bt

(* The loop ends: nothing is left, or the stack is full. *)
BtEnd ==
  /\ TmrDone /\ bt = "sending"
  /\ \/ PopNum(Mtu) = 0 /\ UNCHANGED request
     \/ PopNum(Mtu) # 0 /\ link /\ ~credit /\ request' = TRUE
  /\ bt' = "idle" /\ sending' = FALSE
  /\ UNCHANGED <<com, pend, spoilt, bleVars, sem, b, queue, link, credit, power, faithful>>
  /\ UNCHANGED_Bt

(* The stack has room again and says so if it was asked to. *)
Credit ==
  /\ ~credit /\ credit' = TRUE /\ request' = FALSE
  /\ queue' = IF request THEN Append(queue, CAN_SEND_NOW) ELSE queue
  /\ UNCHANGED <<comVars, bleVars, sem, b, bt, sending, link, power, hist>>

(* A link is ready for bytes, or it ended. *)
LinkChanges ==
  /\ TmrDone /\ bt = "idle"
  /\ \A i \in DOMAIN queue : queue[i] \notin PacketLens
  /\ link' = ~link /\ credit' = TRUE /\ request' = FALSE
  /\ queue' = SelectSeq(queue, LAMBDA e : e # CAN_SEND_NOW)
  /\ UNCHANGED <<comVars, bleVars, sem, b, bt, sending, power, hist>>

(* USER_MSG_ID_FIRST_WAKE_UP, or a level on the UART pin in deep sleep. *)
WakeUp ==
  /\ power = "saving" /\ ExitSaving
  /\ UNCHANGED <<comVars, bleVars, sem, b, bt, queue, sending, link, credit, request, hist>>

-----------------------------------------------------------------------------
(* Task "b" *)

UNCHANGED_B == UNCHANGED <<session, fifo, rx, tmr, bt, sending, linkVars, peer, overrun, typed, commands,
                           faithful>>
Goto(pc) == b' = [b EXCEPT !.pc = pc]

(* It takes the semaphore; with both states clear only the check for low   *)
(* power follows: it clears bits of g_sys_work_status_bits, on which       *)
(* nothing here depends.                                                   *)
BTake ==
  /\ BtDone /\ b.pc = "wait" /\ sem
  /\ sem' = FALSE
  /\ Goto(IF com.state \cup ble.state = {} THEN "wait" ELSE "parse")
  /\ UNCHANGED <<com, pend, spoilt, ble, uart, missed, queue, executed>> /\ UNCHANGED_B

(* bt_cmd_data_uart_rx_cmd_process begins: where does the text end? *)
BParse ==
  /\ BtDone /\ b.pc = "parse"
  /\ IF PARSE_CMD \in com.state THEN b' = [b EXCEPT !.pc = "end", !.index = com.bottom]
                                ELSE Goto("ble")
  /\ UNCHANGED <<com, pend, spoilt, ble, uart, missed, sem, queue, executed>> /\ UNCHANGED_B

(* Mutant: no terminator. *)
BTerminate_not ==
  /\ BtDone /\ b.pc = "end" /\ Goto("handle")
  /\ spoilt' = (spoilt \/ com.bottom # b.index \/ Count(com) >= COM_IN)
  /\ UNCHANGED <<com, pend, ble, uart, missed, sem, queue, executed>> /\ UNCHANGED_B

(* The terminator; a byte that came meanwhile, or a full buffer, loses a byte. *)
BTerminate ==
  /\ BtDone /\ b.pc = "end" /\ Goto("handle")
  /\ com' = [com EXCEPT !.in[b.index] = NUL]
  /\ spoilt' = (spoilt \/ com.bottom # b.index \/ Count(com) >= COM_IN)
  /\ UNCHANGED <<pend, ble, uart, missed, sem, queue, executed>> /\ UNCHANGED_B

(* baec_msg_handle: a command is answered, anything else passes on. *)
BHandle ==
  /\ BtDone /\ b.pc = "handle"
  /\ \/ /\ com.in[com.top] = AT
        /\ executed' = executed + 1 /\ Goto("reset1")
        /\ UNCHANGED <<com, sem>>
     \/ /\ com.in[com.top] # AT
        /\ Goto("clear1") /\ UNCHANGED executed
        /\ IF AsksBle(com, TRUE)
           THEN com' = [com EXCEPT !.state = @ \cup {SEND_BY_BLE}] /\ sem' = TRUE
           ELSE UNCHANGED <<com, sem>>
  /\ UNCHANGED <<pend, spoilt, ble, uart, missed, queue>> /\ UNCHANGED_B

(* The buffer restarts, one field after the other. *)
BReset ==
  /\ BtDone
  /\ \/ b.pc = "reset1" /\ Goto("reset2") /\ com' = [com EXCEPT !.bottom = 0] /\ UNCHANGED pend
     \/ b.pc = "reset2" /\ Goto("reset3") /\ com' = [com EXCEPT !.bottomCount = 0] /\ pend' = <<>>
     \/ b.pc = "reset3" /\ Goto("reset4") /\ com' = [com EXCEPT !.top = 0] /\ UNCHANGED pend
     \/ b.pc = "reset4" /\ Goto("clear1") /\ com' = [com EXCEPT !.topCount = 0] /\ UNCHANGED pend
  /\ UNCHANGED <<spoilt, ble, uart, missed, sem, queue, executed>> /\ UNCHANGED_B

(* com_buf.process_state &= ~bit is a read and a write. *)
BClear ==
  /\ BtDone
  /\ \/ b.pc = "clear1" /\ b' = [b EXCEPT !.pc = "clear2", !.state = com.state \ {PARSE_CMD}]
        /\ UNCHANGED com
     \/ b.pc = "clear2" /\ b' = [b EXCEPT !.pc = "ble", !.state = {}]
        /\ com' = [com EXCEPT !.state = b.state]
     \/ b.pc = "sent1" /\ b' = [b EXCEPT !.pc = "sent2", !.state = com.state \ {SEND_BY_BLE}]
        /\ UNCHANGED com
     \/ b.pc = "sent2" /\ b' = [b EXCEPT !.pc = "com", !.state = {}]
        /\ com' = [com EXCEPT !.state = b.state]
  /\ UNCHANGED <<pend, spoilt, ble, uart, missed, sem, queue, executed>> /\ UNCHANGED_B

BSendByBle ==
  /\ BtDone /\ b.pc = "ble"
  /\ IF SEND_BY_BLE \in com.state
     THEN Goto("sent1") /\ queue' = Append(queue, UART_RX_TO_BLE)
     ELSE Goto("com") /\ UNCHANGED queue
  /\ UNCHANGED <<com, pend, spoilt, ble, uart, missed, sem, executed>> /\ UNCHANGED_B

(* bt_cmd_data_uart_handle_task_send_data: one byte of the loop. *)
BOut ==
  /\ BtDone /\ b.pc = "com" /\ SEND_BY_COM \in ble.state /\ Count(ble) > 0
  /\ uart' = Append(uart, ble.in[ble.top])
  /\ ble' = [ble EXCEPT !.top = Wrapped(@ + 1, BLE_IN), !.topCount = @ + 1]
  /\ UNCHANGED <<com, pend, spoilt, missed, sem, b, queue, executed>> /\ UNCHANGED_B

BOutEnd ==
  /\ BtDone /\ b.pc = "com" /\ ~(SEND_BY_COM \in ble.state /\ Count(ble) > 0)
  /\ Goto(IF SEND_BY_COM \in ble.state THEN "out" ELSE "wait")
  /\ UNCHANGED <<com, pend, spoilt, ble, uart, missed, sem, queue, executed>> /\ UNCHANGED_B

(* The request is cleared, a new one along with it. *)
BOutClear ==
  /\ BtDone /\ b.pc = "out" /\ Goto("wait")
  /\ ble' = [ble EXCEPT !.state = {}]
  /\ UNCHANGED <<com, pend, spoilt, uart, missed, sem, queue, executed>> /\ UNCHANGED_B

-----------------------------------------------------------------------------
(* Specification *)

Tmr == TmrTick \/ TmrRead \/ TmrStore \/ TmrIndex \/ TmrCount \/ TmrEnd
Bt  == BtRecv \/ BtStart \/ BtClear \/ BtSend \/ BtWild \/ BtEnd
B   == BTake \/ BParse \/ BTerminate \/ BHandle \/ BReset \/ BClear \/ BSendByBle
         \/ BOut \/ BOutEnd \/ BOutClear

Next ==
  \/ HostTypes \/ Isr \/ Tmr \/ LowPowerTask \/ Bt \/ B
  \/ \E n \in PacketLens : PeerSends(n)
  \/ Credit \/ LinkChanges \/ WakeUp

(* The tick comes for ever and every task that is ready gets its turn     *)
(* between ticks; the stack's buffers empty; the device wakes up.         *)
Fairness ==
  /\ WF_vars(Tmr) /\ SF_vars(Bt) /\ SF_vars(B)
  /\ WF_vars(LowPowerTask) /\ WF_vars(WakeUp) /\ WF_vars(Credit)

FairSpec == Init /\ [][Next]_vars /\ Fairness

-----------------------------------------------------------------------------
(* Properties *)

TypeOK ==
  /\ fifo \in Seq(Int) /\ Len(fifo) <= RxFifo
  /\ com.state \subseteq {PARSE_CMD, SEND_BY_BLE} /\ ble.state \subseteq {SEND_BY_COM}
  /\ com.top \in 0 .. COM_IN - 1 /\ com.bottom \in 0 .. COM_IN
  /\ ble.top \in 0 .. BLE_IN - 1 /\ ble.bottom \in 0 .. BLE_IN - 1
  /\ rx.ticks \in 0 .. TMR_CLK_1S_COUNT /\ bt \in {"idle", "sending", "wild"}
  /\ {sem, sending, link, credit, request, faithful, spoilt, overrun, missed} \subseteq BOOLEAN
  /\ power \in {"saving", "leaving", "on"}

(***************************************************************************)
(* What the peer gets is what the host typed, and its place in com_buf is  *)
(* never lost, whatever the interrupt, the tick and the reset after a      *)
(* command do to each other, unless the buffer overflowed or one of the    *)
(* races of "spoilt" struck: index and count are kept apart and nothing    *)
(* puts them back in step.                                                 *)
(***************************************************************************)
PeerGetsHostBytes ==
  ~spoilt =>
    /\ faithful
    /\ b.pc \notin {"reset2", "reset3", "reset4"} /\ tmr.pc \notin {"index", "count"} =>
         /\ Count(com) = Len(pend)
         /\ com.bottom = Wrapped(com.top + Count(com), COM_IN)

(***************************************************************************)
(* A command is executed at most as often as it was typed, until one of    *)
(* the races of "spoilt" or the overflow has struck: the text stays in the *)
(* buffer after the reset and the next silence may ask for it to be parsed *)
(* again.  A send between the terminator and the look at the text is such  *)
(* a race: there an old command may run again.                             *)
(***************************************************************************)
CommandsOnce == ~spoilt => executed <= commands

(***************************************************************************)
(* The UART gets the peer's bytes in order and without a gap, whichever    *)
(* packets interrupt the task that writes them, until ble_buf overflows.   *)
(***************************************************************************)
HostGetsPeerBytes ==
  ~overrun => /\ uart = [i \in 1 .. Len(uart) |-> i]
              /\ Count(ble) = peer - Len(uart)

(***************************************************************************)
(* Bytes typed leave the buffer, though requests to send them may be lost: *)
(* the tick asks again.  Bytes of the peer reach the UART, unless the      *)
(* request that announced them was cleared with the one before: no tick    *)
(* asks for them again.                                                    *)
(***************************************************************************)
BytesLeave ==
  /\ (Count(com) > 0) ~> (Count(com) <= 0 \/ spoilt)
  /\ (Count(ble) > 0) ~> (Count(ble) <= 0 \/ missed \/ bt = "wild")
=============================================================================
