------------------------------ MODULE AtStream ------------------------------
(***************************************************************************)
(* The serial data path of the 9168_AT modem: the timer interrupt that     *)
(* moves UART bytes into the ring, the FreeRTOS timers, and the Bluetooth  *)
(* task that runs AT commands and sends the ring's bytes to the peer.      *)
(*                                                                         *)
(* Three contexts share the ring and the mode flags:                       *)
(*   - the interrupt (app_at_recv_c) runs between any two steps of the     *)
(*     others, except while the Bluetooth task masks interrupts;           *)
(*   - the FreeRTOS timer task preempts the Bluetooth task, so the latter  *)
(*     never runs while a timer callback is in progress;                   *)
(*   - the Bluetooth task handles one event or message at a time.          *)
(* A step is one source statement, or several when no other context can    *)
(* tell them apart.                                                        *)
(***************************************************************************)
EXTENDS AtRing, SequencesExt

CONSTANTS
  AT_TRANSPARENT_DOWN_LEVEL, \* bytes above which a send is asked for at once
  MasterLinks,   \* link ids below MAX_CONN_AS_MASTER (we are the master)
  SlaveLinks,    \* link ids from MAX_CONN_AS_MASTER on (we are the slave)
  NoLink,        \* the value 0xFF of transparent_conidx: no target chosen
  MTU,           \* payload bytes of one packet
  MaxAcl,        \* buffers of the Bluetooth stack
  MaxBurst,      \* bytes the interrupt may take in during one stack call
  SendLens,      \* lengths the host asks for with AT+SEND
  CmdLines,      \* the AT lines the host may type
  DataLines,     \* the strings of data the host may type
  MaxCmds,       \* bound: AT lines typed
  MaxData        \* bound: data strings typed

Links   == MasterLinks \cup SlaveLinks
Methods == {"M2S_W", "S2M_N"}   \* a write to a slave, a notification to a master

Words == {"TO", "SEND", "+++", "OTHER"}        \* command words told apart
Char  == Words \cup {"A", "T", "+", "CR", "LF", "d"}

ASSUME StreamAssumption ==
  /\ MasterLinks \cap SlaveLinks = {}
  /\ NoLink \notin Links
  /\ AT_TRANSPARENT_DOWN_LEVEL \in Nat /\ MaxAcl \in Nat /\ MaxBurst \in Nat
  /\ MaxCmds \in Nat /\ MaxData \in Nat /\ SendLens \subseteq Nat
  /\ CmdLines \subseteq Seq(Char) /\ DataLines \subseteq Seq(Char)
  /\ MTU \in Nat \ {0} /\ MTU + MaxBurst < AT_RECV_MAX_LEN
  /\ MTU < AT_RECV_MAX_LEN - 2   \* bytes can wait behind a packet

VARIABLES
  buf, rp, wp,                   \* at_recv_buffer, at_recv_buffer_rp, _wp
  at_recv_state,                 \* how much of "AT+" has been matched
  transparent_data_send_ongoing,
  transparent_start,
  one_slot_send_start, one_slot_send_len,
  transparent_conidx,            \* target link of the data
  transparent_method,            \* "M2S_W" or "S2M_N"
  transparent_notify_enable,
  async_evt_on_going,            \* an AT command awaits its event
  can_send_now,
  msgq,                          \* user messages for the Bluetooth task
  t1,                            \* transparent_timer is running
  t2,                            \* exit_transparent_mode_timer is running
  tpc,                           \* where the timer task stands in a callback
  bt,                            \* where the Bluetooth task stands
  up,                            \* links whose conn_infos handle is valid
  subs,                          \* links whose peer enabled notifications
  evreq,                         \* can-send-now events asked of the stack
  acl,                           \* free buffers of the stack
  air,                           \* bytes of the last packet given to the stack
  typing, cmds_left, data_left,  \* the host on the UART
  rx,                            \* bytes accepted as data so far
  first                          \* first character after the last "AT+"

ring   == <<buf, rp, wp>>
mode   == <<transparent_start, one_slot_send_start, one_slot_send_len>>
target == <<transparent_conidx, transparent_method>>
timers == <<t1, t2, tpc>>
radio  == <<evreq, acl, air>>
peers  == <<up, subs, transparent_notify_enable>>
host   == <<typing, cmds_left, data_left>>
marks  == <<rx, first>>
uart   == <<ring, at_recv_state, transparent_data_send_ongoing, mode>>
task   == <<target, async_evt_on_going, can_send_now, msgq>>
world  == <<radio, peers, host, marks>>
vars   == <<uart, task, timers, bt, world>>

-----------------------------------------------------------------------------
(* Data *)

(* A ring slot: the character and, for data, the number of the byte. *)
Cell  == [ch : Char, id : Nat]
Blank == [ch |-> "d", id |-> 0]

Msg == [type : {"START", "RECV"}] \cup [type : {"CMD"}, word : Char, typed : Char]
START == [type |-> "START"]   \* USER_MSG_AT_TRANSPARENT_START_TIMER
RECV  == [type |-> "RECV"]    \* USER_MSG_AT_RECV_TRANSPARENT_DATA

(* Where the Bluetooth task stands: interrupts masked, in recv_transparent_data
   (else in an event), the send procedure and its link, and during the call of
   the stack the packet's length, its place and the bytes received meanwhile. *)
At(p) == [pc |-> p, irq |-> FALSE, recv |-> FALSE, via |-> "M2S_W", to |-> NoLink,
          len |-> 0, from |-> 0, burst |-> 0]
Idle  == At("idle")
BtFree  == bt.pc = "idle" /\ tpc = "idle"
BtAt(p) == bt.pc = p /\ tpc = "idle"

Init ==
  /\ buf = [i \in Index |-> Blank] /\ rp = 0 /\ wp = 0
  /\ at_recv_state = 0 /\ transparent_data_send_ongoing = 0
  /\ transparent_start = FALSE
  /\ one_slot_send_start = FALSE /\ one_slot_send_len = 0
  /\ transparent_conidx = NoLink /\ transparent_method = "M2S_W"
  /\ transparent_notify_enable = FALSE
  /\ async_evt_on_going = FALSE /\ can_send_now = TRUE
  /\ msgq = <<>> /\ t1 = FALSE /\ t2 = FALSE /\ tpc = "idle" /\ bt = Idle
  /\ up = {} /\ subs = {} /\ evreq = {} /\ acl = MaxAcl /\ air = <<>>
  /\ typing = <<>> /\ cmds_left = MaxCmds /\ data_left = MaxData
  /\ rx = 0 /\ first = "none"

-----------------------------------------------------------------------------
(* The host *)

HostTypes ==
  /\ typing = <<>>
  /\ \/ cmds_left > 0 /\ typing' \in CmdLines
        /\ cmds_left' = cmds_left - 1 /\ UNCHANGED data_left
     \/ data_left > 0 /\ typing' \in DataLines
        /\ data_left' = data_left - 1 /\ UNCHANGED cmds_left
  /\ UNCHANGED <<uart, task, timers, bt, radio, peers, marks>>

-----------------------------------------------------------------------------
(* The interrupt: app_at_recv_c, one branch per mode *)

(* The interrupt takes one byte from the UART unless it is masked. *)
Byte(c) ==
  /\ ~bt.irq /\ typing # <<>>
  /\ bt.pc = "adv" => bt.burst < MaxBurst
  /\ c = Head(typing) /\ typing' = Tail(typing)
  /\ bt' = IF bt.pc = "adv" THEN [bt EXCEPT !.burst = @ + 1] ELSE bt
  /\ UNCHANGED <<cmds_left, data_left, tpc, target, async_evt_on_going, can_send_now,
                 radio, peers>>

at_buffer_enqueue_data(cell) ==
  buf' = [buf EXCEPT ![wp] = cell] /\ wp' = Advance(wp, 1)

(* What a received byte posts to the Bluetooth task. *)
Post(start, recv) ==
  LET q == IF start THEN Append(msgq, START) ELSE msgq
  IN  msgq' = IF recv THEN Append(q, RECV) ELSE q

AboveLevel(w) ==
  /\ at_buffer_data_size(rp, w) > AT_TRANSPARENT_DOWN_LEVEL
  /\ transparent_data_send_ongoing = 0

(* Mutant: the emptiness test after the byte was stored. *)
WasEmpty_after == at_buffer_empty(rp, Advance(wp, 1))

(* The test that asks for the send timer comes before the byte is stored. *)
WasEmpty == at_buffer_empty(rp, wp)

RxTransparent(c) ==
  LET w    == Advance(wp, 1)
      exit == /\ at_buffer_data_size(rp, w) = 3
              /\ \A cell \in NewestThree(buf', rp, w) : cell.ch = "+"
  IN
  /\ Byte(c) /\ transparent_start
  /\ at_buffer_enqueue_data([ch |-> c, id |-> rx + 1]) /\ rx' = rx + 1
  /\ t2' = (t2 \/ exit)
  /\ Post(WasEmpty, AboveLevel(w))
  /\ transparent_data_send_ongoing' =
       IF AboveLevel(w) THEN 1 ELSE transparent_data_send_ongoing
  /\ rp' = IF at_buffer_full(rp, w) THEN Advance(rp, 1) ELSE rp   \* drop the oldest
  /\ UNCHANGED <<at_recv_state, mode, t1, first>>

(* Mutant: the test sees the length before the decrement. *)
LastByte_late == one_slot_send_len = 0

(* This byte is the last one AT+SEND asked for. *)
LastByte == one_slot_send_len = 1

RxOneSlot(c) ==
  LET room == at_buffer_data_size(rp, wp) < AT_RECV_MAX_LEN - 2
      recv == AboveLevel(wp') \/ LastByte
  IN
  /\ Byte(c) /\ ~transparent_start /\ one_slot_send_start /\ one_slot_send_len > 0
  /\ IF room THEN at_buffer_enqueue_data([ch |-> c, id |-> rx + 1]) /\ rx' = rx + 1
             ELSE UNCHANGED <<buf, wp, rx>>
  /\ one_slot_send_len' = one_slot_send_len - 1
  /\ Post(WasEmpty, recv)
  /\ transparent_data_send_ongoing' = IF recv THEN 1 ELSE transparent_data_send_ongoing
  /\ UNCHANGED <<rp, at_recv_state, transparent_start, one_slot_send_start, t1, t2,
                 first>>

(* AT+SEND asked for no byte at all: the byte is swallowed. *)
RxSwallowed(c) ==
  /\ Byte(c) /\ ~transparent_start /\ one_slot_send_start /\ one_slot_send_len = 0
  /\ UNCHANGED <<uart, msgq, t1, t2, marks>>

CommandMode == ~transparent_start /\ ~one_slot_send_start

(* Matching "AT+"; a wrong character starts over and is not looked at again. *)
RxPrefix(c) ==
  /\ Byte(c) /\ CommandMode /\ at_recv_state < 3
  /\ at_recv_state' = IF c = <<"A", "T", "+">>[at_recv_state + 1] THEN at_recv_state + 1 ELSE 0
  /\ first' = "none"
  /\ UNCHANGED <<ring, transparent_data_send_ongoing, mode, msgq, t1, t2, rx>>

(***************************************************************************)
(* Does the line end here?  at_buffer_read_data(size - 2) looks at the     *)
(* slot before the one just written; when the line feed is the first byte  *)
(* of the line that index is -1 and wraps to the 16-bit value 65535, which *)
(* reads the slot below rp, or memory outside the array when rp is 0.      *)
(***************************************************************************)
LineEnds(c, b) ==
  c = "LF" /\ IF at_buffer_data_size(rp, wp) > 0
              THEN buf[IF wp = 0 THEN AT_RECV_MAX_LEN - 1 ELSE wp - 1].ch = "CR"
              ELSE IF rp > 0 THEN buf[rp - 1].ch = "CR" ELSE b

(* Mutant: the command is copied from the write index on. *)
CommandWord_wp == buf'[wp].ch

(* The command handed over is copied from slot 0, whatever rp is. *)
CommandWord == buf'[0].ch

RxCommand(c) ==
  /\ Byte(c) /\ CommandMode /\ at_recv_state = 3
  /\ \E ends \in {LineEnds(c, b) : b \in BOOLEAN} :
       LET w     == Advance(wp, 1)
           reset == ends \/ at_buffer_full(rp, w)
       IN
       /\ buf' = [buf EXCEPT ![wp] = [ch |-> c, id |-> 0]]
       /\ first' = IF first = "none" THEN c ELSE first
       /\ wp' = IF reset THEN 0 ELSE w
       /\ rp' = IF reset THEN 0 ELSE rp
       /\ at_recv_state' = IF reset THEN 0 ELSE 3
       /\ msgq' = IF ends THEN Append(msgq, [type |-> "CMD", word |-> CommandWord,
                                             typed |-> first'])
                          ELSE msgq
  /\ UNCHANGED <<transparent_data_send_ongoing, mode, t1, t2, rx>>

-----------------------------------------------------------------------------
(* The timer task *)

(* transparent_timer_handler: the test, and then the store and the post. *)
SendTimerFires ==
  /\ t1 /\ tpc = "idle" /\ ~bt.irq
  /\ t1' = FALSE
  /\ tpc' = IF transparent_data_send_ongoing = 0 THEN "send" ELSE "idle"
  /\ UNCHANGED <<uart, task, t2, bt, world>>

SendTimerPosts ==
  /\ tpc = "send" /\ tpc' = "idle"
  /\ transparent_data_send_ongoing' = 1 /\ Post(FALSE, TRUE)
  /\ UNCHANGED <<ring, at_recv_state, mode, target, async_evt_on_going, can_send_now,
                 t1, t2, bt, world>>

(* exit_trans_tim_fn: the test, the end of the mode, the reset of the ring. *)
ExitTimerFires ==
  /\ t2 /\ tpc = "idle" /\ ~bt.irq
  /\ t2' = FALSE
  /\ tpc' = IF at_buffer_empty(rp, wp) THEN "exit" ELSE "idle"
  /\ UNCHANGED <<uart, task, t1, bt, world>>

ExitTransparent ==
  /\ tpc = "exit" /\ tpc' = "clear"
  /\ t1' = FALSE /\ transparent_start' = FALSE
  /\ UNCHANGED <<ring, at_recv_state, transparent_data_send_ongoing,
                 one_slot_send_start, one_slot_send_len, task, t2, bt, world>>

ExitClears ==
  /\ tpc = "clear" /\ tpc' = "idle"
  /\ rp' = 0 /\ wp' = 0
  /\ UNCHANGED <<buf, at_recv_state, transparent_data_send_ongoing, mode, task, t1, t2,
                 bt, world>>

-----------------------------------------------------------------------------
(* The Bluetooth task: user messages *)

NextMsg(type) == BtFree /\ msgq # <<>> /\ Head(msgq).type = type /\ msgq' = Tail(msgq)

StartTimerMsg ==
  /\ NextMsg("START") /\ t1' = TRUE
  /\ UNCHANGED <<uart, target, async_evt_on_going, can_send_now, t2, tpc, bt, world>>

(* Commands that do not touch the data path, dropped commands and errors. *)
OtherCommand(word) ==
  /\ ~async_evt_on_going /\ word = "OTHER" /\ async_evt_on_going' \in BOOLEAN
  /\ UNCHANGED <<mode, target, bt>>

CommandIgnored(word) ==
  /\ \/ async_evt_on_going
     \/ word \notin Words
     \/ word \in {"TO", "SEND"}                      \* invalid link id
     \/ word = "SEND" /\ one_slot_send_start
     \/ word = "+++" /\ transparent_conidx \notin up
  /\ UNCHANGED <<mode, target, async_evt_on_going, bt>>

SetTarget(word) ==
  /\ ~async_evt_on_going /\ word = "TO"
  /\ \E id \in up :
       /\ transparent_method' = IF id \in MasterLinks THEN "M2S_W" ELSE "S2M_N"
       /\ transparent_conidx' = id
  /\ UNCHANGED <<mode, async_evt_on_going, bt>>

(* AT+SEND=id,len; the ring is cleared by the next step. *)
StartOneSlot(word) ==
  /\ ~async_evt_on_going /\ word = "SEND" /\ ~one_slot_send_start
  /\ \E id \in up, len \in SendLens :
       transparent_conidx' = id /\ one_slot_send_len' = len
  /\ one_slot_send_start' = TRUE /\ bt' = At("clear")
  /\ UNCHANGED <<transparent_start, transparent_method, async_evt_on_going>>

(* Mutant: AT++++ without its two checks. *)
MayEnterTransparent_any == TRUE

(* AT++++; both VALID_ASSERTs passed.  The ring is cleared by the next step. *)
MayEnterTransparent == transparent_conidx # NoLink /\ transparent_conidx \in up

EnterTransparent(word) ==
  /\ ~async_evt_on_going /\ word = "+++" /\ MayEnterTransparent
  /\ transparent_start' = TRUE /\ bt' = At("clear")
  /\ UNCHANGED <<one_slot_send_start, one_slot_send_len, target, async_evt_on_going>>

CommandMsg ==
  /\ NextMsg("CMD")
  /\ LET word == Head(msgq).word
     IN  \/ OtherCommand(word) \/ CommandIgnored(word) \/ SetTarget(word)
         \/ StartOneSlot(word) \/ EnterTransparent(word)
  /\ UNCHANGED <<ring, at_recv_state, transparent_data_send_ongoing, can_send_now,
                 timers, world>>

ClearAfterCommand ==
  /\ BtAt("clear") /\ bt' = Idle
  /\ rp' = 0 /\ wp' = 0
  /\ UNCHANGED <<buf, at_recv_state, transparent_data_send_ongoing, mode, task, timers,
                 world>>

-----------------------------------------------------------------------------
(* The Bluetooth task: sending the ring *)

(* The tests at the head of at_spsc_send_data and at_spss_send_data. *)
MaySend(via, now) == now /\ (via = "S2M_N" => transparent_notify_enable)

(* Mutant: no send function runs with interrupts masked. *)
Sending_open(via, recv) ==
  [At("send") EXCEPT !.recv = recv, !.via = via, !.to = transparent_conidx]

(* The send loop; recv_transparent_data masks interrupts, the events do not. *)
Sending(via, recv) ==
  [At("send") EXCEPT !.irq = recv, !.recv = recv, !.via = via,
               !.to = transparent_conidx]

(***************************************************************************)
(* recv_transparent_data up to the send loop.  Interrupts stay masked      *)
(* until the loop is left.                                                 *)
(***************************************************************************)
RecvTransparentData ==
  /\ NextMsg("RECV") /\ t1' = FALSE
  /\ IF transparent_conidx \in up
     THEN /\ bt' = IF MaySend(transparent_method, can_send_now)
                   THEN Sending(transparent_method, TRUE)
                   ELSE At("sent")
          /\ UNCHANGED <<rp, wp>>
     ELSE /\ rp' = 0 /\ wp' = 0
          /\ bt' = At("sent")
  /\ UNCHANGED <<buf, at_recv_state, transparent_data_send_ongoing, mode, target,
                 async_evt_on_going, can_send_now, t2, tpc, world>>

(* ATT_EVENT_CAN_SEND_NOW and L2CAP_EVENT_CAN_SEND_NOW: interrupts stay on. *)
CanSendNow(l, via) ==
  /\ BtFree /\ <<l, via>> \in evreq /\ acl > 0
  /\ evreq' = evreq \ {<<l, via>>} /\ can_send_now' = TRUE
  /\ bt' = IF MaySend(via, TRUE) THEN Sending(via, FALSE) ELSE Idle
  /\ UNCHANGED <<uart, target, async_evt_on_going, msgq, timers, acl, air, peers, host,
                 marks>>

(* Leaving the send function: back in recv_transparent_data or done. *)
SendReturns == bt' = IF bt.recv THEN At("sent") ELSE Idle

(* One turn of the loop gives the stack a packet, which copies its bytes. *)
SendPacket ==
  LET n == PacketLen(rp, wp, MTU) IN
  /\ BtAt("send") /\ ~at_buffer_empty(rp, wp) /\ bt.to \in up /\ acl > 0
  /\ air' = [k \in 1 .. n |-> buf[rp + k - 1]]
  /\ acl' = acl - 1
  /\ bt' = [bt EXCEPT !.pc = "adv", !.len = n, !.from = rp, !.burst = 0]
  /\ UNCHANGED <<uart, task, timers, evreq, peers, host, marks>>

(* Mutant: a whole MTU leaves the ring, however short the packet was. *)
PopSent_mtu ==
  /\ BtAt("adv") /\ bt' = [bt EXCEPT !.pc = "send", !.burst = 0]
  /\ rp' = Advance(rp, MTU)
  /\ UNCHANGED <<buf, wp, at_recv_state, transparent_data_send_ongoing, mode, task,
                 timers, world>>

(* The packet was taken: its bytes leave the ring. *)
PopSent ==
  /\ BtAt("adv") /\ bt' = [bt EXCEPT !.pc = "send", !.burst = 0]
  /\ rp' = Advance(rp, bt.len)
  /\ UNCHANGED <<buf, wp, at_recv_state, transparent_data_send_ongoing, mode, task,
                 timers, world>>

(***************************************************************************)
(* at_spsc_send_data leaves its loop when the ring is empty or the stack   *)
(* is full; at_spss_send_data looks at the stack first, asks for the event *)
(* even if the ring has just been drained, and never clears can_send_now.  *)
(***************************************************************************)
SendEnds ==
  LET full == acl = 0 \/ bt.to \notin up IN
  /\ BtAt("send") /\ SendReturns
  /\ \/ /\ bt.via = "M2S_W" /\ at_buffer_empty(rp, wp)
        /\ UNCHANGED <<can_send_now, evreq>>
     \/ /\ bt.via = "M2S_W" /\ ~at_buffer_empty(rp, wp) /\ bt.to \in up /\ acl = 0
        /\ can_send_now' = FALSE /\ evreq' = evreq \cup {<<bt.to, bt.via>>}
     \/ /\ bt.via = "S2M_N" /\ full
        /\ evreq' = IF bt.to \in up THEN evreq \cup {<<bt.to, bt.via>>} ELSE evreq
        /\ UNCHANGED can_send_now
     \/ /\ bt.via = "S2M_N" /\ ~full /\ at_buffer_empty(rp, wp)
        /\ UNCHANGED <<can_send_now, evreq>>
  /\ UNCHANGED <<uart, target, async_evt_on_going, msgq, timers, acl, air, peers, host,
                 marks>>

(* at_spsc_send_data retries for ever on a link that is gone. *)
SendHangs ==
  /\ BtAt("send") /\ bt.via = "M2S_W" /\ ~at_buffer_empty(rp, wp) /\ bt.to \notin up
  /\ bt' = [bt EXCEPT !.pc = "hung"]
  /\ UNCHANGED <<uart, task, timers, world>>

(* Mutant: transparent_data_send_ongoing is not reset. *)
SendDone_kept ==
  /\ BtAt("sent") /\ bt' = At("report")
  /\ UNCHANGED <<uart, task, timers, world>>

(* The tail of recv_transparent_data, interrupts enabled again. *)
SendDone ==
  /\ BtAt("sent") /\ bt' = At("report")
  /\ transparent_data_send_ongoing' = 0
  /\ UNCHANGED <<ring, at_recv_state, mode, task, timers, world>>

(* "SEND OK" *)
ReportSendOk ==
  /\ BtAt("report") /\ bt' = Idle
  /\ one_slot_send_start' = (one_slot_send_start /\ one_slot_send_len > 0)
  /\ UNCHANGED <<ring, at_recv_state, transparent_data_send_ongoing, transparent_start,
                 one_slot_send_len, task, timers, world>>

-----------------------------------------------------------------------------
(* The Bluetooth task: events of the links *)

Connect(l) ==
  /\ BtFree /\ l \in Links \ up
  /\ up' = up \cup {l} /\ async_evt_on_going' = FALSE
  /\ UNCHANGED <<uart, target, can_send_now, msgq, timers, bt, radio, subs,
                 transparent_notify_enable, host, marks>>

(***************************************************************************)
(* at_on_disconnect.  With no target chosen gap_get_connect_status reads   *)
(* past the end of conn_infos, so its answer is arbitrary.  The stack      *)
(* drops the event requests of the link.                                   *)
(***************************************************************************)
Disconnect(l) ==
  /\ BtFree /\ l \in up
  /\ up' = up \ {l} /\ subs' = subs \ {l}
  /\ evreq' = {e \in evreq : e[1] # l}
  /\ async_evt_on_going' = FALSE
  /\ \E gone \in IF transparent_conidx = NoLink THEN BOOLEAN ELSE {transparent_conidx \notin up'} :
       bt' = IF gone THEN At("lost") ELSE Idle
  /\ UNCHANGED <<uart, target, can_send_now, msgq, timers, acl, air,
                 transparent_notify_enable, host, marks>>

ClearOnDisconnect ==
  /\ BtAt("lost") /\ bt' = At("leave")
  /\ rp' = 0 /\ wp' = 0
  /\ UNCHANGED <<buf, at_recv_state, transparent_data_send_ongoing, mode, task, timers,
                 world>>

LeaveModes ==
  LET fail == one_slot_send_start /\ one_slot_send_len > 0 IN
  /\ BtAt("leave") /\ bt' = Idle
  /\ transparent_start' = FALSE /\ transparent_notify_enable' = FALSE
  /\ one_slot_send_start' = (one_slot_send_start /\ ~fail)
  /\ one_slot_send_len' = IF fail THEN 0 ELSE one_slot_send_len
  /\ UNCHANGED <<ring, at_recv_state, transparent_data_send_ongoing, task, timers,
                 radio, up, subs, host, marks>>

(* att_write_output_desc_callback: one flag for every link. *)
WriteOutputDesc(l, on) ==
  /\ BtFree /\ l \in up \cap SlaveLinks
  /\ transparent_notify_enable' = on
  /\ subs' = IF on THEN subs \cup {l} ELSE subs \ {l}
  /\ UNCHANGED <<uart, task, timers, bt, radio, up, host, marks>>

(* The event an asynchronous command was waiting for. *)
AsyncDone ==
  /\ BtFree /\ async_evt_on_going /\ async_evt_on_going' = FALSE
  /\ UNCHANGED <<uart, target, can_send_now, msgq, timers, bt, world>>

(* The radio has sent a packet. *)
TxDone ==
  /\ acl < MaxAcl /\ acl' = acl + 1
  /\ UNCHANGED <<uart, task, timers, bt, evreq, air, peers, host, marks>>

-----------------------------------------------------------------------------
Isr ==
  \E c \in Char : \/ RxTransparent(c) \/ RxOneSlot(c) \/ RxSwallowed(c)
                  \/ RxPrefix(c) \/ RxCommand(c)

TimerTask ==
  \/ SendTimerFires \/ SendTimerPosts
  \/ ExitTimerFires \/ ExitTransparent \/ ExitClears

(* Steps the Bluetooth task owes once it has something to do. *)
BtWork ==
  \/ StartTimerMsg \/ CommandMsg \/ ClearAfterCommand
  \/ RecvTransparentData \/ SendPacket \/ PopSent \/ SendEnds \/ SendHangs
  \/ SendDone \/ ReportSendOk
  \/ ClearOnDisconnect \/ LeaveModes \/ AsyncDone
  \/ \E l \in Links, via \in Methods : CanSendNow(l, via)

Peers ==
  \E l \in Links : Connect(l) \/ Disconnect(l)
                   \/ \E on \in BOOLEAN : WriteOutputDesc(l, on)

Next == HostTypes \/ Isr \/ TimerTask \/ BtWork \/ Peers \/ TxDone

Spec == Init /\ [][Next]_vars

(***************************************************************************)
(* The interrupt, the two tasks and the radio keep running; the host and   *)
(* the peers do what they like.                                            *)
(***************************************************************************)
Fairness ==
  WF_vars(Isr) /\ WF_vars(TimerTask) /\ WF_vars(BtWork) /\ WF_vars(TxDone)

FairSpec == Spec /\ Fairness

-----------------------------------------------------------------------------
(* Properties *)

UartType ==
  /\ buf \in [Index -> Cell] /\ rp \in Index /\ wp \in Index
  /\ at_recv_state \in 0 .. 3 /\ transparent_data_send_ongoing \in {0, 1}
  /\ transparent_start \in BOOLEAN
  /\ one_slot_send_start \in BOOLEAN /\ one_slot_send_len \in Nat

TaskType ==
  /\ transparent_conidx \in Links \cup {NoLink}
  /\ transparent_method \in Methods
  /\ async_evt_on_going \in BOOLEAN /\ can_send_now \in BOOLEAN
  /\ msgq \in Seq(Msg)

TimerType == t1 \in BOOLEAN /\ t2 \in BOOLEAN /\ tpc \in {"idle", "send", "exit", "clear"}

BtStates ==
  [pc : {"idle", "clear", "send", "adv", "sent", "report", "lost", "leave", "hung"},
   irq : BOOLEAN, recv : BOOLEAN, via : Methods,
   to : Links \cup {NoLink}, len : 0 .. MTU, from : Index, burst : 0 .. MaxBurst]

BtType == bt \in BtStates

WorldType ==
  /\ transparent_notify_enable \in BOOLEAN
  /\ up \subseteq Links /\ subs \subseteq up
  /\ evreq \subseteq Links \X Methods /\ acl \in 0 .. MaxAcl
  /\ air \in Seq(Cell) /\ typing \in Seq(Char)
  /\ cmds_left \in 0 .. MaxCmds /\ data_left \in 0 .. MaxData
  /\ rx \in Nat /\ first \in Char \cup {"none"}

TypeOK == UartType /\ TaskType /\ TimerType /\ BtType /\ WorldType

Queued(type) == \E i \in DOMAIN msgq : msgq[i].type = type

(* The Bluetooth task is in recv_transparent_data, its flag not reset yet. *)
InRecv == bt.pc = "sent" \/ bt.recv

(***************************************************************************)
(* Whoever can reach a send function has a target link: 0xFF, an index     *)
(* outside conn_infos, is never used to look up a handle for sending.      *)
(***************************************************************************)
NothingToSend ==
  /\ ~transparent_start /\ ~one_slot_send_start
  /\ ~Queued("RECV") /\ ~Queued("START") /\ ~t1 /\ tpc # "send"
  /\ evreq = {} /\ bt.pc \notin {"send", "adv", "clear"}

TargetKnown == transparent_conidx = NoLink => NothingToSend

(***************************************************************************)
(* While transparent_data_send_ongoing is set a send is still owed: its    *)
(* message is queued or being handled.  If the flag could outlive the      *)
(* message no later byte would ever ask for a send again.                  *)
(***************************************************************************)
OngoingCovered == transparent_data_send_ongoing = 1 => Queued("RECV") \/ InRecv

(***************************************************************************)
(* A one-shot send whose last byte has arrived will be reported: until     *)
(* then a send is owed.  Otherwise the modem would swallow the serial line *)
(* for ever.  (AT+SEND of no byte at all is excluded by SendLens.)         *)
(***************************************************************************)
OneSlotWillEnd ==
  0 \notin SendLens /\ one_slot_send_start /\ one_slot_send_len = 0 =>
    Queued("RECV") \/ InRecv \/ bt.pc = "report"

(***************************************************************************)
(* recv_transparent_data pops exactly the bytes it gave to the stack: the  *)
(* mask keeps the interrupt from moving rp between the two.                *)
(***************************************************************************)
MaskedPopExact ==
  bt.recv /\ bt.pc = "adv" =>
    /\ rp = bt.from /\ bt.len <= at_buffer_data_size(rp, wp)
    /\ air = SubSeq(Contents(buf, rp, wp), 1, bt.len)

(* Something will look at the ring again. *)
SendOwed ==
  \/ t1 \/ tpc = "send" \/ Queued("START") \/ Queued("RECV") \/ evreq # {}
  \/ bt.pc \in {"send", "adv", "clear", "lost", "leave", "hung"}

(* Transparent data is in the ring for a live link served by writes. *)
BytesWait ==
  /\ transparent_start /\ ~at_buffer_empty(rp, wp)
  /\ transparent_conidx \in up /\ transparent_method = "M2S_W"

(***************************************************************************)
(* No lost wakeup: bytes that wait in transparent mode for a live link     *)
(* served by writes have somebody who will look at them, whatever the      *)
(* order of the interrupt, the two timers and the messages.  While the     *)
(* stack is full that is the event it was asked for; a can_send_now left   *)
(* over from a lost link is the one exception.  It is meant for a modem    *)
(* that sends by writes only: with both roles an event asked for the       *)
(* other one sets can_send_now and, notifications off, looks at nothing.   *)
(***************************************************************************)
NoLostWakeup == BytesWait /\ can_send_now => SendOwed

(* The queue of the channel: the ring less the packet just given away. *)
Waiting ==
  LET c == Contents(buf, rp, wp)
  IN  IF bt.pc = "adv" THEN SubSeq(c, bt.len + 1, Len(c)) ELSE c

Channel == INSTANCE AtChannel
             WITH Bytes <- Cell, Reserve <- AT_RECV_MAX_LEN - 2 - MTU,
                  queue <- Waiting, count <- rx, packet <- air

(***************************************************************************)
(* The ring with its unprotected indices, the interrupt and the senders    *)
(* implement the ordered channel.  They do so in one session; after it an  *)
(* AT line may end, and reset the ring, while an event's packet is at the  *)
(* stack (LineClash), and then the pop moves rp past wp.                   *)
(***************************************************************************)
ImplementsChannel == Channel!Spec

(* The end of a line resets the ring between a packet and its pop. *)
LineClash == bt.pc = "adv" /\ at_recv_state = 3 /\ at_recv_state' = 0

(***************************************************************************)
(* In transparent mode, bytes waiting for a live link the peer of which is *)
(* served by writes do not wait for ever: the ring drains, the mode ends   *)
(* or the link goes, as long as can_send_now is not a leftover of a link   *)
(* that was lost while the stack was full.                                 *)
(***************************************************************************)
Stuck == BytesWait /\ (can_send_now \/ evreq # {})

BufferedBytesMove == Stuck ~> ~Stuck

-----------------------------------------------------------------------------
(* What comments of the source say and the code does not always do *)

(* The command handed to the Bluetooth task is the line that was typed. *)
CmdFaithful ==
  \A i \in DOMAIN msgq : msgq[i].type = "CMD" => msgq[i].word = msgq[i].typed
=============================================================================
