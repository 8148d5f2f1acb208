------------------------------- MODULE IngLink -------------------------------
(***************************************************************************)
(* The connection manager of AT_ING with what it keeps across a restart.   *)
(* The role and the addresses are set by AT commands, which task "b"       *)
(* executes, are kept in RAM and saved to flash; the Bluetooth task acts   *)
(* on them: it advertises, or it dials one peer, again and again, finds    *)
(* the peer's throughput service and subscribes to it.                     *)
(*                                                                         *)
(* The Bluetooth task interrupts task "b" between any two steps, also in   *)
(* the middle of a memcpy or of a save.  The power may fail at any time.   *)
(***************************************************************************)
EXTENDS Naturals, Sequences, FiniteSets

CONSTANTS
  Peers,            \* slaves the host may name
  Bare,             \* those of them that lack the throughput service
  Macs,             \* addresses the host may give the module
  Handles,          \* connection handles of the controller
  INVALID_HANDLE,
  Saved,            \* parameters an earlier run may have saved
  MaxCommands, MaxQueue   \* bounds

ASSUME IngLinkAssumption ==
  /\ Bare \subseteq Peers /\ INVALID_HANDLE \notin Handles
  /\ {MaxCommands, MaxQueue} \subseteq Nat
  /\ {"none", "factory", "mixed", "zero", INVALID_HANDLE} \cap Peers = {}
  /\ Saved \subseteq [role : {"MASTER", "SLAVE"}, peer : Peers \cup {"factory"},
                      mac : Macs \cup {"random"}]

VARIABLES
  phase,             \* "off", "boot" (loading the flash) or "up"
  flash,             \* the saved g_power_off_save_data, word by word
  ram,               \* g_power_off_save_data_in_ram
  saving,            \* progress of sdk_private_data_write_to_flash
  cmd,               \* the command task "b" executes
  acked,             \* history: what the last answered command left in RAM
  commands,          \* history: commands given
  mode,              \* history: what FIRST_WAKE_UP made of the module
  initiating_id, gap_is_connection_cancel,
  i_am_master_conn_handle, i_am_slave_conn_handle,
  create_conn_timer,         \* it runs
  timeouts,                  \* USER_MSG_INITIATE_TIMOUT messages queued
  throughput_con_handle, throughput_notify_enable,
  peer_slave,                \* what is known of the slave
  query,                     \* the GATT query under way
  said,                      \* the word this step wrote to the host, if any
  advertising, initiating,   \* the controller
  link, closing, events,
  overlap                    \* history: a link came up before the last one's end was handled

persist == <<flash, ram, saving, cmd, acked, commands>>
manager == <<mode, initiating_id, gap_is_connection_cancel, i_am_master_conn_handle,
             i_am_slave_conn_handle, create_conn_timer, timeouts>>
through == <<throughput_con_handle, throughput_notify_enable, peer_slave, query>>
radio   == <<advertising, initiating, link, closing, events, overlap>>
vars    == <<phase, persist, manager, through, said, radio>>

-----------------------------------------------------------------------------
(* Data *)

MASTER == "MASTER"
SLAVE  == "SLAVE"
Blank  == "blank"    \* an erased word
Mixed  == "mixed"    \* an address half of which is copied
Random == "random"   \* the address made of platform_rand
Factory == "factory" \* the peer nobody is
Zero   == "zero"     \* a handle never written since the start
None   == "none"

Image == [role : {MASTER, SLAVE}, peer : Peers \cup {Factory, Mixed},
          mac : Macs \cup {Random, Mixed}]
Default == [role |-> SLAVE, peer |-> Factory, mac |-> Random]

(* Words of the flash in the order they are programmed. *)
Erased == [init |-> FALSE, mac |-> Blank, role |-> Blank, peer |-> Blank, end |-> FALSE]
Written(i) == [init |-> TRUE, mac |-> i.mac, role |-> i.role, peer |-> i.peer, end |-> TRUE]

Ops == [op : {"CONA"}, arg : Peers] \cup [op : {"LADDR"}, arg : Macs]
       \cup [op : {"ROLE"}, arg : {MASTER, SLAVE}] \cup [op : {"SLEEP2"}, arg : {None}]
NoCmd == [op |-> None, arg |-> None, pc |-> "idle"]

NoLink  == [role |-> None, peer |-> None]
NoQuery == [stage |-> None, h |-> INVALID_HANDLE]

Live == {h \in Handles : link[h] # NoLink}

Unknown == [conn_handle |-> INVALID_HANDLE, service |-> Zero, char |-> Zero, desc |-> Zero]

Init ==
  /\ phase = "off" /\ ram = Default /\ saving = "no" /\ cmd = NoCmd
  /\ \/ flash = Erased /\ acked = Default
     \/ \E i \in Saved : flash = Written(i) /\ acked = i
  /\ commands = 0
  /\ mode = None /\ initiating_id = "OFF" /\ gap_is_connection_cancel = 0
  /\ i_am_master_conn_handle = INVALID_HANDLE /\ i_am_slave_conn_handle = INVALID_HANDLE
  /\ create_conn_timer = FALSE /\ timeouts = 0
  /\ throughput_con_handle = INVALID_HANDLE /\ throughput_notify_enable = FALSE
  /\ peer_slave = Unknown
  /\ query = NoQuery /\ said = None
  /\ advertising = FALSE /\ initiating = None
  /\ link = [h \in Handles |-> NoLink] /\ closing = {} /\ events = <<>> /\ overlap = FALSE

-----------------------------------------------------------------------------
(* Power, flash and commands *)

Quiet == said' = None

(* The power fails, or AT+SLEEP2 shuts the module down.  A save that was   *)
(* cut short costs all parameters, the module's address too.               *)
PowerOff ==
  /\ phase' = "off" /\ ram' = Default /\ cmd' = NoCmd /\ saving' = "no"
  /\ acked' = IF saving \in {"no", "erase"} THEN acked ELSE Default
  /\ mode' = None /\ initiating_id' = "OFF" /\ gap_is_connection_cancel' = 0
  /\ i_am_master_conn_handle' = INVALID_HANDLE /\ i_am_slave_conn_handle' = INVALID_HANDLE
  /\ create_conn_timer' = FALSE /\ timeouts' = 0
  /\ throughput_con_handle' = INVALID_HANDLE /\ throughput_notify_enable' = FALSE
  /\ peer_slave' = Unknown
  /\ query' = NoQuery /\ said' = None
  /\ advertising' = FALSE /\ initiating' = None
  /\ link' = [h \in Handles |-> NoLink] /\ closing' = {} /\ events' = <<>> /\ overlap' = FALSE
  /\ UNCHANGED flash

PowerLoss ==
  /\ phase # "off" /\ PowerOff /\ UNCHANGED commands

(* Mutant: the end flag is not looked at. *)
Whole_head(f) == f.init

(* sdk_load_private_flash_data: both flags and the length are right. *)
Whole(f) == f.init /\ f.end

Boot ==
  /\ phase = "off"
  /\ IF Whole(flash)
     THEN /\ ram' = [role |-> flash.role, peer |-> flash.peer, mac |-> flash.mac]
          /\ phase' = "up" /\ UNCHANGED saving
     ELSE /\ ram' = Default /\ phase' = "boot" /\ saving' = "erase"
  /\ UNCHANGED <<flash, cmd, acked, commands, manager, through, said, radio>>

(* sdk_private_data_write_to_flash, program_flash, and the answer after it. *)
Save ==
  /\ \/ /\ saving = "erase" /\ saving' = "first"
        /\ flash' = Erased
        /\ Quiet /\ UNCHANGED <<phase, cmd, acked>>
     \/ /\ saving = "first" /\ saving' = "second"
        /\ flash' = [flash EXCEPT !.init = TRUE, !.mac = ram.mac]
        /\ Quiet /\ UNCHANGED <<phase, cmd, acked>>
     \/ /\ saving = "second" /\ saving' = "no"
        /\ flash' = [flash EXCEPT !.role = ram.role, !.peer = ram.peer, !.end = TRUE]
        /\ phase' = "up" /\ cmd' = NoCmd
        /\ IF phase = "boot" THEN Quiet /\ UNCHANGED acked
                             ELSE said' = "OK" /\ acked' = ram
  /\ UNCHANGED <<ram, commands, manager, through, radio>>

(* bt_at_handle_cona, _addr, _role, _slep: the first part.  The message    *)
(* START_CONNECTION or START_ADV they push is ignored.                     *)
Command(c) ==
  /\ phase = "up" /\ cmd = NoCmd /\ commands < MaxCommands /\ commands' = commands + 1
  /\ \/ /\ c.op = "SLEEP2" /\ PowerOff
     \/ /\ c.op = "ROLE" /\ ram' = [ram EXCEPT !.role = c.arg]
        /\ cmd' = [op |-> c.op, arg |-> c.arg, pc |-> "save"] /\ saving' = "erase"
        /\ Quiet /\ UNCHANGED <<phase, flash, acked, manager, through, radio>>
     \/ /\ c.op \in {"CONA", "LADDR"}
        /\ ram' = IF c.op = "CONA" THEN [ram EXCEPT !.peer = Mixed] ELSE [ram EXCEPT !.mac = Mixed]
        /\ cmd' = [op |-> c.op, arg |-> c.arg, pc |-> "copy"]
        /\ Quiet /\ UNCHANGED <<phase, flash, saving, acked, manager, through, radio>>

(* The rest of the memcpy, and the role that goes with the address. *)
Copied ==
  /\ cmd.pc = "copy"
  /\ ram' = IF cmd.op = "CONA" THEN [ram EXCEPT !.peer = cmd.arg, !.role = MASTER]
                               ELSE [ram EXCEPT !.mac = cmd.arg, !.role = SLAVE]
  /\ cmd' = [cmd EXCEPT !.pc = "save"] /\ saving' = "erase"
  /\ Quiet /\ UNCHANGED <<phase, flash, acked, commands, manager, through, radio>>

-----------------------------------------------------------------------------
(* The Bluetooth task *)

UNCHANGED_Bt == phase = "up" /\ UNCHANGED <<phase, persist>>

(* Mutants: the timer is not started again, no link is looked for. *)
AutoConnect_untimed(ini, m) ==
  /\ initiating_id' = "SLAVE1" /\ create_conn_timer' = FALSE
  /\ initiating' = IF ini = None THEN ram.peer ELSE ini
  /\ closing' = closing \cup ({m} \cap Live)

AutoConnect_unlinked(ini, m) ==
  /\ initiating_id' = "SLAVE1" /\ create_conn_timer' = TRUE
  /\ initiating' = IF ini = None THEN ram.peer ELSE ini
  /\ closing' = closing \cup {m}

(* auto_connect and initiating, when the controller is dialling "ini" and  *)
(* the master link is m: a live one is closed first.                       *)
AutoConnect(ini, m) ==
  /\ initiating_id' = "SLAVE1" /\ create_conn_timer' = TRUE
  /\ initiating' = IF ini = None THEN ram.peer ELSE ini
  /\ closing' = closing \cup ({m} \cap Live)

FirstWakeUp ==
  /\ mode = None /\ mode' = ram.role
  /\ IF ram.role = MASTER
     THEN AutoConnect(initiating, i_am_master_conn_handle) /\ UNCHANGED advertising
     ELSE advertising' = TRUE /\ UNCHANGED <<initiating_id, create_conn_timer, initiating, closing>>
  /\ Quiet /\ UNCHANGED_Bt
  /\ UNCHANGED <<gap_is_connection_cancel, i_am_master_conn_handle, i_am_slave_conn_handle,
                 timeouts, through, link, events, overlap>>

(* conn_timer_callback, every five seconds. *)
TimerFires ==
  /\ create_conn_timer /\ timeouts < MaxQueue /\ timeouts' = timeouts + 1
  /\ Quiet /\ UNCHANGED_Bt
  /\ UNCHANGED <<mode, initiating_id, gap_is_connection_cancel, i_am_master_conn_handle,
                 i_am_slave_conn_handle, create_conn_timer, through, radio>>

(* USER_MSG_INITIATE_TIMOUT, cancel_initiating: every second time it does  *)
(* not wait for the controller to confirm.                                 *)
Timeout ==
  /\ timeouts > 0 /\ timeouts' = timeouts - 1 /\ initiating_id # "OFF" /\ Len(events) < MaxQueue
  /\ events' = IF initiating = None THEN events ELSE Append(events, [type |-> "FAILED"])
  /\ gap_is_connection_cancel' = 1 - gap_is_connection_cancel
  /\ IF gap_is_connection_cancel = 1
     THEN AutoConnect(None, i_am_master_conn_handle)
     ELSE initiating' = None /\ UNCHANGED <<initiating_id, create_conn_timer, closing>>
  /\ Quiet /\ UNCHANGED_Bt
  /\ UNCHANGED <<mode, i_am_master_conn_handle, i_am_slave_conn_handle, through, advertising, link, overlap>>

Handling(type) ==
  /\ events # <<>> /\ Head(events).type = type /\ events' = Tail(events) /\ UNCHANGED_Bt

(* Mutant: a connection that failed is not tried again. *)
ConnectFailed_idle ==
  /\ Handling("FAILED") /\ Quiet
  /\ UNCHANGED <<manager, through, advertising, initiating, link, closing, overlap>>

(* A connection complete event with an error status. *)
ConnectFailed ==
  /\ Handling("FAILED")
  /\ AutoConnect(initiating, i_am_master_conn_handle)
  /\ Quiet
  /\ UNCHANGED <<mode, gap_is_connection_cancel, i_am_master_conn_handle, i_am_slave_conn_handle,
                 timeouts, through, advertising, link, overlap>>

(* i_am_slave_connected_master or i_am_master_connected_slave, which       *)
(* starts the discovery, and throughput_event_connected.                   *)
Connected ==
  /\ Handling("CONNECTED")
  /\ LET e == Head(events)
     IN  /\ throughput_con_handle' = e.h
         /\ IF e.role = SLAVE
            THEN /\ i_am_slave_conn_handle' = e.h
                 /\ UNCHANGED <<i_am_master_conn_handle, create_conn_timer, peer_slave, query>>
            ELSE /\ i_am_master_conn_handle' = e.h /\ create_conn_timer' = FALSE
                 /\ peer_slave' = [peer_slave EXCEPT !.conn_handle = e.h]
                 /\ query' = [stage |-> "service", h |-> e.h]
                 /\ UNCHANGED i_am_slave_conn_handle
  /\ Quiet
  /\ UNCHANGED <<mode, initiating_id, gap_is_connection_cancel, timeouts, throughput_notify_enable,
                 advertising, initiating, link, closing, overlap>>

(* Mutant: the subscription outlives its link. *)
ThroughputDisconnect_keep ==
  /\ throughput_con_handle' = INVALID_HANDLE /\ UNCHANGED throughput_notify_enable
  /\ peer_slave' = [peer_slave EXCEPT !.conn_handle = INVALID_HANDLE]
  /\ query' = NoQuery /\ said' = "DISCONNECT"

(* throughput_event_disconnect *)
ThroughputDisconnect ==
  /\ throughput_con_handle' = INVALID_HANDLE /\ throughput_notify_enable' = FALSE
  /\ peer_slave' = [peer_slave EXCEPT !.conn_handle = INVALID_HANDLE]
  /\ query' = NoQuery /\ said' = "DISCONNECT"

(* A link ended: dial again, or advertise again. *)
Disconnected ==
  /\ Handling("DISCONNECTED")
  /\ LET h == Head(events).h
         master == h = i_am_master_conn_handle
         slave  == ~master /\ h = i_am_slave_conn_handle
     IN  /\ i_am_master_conn_handle' = IF slave THEN i_am_master_conn_handle ELSE INVALID_HANDLE
         /\ i_am_slave_conn_handle' = IF master THEN i_am_slave_conn_handle ELSE INVALID_HANDLE
         /\ advertising' = (slave \/ advertising)
         /\ IF master THEN AutoConnect(initiating, INVALID_HANDLE)
                      ELSE UNCHANGED <<initiating_id, create_conn_timer, initiating, closing>>
  /\ ThroughputDisconnect
  /\ UNCHANGED <<mode, gap_is_connection_cancel, timeouts, link, overlap>>

(* throughput_att_write_callback: the master subscribes or unsubscribes. *)
Subscribe(on) ==
  /\ i_am_slave_conn_handle \in Live
  /\ throughput_notify_enable' = on /\ said' = IF on THEN "CONNECT" ELSE None
  /\ UNCHANGED_Bt
  /\ UNCHANGED <<manager, throughput_con_handle, peer_slave, query, radio>>

-----------------------------------------------------------------------------
(* Discovery.  A handle is named after the peer it belongs to. *)

PeerOf(h) == link[h].peer
Next_(stage) == query' = [query EXCEPT !.stage = stage]
Disconnect == closing' = closing \cup {peer_slave.conn_handle} /\ query' = NoQuery

(* Mutant: the status of the service query is not looked at. *)
ServiceDone_any(ok) ==
  /\ query.stage = "service"
  /\ peer_slave' = IF ok /\ PeerOf(query.h) \notin Bare
                   THEN [peer_slave EXCEPT !.service = PeerOf(query.h)] ELSE peer_slave
  /\ IF peer_slave'.service = INVALID_HANDLE THEN Disconnect
     ELSE Next_("char") /\ UNCHANGED closing
  /\ Quiet

(* throughput_service_discovery_callback *)
ServiceDone(ok) ==
  /\ query.stage = "service"
  /\ peer_slave' = IF ok /\ PeerOf(query.h) \notin Bare
                   THEN [peer_slave EXCEPT !.service = PeerOf(query.h)] ELSE peer_slave
  /\ IF ~ok THEN query' = NoQuery /\ UNCHANGED closing
     ELSE IF peer_slave'.service = INVALID_HANDLE THEN Disconnect
     ELSE Next_("char") /\ UNCHANGED closing
  /\ Quiet

(* throughput_characteristic_discovery_callback *)
CharDone(ok) ==
  /\ query.stage = "char"
  /\ peer_slave' = IF ok /\ peer_slave.service = PeerOf(query.h)
                   THEN [peer_slave EXCEPT !.char = PeerOf(query.h)] ELSE peer_slave
  /\ IF ~ok THEN query' = NoQuery /\ UNCHANGED closing
     ELSE IF peer_slave'.char = INVALID_HANDLE THEN Disconnect
     ELSE Next_("desc") /\ UNCHANGED closing
  /\ Quiet

(* throughput_descriptor_discovery_callback *)
DescDone(ok) ==
  /\ query.stage = "desc"
  /\ peer_slave' = IF ok /\ peer_slave.char = PeerOf(query.h)
                   THEN [peer_slave EXCEPT !.desc = PeerOf(query.h)] ELSE peer_slave
  /\ IF ok /\ peer_slave'.desc # INVALID_HANDLE THEN Next_("write") ELSE query' = NoQuery
  /\ Quiet /\ UNCHANGED closing

(* btstack_callback: the subscription is confirmed. *)
WriteDone(ok) ==
  /\ query.stage = "write" /\ query' = NoQuery
  /\ said' = IF ok THEN "CONNECT" ELSE None
  /\ UNCHANGED <<peer_slave, closing>>

QueryDone(ok) ==
  /\ query # NoQuery /\ query.h \in Live
  /\ ServiceDone(ok) \/ CharDone(ok) \/ DescDone(ok) \/ WriteDone(ok)
  /\ UNCHANGED_Bt
  /\ UNCHANGED <<manager, throughput_con_handle, throughput_notify_enable, advertising, initiating,
                 link, events, overlap>>

-----------------------------------------------------------------------------
(* The controller and the peers *)

Reports(e) ==
  /\ phase = "up" /\ Len(events) < MaxQueue /\ events' = Append(events, e)
  /\ Quiet /\ UNCHANGED <<phase, persist, manager, through>>

(* A handle is given away again once the host knows that its link ended. *)
Free(h) == h \notin Live /\ \A i \in DOMAIN events : events[i] # [type |-> "DISCONNECTED", h |-> h]

(* A link is up, or has ended and its end has not been handled. *)
AnotherLink == Live # {} \/ \E i \in DOMAIN events : events[i].type = "DISCONNECTED"

Dialled(h) ==
  /\ initiating \in Peers /\ Free(h)
  /\ \A i \in Live : PeerOf(i) # initiating
  /\ link' = [link EXCEPT ![h] = [role |-> MASTER, peer |-> initiating]] /\ initiating' = None
  /\ Reports([type |-> "CONNECTED", h |-> h, role |-> MASTER])
  /\ overlap' = (overlap \/ AnotherLink)
  /\ UNCHANGED <<advertising, closing>>

Called(h) ==
  /\ advertising /\ Free(h)
  /\ link' = [link EXCEPT ![h] = [role |-> SLAVE, peer |-> Factory]] /\ advertising' = FALSE
  /\ Reports([type |-> "CONNECTED", h |-> h, role |-> SLAVE])
  /\ overlap' = (overlap \/ AnotherLink)
  /\ UNCHANGED <<initiating, closing>>

(* A link ends because it was told to, or by itself. *)
LinkEnds(h) ==
  /\ h \in Live /\ link' = [link EXCEPT ![h] = NoLink] /\ closing' = closing \ {h}
  /\ Reports([type |-> "DISCONNECTED", h |-> h])
  /\ UNCHANGED <<advertising, initiating, overlap>>

-----------------------------------------------------------------------------
(* Specification *)

Task ==
  \/ FirstWakeUp \/ Timeout \/ ConnectFailed \/ Connected \/ Disconnected
  \/ \E ok \in BOOLEAN : QueryDone(ok)

Next ==
  \/ PowerLoss \/ Boot \/ Save \/ Copied \/ \E c \in Ops : Command(c)
  \/ Task \/ TimerFires \/ \E on \in BOOLEAN : Subscribe(on)
  \/ \E h \in Handles : Dialled(h) \/ Called(h) \/ LinkEnds(h)

(* Tasks that are ready run, the timer goes off, a link that was told to   *)
(* end ends; nothing is asked of peers.                                    *)
Fairness ==
  /\ WF_vars(Boot) /\ WF_vars(Save) /\ WF_vars(Copied)
  /\ WF_vars(FirstWakeUp) /\ SF_vars(Timeout) /\ WF_vars(TimerFires)
  /\ WF_vars(ConnectFailed) /\ WF_vars(Connected) /\ WF_vars(Disconnected)
  /\ \A h \in Handles : WF_vars(h \in closing /\ LinkEnds(h))

FairSpec == Init /\ [][Next]_vars /\ Fairness

-----------------------------------------------------------------------------
(* Properties *)

Event == [type : {"FAILED"}] \cup [type : {"DISCONNECTED"}, h : Handles]
         \cup [type : {"CONNECTED"}, h : Handles, role : {MASTER, SLAVE}]

TypeOK ==
  /\ phase \in {"off", "boot", "up"} /\ ram \in Image /\ acked \in Image
  /\ flash.role \in {MASTER, SLAVE, Blank} /\ saving \in {"no", "erase", "first", "second"}
  /\ initiating_id \in {"OFF", "SLAVE1"} /\ gap_is_connection_cancel \in 0 .. 1
  /\ {i_am_master_conn_handle, i_am_slave_conn_handle, throughput_con_handle,
      peer_slave.conn_handle} \subseteq Handles \cup {INVALID_HANDLE}
  /\ {peer_slave.service, peer_slave.char, peer_slave.desc} \subseteq Peers \cup {Zero}
  /\ events \in Seq(Event) /\ closing \subseteq Live
  /\ {create_conn_timer, throughput_notify_enable, advertising} \subseteq BOOLEAN

(***************************************************************************)
(* What the host was told is OK is there after every restart: a power cut  *)
(* between any two words of a save leaves the defaults, never a mixture.   *)
(***************************************************************************)
AckedSurvives == phase = "up" /\ cmd = NoCmd => ram = acked

(***************************************************************************)
(* The module never falls asleep: whatever timeouts, late events and links *)
(* do to each other, a master is linked or dials and a slave is linked or  *)
(* advertises, unless an event that changes this is on its way.  The       *)
(* exception is a master that once had two links: the end of the older one *)
(* makes it forget the newer one, whose end then starts nothing.           *)
(***************************************************************************)
NeverIdle ==
  /\ mode = MASTER /\ ~overlap => initiating # None \/ Live # {} \/ events # <<>>
  /\ mode = SLAVE  => advertising \/ Live # {} \/ events # <<>>

(***************************************************************************)
(* The handles bytes are sent to are those of a link that is up, or whose  *)
(* end is on its way: there is one target, and it is of the right role.    *)
(***************************************************************************)
UpOrEnding(h) == h \in Live \/ \E i \in DOMAIN events : events[i] = [type |-> "DISCONNECTED", h |-> h]

TargetExists ==
  /\ throughput_notify_enable =>
       throughput_con_handle = i_am_slave_conn_handle /\ UpOrEnding(i_am_slave_conn_handle)
  /\ peer_slave.conn_handle # INVALID_HANDLE =>
       /\ throughput_con_handle = peer_slave.conn_handle
       /\ i_am_master_conn_handle = peer_slave.conn_handle /\ UpOrEnding(peer_slave.conn_handle)

(***************************************************************************)
(* When a master tells its host +CONNECT, the characteristic it will write *)
(* to and the descriptor it subscribed by were found on this very link,    *)
(* not on an earlier one with another peer.  A peer without the service is *)
(* excepted: handles are not reset, so that it is taken to have those of   *)
(* the peer before it; a peer met after it is not affected.                *)
(***************************************************************************)
ConnectMeansReady ==
  said = "CONNECT" /\ mode = MASTER /\ PeerOf(peer_slave.conn_handle) \notin Bare =>
    {peer_slave.service, peer_slave.char, peer_slave.desc} = {PeerOf(peer_slave.conn_handle)}

(***************************************************************************)
(* A peer named by AT+CONA is dialled in the end, though the command only  *)
(* changes RAM and an older call goes on: the timeouts see to it.  It is   *)
(* never so that from some time on it is named and not dialled.  Two links *)
(* at once are excepted, as in NeverIdle.                                  *)
(***************************************************************************)
DialsNewPeer ==
  \A p \in Peers :
    []<>(mode = MASTER /\ ram.peer = p => initiating = p \/ Live # {} \/ overlap)
=============================================================================
