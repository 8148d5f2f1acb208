------------------------------- MODULE AtLinks -------------------------------
(***************************************************************************)
(* The links of the 9168_AT modem: the table conn_infos with its reverse   *)
(* map handle_2_id, the flags that say which radio action is under way,    *)
(* and the flag async_evt_on_going that makes the modem deaf to commands   *)
(* until an event arrives.                                                 *)
(*                                                                         *)
(* Everything runs in the Bluetooth task, one event, runnable or command   *)
(* at a time.  What makes it hard is that the controller runs on its own:  *)
(* its events wait in a queue, so an event describes the past, and links   *)
(* of the other role come and go while a command waits for its event.      *)
(***************************************************************************)
EXTENDS Naturals, FiniteSets, Sequences

CONSTANTS
  MAX_CONN_AS_MASTER,        \* ids 0 .. MAX_CONN_AS_MASTER-1 are master links
  TOTAL_CONN_NUM,            \* the remaining ids are slave links
  LL_MAX_CONN_NUM_DEFAULT,   \* links the controller allows at first
  NumHandles,                \* connection handles of the controller
  Addrs,                     \* addresses of peers
  NoAddr,                    \* a peer_addr that was never filled in
  INVALID_HANDLE,
  Commands,                  \* the AT commands the host uses
  MaxQueue                   \* bound: queued events, queued runnables

Ids       == 0 .. TOTAL_CONN_NUM - 1
MasterIds == 0 .. MAX_CONN_AS_MASTER - 1
SlaveIds  == Ids \ MasterIds
Handles   == 0 .. NumHandles - 1

ASSUME LinksAssumption ==
  /\ TOTAL_CONN_NUM \in Nat /\ MAX_CONN_AS_MASTER \in Nat
  /\ 0 < MAX_CONN_AS_MASTER /\ MAX_CONN_AS_MASTER < TOTAL_CONN_NUM
  /\ NumHandles \in Nat /\ LL_MAX_CONN_NUM_DEFAULT \in Nat /\ MaxQueue \in Nat
  /\ NoAddr \notin Addrs /\ INVALID_HANDLE \notin Handles
  /\ Commands \subseteq {"CONN", "DISCONN", "DISCONN=A", "MODE=I", "MODE=B", "SCAN"}

VARIABLES
  handle,                  \* conn_infos[id].handle
  peer_addr,               \* conn_infos[id].peer_addr
  handle_2_id,
  adv_ongoing, scan_ongoing, initialization_ongoing,
  async_evt_on_going,
  at_cb_func,              \* the registered at event callbacks
  initiate_timer,          \* platform timer of initiate_timeout is running
  runq,                    \* runnables for the Bluetooth task
  adv_rpt,                 \* addresses AT+SCAN has found
  said,                    \* the answer this step gave, if any
  advertising, scanning,   \* the controller
  initiating,              \* address it is connecting to, or NoAddr
  ll_max,                  \* links it allows
  link,                    \* per handle NoLink, or the role and the peer
  closing,                 \* links it was told to close
  events,                  \* events on their way to the host
  refused                  \* connections at_on_connection_complete turned away

table   == <<handle, peer_addr, handle_2_id>>
ongoing == <<adv_ongoing, scan_ongoing, initialization_ongoing>>
at      == <<async_evt_on_going, at_cb_func, adv_rpt>>
jobs    == <<initiate_timer, runq>>
radio   == <<advertising, scanning, initiating, ll_max, link, closing, events>>
vars    == <<table, ongoing, at, jobs, said, radio, refused>>

-----------------------------------------------------------------------------
(* Data *)

Answers   == {"nothing", "SCAN:ON", "MODE:I", "DISCONN:A", "ERROR"}
CbIndex   == {"ADV_END", "SCAN_END", "CONN_END", "DISCONNECT"}
Callbacks == {"none", "at_scan_done", "at_idle_status_hdl", "at_link_idle_status_hdl",
              "at_cb_disconnected"}

Event ==
  [type : {"COMPLETE"}, role : {"master", "slave"}, ok : BOOLEAN,
   h : Handles \cup {INVALID_HANDLE}, a : Addrs \cup {NoAddr}]
  \cup [type : {"DISCONNECTED"}, h : Handles]
  \cup [type : {"SCAN_TIMEOUT", "ADV_TERMINATED", "STATUS_7"}]

Complete(role, h, a) == [type |-> "COMPLETE", role |-> role, ok |-> TRUE, h |-> h, a |-> a]
Cancelled == [type |-> "COMPLETE", role |-> "master", ok |-> FALSE,
              h |-> INVALID_HANDLE, a |-> NoAddr]

Runnable == [job : {"initiate"}, id : MasterIds] \cup [job : {"cancel"}]

gap_get_connect_status(id) == handle[id] # INVALID_HANDLE

gap_get_connect_num == Cardinality({id \in Ids : gap_get_connect_status(id)})

NoLink == [role |-> "none", a |-> NoAddr]
Live   == {h \in Handles : link[h] # NoLink}
Peers  == {link[h].a : h \in Live}

(* The lowest free id of a range, as the for loops find it. *)
Free(ids) == {id \in ids : ~gap_get_connect_status(id)}
FirstFree(ids) == CHOOSE id \in Free(ids) : \A j \in Free(ids) : id <= j

Emit(e) == events' = events \o e

(* A handle is used again only after the host was told it is free. *)
FreeHandle(h) ==
  link[h] = NoLink /\ \A i \in DOMAIN events : events[i].type = "DISCONNECTED" => events[i].h # h

(* Mutant: a handle that ended maps to an id outside the table. *)
EndedId_none == TOTAL_CONN_NUM

(* What handle_2_id says of a handle without a link. *)
EndedId == 0

Init ==
  /\ handle = [id \in Ids |-> INVALID_HANDLE] /\ peer_addr = [id \in Ids |-> NoAddr]
  /\ handle_2_id = [h \in Handles |-> EndedId]
  /\ adv_ongoing = TRUE /\ scan_ongoing = FALSE /\ initialization_ongoing = FALSE
  /\ async_evt_on_going = FALSE /\ at_cb_func = [i \in CbIndex |-> "none"]
  /\ initiate_timer = FALSE /\ runq = <<>> /\ adv_rpt = {} /\ said = "nothing"
  /\ advertising = TRUE /\ scanning = FALSE /\ initiating = NoAddr
  /\ ll_max = LL_MAX_CONN_NUM_DEFAULT
  /\ link = [h \in Handles |-> NoLink] /\ closing = {} /\ events = <<>> /\ refused = FALSE

-----------------------------------------------------------------------------
(* The controller and the peers *)

(* Two devices have at most one link with each other. *)
MayLink(h, a) == FreeHandle(h) /\ Cardinality(Live) < ll_max /\ a \notin Peers

(* A central connects: advertising ends with it. *)
PeerConnects(h, a) ==
  /\ advertising /\ MayLink(h, a) /\ Len(events) < MaxQueue
  /\ advertising' = FALSE /\ link' = [link EXCEPT ![h] = [role |-> "slave", a |-> a]]
  /\ Emit(<<Complete("slave", h, a), [type |-> "ADV_TERMINATED"]>>)
  /\ said' = "nothing"
  /\ UNCHANGED <<table, ongoing, at, jobs, scanning, initiating, ll_max, closing, refused>>

(* The peripheral we look for answers. *)
Initiated(h) ==
  /\ initiating # NoAddr /\ MayLink(h, initiating)
  /\ link' = [link EXCEPT ![h] = [role |-> "master", a |-> initiating]]
  /\ initiating' = NoAddr
  /\ Emit(<<Complete("master", h, initiating)>>)
  /\ said' = "nothing"
  /\ UNCHANGED <<table, ongoing, at, jobs, advertising, scanning, ll_max, closing, refused>>

(* A link ends, because a side asked for it or because it is lost. *)
LinkEnds(h) ==
  /\ h \in Live
  /\ link' = [link EXCEPT ![h] = NoLink] /\ closing' = closing \ {h}
  /\ Emit(<<[type |-> "DISCONNECTED", h |-> h]>>)
  /\ said' = "nothing"
  /\ UNCHANGED <<table, ongoing, at, jobs, advertising, scanning, initiating, ll_max, refused>>

ScanExpires ==
  /\ scanning /\ Len(events) < MaxQueue
  /\ scanning' = FALSE /\ Emit(<<[type |-> "SCAN_TIMEOUT"]>>) /\ said' = "nothing"
  /\ UNCHANGED <<table, ongoing, at, jobs, advertising, initiating, ll_max, link, closing,
                 refused>>

(* at_get_adv: the filters passed and the address is a new one. *)
AdvReport(a) ==
  /\ scanning /\ a \notin adv_rpt /\ adv_rpt' = adv_rpt \cup {a} /\ said' = "nothing"
  /\ UNCHANGED <<table, ongoing, async_evt_on_going, at_cb_func, jobs, radio, refused>>

(* initiate_timeout, in the timer's context. *)
InitiateTimeout ==
  /\ initiate_timer /\ Len(runq) < MaxQueue
  /\ initiate_timer' = FALSE /\ runq' = Append(runq, [job |-> "cancel"]) /\ said' = "nothing"
  /\ UNCHANGED <<table, ongoing, at, radio, refused>>

-----------------------------------------------------------------------------
(* Runnables of the Bluetooth task *)

(***************************************************************************)
(* stack_initiate.  gap_ext_create_connection may fail at once; otherwise  *)
(* the controller takes the request, or turns it down: with status 7 when  *)
(* it has no room for a link, with another status when it is connecting    *)
(* already.                                                                *)
(***************************************************************************)
StackInitiate ==
  /\ runq # <<>> /\ Head(runq).job = "initiate" /\ runq' = Tail(runq)
  /\ \/ /\ initialization_ongoing' = TRUE /\ initiate_timer' = TRUE
        /\ IF initiating = NoAddr /\ Cardinality(Live) < ll_max
           THEN initiating' = peer_addr[Head(runq).id] /\ UNCHANGED events
           ELSE /\ initiating = NoAddr => Len(events) < MaxQueue
                /\ Emit(IF initiating = NoAddr THEN <<[type |-> "STATUS_7"]>> ELSE <<>>)
                /\ UNCHANGED initiating
        /\ UNCHANGED async_evt_on_going
     \/ /\ initialization_ongoing' = FALSE /\ async_evt_on_going' = FALSE
        /\ UNCHANGED <<initiate_timer, initiating, events>>
  /\ said' = "nothing"
  /\ UNCHANGED <<table, adv_ongoing, scan_ongoing, at_cb_func, adv_rpt, advertising,
                 scanning, ll_max, link, closing, refused>>

(* stack_cancel_create_conn: a cancelled attempt completes with an error. *)
StackCancelCreateConn ==
  /\ runq # <<>> /\ Head(runq).job = "cancel" /\ runq' = Tail(runq)
  /\ initiating # NoAddr => Len(events) < MaxQueue
  /\ initiating' = NoAddr /\ Emit(IF initiating # NoAddr THEN <<Cancelled>> ELSE <<>>)
  /\ said' = "nothing"
  /\ UNCHANGED <<table, ongoing, at, initiate_timer, advertising, scanning, ll_max, link,
                 closing, refused>>

-----------------------------------------------------------------------------
(* AT commands; dropped while async_evt_on_going *)

Command(c) == ~async_evt_on_going /\ c \in Commands

(* The stack is asked to close those of the handles that have a link. *)
gap_disconnect(hs) == closing' = closing \cup (hs \cap Live)

(* AT+SCAN: clears the reports, so a scan always starts from nothing. *)
Scan ==
  /\ Command("SCAN")
  /\ scanning' = TRUE /\ scan_ongoing' = TRUE
  /\ at_cb_func' = [at_cb_func EXCEPT !["SCAN_END"] = "at_scan_done"]
  /\ adv_rpt' = {} /\ async_evt_on_going' = TRUE /\ said' = "nothing"
  /\ UNCHANGED <<table, adv_ongoing, initialization_ongoing, jobs, advertising, initiating,
                 ll_max, link, closing, events, refused>>

(***************************************************************************)
(* AT+CONN.  The flag is raised before the search for a free id, and the   *)
(* error path of the search leaves it raised.                              *)
(***************************************************************************)
Conn(a) ==
  /\ Command("CONN") /\ ~initialization_ongoing /\ a \in adv_rpt /\ Len(runq) < MaxQueue
  /\ async_evt_on_going' = TRUE
  /\ IF Free(MasterIds) = {}
     THEN said' = "ERROR" /\ UNCHANGED <<peer_addr, runq>>
     ELSE LET id == FirstFree(MasterIds)
          IN  /\ peer_addr' = [peer_addr EXCEPT ![id] = a] /\ said' = "nothing"
              /\ runq' = Append(runq, [job |-> "initiate", id |-> id])
  /\ UNCHANGED <<handle, handle_2_id, ongoing, at_cb_func, adv_rpt, initiate_timer, radio,
                 refused>>

(* AT+DISCONN=id *)
Disconn(id) ==
  /\ Command("DISCONN") /\ gap_get_connect_status(id)
  /\ async_evt_on_going' = TRUE /\ gap_disconnect({handle[id]})
  /\ at_cb_func' = [at_cb_func EXCEPT !["DISCONNECT"] = "at_cb_disconnected"]
  /\ said' = "nothing"
  /\ UNCHANGED <<table, ongoing, adv_rpt, jobs, advertising, scanning, initiating, ll_max,
                 link, events, refused>>

(* AT+DISCONN=A hands gap_disconnect the ids of the links, not their handles. *)
DisconnAll ==
  /\ Command("DISCONN=A") /\ gap_get_connect_num > 0
  /\ async_evt_on_going' = TRUE
  /\ gap_disconnect({id \in Ids : gap_get_connect_status(id)})
  /\ at_cb_func' = [at_cb_func EXCEPT !["DISCONNECT"] = "at_link_idle_status_hdl"]
  /\ said' = "nothing"
  /\ UNCHANGED <<table, ongoing, adv_rpt, jobs, advertising, scanning, initiating, ll_max,
                 link, events, refused>>

(* Mutant: the flag survives the end of advertising. *)
stop_adv_flagged == advertising' = FALSE /\ UNCHANGED adv_ongoing

stop_adv == advertising' = FALSE /\ adv_ongoing' = FALSE

(* AT+MODE=I: stops what is under way and does not wait for the end of it. *)
ModeIdle ==
  /\ Command("MODE=I")
  /\ at_cb_func' = [i \in CbIndex |->
       IF i = "DISCONNECT" THEN "at_cb_disconnected"
       ELSE IF \/ i = "ADV_END" /\ adv_ongoing
               \/ i = "SCAN_END" /\ scan_ongoing
               \/ i = "CONN_END" /\ initialization_ongoing
       THEN "at_idle_status_hdl" ELSE at_cb_func[i]]
  /\ IF adv_ongoing THEN stop_adv ELSE UNCHANGED <<advertising, adv_ongoing>>
  /\ scanning' = (scanning /\ ~scan_ongoing)
  /\ gap_disconnect(IF initialization_ongoing THEN Handles ELSE {})
  /\ said' = "MODE:I"
  /\ UNCHANGED <<table, scan_ongoing, initialization_ongoing, async_evt_on_going, adv_rpt,
                 jobs, initiating, ll_max, link, events, refused>>

(* AT+MODE=B *)
ModeAdvertise ==
  /\ Command("MODE=B") /\ ~adv_ongoing
  /\ advertising' = TRUE /\ adv_ongoing' = TRUE
  /\ at_cb_func' = [at_cb_func EXCEPT !["DISCONNECT"] = "at_cb_disconnected"]
  /\ said' = "nothing"
  /\ UNCHANGED <<table, scan_ongoing, initialization_ongoing, async_evt_on_going, adv_rpt,
                 jobs, scanning, initiating, ll_max, link, closing, events, refused>>

-----------------------------------------------------------------------------
(* Events of the controller *)

Handle(type) == events # <<>> /\ Head(events).type = type /\ events' = Tail(events)

(* An answer of at_idle_status_hdl, given once nothing is under way. *)
IdleStatus(registered, adv, scan, init) ==
  LET says == registered = "at_idle_status_hdl" /\ async_evt_on_going
              /\ ~adv /\ ~scan /\ ~init
  IN  /\ said' = IF says THEN "MODE:I" ELSE "nothing"
      /\ async_evt_on_going' = (async_evt_on_going /\ ~says)

(* Mutant: the scan is reported and the modem stays deaf. *)
at_scan_done_deaf == said' = "SCAN:ON" /\ UNCHANGED async_evt_on_going

at_scan_done == said' = "SCAN:ON" /\ async_evt_on_going' = FALSE

ScanTimeout ==
  /\ Handle("SCAN_TIMEOUT") /\ scan_ongoing' = FALSE
  /\ IF at_cb_func["SCAN_END"] = "at_scan_done" THEN at_scan_done
     ELSE IdleStatus(at_cb_func["SCAN_END"], adv_ongoing, FALSE, initialization_ongoing)
  /\ UNCHANGED <<table, adv_ongoing, initialization_ongoing, at_cb_func, adv_rpt, jobs,
                 advertising, scanning, initiating, ll_max, link, closing, refused>>

AdvTerminated ==
  /\ Handle("ADV_TERMINATED") /\ adv_ongoing' = FALSE
  /\ IdleStatus(at_cb_func["ADV_END"], FALSE, scan_ongoing, initialization_ongoing)
  /\ UNCHANGED <<table, scan_ongoing, initialization_ongoing, at_cb_func, adv_rpt, jobs,
                 advertising, scanning, initiating, ll_max, link, closing, refused>>

(* HCI_EVENT_COMMAND_STATUS with status 7; on_connect_end. *)
CommandStatus ==
  /\ Handle("STATUS_7")
  /\ initialization_ongoing' = (initialization_ongoing /\ ~async_evt_on_going)
  /\ async_evt_on_going' = (async_evt_on_going /\ ~initialization_ongoing)
  /\ said' = "nothing"
  /\ UNCHANGED <<table, adv_ongoing, scan_ongoing, at_cb_func, adv_rpt, jobs, advertising,
                 scanning, initiating, ll_max, link, closing, refused>>

(* Mutant: the search for a slave id starts at the master ids. *)
Match_anyId(e) ==
  IF e.role = "slave" THEN Free(Ids) ELSE {id \in MasterIds : peer_addr[id] = e.a}

(* The ids at_on_connection_complete may give a new link. *)
Match(e) ==
  IF e.role = "slave" THEN Free(SlaveIds)
  ELSE {id \in MasterIds : peer_addr[id] = e.a}

(* conn_infos and handle_2_id take the link in, or it is turned away. *)
Register(e) ==
  IF Match(e) # {}
  THEN LET id == CHOOSE i \in Match(e) : \A j \in Match(e) : i <= j IN
       /\ handle' = [handle EXCEPT ![id] = e.h]
       /\ handle_2_id' = [handle_2_id EXCEPT ![e.h] = id]
       /\ peer_addr' = IF e.role = "slave" THEN [peer_addr EXCEPT ![id] = e.a] ELSE peer_addr
       /\ UNCHANGED <<closing, refused>>
  ELSE gap_disconnect({e.h}) /\ refused' = TRUE /\ UNCHANGED table

(***************************************************************************)
(* HCI_SUBEVENT_LE_ENHANCED_CONNECTION_COMPLETE and                        *)
(* at_on_connection_complete.  Both flags are cleared for a link of either *)
(* role, and a slave link ends advertising, a master link scanning.        *)
(***************************************************************************)
ConnectionComplete ==
  LET e == Head(events) IN
  /\ Handle("COMPLETE")
  /\ initialization_ongoing' = FALSE /\ async_evt_on_going' = FALSE
  /\ ll_max' = IF gap_get_connect_num >= LL_MAX_CONN_NUM_DEFAULT THEN NumHandles ELSE ll_max
  /\ IF e.ok THEN Register(e) ELSE UNCHANGED <<table, closing, refused>>
  /\ IF e.role = "slave"
     THEN /\ stop_adv
          /\ UNCHANGED <<initiate_timer, scanning>>
     ELSE /\ initiate_timer' = FALSE /\ scanning' = FALSE
          /\ UNCHANGED <<adv_ongoing, advertising>>
  /\ said' = "nothing"
  /\ UNCHANGED <<scan_ongoing, at_cb_func, adv_rpt, runq, initiating, link>>

(* Service discovery on a master link finds no transparent service. *)
DiscoveryFails(h) ==
  /\ \E id \in MasterIds : handle[id] = h
  /\ gap_disconnect({h}) /\ said' = "nothing"
  /\ UNCHANGED <<table, ongoing, at, jobs, advertising, scanning, initiating, ll_max, link,
                 events, refused>>

(***************************************************************************)
(* HCI_EVENT_DISCONNECTION_COMPLETE: the registered callback, and then     *)
(* at_on_disconnect.  at_link_idle_status_hdl counts the links while the   *)
(* one that has just ended is still in the table.                          *)
(***************************************************************************)
DisconnectionComplete ==
  LET h  == Head(events).h
      id == handle_2_id[h]
  IN
  /\ Handle("DISCONNECTED")
  /\ said' = IF /\ at_cb_func["DISCONNECT"] = "at_link_idle_status_hdl"
                /\ gap_get_connect_num = 0 /\ async_evt_on_going
             THEN "DISCONN:A" ELSE "nothing"
  /\ handle' = [handle EXCEPT ![id] = INVALID_HANDLE]
  /\ handle_2_id' = [handle_2_id EXCEPT ![h] = EndedId]
  /\ async_evt_on_going' = FALSE
  /\ UNCHANGED <<peer_addr, ongoing, at_cb_func, adv_rpt, jobs, advertising, scanning,
                 initiating, ll_max, link, closing, refused>>

-----------------------------------------------------------------------------
(* What the host on the UART does. *)
AtCommand ==
  \/ Scan \/ DisconnAll \/ ModeIdle \/ ModeAdvertise
  \/ \E a \in Addrs : Conn(a)
  \/ \E id \in Ids : Disconn(id)

(* What the Bluetooth task owes. *)
BtTask ==
  \/ StackInitiate \/ StackCancelCreateConn
  \/ ScanTimeout \/ AdvTerminated \/ CommandStatus
  \/ ConnectionComplete \/ DisconnectionComplete

(* What the radio and the peers may do. *)
World ==
  \/ \E h \in Handles : \/ Initiated(h) \/ LinkEnds(h) \/ DiscoveryFails(h)
                        \/ \E a \in Addrs : PeerConnects(h, a)
  \/ \E a \in Addrs : AdvReport(a)
  \/ ScanExpires \/ InitiateTimeout

Next == AtCommand \/ BtTask \/ World

Spec == Init /\ [][Next]_vars

(***************************************************************************)
(* The task runs, a scan has a duration, the timer expires, and a link the *)
(* controller was told to close ends.  Peers and the host owe nothing.     *)
(***************************************************************************)
FairSpec ==
  /\ Spec /\ WF_vars(BtTask) /\ WF_vars(ScanExpires) /\ WF_vars(InitiateTimeout)
  /\ \A h \in Handles : WF_vars(h \in closing /\ LinkEnds(h))

-----------------------------------------------------------------------------
(* Properties *)

TypeOK ==
  /\ handle \in [Ids -> Handles \cup {INVALID_HANDLE}]
  /\ peer_addr \in [Ids -> Addrs \cup {NoAddr}] /\ handle_2_id \in [Handles -> Ids]
  /\ adv_ongoing \in BOOLEAN /\ scan_ongoing \in BOOLEAN
  /\ initialization_ongoing \in BOOLEAN /\ async_evt_on_going \in BOOLEAN
  /\ at_cb_func \in [CbIndex -> Callbacks]
  /\ initiate_timer \in BOOLEAN /\ runq \in Seq(Runnable)
  /\ adv_rpt \subseteq Addrs /\ said \in Answers
  /\ advertising \in BOOLEAN /\ scanning \in BOOLEAN /\ initiating \in Addrs \cup {NoAddr}
  /\ ll_max \in {LL_MAX_CONN_NUM_DEFAULT, NumHandles}
  /\ link \in [Handles -> {NoLink} \cup [role : {"master", "slave"}, a : Addrs]]
  /\ closing \subseteq Live /\ events \in Seq(Event) /\ refused \in BOOLEAN

Pending(type) == {i \in DOMAIN events : events[i].type = type}
Announced(h)  == \A i \in Pending("COMPLETE") : events[i].h # h

(***************************************************************************)
(* The table mirrors the controller, with the events still to come: an     *)
(* entry holds a link that is up or whose end is on its way, the reverse   *)
(* map leads back to it, and every link that was announced has an entry    *)
(* among the ids of its role, the entry AT+SEND, AT+DISCONN and the end of *)
(* the link will use.  Once a link was turned away this is lost: its  *)
(* end clears entry 0.                                                     *)
(***************************************************************************)
EntriesLead ==
  \A id \in Ids : gap_get_connect_status(id) =>
    /\ handle_2_id[handle[id]] = id
    /\ handle[id] \in Live \/ \E i \in Pending("DISCONNECTED") : events[i].h = handle[id]

LinksEntered ==
  \A h \in Live : Announced(h) =>
    /\ handle[handle_2_id[h]] = h
    /\ link[h].role = "master" <=> handle_2_id[h] \in MasterIds

TableExact == ~refused => EntriesLead /\ LinksEntered

(***************************************************************************)
(* The modem never takes itself to be advertising when it is not, except   *)
(* while the news is on its way: AT+MODE=B would do nothing for ever.      *)
(***************************************************************************)
AdvNotPhantom ==
  adv_ongoing => advertising \/ Pending("ADV_TERMINATED") # {}

(* A command that waits for its event gets it: the modem listens again. *)
CommandEnds == async_evt_on_going ~> ~async_evt_on_going
=============================================================================
