---------------------------- MODULE AtLinks_proofs ----------------------------
(***************************************************************************)
(* Proofs about AtLinks for every number of ids and handles, every set of  *)
(* peers and of commands: type correctness, which includes that the        *)
(* reverse map always names an id and that only live links are being       *)
(* closed; that the modem never takes itself to be advertising for no      *)
(* reason; and that the table mirrors the controller.                      *)
(***************************************************************************)
EXTENDS AtLinks, TLAPS, WellFoundedInduction, SequenceTheorems

-----------------------------------------------------------------------------
(* Data *)

(* A set of ids that is not empty has a least one, which the loops find. *)
LEMMA LeastId ==
  ASSUME NEW S, S \subseteq Ids, S # {}
  PROVE  (CHOOSE id \in S : \A j \in S : id <= j) \in S
<1>1. S \subseteq Nat
  BY LinksAssumption DEF Ids
<1>2. PICK id \in S : \A j \in S : ~(<<j, id>> \in OpToRel(<, Nat))
  BY <1>1, NatLessThanWellFounded, WFMin
<1>3. \A j \in S : id <= j
  <2> SUFFICES ASSUME NEW j \in S PROVE id <= j
    OBVIOUS
  <2>1. id \in Nat /\ j \in Nat
    BY <1>1
  <2>2. ~(j < id)
    BY <1>2, <2>1 DEF OpToRel
  <2> QED BY <2>1, <2>2
<1> QED BY <1>3

(* What a step emits or takes keeps the queue a queue of events. *)
LEMMA EventTypes ==
  /\ \A role \in {"master", "slave"}, h \in Handles, a \in Addrs : Complete(role, h, a) \in Event
  /\ Cancelled \in Event
  /\ \A h \in Handles : [type |-> "DISCONNECTED", h |-> h] \in Event
  /\ \A t \in {"SCAN_TIMEOUT", "ADV_TERMINATED", "STATUS_7"} : [type |-> t] \in Event
BY DEF Event, Complete, Cancelled

(* Links that are up stay up or come up, so what is being closed is live. *)
LEMMA ClosingLive ==
  ASSUME closing \subseteq Live, NEW hs
  PROVE  closing \cup (hs \cap Live) \subseteq Live
OBVIOUS

-----------------------------------------------------------------------------
(* Type correctness, by groups of variables *)

TableType ==
  /\ handle \in [Ids -> Handles \cup {INVALID_HANDLE}]
  /\ peer_addr \in [Ids -> Addrs \cup {NoAddr}] /\ handle_2_id \in [Handles -> Ids]

FlagType ==
  /\ adv_ongoing \in BOOLEAN /\ scan_ongoing \in BOOLEAN
  /\ initialization_ongoing \in BOOLEAN /\ async_evt_on_going \in BOOLEAN
  /\ initiate_timer \in BOOLEAN /\ advertising \in BOOLEAN /\ scanning \in BOOLEAN
  /\ refused \in BOOLEAN

WorkType ==
  /\ at_cb_func \in [CbIndex -> Callbacks]
  /\ runq \in Seq(Runnable) /\ adv_rpt \subseteq Addrs /\ said \in Answers

RadioType ==
  /\ initiating \in Addrs \cup {NoAddr}
  /\ ll_max \in {LL_MAX_CONN_NUM_DEFAULT, NumHandles}
  /\ link \in [Handles -> {NoLink} \cup [role : {"master", "slave"}, a : Addrs]]
  /\ closing \subseteq Live

LEMMA TypeParts ==
  TypeOK <=> TableType /\ FlagType /\ WorkType /\ RadioType /\ events \in Seq(Event)
BY DEF TypeOK, TableType, FlagType, WorkType, RadioType

LEMMA InitType == Init => TypeOK
<1> SUFFICES ASSUME Init PROVE TypeOK
  OBVIOUS
<1>1. 0 \in Ids
  BY LinksAssumption DEF Ids
<1>2. TableType /\ FlagType /\ RadioType /\ events \in Seq(Event)
  BY <1>1 DEF Init, TableType, FlagType, RadioType, EndedId
<1>3. WorkType
  BY DEF Init, WorkType, CbIndex, Callbacks, Answers
<1> QED BY <1>2, <1>3, TypeParts

LEMMA StepEvents == TypeOK /\ [Next]_vars => events' \in Seq(Event)
<1> SUFFICES ASSUME TypeOK, [Next]_vars PROVE events' \in Seq(Event)
  OBVIOUS
<1> USE DEF radio
<1>a. events \in Seq(Event)
  BY DEF TypeOK
<1>b. ASSUME NEW e \in Event, Emit(<<e>>) PROVE events' \in Seq(Event)
  BY <1>a, <1>b DEF Emit
<1>1. ASSUME NEW h \in Handles, NEW a \in Addrs, PeerConnects(h, a)
      PROVE  events' \in Seq(Event)
  <2>1. <<Complete("slave", h, a), [type |-> "ADV_TERMINATED"]>> \in Seq(Event)
    BY EventTypes
  <2> QED BY <1>a, <1>1, <2>1 DEF PeerConnects, Emit
<1>2. ASSUME NEW h \in Handles, Initiated(h) PROVE events' \in Seq(Event)
  <2>1. initiating \in Addrs
    BY <1>2 DEF Initiated, TypeOK
  <2>2. Complete("master", h, initiating) \in Event
    BY <2>1, EventTypes
  <2> QED BY <1>b, <1>2, <2>2 DEF Initiated
<1>3. ASSUME NEW h \in Handles, LinkEnds(h) PROVE events' \in Seq(Event)
  BY <1>b, <1>3, EventTypes DEF LinkEnds
<1>4. CASE ScanExpires
  BY <1>b, <1>4, EventTypes DEF ScanExpires
<1>5. CASE InitiateTimeout \/ \E a \in Addrs : AdvReport(a)
  BY <1>a, <1>5 DEF InitiateTimeout, AdvReport
<1>6. CASE StackInitiate
  <2>1. UNCHANGED events \/ Emit(<<[type |-> "STATUS_7"]>>) \/ Emit(<<>>)
    BY <1>6 DEF StackInitiate
  <2> QED BY <1>a, <1>b, <2>1, EventTypes DEF Emit
<1>7. CASE StackCancelCreateConn
  <2>1. Emit(<<Cancelled>>) \/ Emit(<<>>)
    BY <1>7 DEF StackCancelCreateConn
  <2> QED BY <1>a, <1>b, <2>1, EventTypes DEF Emit
<1>8. CASE AtCommand
  BY <1>a, <1>8 DEF AtCommand, Scan, DisconnAll, ModeIdle, ModeAdvertise, Conn, Disconn
<1>9. CASE ScanTimeout \/ AdvTerminated \/ CommandStatus \/ ConnectionComplete
           \/ DisconnectionComplete
  <2>1. events # <<>> /\ events' = Tail(events)
    BY <1>9 DEF ScanTimeout, AdvTerminated, CommandStatus, ConnectionComplete,
                DisconnectionComplete, Handle
  <2> QED BY <1>a, <2>1
<1>10. ASSUME NEW h \in Handles, DiscoveryFails(h) PROVE events' \in Seq(Event)
  BY <1>a, <1>10 DEF DiscoveryFails
<1>11. CASE UNCHANGED vars
  BY <1>a, <1>11 DEF vars
<1> QED
  BY <1>1, <1>2, <1>3, <1>4, <1>5, <1>6, <1>7, <1>8, <1>9, <1>10, <1>11
     DEF Next, BtTask, World

(* The event at the head of the queue. *)
LEMMA HeadEvent ==
  ASSUME TypeOK, NEW type, Handle(type)
  PROVE  /\ Head(events) \in Event /\ Head(events).type = type
         /\ type = "DISCONNECTED" => Head(events).h \in Handles
         /\ type = "COMPLETE" =>
              /\ Head(events).h \in Handles \cup {INVALID_HANDLE}
              /\ Head(events).a \in Addrs \cup {NoAddr}
BY DEF Handle, TypeOK, Event

LEMMA StepTable == TypeOK /\ [Next]_vars => TableType'
<1> SUFFICES ASSUME TypeOK, [Next]_vars PROVE TableType'
  OBVIOUS
<1> USE DEF table
<1>a. TableType /\ 0 \in Ids
  BY TypeParts, LinksAssumption DEF Ids
<1>1. ASSUME NEW a \in Addrs, Conn(a) PROVE TableType'
  BY <1>a, <1>1 DEF Conn, TableType
<1>2. CASE ConnectionComplete
  <2> DEFINE e == Head(events)
  <2>1. e.h \in Handles \cup {INVALID_HANDLE} /\ e.a \in Addrs \cup {NoAddr}
    BY <1>2, HeadEvent DEF ConnectionComplete
  <2>2. CASE Register(e) /\ Match(e) # {}
    <3> DEFINE id == CHOOSE i \in Match(e) : \A j \in Match(e) : i <= j
    <3>1. Match(e) \subseteq Ids
      BY LinksAssumption DEF Match, Free, SlaveIds, MasterIds, Ids
    <3>2. id \in Ids
      BY <2>2, <3>1, LeastId
    <3>3. /\ handle' = [handle EXCEPT ![id] = e.h]
          /\ handle_2_id' = [handle_2_id EXCEPT ![e.h] = id]
          /\ \/ peer_addr' = [peer_addr EXCEPT ![id] = e.a]
             \/ peer_addr' = peer_addr
      BY <2>2 DEF Register
    <3> HIDE DEF id, e
    <3> QED BY <1>a, <2>1, <3>2, <3>3 DEF TableType
  <2>3. CASE UNCHANGED table
    BY <1>a, <2>3 DEF TableType
  <2> QED BY <1>2, <2>2, <2>3 DEF ConnectionComplete, Register
<1>3. CASE DisconnectionComplete
  <2> DEFINE h == Head(events).h
  <2>1. h \in Handles
    BY <1>3, HeadEvent DEF DisconnectionComplete
  <2>2. /\ handle' = [handle EXCEPT ![handle_2_id[h]] = INVALID_HANDLE]
        /\ handle_2_id' = [handle_2_id EXCEPT ![h] = 0]
        /\ UNCHANGED peer_addr
    BY <1>3 DEF DisconnectionComplete, EndedId
  <2> HIDE DEF h
  <2> QED BY <1>a, <2>1, <2>2 DEF TableType
<1>4. CASE UNCHANGED table
  BY <1>a, <1>4 DEF TableType
<1>5. ASSUME ~(\E a \in Addrs : Conn(a)), AtCommand PROVE UNCHANGED table
  BY <1>5 DEF AtCommand, Scan, DisconnAll, ModeIdle, ModeAdvertise, Disconn
<1>6. ASSUME BtTask, ~ConnectionComplete, ~DisconnectionComplete PROVE UNCHANGED table
  BY <1>6 DEF BtTask, StackInitiate, StackCancelCreateConn, ScanTimeout, AdvTerminated,
              CommandStatus
<1>7. ASSUME World PROVE UNCHANGED table
  BY <1>7 DEF World, Initiated, LinkEnds, DiscoveryFails, PeerConnects, AdvReport, ScanExpires,
              InitiateTimeout
<1> QED BY <1>1, <1>2, <1>3, <1>4, <1>5, <1>6, <1>7 DEF Next, vars

LEMMA StepFlags == TypeOK /\ [Next]_vars => FlagType'
<1> SUFFICES ASSUME TypeOK, [Next]_vars PROVE FlagType'
  OBVIOUS
<1> USE DEF ongoing, at, jobs, radio
<1>a. FlagType
  BY TypeParts
<1>1. CASE AtCommand
  BY <1>a, <1>1 DEF AtCommand, Scan, DisconnAll, ModeIdle, ModeAdvertise, Conn, Disconn,
                    stop_adv, FlagType
<1>2. CASE StackInitiate \/ StackCancelCreateConn
  BY <1>a, <1>2 DEF StackInitiate, StackCancelCreateConn, FlagType
<1>3. CASE ScanTimeout
  BY <1>a, <1>3 DEF ScanTimeout, at_scan_done, IdleStatus, FlagType
<1>4. CASE AdvTerminated \/ CommandStatus
  BY <1>a, <1>4 DEF AdvTerminated, CommandStatus, IdleStatus, FlagType
<1>5. CASE ConnectionComplete
  BY <1>a, <1>5 DEF ConnectionComplete, Register, stop_adv, FlagType
<1>6. CASE DisconnectionComplete
  BY <1>a, <1>6 DEF DisconnectionComplete, FlagType
<1>7. CASE World
  <2>1. CASE InitiateTimeout
    BY <1>a, <2>1 DEF InitiateTimeout, FlagType
  <2>2. CASE ScanExpires
    BY <1>a, <2>2 DEF ScanExpires, FlagType
  <2>3. ASSUME NEW h \in Handles, NEW a \in Addrs, PeerConnects(h, a) PROVE FlagType'
    BY <1>a, <2>3 DEF PeerConnects, FlagType
  <2>4. ASSUME NEW h \in Handles, Initiated(h) \/ LinkEnds(h) \/ DiscoveryFails(h)
        PROVE  FlagType'
    BY <1>a, <2>4 DEF Initiated, LinkEnds, DiscoveryFails, FlagType
  <2>5. ASSUME NEW a \in Addrs, AdvReport(a) PROVE FlagType'
    BY <1>a, <2>5 DEF AdvReport, FlagType
  <2> QED BY <1>7, <2>1, <2>2, <2>3, <2>4, <2>5 DEF World
<1>8. CASE UNCHANGED vars
  BY <1>a, <1>8 DEF vars, FlagType
<1> QED BY <1>1, <1>2, <1>3, <1>4, <1>5, <1>6, <1>7, <1>8 DEF Next, BtTask

LEMMA StepWork == TypeOK /\ [Next]_vars => WorkType'
<1> SUFFICES ASSUME TypeOK, [Next]_vars PROVE WorkType'
  OBVIOUS
<1> USE DEF ongoing, at, jobs
<1>a. WorkType /\ runq \in Seq(Runnable)
  BY TypeParts DEF WorkType
<1>b. \A t \in {"nothing", "SCAN:ON", "MODE:I", "DISCONN:A", "ERROR"} : t \in Answers
  BY DEF Answers
<1>1. ASSUME NEW a \in Addrs, Conn(a) PROVE WorkType'
  <2>1. CASE Free(MasterIds) = {}
    BY <1>a, <1>b, <1>1, <2>1 DEF Conn, WorkType
  <2>2. CASE Free(MasterIds) # {}
    <3>1. FirstFree(MasterIds) \in MasterIds
      <4>1. Free(MasterIds) \subseteq MasterIds /\ MasterIds \subseteq Ids
        BY LinksAssumption DEF Free, MasterIds, Ids
      <4> QED BY <2>2, <4>1, LeastId DEF FirstFree
    <3>2. [job |-> "initiate", id |-> FirstFree(MasterIds)] \in Runnable
      BY <3>1 DEF Runnable
    <3>3. /\ runq' = Append(runq, [job |-> "initiate", id |-> FirstFree(MasterIds)])
          /\ said' = "nothing" /\ UNCHANGED <<at_cb_func, adv_rpt>>
      BY <1>1, <2>2 DEF Conn
    <3> QED BY <1>a, <1>b, <3>2, <3>3 DEF WorkType
  <2> QED BY <2>1, <2>2
<1>2. CASE Scan
  BY <1>a, <1>b, <1>2 DEF Scan, WorkType, Callbacks
<1>3. CASE DisconnAll \/ ModeAdvertise \/ \E id \in Ids : Disconn(id)
  BY <1>a, <1>b, <1>3 DEF DisconnAll, ModeAdvertise, Disconn, WorkType, Callbacks
<1>4. CASE ModeIdle
  <2>1. at_cb_func' \in [CbIndex -> Callbacks]
    BY <1>a, <1>4 DEF ModeIdle, WorkType, Callbacks
  <2> QED BY <1>a, <1>b, <1>4, <2>1 DEF ModeIdle, WorkType
<1>5. CASE StackInitiate \/ StackCancelCreateConn
  <2>1. runq # <<>> /\ runq' = Tail(runq) /\ said' = "nothing" /\ UNCHANGED <<at_cb_func, adv_rpt>>
    BY <1>5 DEF StackInitiate, StackCancelCreateConn
  <2> QED BY <1>a, <1>b, <2>1 DEF WorkType
<1>6. CASE ScanTimeout
  BY <1>a, <1>b, <1>6 DEF ScanTimeout, at_scan_done, IdleStatus, WorkType
<1>7. CASE AdvTerminated
  BY <1>a, <1>b, <1>7 DEF AdvTerminated, IdleStatus, WorkType
<1>8. CASE CommandStatus \/ ConnectionComplete \/ DisconnectionComplete
  BY <1>a, <1>b, <1>8 DEF CommandStatus, ConnectionComplete, DisconnectionComplete, WorkType
<1>9. CASE InitiateTimeout
  <2>1. [job |-> "cancel"] \in Runnable
    BY DEF Runnable
  <2> QED BY <1>a, <1>b, <1>9, <2>1 DEF InitiateTimeout, WorkType
<1>10. CASE World /\ ~InitiateTimeout
  BY <1>a, <1>b, <1>10 DEF World, Initiated, LinkEnds, DiscoveryFails, PeerConnects, AdvReport,
                           ScanExpires, WorkType
<1>11. CASE UNCHANGED vars
  BY <1>a, <1>11 DEF vars, WorkType
<1> QED
  BY <1>1, <1>2, <1>3, <1>4, <1>5, <1>6, <1>7, <1>8, <1>9, <1>10, <1>11
     DEF Next, AtCommand, BtTask

LEMMA StepRadio == TypeOK /\ [Next]_vars => RadioType'
<1> SUFFICES ASSUME TypeOK, [Next]_vars PROVE RadioType'
  OBVIOUS
<1> USE DEF radio
<1>a. RadioType /\ TableType /\ runq \in Seq(Runnable)
  BY TypeParts DEF WorkType
<1>b. UNCHANGED link => Live' = Live
  BY DEF Live
<1>1. ASSUME NEW h \in Handles, NEW a \in Addrs, NEW role \in {"master", "slave"},
             link' = [link EXCEPT ![h] = [role |-> role, a |-> a]], UNCHANGED closing
      PROVE  /\ link' \in [Handles -> {NoLink} \cup [role : {"master", "slave"}, a : Addrs]]
             /\ closing' \subseteq Live'
  <2>1. link' \in [Handles -> {NoLink} \cup [role : {"master", "slave"}, a : Addrs]]
    BY <1>a, <1>1 DEF RadioType
  <2>2. [role |-> role, a |-> a] # NoLink
    BY DEF NoLink
  <2>3. Live \subseteq Live'
    BY <1>a, <1>1, <2>2 DEF Live, RadioType
  <2> QED BY <1>a, <1>1, <2>1, <2>3 DEF RadioType
<1>2. ASSUME NEW h \in Handles, NEW a \in Addrs, PeerConnects(h, a) PROVE RadioType'
  BY <1>a, <1>1, <1>2 DEF PeerConnects, RadioType
<1>3. ASSUME NEW h \in Handles, Initiated(h) PROVE RadioType'
  <2>1. initiating \in Addrs
    BY <1>a, <1>3 DEF Initiated, RadioType
  <2> QED BY <1>a, <1>1, <1>3, <2>1 DEF Initiated, RadioType
<1>4. ASSUME NEW h \in Handles, LinkEnds(h) PROVE RadioType'
  <2>1. link' = [link EXCEPT ![h] = NoLink] /\ closing' = closing \ {h}
        /\ UNCHANGED <<initiating, ll_max>>
    BY <1>4 DEF LinkEnds
  <2>2. Live' = Live \ {h}
    BY <1>a, <2>1 DEF Live, RadioType
  <2> QED BY <1>a, <2>1, <2>2 DEF RadioType
<1>5. CASE StackInitiate
  <2>1. initiating' \in Addrs \cup {NoAddr}
    <3>1. CASE initiating' = peer_addr[Head(runq).id] /\ Head(runq).job = "initiate"
      <4>1. Head(runq) \in Runnable
        BY <1>a, <1>5 DEF StackInitiate
      <4>2. Head(runq).id \in Ids
        BY <3>1, <4>1, LinksAssumption DEF Runnable, MasterIds, Ids
      <4> QED BY <1>a, <3>1, <4>2 DEF TableType
    <3>2. CASE UNCHANGED initiating
      BY <1>a, <3>2 DEF RadioType
    <3> QED BY <1>5, <3>1, <3>2 DEF StackInitiate
  <2> QED BY <1>a, <1>b, <1>5, <2>1 DEF StackInitiate, RadioType
<1>6. ASSUME UNCHANGED <<ll_max, link>>, initiating' \in {initiating, NoAddr},
             \/ UNCHANGED closing
             \/ \E hs : gap_disconnect(hs)
      PROVE  RadioType'
  BY <1>a, <1>b, <1>6, ClosingLive DEF gap_disconnect, RadioType
<1>7. CASE StackCancelCreateConn \/ ScanTimeout \/ AdvTerminated \/ CommandStatus
           \/ DisconnectionComplete
  BY <1>6, <1>7 DEF StackCancelCreateConn, ScanTimeout, AdvTerminated, CommandStatus,
                    DisconnectionComplete
<1>8. CASE ConnectionComplete
  <2>1. UNCHANGED closing \/ \E hs : gap_disconnect(hs)
    BY <1>8 DEF ConnectionComplete, Register
  <2>2. UNCHANGED <<initiating, link>> /\ ll_max' \in {ll_max, NumHandles}
    BY <1>8 DEF ConnectionComplete
  <2> QED BY <1>a, <1>b, <2>1, <2>2, ClosingLive DEF gap_disconnect, RadioType
<1>9. CASE AtCommand
  <2>1. UNCHANGED <<ll_max, link, initiating>>
    BY <1>9 DEF AtCommand, Scan, DisconnAll, ModeIdle, ModeAdvertise, Conn, Disconn
  <2>2. UNCHANGED closing \/ \E hs : gap_disconnect(hs)
    BY <1>9 DEF AtCommand, Scan, DisconnAll, ModeIdle, ModeAdvertise, Conn, Disconn
  <2> QED BY <1>6, <2>1, <2>2
<1>10. ASSUME NEW h \in Handles, DiscoveryFails(h) PROVE RadioType'
  <2>1. UNCHANGED <<ll_max, link, initiating>> /\ gap_disconnect({h})
    BY <1>10 DEF DiscoveryFails
  <2> QED BY <1>6, <2>1
<1>11. CASE ScanExpires \/ InitiateTimeout \/ (\E a \in Addrs : AdvReport(a)) \/ UNCHANGED vars
  BY <1>6, <1>11 DEF ScanExpires, InitiateTimeout, AdvReport, vars
<1> QED
  BY <1>2, <1>3, <1>4, <1>5, <1>7, <1>8, <1>9, <1>10, <1>11 DEF Next, BtTask, World

(***************************************************************************)
(* Every state is well typed: handle_2_id names an id of the table for     *)
(* every handle, live or not, runnables carry the id of a master link, and *)
(* only links that are up are being closed.                                *)
(***************************************************************************)
THEOREM LinksTypeCorrect == Spec => []TypeOK
<1>1. TypeOK /\ [Next]_vars => TypeOK'
  <2> SUFFICES ASSUME TypeOK, [Next]_vars PROVE TypeOK'
    OBVIOUS
  <2>1. TableType' /\ FlagType' /\ WorkType' /\ RadioType' /\ events' \in Seq(Event)
    BY StepTable, StepFlags, StepWork, StepRadio, StepEvents
  <2> QED BY <2>1 DEF TypeOK, TableType, FlagType, WorkType, RadioType
<1> QED BY <1>1, InitType, PTL DEF Spec

-----------------------------------------------------------------------------
(* Advertising is not believed without cause *)

LEMMA StepAdv == TypeOK /\ AdvNotPhantom /\ [Next]_vars => AdvNotPhantom'
<1> SUFFICES ASSUME TypeOK, AdvNotPhantom, [Next]_vars, adv_ongoing'
             PROVE  advertising' \/ Pending("ADV_TERMINATED")' # {}
  BY DEF AdvNotPhantom
<1> USE DEF ongoing, radio
<1>a. events \in Seq(Event) /\ adv_ongoing \in BOOLEAN /\ advertising \in BOOLEAN
  BY DEF TypeOK
<1> DEFINE News(q) == \E i \in 1 .. Len(q) : q[i].type = "ADV_TERMINATED"
<1>b. events' \in Seq(Event)
  BY StepEvents
<1>c. /\ Pending("ADV_TERMINATED") # {} <=> News(events)
      /\ Pending("ADV_TERMINATED")' # {} <=> News(events')
  BY <1>a, <1>b DEF Pending
<1>d. ASSUME NEW e \in Seq(Event), Emit(e), News(events) \/ News(e) PROVE News(events')
  <2>1. /\ events' = events \o e /\ Len(events') = Len(events) + Len(e)
        /\ Len(events) \in Nat /\ Len(e) \in Nat
        /\ \A i \in 1 .. Len(events) : events'[i] = events[i]
        /\ \A i \in 1 .. Len(e) : events'[i + Len(events)] = e[i]
    BY <1>a, <1>d DEF Emit
  <2>2. CASE News(events)
    BY <2>1, <2>2
  <2>3. CASE News(e)
    <3>1. PICK i \in 1 .. Len(e) : e[i].type = "ADV_TERMINATED"
      BY <2>3
    <3>2. i + Len(events) \in 1 .. Len(events')
      BY <2>1, <3>1
    <3> QED BY <2>1, <3>1, <3>2
  <2> QED BY <1>d, <2>2, <2>3
<1>e. ASSUME NEW type, type # "ADV_TERMINATED", Handle(type), News(events)
      PROVE  News(events')
  <2>1. PICK i \in 1 .. Len(events) : events[i].type = "ADV_TERMINATED"
    BY <1>e
  <2>2. /\ events[1].type = type /\ Len(events') = Len(events) - 1
        /\ \A j \in 2 .. Len(events) : events'[j - 1] = events[j]
    BY <1>a, <1>e DEF Handle
  <2>3. i \in 2 .. Len(events) /\ i - 1 \in 1 .. Len(events')
    BY <1>a, <1>e, <2>1, <2>2
  <2> QED BY <2>1, <2>2, <2>3
<1> HIDE DEF News
<1>f. SUFFICES advertising' \/ News(events')
  BY <1>c
<1>1. ASSUME NEW h \in Handles, NEW a \in Addrs, PeerConnects(h, a)
      PROVE  News(events')
  <2>1. /\ <<Complete("slave", h, a), [type |-> "ADV_TERMINATED"]>> \in Seq(Event)
        /\ News(<<Complete("slave", h, a), [type |-> "ADV_TERMINATED"]>>)
    BY EventTypes DEF News
  <2> QED BY <1>1, <1>d, <2>1 DEF PeerConnects
<1>2. ASSUME UNCHANGED <<adv_ongoing, advertising>>, News(events) => News(events')
      PROVE  advertising' \/ News(events')
  BY <1>a, <1>c, <1>2 DEF AdvNotPhantom
<1>3. ASSUME NEW h \in Handles, Initiated(h) PROVE advertising' \/ News(events')
  <2>1. initiating \in Addrs
    BY <1>3 DEF Initiated, TypeOK
  <2>2. <<Complete("master", h, initiating)>> \in Seq(Event)
    BY <2>1, EventTypes
  <2> QED BY <1>d, <1>2, <1>3, <2>2 DEF Initiated
<1>4. ASSUME NEW h \in Handles, LinkEnds(h) PROVE advertising' \/ News(events')
  <2>1. <<[type |-> "DISCONNECTED", h |-> h]>> \in Seq(Event)
    BY EventTypes
  <2> QED BY <1>d, <1>2, <1>4, <2>1 DEF LinkEnds
<1>5. CASE ScanExpires
  <2>1. <<[type |-> "SCAN_TIMEOUT"]>> \in Seq(Event)
    BY EventTypes
  <2> QED BY <1>d, <1>2, <1>5, <2>1 DEF ScanExpires
<1>6. CASE StackInitiate
  <2>1. <<[type |-> "STATUS_7"]>> \in Seq(Event) /\ <<>> \in Seq(Event)
    BY EventTypes
  <2>2. UNCHANGED events \/ \E e \in Seq(Event) : Emit(e)
    BY <1>6, <2>1 DEF StackInitiate
  <2>3. UNCHANGED <<adv_ongoing, advertising>>
    BY <1>6 DEF StackInitiate
  <2> QED BY <1>d, <1>2, <2>2, <2>3
<1>7. CASE StackCancelCreateConn
  <2>1. <<Cancelled>> \in Seq(Event) /\ <<>> \in Seq(Event)
    BY EventTypes
  <2>2. \E e \in Seq(Event) : Emit(e)
    BY <1>7, <2>1 DEF StackCancelCreateConn
  <2>3. UNCHANGED <<adv_ongoing, advertising>>
    BY <1>7 DEF StackCancelCreateConn
  <2> QED BY <1>d, <1>2, <2>2, <2>3
<1>8. CASE ScanTimeout \/ CommandStatus \/ DisconnectionComplete
  <2>1. Handle("SCAN_TIMEOUT") \/ Handle("STATUS_7") \/ Handle("DISCONNECTED")
    BY <1>8 DEF ScanTimeout, CommandStatus, DisconnectionComplete
  <2>2. UNCHANGED <<adv_ongoing, advertising>>
    BY <1>8 DEF ScanTimeout, CommandStatus, DisconnectionComplete
  <2> QED BY <1>e, <1>2, <2>1, <2>2
<1>9. CASE ConnectionComplete
  <2>1. Handle("COMPLETE")
    BY <1>9 DEF ConnectionComplete
  <2>2. UNCHANGED <<adv_ongoing, advertising>> \/ ~adv_ongoing'
    BY <1>9 DEF ConnectionComplete, stop_adv
  <2> QED BY <1>e, <1>2, <2>1, <2>2
<1>10. ~AdvTerminated
  BY DEF AdvTerminated
<1>11. CASE ModeIdle
  <2>1. UNCHANGED <<adv_ongoing, advertising, events>>
    BY <1>11 DEF ModeIdle, stop_adv
  <2> QED BY <1>2, <2>1
<1>12. CASE ModeAdvertise
  BY <1>12 DEF ModeAdvertise
<1>13. CASE AtCommand /\ ~ModeIdle /\ ~ModeAdvertise
  <2>1. UNCHANGED <<adv_ongoing, advertising, events>>
    BY <1>13 DEF AtCommand, Scan, DisconnAll, Conn, Disconn
  <2> QED BY <1>2, <2>1
<1>14. CASE InitiateTimeout \/ (\E a \in Addrs : AdvReport(a))
            \/ (\E h \in Handles : DiscoveryFails(h)) \/ UNCHANGED vars
  <2>1. UNCHANGED <<adv_ongoing, advertising, events>>
    BY <1>14 DEF InitiateTimeout, AdvReport, DiscoveryFails, vars
  <2> QED BY <1>2, <2>1
<1> QED
  BY <1>1, <1>3, <1>4, <1>5, <1>6, <1>7, <1>8, <1>9, <1>10, <1>11, <1>12, <1>13, <1>14
     DEF Next, BtTask, World

(***************************************************************************)
(* adv_ongoing without advertising lasts only until the event on its way   *)
(* has been handled, whatever the order in which advertising is stopped    *)
(* and started, links come up and events arrive.                           *)
(***************************************************************************)
THEOREM AdvAlwaysReal == Spec => []AdvNotPhantom
<1>1. Init => AdvNotPhantom
  BY DEF Init, AdvNotPhantom
<1> QED BY <1>1, LinksTypeCorrect, StepAdv, PTL DEF Spec
-----------------------------------------------------------------------------
(***************************************************************************)
(* The table mirrors the controller                                        *)
(*                                                                         *)
(* The table follows the events, the controller is ahead of it.  What      *)
(* relates the two is the order in the queue q: the end of a link comes    *)
(* after its completion, and a completed link with a peer comes after the  *)
(* end of the one before with that peer.                                   *)
(***************************************************************************)

Places(q) == 1 .. Len(q)

Comes(e, h) == e.type = "COMPLETE" /\ e.h = h
Goes(e, h)  == e.type = "DISCONNECTED" /\ e.h = h
IsLink(e)   == e.type = "COMPLETE" /\ e.ok
Neutral(e)  == e.type # "DISCONNECTED" /\ (e.type = "COMPLETE" => e = Cancelled)

Awaited(q, h) == \E i \in Places(q) : Comes(q[i], h)
Gone(q, h)    == \E i \in Places(q) : Goes(q[i], h)

Links == [Handles -> {NoLink} \cup [role : {"master", "slave"}, a : Addrs]]

(* A completion is that of a link, or of a cancelled attempt. *)
Known(q) ==
  \A i \in Places(q) : q[i].type = "COMPLETE" =>
    \/ q[i] = Cancelled
    \/ \E role \in {"master", "slave"}, h \in Handles, a \in Addrs : q[i] = Complete(role, h, a)

(* A handle comes once and then goes once. *)
Once(q) ==
  \A h \in Handles : \A i, j \in Places(q) :
    /\ Comes(q[i], h) /\ Comes(q[j], h) => i = j
    /\ Goes(q[i], h) /\ Goes(q[j], h) => i = j
    /\ Comes(q[i], h) /\ Goes(q[j], h) => i < j

Ended(q, l) == \A h \in Handles : l[h] # NoLink => ~Gone(q, h)

(* A completed link is up, or its end comes behind. *)
Born(q, l) ==
  \A h \in Handles : \A i \in Places(q) : Comes(q[i], h) =>
    \/ l[h] = [role |-> q[i].role, a |-> q[i].a]
    \/ \E j \in Places(q) : i < j /\ Goes(q[j], h)

(* Between two links with one peer the first one ends. *)
Apart(q) ==
  \A i, k \in Places(q) : i < k /\ IsLink(q[i]) /\ IsLink(q[k]) /\ q[i].a = q[k].a =>
    \E j \in Places(q) : i < j /\ j < k /\ Goes(q[j], q[i].h)

Heard(q, l) == Known(q) /\ Once(q) /\ Ended(q, l) /\ Born(q, l) /\ Apart(q)

(* The table has what the host was told and not yet told the end of. *)
Owed(q, l, h) == ~Awaited(q, h) /\ (l[h] # NoLink \/ Gone(q, h))

Lead(q, l, hd, to) ==
  \A id \in Ids : hd[id] # INVALID_HANDLE => to[hd[id]] = id /\ Owed(q, l, hd[id])

Entered(q, l, hd, to) == \A h \in Handles : Owed(q, l, h) => hd[to[h]] = h

Matched(q, l, to, pa) ==
  \A h \in Handles : l[h] # NoLink /\ ~Awaited(q, h) =>
    /\ l[h].role = "master" <=> to[h] \in MasterIds
    /\ to[h] \in MasterIds => pa[to[h]] = l[h].a

(* Before a link with a peer is entered, the one in the table has ended. *)
Followed(q, hd, pa) ==
  \A i \in Places(q), id \in MasterIds :
    IsLink(q[i]) /\ q[i].role = "master" /\ hd[id] # INVALID_HANDLE /\ pa[id] = q[i].a =>
      \E j \in Places(q) : j < i /\ Goes(q[j], hd[id])

Listed(q, l, hd, to, pa) ==
  Lead(q, l, hd, to) /\ Entered(q, l, hd, to) /\ Matched(q, l, to, pa) /\ Followed(q, hd, pa)

(* What a step does to the queue. *)
Prefix(q, p) == Len(q) <= Len(p) /\ \A i \in Places(q) : p[i] = q[i]

Chatter(q, p) == Prefix(q, p) /\ \A i \in Places(p) : i > Len(q) => Neutral(p[i])

Announces(q, p, e) ==
  /\ Prefix(q, p) /\ Len(q) < Len(p) /\ p[Len(q) + 1] = e
  /\ \A i \in Places(p) : i > Len(q) + 1 => Neutral(p[i])

Shorter(q, p) == Len(q) = Len(p) + 1 /\ \A i \in Places(p) : p[i] = q[i + 1]

Disconnected(h) == [type |-> "DISCONNECTED", h |-> h]

LEMMA EventFacts ==
  /\ \A role \in {"master", "slave"}, h \in Handles, a \in Addrs : LET e == Complete(role, h, a) IN
       /\ e.type = "COMPLETE" /\ e.role = role /\ e.ok /\ e.h = h /\ e.a = a
       /\ IsLink(e) /\ \A g : ~Goes(e, g) /\ (Comes(e, g) <=> g = h)
  /\ \A h : LET e == Disconnected(h) IN
       /\ e.type = "DISCONNECTED" /\ e.h = h /\ ~IsLink(e)
       /\ \A g : ~Comes(e, g) /\ (Goes(e, g) <=> g = h)
  /\ \A e : Neutral(e) => ~IsLink(e) /\ \A h \in Handles : ~Comes(e, h) /\ ~Goes(e, h)
  /\ \A e : Neutral(e) /\ e.type = "COMPLETE" => e = Cancelled
<1>1. ASSUME NEW role \in {"master", "slave"}, NEW h \in Handles, NEW a \in Addrs,
             NEW e, e = Complete(role, h, a)
      PROVE  /\ e.type = "COMPLETE" /\ e.role = role /\ e.ok /\ e.h = h /\ e.a = a
             /\ IsLink(e) /\ \A g : ~Goes(e, g) /\ (Comes(e, g) <=> g = h)
  BY <1>1 DEF Complete, IsLink, Goes, Comes
<1>2. ASSUME NEW h, NEW e, e = Disconnected(h)
      PROVE  /\ e.type = "DISCONNECTED" /\ e.h = h /\ ~IsLink(e)
             /\ \A g : ~Comes(e, g) /\ (Goes(e, g) <=> g = h)
  BY <1>2 DEF Disconnected, IsLink, Goes, Comes
<1>3. ASSUME NEW e, Neutral(e)
      PROVE  ~IsLink(e) /\ \A h \in Handles : ~Comes(e, h) /\ ~Goes(e, h)
  <2>1. CASE e.type # "COMPLETE"
    BY <1>3, <2>1 DEF Neutral, IsLink, Comes, Goes
  <2>2. CASE e = Cancelled
    BY <2>2, LinksAssumption DEF Cancelled, IsLink, Comes, Goes
  <2> QED BY <1>3, <2>1, <2>2 DEF Neutral
<1> QED BY <1>1, <1>2, <1>3 DEF Neutral

LEMMA KnownFacts ==
  ASSUME NEW q, Known(q), NEW i \in Places(q)
  PROVE  /\ IsLink(q[i]) => /\ q[i].h \in Handles /\ q[i].a \in Addrs
                            /\ q[i].role \in {"master", "slave"} /\ Comes(q[i], q[i].h)
         /\ \A h \in Handles : Comes(q[i], h) => IsLink(q[i])
<1>1. CASE q[i].type # "COMPLETE"
  BY <1>1 DEF IsLink, Comes
<1>2. CASE q[i] = Cancelled
  BY <1>2, LinksAssumption DEF Cancelled, IsLink, Comes
<1>3. ASSUME NEW role \in {"master", "slave"}, NEW h \in Handles, NEW a \in Addrs,
             q[i] = Complete(role, h, a)
      PROVE  /\ IsLink(q[i]) /\ q[i].h \in Handles /\ q[i].a \in Addrs
             /\ q[i].role \in {"master", "slave"} /\ Comes(q[i], q[i].h)
  BY <1>3 DEF Complete, IsLink, Comes
<1> QED BY <1>1, <1>2, <1>3 DEF Known

(* Which handles come and go after a step. *)
LEMMA ChatterPends ==
  ASSUME NEW q \in Seq(Event), NEW p \in Seq(Event), Chatter(q, p), NEW h \in Handles
  PROVE  (Awaited(p, h) <=> Awaited(q, h)) /\ (Gone(p, h) <=> Gone(q, h))
<1>1. /\ \A i \in Places(q) : i \in Places(p) /\ p[i] = q[i]
      /\ \A i \in Places(p) : i \notin Places(q) => Neutral(p[i])
  BY LenProperties DEF Chatter, Prefix, Places
<1>2. \A i \in Places(p) : i \notin Places(q) => ~Comes(p[i], h) /\ ~Goes(p[i], h)
  BY <1>1, EventFacts
<1> HIDE DEF Places
<1> QED BY <1>1, <1>2 DEF Awaited, Gone

LEMMA AnnouncesPends ==
  ASSUME NEW q \in Seq(Event), NEW p \in Seq(Event), NEW e, Announces(q, p, e), NEW h \in Handles
  PROVE  /\ Awaited(p, h) <=> Awaited(q, h) \/ Comes(e, h)
         /\ Gone(p, h) <=> Gone(q, h) \/ Goes(e, h)
<1> DEFINE n == Len(q) + 1
<1>1. /\ \A i \in Places(q) : i \in Places(p) /\ p[i] = q[i]
      /\ n \in Places(p) /\ p[n] = e
      /\ \A i \in Places(p) : i \notin Places(q) /\ i # n => Neutral(p[i])
  BY LenProperties DEF Announces, Prefix, Places
<1>2. \A i \in Places(p) : i \notin Places(q) /\ i # n => ~Comes(p[i], h) /\ ~Goes(p[i], h)
  BY <1>1, EventFacts
<1> HIDE DEF n
<1> QED BY <1>1, <1>2 DEF Awaited, Gone

LEMMA ShorterPends ==
  ASSUME NEW q \in Seq(Event), NEW p \in Seq(Event), Shorter(q, p), NEW h \in Handles
  PROVE  /\ Awaited(q, h) <=> Awaited(p, h) \/ Comes(q[1], h)
         /\ Gone(q, h) <=> Gone(p, h) \/ Goes(q[1], h)
<1>1. /\ 1 \in Places(q)
      /\ \A i \in Places(p) : i + 1 \in Places(q) /\ q[i + 1] = p[i]
      /\ \A i \in Places(q) : i # 1 => i - 1 \in Places(p) /\ p[i - 1] = q[i]
  BY LenProperties DEF Shorter, Places
<1> QED BY <1>1 DEF Awaited, Gone

(* The first of a kind is the only one. *)
LEMMA HeadOnce ==
  ASSUME NEW q \in Seq(Event), NEW p \in Seq(Event), Shorter(q, p), Once(q), NEW h \in Handles
  PROVE  /\ Comes(q[1], h) => ~Awaited(p, h)
         /\ Goes(q[1], h) => ~Gone(p, h) /\ ~Awaited(q, h)
<1>1. /\ 1 \in Places(q)
      /\ \A i \in Places(p) : i + 1 \in Places(q) /\ q[i + 1] = p[i] /\ i + 1 # 1
      /\ \A i \in Places(q) : ~(i < 1)
  BY LenProperties DEF Shorter, Places
<1>2. Comes(q[1], h) => ~Awaited(p, h)
  BY <1>1 DEF Awaited, Once
<1>3. Goes(q[1], h) => ~Gone(p, h)
  BY <1>1 DEF Gone, Once
<1>4. Goes(q[1], h) => ~Awaited(q, h)
  BY <1>1 DEF Awaited, Once
<1> QED BY <1>2, <1>3, <1>4

(* How a queue that grew is indexed. *)
LEMMA ChatterPlaces ==
  ASSUME NEW q \in Seq(Event), NEW p \in Seq(Event), Chatter(q, p)
  PROVE  /\ \A i \in Places(q) : i \in Places(p) /\ i \in Nat /\ p[i] = q[i]
         /\ \A i \in Places(p) : i \notin Places(q) =>
              ~IsLink(p[i]) /\ \A h \in Handles : ~Comes(p[i], h) /\ ~Goes(p[i], h)
         /\ \A i \in Places(p) : i \notin Places(q) => Neutral(p[i])
<1>1. /\ \A i \in Places(q) : i \in Places(p) /\ i \in Nat /\ p[i] = q[i]
      /\ \A i \in Places(p) : i \notin Places(q) => Neutral(p[i])
  BY LenProperties DEF Chatter, Prefix, Places
<1> QED BY <1>1, EventFacts

LEMMA AnnouncesPlaces ==
  ASSUME NEW q \in Seq(Event), NEW p \in Seq(Event), NEW e, Announces(q, p, e)
  PROVE  \E n \in Nat :
         /\ \A i \in Places(q) : i \in Places(p) /\ i \in Nat /\ p[i] = q[i] /\ i < n
         /\ n \in Places(p) /\ p[n] = e
         /\ \A i \in Places(p) : i \notin Places(q) /\ i # n =>
              ~IsLink(p[i]) /\ \A h \in Handles : ~Comes(p[i], h) /\ ~Goes(p[i], h)
         /\ \A i \in Places(p) : i \notin Places(q) /\ i # n => Neutral(p[i])
<1> DEFINE n == Len(q) + 1
<1>1. /\ \A i \in Places(q) : i \in Places(p) /\ i \in Nat /\ p[i] = q[i] /\ i < n
      /\ n \in Places(p) /\ p[n] = e
      /\ \A i \in Places(p) : i \notin Places(q) /\ i # n => Neutral(p[i])
  BY LenProperties DEF Announces, Prefix, Places
<1>2. n \in Nat
  BY LenProperties
<1> HIDE DEF n
<1> QED BY <1>1, <1>2, EventFacts

LEMMA ShorterPlaces ==
  ASSUME NEW q \in Seq(Event), NEW p \in Seq(Event), Shorter(q, p)
  PROVE  /\ 1 \in Places(q)
         /\ \A i \in Places(p) : i \in Nat /\ i + 1 \in Places(q) /\ q[i + 1] = p[i]
         /\ \A i \in Places(q) : i \in Nat /\ i >= 1
         /\ \A i \in Places(q) : i # 1 => i - 1 \in Places(p) /\ p[i - 1] = q[i]
BY LenProperties DEF Shorter, Places

(* The order in the queue is kept by what does not touch links, *)
LEMMA ChatterHeard ==
  ASSUME NEW q \in Seq(Event), NEW p \in Seq(Event), NEW l, Heard(q, l), Chatter(q, p)
  PROVE  Heard(p, l)
<1>1. /\ \A i \in Places(q) : i \in Places(p) /\ i \in Nat /\ p[i] = q[i]
      /\ \A i \in Places(p) : i \notin Places(q) =>
           ~IsLink(p[i]) /\ \A h \in Handles : ~Comes(p[i], h) /\ ~Goes(p[i], h)
      /\ \A i \in Places(p) : i \notin Places(q) => Neutral(p[i])
  BY ChatterPlaces
<1>2. Known(p)
  BY <1>1 DEF Heard, Known, Neutral
<1>3. Once(p)
  BY <1>1 DEF Heard, Once
<1>4. Ended(p, l)
  BY ChatterPends DEF Heard, Ended
<1>5. Born(p, l)
  BY <1>1 DEF Heard, Born
<1>6. Apart(p)
  BY <1>1 DEF Heard, Apart
<1> QED BY <1>2, <1>3, <1>4, <1>5, <1>6 DEF Heard

(* by a link that comes up, *)
LEMMA UpHeard ==
  ASSUME NEW q \in Seq(Event), NEW p \in Seq(Event), NEW l \in Links, Heard(q, l),
         NEW role \in {"master", "slave"}, NEW h \in Handles, NEW a \in Addrs,
         Announces(q, p, Complete(role, h, a)), l[h] = NoLink, ~Gone(q, h),
         \A g \in Handles : l[g] # NoLink => l[g].a # a,
         NEW m, m = [l EXCEPT ![h] = [role |-> role, a |-> a]]
  PROVE  Heard(p, m) /\ ~Awaited(q, h)
<1> DEFINE e == Complete(role, h, a)
<1>1. /\ e.type = "COMPLETE" /\ e.role = role /\ e.h = h /\ e.a = a /\ IsLink(e)
      /\ \A g : ~Goes(e, g) /\ (Comes(e, g) <=> g = h)
  BY EventFacts
<1>2. e = Complete(role, h, a)
  OBVIOUS
<1> HIDE DEF e
<1>3. PICK n \in Nat :
         /\ \A i \in Places(q) : i \in Places(p) /\ i \in Nat /\ p[i] = q[i] /\ i < n
         /\ n \in Places(p) /\ p[n] = e
         /\ \A i \in Places(p) : i \notin Places(q) /\ i # n =>
              ~IsLink(p[i]) /\ \A g \in Handles : ~Comes(p[i], g) /\ ~Goes(p[i], g)
         /\ \A i \in Places(p) : i \notin Places(q) /\ i # n => Neutral(p[i])
  BY <1>2, AnnouncesPlaces
<1>4. /\ Known(q) /\ Once(q) /\ Ended(q, l) /\ Born(q, l) /\ Apart(q)
  BY DEF Heard
<1>5. \A i \in Places(q) : ~Comes(q[i], h) /\ ~Goes(q[i], h)
  <2>1. \A i \in Places(q) : ~Goes(q[i], h)
    BY DEF Gone
  <2>2. \A i \in Places(q) : Comes(q[i], h) => q[i].role \in {"master", "slave"}
    BY <1>4, KnownFacts
  <2>3. \A x, y : x \in {"master", "slave"} => [role |-> x, a |-> y] # NoLink
    BY DEF NoLink
  <2>4. ASSUME NEW i \in Places(q), Comes(q[i], h) PROVE FALSE
    <3>1. l[h] # [role |-> q[i].role, a |-> q[i].a]
      BY <2>2, <2>3, <2>4
    <3>2. \E j \in Places(q) : i < j /\ Goes(q[j], h)
      BY <1>4, <2>4, <3>1 DEF Born
    <3> QED BY <2>1, <3>2
  <2> QED BY <2>1, <2>4
<1>6. /\ m[h] = [role |-> role, a |-> a] /\ m[h] # NoLink
      /\ \A g \in Handles : g # h => m[g] = l[g]
  BY DEF Links, NoLink
<1>7. Known(p)
  BY <1>2, <1>3, <1>4 DEF Known, Neutral
<1>8. Once(p)
  BY <1>1, <1>3, <1>4, <1>5 DEF Once
<1>9. Ended(p, m)
  <2>1. \A g \in Handles : Gone(p, g) <=> Gone(q, g)
    BY <1>1, <1>2, AnnouncesPends
  <2> QED BY <1>4, <1>6, <2>1 DEF Ended
<1>10. Born(p, m)
  <2> SUFFICES ASSUME NEW g \in Handles, NEW i \in Places(p), Comes(p[i], g)
               PROVE  \/ m[g] = [role |-> p[i].role, a |-> p[i].a]
                      \/ \E j \in Places(p) : i < j /\ Goes(p[j], g)
    BY DEF Born
  <2>1. CASE i \in Places(q)
    <3>1. Comes(q[i], g) /\ p[i] = q[i] /\ g # h
      BY <1>3, <1>5, <2>1
    <3>2. \/ l[g] = [role |-> q[i].role, a |-> q[i].a]
          \/ \E j \in Places(q) : i < j /\ Goes(q[j], g)
      BY <1>4, <2>1, <3>1 DEF Born
    <3> QED BY <1>3, <1>6, <3>1, <3>2
  <2>2. CASE i = n
    BY <1>1, <1>3, <1>6, <2>2
  <2> QED BY <1>3, <2>1, <2>2
<1>11. Apart(p)
  <2> SUFFICES ASSUME NEW i \in Places(p), NEW k \in Places(p), i < k, IsLink(p[i]), IsLink(p[k]),
                      p[i].a = p[k].a
               PROVE  \E j \in Places(p) : i < j /\ j < k /\ Goes(p[j], p[i].h)
    BY DEF Apart
  <2>1. i \in Places(q) \/ i = n
    BY <1>3
  <2>2. k \in Places(q) \/ k = n
    BY <1>3
  <2>3. i \in Places(q) /\ p[i] = q[i]
    BY <1>3, <2>1, <2>2
  <2>4. CASE k \in Places(q)
    BY <1>3, <1>4, <2>3, <2>4 DEF Apart
  <2>5. CASE k = n
    <3>1. /\ q[i].h \in Handles /\ Comes(q[i], q[i].h) /\ q[i].a = a
          /\ q[i].role \in {"master", "slave"}
      BY <1>1, <1>3, <1>4, <2>3, <2>5, KnownFacts
    <3>2. ~(l[q[i].h] = [role |-> q[i].role, a |-> q[i].a])
      <4> SUFFICES ASSUME l[q[i].h] = [role |-> q[i].role, a |-> q[i].a] PROVE FALSE
        OBVIOUS
      <4>1. l[q[i].h].a = a /\ l[q[i].h] # NoLink
        BY <3>1 DEF NoLink
      <4> QED BY <3>1, <4>1
    <3>3. PICK j \in Places(q) : i < j /\ Goes(q[j], q[i].h)
      BY <1>4, <2>3, <3>1, <3>2 DEF Born
    <3> QED BY <1>3, <2>3, <2>5, <3>3
  <2> QED BY <2>2, <2>4, <2>5
<1> QED BY <1>5, <1>7, <1>8, <1>9, <1>10, <1>11 DEF Heard, Awaited

(* by one that ends, *)
LEMMA EndsHeard ==
  ASSUME NEW q \in Seq(Event), NEW p \in Seq(Event), NEW l \in Links, Heard(q, l),
         NEW h \in Handles, Announces(q, p, Disconnected(h)), l[h] # NoLink,
         NEW m, m = [l EXCEPT ![h] = NoLink]
  PROVE  Heard(p, m) /\ ~Gone(q, h)
<1> DEFINE e == Disconnected(h)
<1>1. /\ e.type = "DISCONNECTED" /\ e.h = h /\ ~IsLink(e)
      /\ \A g : ~Comes(e, g) /\ (Goes(e, g) <=> g = h)
  BY EventFacts
<1>2. e = Disconnected(h)
  OBVIOUS
<1> HIDE DEF e
<1>3. PICK n \in Nat :
         /\ \A i \in Places(q) : i \in Places(p) /\ i \in Nat /\ p[i] = q[i] /\ i < n
         /\ n \in Places(p) /\ p[n] = e
         /\ \A i \in Places(p) : i \notin Places(q) /\ i # n =>
              ~IsLink(p[i]) /\ \A g \in Handles : ~Comes(p[i], g) /\ ~Goes(p[i], g)
         /\ \A i \in Places(p) : i \notin Places(q) /\ i # n => Neutral(p[i])
  BY <1>2, AnnouncesPlaces
<1>4. /\ Known(q) /\ Once(q) /\ Ended(q, l) /\ Born(q, l) /\ Apart(q)
  BY DEF Heard
<1>5. ~Gone(q, h) /\ \A i \in Places(q) : ~Goes(q[i], h)
  BY <1>4 DEF Ended, Gone
<1>6. m[h] = NoLink /\ \A g \in Handles : g # h => m[g] = l[g]
  BY DEF Links
<1>7. Known(p)
  BY <1>1, <1>3, <1>4 DEF Known, Neutral
<1>8. Once(p)
  BY <1>1, <1>3, <1>4, <1>5 DEF Once
<1>9. Ended(p, m)
  <2>1. \A g \in Handles : Gone(p, g) <=> Gone(q, g) \/ g = h
    BY <1>1, <1>2, AnnouncesPends
  <2> QED BY <1>4, <1>6, <2>1 DEF Ended
<1>10. Born(p, m)
  BY <1>1, <1>3, <1>4, <1>6 DEF Born
<1>11. Apart(p)
  BY <1>1, <1>3, <1>4 DEF Apart
<1> QED BY <1>5, <1>7, <1>8, <1>9, <1>10, <1>11 DEF Heard

(* and by the task that takes the first event. *)
LEMMA ShorterHeard ==
  ASSUME NEW q \in Seq(Event), NEW p \in Seq(Event), NEW l, Heard(q, l), Shorter(q, p)
  PROVE  Heard(p, l)
<1>1. /\ 1 \in Places(q)
      /\ \A i \in Places(p) : i \in Nat /\ i + 1 \in Places(q) /\ q[i + 1] = p[i]
      /\ \A i \in Places(q) : i \in Nat /\ i >= 1
      /\ \A i \in Places(q) : i # 1 => i - 1 \in Places(p) /\ p[i - 1] = q[i]
  BY ShorterPlaces
<1>2. Known(p)
  BY <1>1 DEF Heard, Known
<1>3. Once(p)
  <2> SUFFICES ASSUME NEW h \in Handles, NEW i \in Places(p), NEW j \in Places(p)
               PROVE  /\ Comes(p[i], h) /\ Comes(p[j], h) => i = j
                      /\ Goes(p[i], h) /\ Goes(p[j], h) => i = j
                      /\ Comes(p[i], h) /\ Goes(p[j], h) => i < j
    BY DEF Once
  <2> DEFINE i1 == i + 1
             j1 == j + 1
  <2>1. /\ i1 \in Places(q) /\ j1 \in Places(q) /\ q[i1] = p[i] /\ q[j1] = p[j]
        /\ (i1 = j1 => i = j) /\ (i1 < j1 => i < j)
    BY <1>1
  <2> HIDE DEF i1, j1
  <2> QED BY <2>1 DEF Heard, Once
<1>4. Ended(p, l)
  BY ShorterPends DEF Heard, Ended
<1>5. Born(p, l)
  <2> SUFFICES ASSUME NEW h \in Handles, NEW i \in Places(p), Comes(p[i], h),
                      ~(l[h] = [role |-> p[i].role, a |-> p[i].a])
               PROVE  \E j \in Places(p) : i < j /\ Goes(p[j], h)
    BY DEF Born
  <2>1. i + 1 \in Places(q) /\ q[i + 1] = p[i] /\ i \in Nat
    BY <1>1
  <2>2. PICK j \in Places(q) : i + 1 < j /\ Goes(q[j], h)
    BY <2>1 DEF Heard, Born
  <2>3. j - 1 \in Places(p) /\ p[j - 1] = q[j] /\ i < j - 1
    BY <1>1, <2>1, <2>2
  <2> QED BY <2>2, <2>3
<1>6. Apart(p)
  <2> SUFFICES ASSUME NEW i \in Places(p), NEW k \in Places(p), i < k, IsLink(p[i]), IsLink(p[k]),
                      p[i].a = p[k].a
               PROVE  \E j \in Places(p) : i < j /\ j < k /\ Goes(p[j], p[i].h)
    BY DEF Apart
  <2>1. /\ i + 1 \in Places(q) /\ q[i + 1] = p[i] /\ i \in Nat
        /\ k + 1 \in Places(q) /\ q[k + 1] = p[k] /\ k \in Nat
    BY <1>1
  <2>2. PICK j \in Places(q) : i + 1 < j /\ j < k + 1 /\ Goes(q[j], q[i + 1].h)
    <3>1. i + 1 < k + 1
      BY <2>1
    <3> QED BY <2>1, <3>1 DEF Heard, Apart
  <2>3. j - 1 \in Places(p) /\ p[j - 1] = q[j] /\ i < j - 1 /\ j - 1 < k
    BY <1>1, <2>1, <2>2
  <2> QED BY <2>1, <2>2, <2>3
<1> QED BY <1>2, <1>3, <1>4, <1>5, <1>6 DEF Heard

-----------------------------------------------------------------------------
(* The table, through each kind of step *)

Table(hd, to) == hd \in [Ids -> Handles \cup {INVALID_HANDLE}] /\ to \in [Handles -> Ids]

LEMMA MasterIdsAreIds == MasterIds \subseteq Ids /\ SlaveIds \subseteq Ids /\ SlaveIds \cap MasterIds = {}
BY LinksAssumption DEF MasterIds, SlaveIds, Ids

LEMMA ChatterListed ==
  ASSUME NEW q \in Seq(Event), NEW p \in Seq(Event), NEW l, NEW hd, NEW to, NEW pa, Table(hd, to),
         Listed(q, l, hd, to, pa), Chatter(q, p)
  PROVE  Listed(p, l, hd, to, pa)
<1>1. \A h \in Handles : Awaited(p, h) <=> Awaited(q, h)
  BY ChatterPends
<1>2. \A h \in Handles : Owed(p, l, h) <=> Owed(q, l, h)
  BY ChatterPends DEF Owed
<1>3. /\ \A i \in Places(q) : i \in Places(p) /\ p[i] = q[i]
      /\ \A i \in Places(p) : i \notin Places(q) => ~IsLink(p[i])
  BY ChatterPlaces
<1>4. Lead(p, l, hd, to) /\ Entered(p, l, hd, to)
  BY <1>2 DEF Listed, Lead, Entered, Table
<1>5. Matched(p, l, to, pa)
  BY <1>1 DEF Listed, Matched
<1>6. Followed(p, hd, pa)
  BY <1>3 DEF Listed, Followed
<1> QED BY <1>4, <1>5, <1>6 DEF Listed

(* AT+CONN writes the address of a peer into a free entry. *)
LEMMA DialListed ==
  ASSUME NEW q, NEW l, NEW hd, NEW to, NEW pa \in [Ids -> Addrs \cup {NoAddr}], Table(hd, to),
         Listed(q, l, hd, to, pa), NEW id \in MasterIds, hd[id] = INVALID_HANDLE,
         NEW a, NEW pb, pb = [pa EXCEPT ![id] = a]
  PROVE  Listed(q, l, hd, to, pb)
<1>1. \A j \in Ids : j # id => pb[j] = pa[j]
  OBVIOUS
<1>2. Matched(q, l, to, pb)
  <2>1. ASSUME NEW h \in Handles, l[h] # NoLink, ~Awaited(q, h)
        PROVE  to[h] \in Ids /\ to[h] # id
    <3>1. hd[to[h]] = h
      BY <2>1 DEF Listed, Entered, Owed
    <3> QED BY <3>1, LinksAssumption DEF Table
  <2> QED BY <1>1, <2>1 DEF Listed, Matched
<1>3. Followed(q, hd, pb)
  BY <1>1, MasterIdsAreIds DEF Listed, Followed
<1> QED BY <1>2, <1>3 DEF Listed

(* A link that comes up is not entered yet, and the last one with the peer *)
(* has ended.                                                              *)
LEMMA UpListed ==
  ASSUME NEW q \in Seq(Event), NEW p \in Seq(Event), NEW l \in Links, NEW hd, NEW to, NEW pa,
         Table(hd, to), Listed(q, l, hd, to, pa),
         NEW role \in {"master", "slave"}, NEW h \in Handles, NEW a \in Addrs,
         Announces(q, p, Complete(role, h, a)), l[h] = NoLink, ~Gone(q, h),
         \A g \in Handles : l[g] # NoLink => l[g].a # a,
         NEW m, m = [l EXCEPT ![h] = [role |-> role, a |-> a]]
  PROVE  Listed(p, m, hd, to, pa)
<1> DEFINE e == Complete(role, h, a)
<1>1. /\ e.type = "COMPLETE" /\ e.role = role /\ e.h = h /\ e.a = a /\ IsLink(e)
      /\ \A g : ~Goes(e, g) /\ (Comes(e, g) <=> g = h)
  BY EventFacts
<1>2. e = Complete(role, h, a)
  OBVIOUS
<1> HIDE DEF e
<1>3. PICK n \in Nat :
         /\ \A i \in Places(q) : i \in Places(p) /\ i \in Nat /\ p[i] = q[i] /\ i < n
         /\ n \in Places(p) /\ p[n] = e
         /\ \A i \in Places(p) : i \notin Places(q) /\ i # n =>
              ~IsLink(p[i]) /\ \A g \in Handles : ~Comes(p[i], g) /\ ~Goes(p[i], g)
         /\ \A i \in Places(p) : i \notin Places(q) /\ i # n => Neutral(p[i])
  BY <1>2, AnnouncesPlaces
<1>4. \A g \in Handles : /\ Awaited(p, g) <=> Awaited(q, g) \/ g = h
                         /\ Gone(p, g) <=> Gone(q, g)
  BY <1>1, <1>2, AnnouncesPends
<1>5. m[h] # NoLink /\ \A g \in Handles : g # h => m[g] = l[g]
  BY DEF Links, NoLink
<1>6. ~Owed(q, l, h) /\ \A g \in Handles : Owed(p, m, g) <=> Owed(q, l, g)
  BY <1>4, <1>5 DEF Owed
<1>7. Lead(p, m, hd, to) /\ Entered(p, m, hd, to)
  BY <1>6 DEF Listed, Lead, Entered, Table
<1>8. Matched(p, m, to, pa)
  BY <1>4, <1>5 DEF Listed, Matched
<1>9. Followed(p, hd, pa)
  <2> SUFFICES ASSUME NEW i \in Places(p), NEW id \in MasterIds, IsLink(p[i]), p[i].role = "master",
                      hd[id] # INVALID_HANDLE, pa[id] = p[i].a
               PROVE  \E j \in Places(p) : j < i /\ Goes(p[j], hd[id])
    BY DEF Followed
  <2>1. CASE i \in Places(q)
    <3>1. PICK j \in Places(q) : j < i /\ Goes(q[j], hd[id])
      BY <1>3, <2>1 DEF Listed, Followed
    <3> QED BY <1>3, <3>1
  <2>2. CASE i = n
    <3> DEFINE g == hd[id]
    <3>1. g \in Handles /\ to[g] = id /\ Owed(q, l, g)
      BY MasterIdsAreIds DEF Table, Listed, Lead
    <3>2. pa[id] = a
      BY <1>1, <1>3, <2>2
    <3>3. l[g] = NoLink
      <4>1. l[g] # NoLink => pa[to[g]] = l[g].a
        BY <3>1 DEF Listed, Matched, Owed
      <4> QED BY <3>1, <3>2, <4>1
    <3>4. PICK j \in Places(q) : Goes(q[j], g)
      BY <3>1, <3>3 DEF Owed, Gone
    <3> QED BY <1>3, <2>2, <3>4
  <2> QED BY <1>3, <2>1, <2>2
<1> QED BY <1>7, <1>8, <1>9 DEF Listed

LEMMA EndsListed ==
  ASSUME NEW q \in Seq(Event), NEW p \in Seq(Event), NEW l \in Links, NEW hd, NEW to, NEW pa,
         Table(hd, to), Listed(q, l, hd, to, pa),
         NEW h \in Handles, Announces(q, p, Disconnected(h)), l[h] # NoLink,
         NEW m, m = [l EXCEPT ![h] = NoLink]
  PROVE  Listed(p, m, hd, to, pa)
<1> DEFINE e == Disconnected(h)
<1>1. ~IsLink(e) /\ \A g : ~Comes(e, g) /\ (Goes(e, g) <=> g = h)
  BY EventFacts
<1>2. e = Disconnected(h)
  OBVIOUS
<1> HIDE DEF e
<1>3. PICK n \in Nat :
         /\ \A i \in Places(q) : i \in Places(p) /\ i \in Nat /\ p[i] = q[i] /\ i < n
         /\ n \in Places(p) /\ p[n] = e
         /\ \A i \in Places(p) : i \notin Places(q) /\ i # n =>
              ~IsLink(p[i]) /\ \A g \in Handles : ~Comes(p[i], g) /\ ~Goes(p[i], g)
         /\ \A i \in Places(p) : i \notin Places(q) /\ i # n => Neutral(p[i])
  BY <1>2, AnnouncesPlaces
<1>4. \A g \in Handles : /\ Awaited(p, g) <=> Awaited(q, g)
                         /\ Gone(p, g) <=> Gone(q, g) \/ g = h
  BY <1>1, <1>2, AnnouncesPends
<1>5. m[h] = NoLink /\ \A g \in Handles : g # h => m[g] = l[g]
  BY DEF Links
<1>6. \A g \in Handles : Owed(p, m, g) <=> Owed(q, l, g)
  BY <1>4, <1>5 DEF Owed
<1>7. Lead(p, m, hd, to) /\ Entered(p, m, hd, to)
  BY <1>6 DEF Listed, Lead, Entered, Table
<1>8. Matched(p, m, to, pa)
  BY <1>4, <1>5 DEF Listed, Matched
<1>9. Followed(p, hd, pa)
  BY <1>1, <1>3 DEF Listed, Followed
<1> QED BY <1>7, <1>8, <1>9 DEF Listed

(* An event that is about no link. *)
LEMMA SkipListed ==
  ASSUME NEW q \in Seq(Event), NEW p \in Seq(Event), NEW l, NEW hd, NEW to, NEW pa, Table(hd, to),
         Listed(q, l, hd, to, pa), Shorter(q, p), Neutral(q[1])
  PROVE  Listed(p, l, hd, to, pa)
<1>1. ~IsLink(q[1]) /\ \A h \in Handles : ~Comes(q[1], h) /\ ~Goes(q[1], h)
  BY EventFacts
<1>2. /\ \A i \in Places(p) : i \in Nat /\ i + 1 \in Places(q) /\ q[i + 1] = p[i]
      /\ \A i \in Places(q) : i \in Nat /\ i >= 1
      /\ \A i \in Places(q) : i # 1 => i - 1 \in Places(p) /\ p[i - 1] = q[i]
  BY ShorterPlaces
<1>3. \A h \in Handles : (Awaited(p, h) <=> Awaited(q, h)) /\ (Gone(p, h) <=> Gone(q, h))
  BY <1>1, ShorterPends
<1>4. \A h \in Handles : Owed(p, l, h) <=> Owed(q, l, h)
  BY <1>3 DEF Owed
<1>5. Lead(p, l, hd, to) /\ Entered(p, l, hd, to)
  BY <1>4 DEF Listed, Lead, Entered, Table
<1>6. Matched(p, l, to, pa)
  BY <1>3 DEF Listed, Matched
<1>7. Followed(p, hd, pa)
  <2> SUFFICES ASSUME NEW i \in Places(p), NEW id \in MasterIds, IsLink(p[i]), p[i].role = "master",
                      hd[id] # INVALID_HANDLE, pa[id] = p[i].a
               PROVE  \E j \in Places(p) : j < i /\ Goes(p[j], hd[id])
    BY DEF Followed
  <2>1. i + 1 \in Places(q) /\ q[i + 1] = p[i] /\ i \in Nat
    BY <1>2
  <2>2. PICK j \in Places(q) : j < i + 1 /\ Goes(q[j], hd[id])
    BY <2>1 DEF Listed, Followed
  <2>3. j # 1
    BY <1>1, <2>2, MasterIdsAreIds DEF Table
  <2>4. j - 1 \in Places(p) /\ p[j - 1] = q[j] /\ j - 1 < i
    BY <1>2, <2>1, <2>2, <2>3
  <2> QED BY <2>2, <2>4
<1> QED BY <1>5, <1>6, <1>7 DEF Listed

(* at_on_connection_complete enters a link in an entry that is free. *)
Enters(e, id, hd, to, pa, hd2, to2, pa2) ==
  /\ hd[id] = INVALID_HANDLE
  /\ hd2 = [hd EXCEPT ![id] = e.h] /\ to2 = [to EXCEPT ![e.h] = id]
  /\ \/ e.role = "slave" /\ id \in SlaveIds /\ pa2 = [pa EXCEPT ![id] = e.a]
     \/ e.role = "master" /\ id \in MasterIds /\ pa[id] = e.a /\ pa2 = pa

LEMMA EnterListed ==
  ASSUME NEW q \in Seq(Event), NEW p \in Seq(Event), NEW l, NEW hd, NEW to,
         NEW pa \in [Ids -> Addrs \cup {NoAddr}], Table(hd, to), Heard(q, l),
         Listed(q, l, hd, to, pa), Shorter(q, p), IsLink(q[1]), NEW id \in Ids,
         NEW hd2, NEW to2, NEW pa2, Enters(q[1], id, hd, to, pa, hd2, to2, pa2)
  PROVE  Listed(p, l, hd2, to2, pa2)
<1> DEFINE h == q[1].h
<1>0. /\ hd[id] = INVALID_HANDLE /\ hd2 = [hd EXCEPT ![id] = h] /\ to2 = [to EXCEPT ![h] = id]
      /\ \/ q[1].role = "slave" /\ id \in SlaveIds /\ pa2 = [pa EXCEPT ![id] = q[1].a]
         \/ q[1].role = "master" /\ id \in MasterIds /\ pa[id] = q[1].a /\ pa2 = pa
  BY DEF Enters
<1> USE <1>0
<1> HIDE DEF h
<1>1. Known(q) /\ Once(q) /\ Ended(q, l) /\ Born(q, l) /\ Apart(q)
  BY DEF Heard
<1>2. /\ 1 \in Places(q)
      /\ \A i \in Places(p) : i \in Nat /\ i + 1 \in Places(q) /\ q[i + 1] = p[i]
      /\ \A i \in Places(q) : i \in Nat /\ i >= 1
      /\ \A i \in Places(q) : i # 1 => i - 1 \in Places(p) /\ p[i - 1] = q[i]
  BY ShorterPlaces
<1>3. /\ h \in Handles /\ Comes(q[1], h) /\ q[1].role \in {"master", "slave"}
      /\ \A g : ~Goes(q[1], g)
      /\ \A g : Comes(q[1], g) => g = h
  <2>1. h \in Handles /\ Comes(q[1], h) /\ q[1].role \in {"master", "slave"}
    BY <1>1, <1>2, KnownFacts DEF h
  <2> QED BY <2>1 DEF Comes, Goes
<1>4. ~Awaited(p, h) /\ Awaited(q, h)
  BY <1>1, <1>2, <1>3, HeadOnce DEF Awaited
<1>5. /\ \A g \in Handles : Gone(p, g) <=> Gone(q, g)
      /\ \A g \in Handles : g # h => (Awaited(p, g) <=> Awaited(q, g))
  BY <1>3, ShorterPends
<1>6. ~Owed(q, l, h) /\ \A g \in Handles : g # h => (Owed(p, l, g) <=> Owed(q, l, g))
  BY <1>4, <1>5 DEF Owed
<1>7. l[h] = [role |-> q[1].role, a |-> q[1].a] \/ Gone(q, h)
  BY <1>1, <1>2, <1>3 DEF Born, Gone
<1>8. Owed(p, l, h)
  <2>1. [role |-> q[1].role, a |-> q[1].a] # NoLink
    BY <1>3 DEF NoLink
  <2> QED BY <1>3, <1>4, <1>5, <1>7, <2>1 DEF Owed
<1>9. /\ hd2[id] = h /\ to2[h] = id
      /\ \A i \in Ids : i # id => hd2[i] = hd[i]
      /\ \A g \in Handles : g # h => to2[g] = to[g]
  BY <1>3 DEF Table
<1>10. Lead(p, l, hd2, to2)
  <2> SUFFICES ASSUME NEW i \in Ids, hd2[i] # INVALID_HANDLE
               PROVE  to2[hd2[i]] = i /\ Owed(p, l, hd2[i])
    BY DEF Lead
  <2>1. CASE i = id
    BY <1>8, <1>9, <2>1
  <2>2. CASE i # id
    <3>1. hd2[i] = hd[i] /\ hd[i] \in Handles /\ to[hd[i]] = i /\ Owed(q, l, hd[i])
      BY <1>9, <2>2 DEF Table, Listed, Lead
    <3>2. hd[i] # h
      BY <1>6, <3>1
    <3> QED BY <1>6, <1>9, <3>1, <3>2
  <2> QED BY <2>1, <2>2
<1>11. ASSUME NEW g \in Handles, g # h, Owed(q, l, g)
       PROVE  hd[to[g]] = g /\ to[g] \in Ids /\ to[g] # id /\ to2[g] = to[g]
  <2>1. hd[to[g]] = g /\ to[g] \in Ids
    BY <1>11 DEF Listed, Entered, Table
  <2> QED BY <1>9, <1>11, <2>1, LinksAssumption
<1>12. Entered(p, l, hd2, to2)
  <2> SUFFICES ASSUME NEW g \in Handles, Owed(p, l, g) PROVE hd2[to2[g]] = g
    BY DEF Entered
  <2>1. CASE g = h
    BY <1>9, <2>1
  <2>2. CASE g # h
    BY <1>6, <1>9, <1>11, <2>2
  <2> QED BY <2>1, <2>2
<1>13. Matched(p, l, to2, pa2)
  <2> SUFFICES ASSUME NEW g \in Handles, l[g] # NoLink, ~Awaited(p, g)
               PROVE  /\ l[g].role = "master" <=> to2[g] \in MasterIds
                      /\ to2[g] \in MasterIds => pa2[to2[g]] = l[g].a
    BY DEF Matched
  <2>1. CASE g = h
    <3>1. l[h] = [role |-> q[1].role, a |-> q[1].a]
      BY <1>1, <1>7, <2>1 DEF Ended
    <3>2. l[h].role = q[1].role /\ l[h].a = q[1].a
      BY <3>1
    <3> QED BY <1>9, <2>1, <3>2, MasterIdsAreIds
  <2>2. CASE g # h
    <3>1. ~Awaited(q, g) /\ Owed(q, l, g)
      BY <1>5, <2>2 DEF Owed
    <3>2. to2[g] = to[g] /\ to[g] \in Ids /\ to[g] # id
      BY <1>11, <2>2, <3>1
    <3>3. pa2[to[g]] = pa[to[g]]
      BY <3>2
    <3> QED BY <3>1, <3>2, <3>3 DEF Listed, Matched
  <2> QED BY <2>1, <2>2
<1>14. Followed(p, hd2, pa2)
  <2> SUFFICES ASSUME NEW i \in Places(p), NEW k \in MasterIds, IsLink(p[i]), p[i].role = "master",
                      hd2[k] # INVALID_HANDLE, pa2[k] = p[i].a
               PROVE  \E j \in Places(p) : j < i /\ Goes(p[j], hd2[k])
    BY DEF Followed
  <2>1. i + 1 \in Places(q) /\ q[i + 1] = p[i] /\ i \in Nat /\ 1 < i + 1
    <3>1. i \in Nat /\ i >= 1
      BY LenProperties DEF Places
    <3> QED BY <1>2, <3>1
  <2>2. k \in Ids
    BY MasterIdsAreIds
  <2>3. ASSUME NEW j \in Places(q), j < i + 1, Goes(q[j], hd2[k])
        PROVE  \E x \in Places(p) : x < i /\ Goes(p[x], hd2[k])
    <3>1. j # 1
      BY <1>3, <2>3
    <3>2. j - 1 \in Places(p) /\ p[j - 1] = q[j] /\ j - 1 < i
      BY <1>2, <2>1, <2>3, <3>1
    <3> QED BY <2>3, <3>2
  <2>4. CASE k = id
    <3>1. q[1].a = p[i].a
      BY <2>4, MasterIdsAreIds
    <3>2. \E j \in Places(q) : 1 < j /\ j < i + 1 /\ Goes(q[j], h)
      BY <1>1, <1>2, <2>1, <3>1 DEF Apart, h
    <3> QED BY <1>9, <2>3, <2>4, <3>2
  <2>5. CASE k # id
    <3>1. hd2[k] = hd[k] /\ pa2[k] = pa[k]
      BY <1>9, <2>2, <2>5
    <3>2. \E j \in Places(q) : j < i + 1 /\ Goes(q[j], hd[k])
      BY <2>1, <3>1 DEF Listed, Followed
    <3> QED BY <2>3, <3>1, <3>2
  <2> QED BY <2>4, <2>5
<1> QED BY <1>10, <1>12, <1>13, <1>14 DEF Listed

(* at_on_disconnect clears the entry of the link that ended, and no other. *)
LEMMA LeaveListed ==
  ASSUME NEW q \in Seq(Event), NEW p \in Seq(Event), NEW l, NEW hd, NEW to, NEW pa, Table(hd, to),
         Heard(q, l), Listed(q, l, hd, to, pa), Shorter(q, p), NEW h \in Handles, Goes(q[1], h),
         NEW hd2, hd2 = [hd EXCEPT ![to[h]] = INVALID_HANDLE],
         NEW to2, NEW none, to2 = [to EXCEPT ![h] = none]
  PROVE  Listed(p, l, hd2, to2, pa)
<1>1. Known(q) /\ Once(q) /\ Ended(q, l) /\ Born(q, l) /\ Apart(q)
  BY DEF Heard
<1>2. /\ 1 \in Places(q)
      /\ \A i \in Places(p) : i \in Nat /\ i + 1 \in Places(q) /\ q[i + 1] = p[i]
      /\ \A i \in Places(q) : i \in Nat /\ i >= 1
      /\ \A i \in Places(q) : i # 1 => i - 1 \in Places(p) /\ p[i - 1] = q[i]
  BY ShorterPlaces
<1>3. (\A g : ~Comes(q[1], g)) /\ (\A g : Goes(q[1], g) => g = h)
  BY DEF Comes, Goes
<1>4. ~Awaited(q, h) /\ Gone(q, h) /\ ~Gone(p, h)
  BY <1>1, <1>2, HeadOnce DEF Gone
<1>5. /\ \A g \in Handles : Awaited(p, g) <=> Awaited(q, g)
      /\ \A g \in Handles : g # h => (Gone(p, g) <=> Gone(q, g))
  BY <1>3, ShorterPends
<1>6. l[h] = NoLink
  BY <1>1, <1>4 DEF Ended
<1>7. /\ Owed(q, l, h) /\ ~Owed(p, l, h)
      /\ \A g \in Handles : g # h => (Owed(p, l, g) <=> Owed(q, l, g))
  BY <1>4, <1>5, <1>6 DEF Owed
<1>8. hd[to[h]] = h /\ to[h] \in Ids
  BY <1>7 DEF Listed, Entered, Table
<1>9. /\ hd2[to[h]] = INVALID_HANDLE
      /\ \A i \in Ids : i # to[h] => hd2[i] = hd[i]
      /\ \A g \in Handles : g # h => to2[g] = to[g]
  BY <1>8 DEF Table
<1>10. ASSUME NEW i \in Ids, hd2[i] # INVALID_HANDLE
       PROVE  i # to[h] /\ hd2[i] = hd[i] /\ hd[i] \in Handles /\ hd[i] # h
  <2>1. i # to[h] /\ hd2[i] = hd[i]
    BY <1>9, <1>10
  <2>2. hd[i] \in Handles /\ to[hd[i]] = i
    BY <1>10, <2>1 DEF Table, Listed, Lead
  <2> QED BY <2>1, <2>2
<1>11. Lead(p, l, hd2, to2)
  BY <1>7, <1>9, <1>10 DEF Listed, Lead
<1>12. Entered(p, l, hd2, to2)
  <2> SUFFICES ASSUME NEW g \in Handles, Owed(p, l, g) PROVE hd2[to2[g]] = g
    BY DEF Entered
  <2>1. g # h /\ Owed(q, l, g)
    BY <1>7
  <2>2. hd[to[g]] = g /\ to[g] \in Ids
    BY <2>1 DEF Listed, Entered, Table
  <2> QED BY <1>8, <1>9, <2>1, <2>2
<1>13. Matched(p, l, to2, pa)
  BY <1>5, <1>6, <1>9 DEF Listed, Matched
<1>14. Followed(p, hd2, pa)
  <2> SUFFICES ASSUME NEW i \in Places(p), NEW k \in MasterIds, IsLink(p[i]), p[i].role = "master",
                      hd2[k] # INVALID_HANDLE, pa[k] = p[i].a
               PROVE  \E j \in Places(p) : j < i /\ Goes(p[j], hd2[k])
    BY DEF Followed
  <2>1. i + 1 \in Places(q) /\ q[i + 1] = p[i] /\ i \in Nat
    BY <1>2
  <2>2. hd2[k] = hd[k] /\ hd[k] # h
    BY <1>10, MasterIdsAreIds
  <2>3. PICK j \in Places(q) : j < i + 1 /\ Goes(q[j], hd[k])
    BY <2>1, <2>2 DEF Listed, Followed
  <2>4. j # 1
    BY <1>3, <2>2, <2>3
  <2>5. j - 1 \in Places(p) /\ p[j - 1] = q[j] /\ j - 1 < i
    BY <1>2, <2>1, <2>3, <2>4
  <2> QED BY <2>2, <2>3, <2>5
<1> QED BY <1>11, <1>12, <1>13, <1>14 DEF Listed

-----------------------------------------------------------------------------
(* The kinds of step *)

LEMMA EmitNone ==
  ASSUME NEW q \in Seq(Event), NEW p, p = q \o <<>> PROVE Chatter(q, p)
BY LenProperties DEF Chatter, Prefix, Places

LEMMA EmitOne ==
  ASSUME NEW q \in Seq(Event), NEW e \in Event, NEW p, p = q \o <<e>>
  PROVE  Announces(q, p, e) /\ (Neutral(e) => Chatter(q, p))
<1>1. /\ Len(p) = Len(q) + 1 /\ Len(q) \in Nat /\ p[Len(q) + 1] = e
      /\ \A i \in 1 .. Len(q) : p[i] = q[i]
  BY LenProperties
<1> QED BY <1>1 DEF Announces, Chatter, Prefix, Places

LEMMA EmitTwo ==
  ASSUME NEW q \in Seq(Event), NEW e \in Event, NEW f \in Event, Neutral(f), NEW p, p = q \o <<e, f>>
  PROVE  Announces(q, p, e)
<1>1. /\ Len(p) = Len(q) + 2 /\ Len(q) \in Nat /\ p[Len(q) + 1] = e /\ p[Len(q) + 2] = f
      /\ \A i \in 1 .. Len(q) : p[i] = q[i]
  BY LenProperties
<1>2. ASSUME NEW i \in Places(p), i > Len(q) + 1 PROVE Neutral(p[i])
  <2>1. i = Len(q) + 2
    BY <1>1, <1>2 DEF Places
  <2> QED BY <1>1, <2>1
<1>3. Prefix(q, p) /\ Len(q) < Len(p)
  BY <1>1 DEF Prefix, Places
<1> QED BY <1>1, <1>2, <1>3 DEF Announces

LEMMA TailShorter ==
  ASSUME NEW q \in Seq(Event), q # <<>>, NEW p, p = Tail(q)
  PROVE  p \in Seq(Event) /\ Shorter(q, p) /\ Head(q) = q[1] /\ 1 \in Places(q)
<1>1. /\ p \in Seq(Event) /\ Len(p) = Len(q) - 1 /\ Len(p) \in Nat /\ Len(q) \in Nat /\ Head(q) = q[1]
      /\ \A i \in 1 .. Len(p) : p[i] = q[i + 1]
  BY HeadTailProperties, LenProperties
<1> QED BY <1>1 DEF Shorter, Places

Dialled ==
  \/ UNCHANGED peer_addr
  \/ \E id \in MasterIds, a \in Addrs :
       handle[id] = INVALID_HANDLE /\ peer_addr' = [peer_addr EXCEPT ![id] = a]

Aside ==
  Chatter(events, events') /\ UNCHANGED <<handle, handle_2_id, link, refused>> /\ Dialled

ComesUp(role, h, a) ==
  /\ Announces(events, events', Complete(role, h, a)) /\ UNCHANGED <<table, refused>>
  /\ link[h] = NoLink /\ ~Gone(events, h) /\ \A g \in Handles : link[g] # NoLink => link[g].a # a
  /\ link' = [link EXCEPT ![h] = [role |-> role, a |-> a]]

EndsNow(h) ==
  /\ Announces(events, events', Disconnected(h)) /\ UNCHANGED <<table, refused>>
  /\ link[h] # NoLink /\ link' = [link EXCEPT ![h] = NoLink]

Skips ==
  /\ Shorter(events, events') /\ Neutral(events[1]) /\ UNCHANGED <<table, link, refused>>

LEMMA AddsNothing ==
  ASSUME TypeOK, UNCHANGED events PROVE Chatter(events, events')
<1>1. events \in Seq(Event)
  BY DEF TypeOK
<1> QED BY <1>1, LenProperties DEF Chatter, Prefix, Places

LEMMA AddsNeutral ==
  ASSUME TypeOK, NEW e \in {<<>>, <<Cancelled>>, <<[type |-> "SCAN_TIMEOUT"]>>, <<[type |-> "STATUS_7"]>>},
         Emit(e)
  PROVE  Chatter(events, events')
<1>1. events \in Seq(Event)
  BY DEF TypeOK
<1>2. Neutral(Cancelled) /\ Neutral([type |-> "SCAN_TIMEOUT"]) /\ Neutral([type |-> "STATUS_7"])
  BY DEF Neutral, Cancelled
<1>3. Cancelled \in Event /\ [type |-> "SCAN_TIMEOUT"] \in Event /\ [type |-> "STATUS_7"] \in Event
  BY EventTypes
<1>4. CASE e = <<>>
  BY <1>1, <1>4, EmitNone DEF Emit
<1>5. ASSUME NEW x \in Event, Neutral(x), e = <<x>> PROVE Chatter(events, events')
  BY <1>1, <1>5, EmitOne DEF Emit
<1> QED BY <1>2, <1>3, <1>4, <1>5

(* A free handle has no link and no end to come, and the peer no link. *)
LEMMA MayLinkMeans ==
  ASSUME TypeOK, NEW h \in Handles, NEW a, MayLink(h, a)
  PROVE  link[h] = NoLink /\ ~Gone(events, h) /\ \A g \in Handles : link[g] # NoLink => link[g].a # a
<1>1. events \in Seq(Event) /\ DOMAIN events = Places(events)
  BY LenProperties DEF TypeOK, Places
<1>2. link[h] = NoLink /\ ~Gone(events, h)
  BY <1>1 DEF MayLink, FreeHandle, Gone, Goes
<1> QED BY <1>2 DEF MayLink, Peers, Live

LEMMA StepKinds ==
  ASSUME TypeOK, [Next]_vars
  PROVE  \/ Aside \/ Skips \/ ConnectionComplete \/ DisconnectionComplete
         \/ \E role \in {"master", "slave"}, h \in Handles, a \in Addrs : ComesUp(role, h, a)
         \/ \E h \in Handles : EndsNow(h)
<1> USE DEF table, radio
<1>a. events \in Seq(Event)
  BY DEF TypeOK
<1>1. CASE Scan \/ DisconnAll \/ ModeIdle \/ ModeAdvertise \/ \E id \in Ids : Disconn(id)
  BY <1>1, AddsNothing DEF Scan, DisconnAll, ModeIdle, ModeAdvertise, Disconn, Aside, Dialled
<1>2. ASSUME NEW a \in Addrs, Conn(a) PROVE Aside
  <2>1. UNCHANGED <<handle, handle_2_id, link, refused, events>>
    BY <1>2 DEF Conn
  <2>2. Dialled
    <3>1. CASE Free(MasterIds) = {}
      BY <1>2, <3>1 DEF Conn, Dialled
    <3>2. CASE Free(MasterIds) # {}
      <4>1. Free(MasterIds) \subseteq Ids
        BY MasterIdsAreIds DEF Free
      <4>2. FirstFree(MasterIds) \in Free(MasterIds)
        BY <3>2, <4>1, LeastId DEF FirstFree
      <4>3. FirstFree(MasterIds) \in MasterIds /\ handle[FirstFree(MasterIds)] = INVALID_HANDLE
        BY <4>2 DEF Free, gap_get_connect_status
      <4>4. peer_addr' = [peer_addr EXCEPT ![FirstFree(MasterIds)] = a]
        BY <1>2, <3>2 DEF Conn
      <4> QED BY <4>3, <4>4 DEF Dialled
    <3> QED BY <3>1, <3>2
  <2> QED BY <2>1, <2>2, AddsNothing DEF Aside
<1>3. CASE StackInitiate
  <2>1. UNCHANGED events \/ Emit(<<[type |-> "STATUS_7"]>>) \/ Emit(<<>>)
    BY <1>3 DEF StackInitiate
  <2>2. Chatter(events, events')
    BY <2>1, AddsNothing, AddsNeutral
  <2> QED BY <1>3, <2>2 DEF StackInitiate, Aside, Dialled
<1>4. CASE StackCancelCreateConn
  <2>1. Emit(<<Cancelled>>) \/ Emit(<<>>)
    BY <1>4 DEF StackCancelCreateConn
  <2>2. Chatter(events, events')
    BY <2>1, AddsNeutral
  <2> QED BY <1>4, <2>2 DEF StackCancelCreateConn, Aside, Dialled
<1>5. CASE ScanTimeout \/ AdvTerminated \/ CommandStatus
  <2>1. PICK type \in {"SCAN_TIMEOUT", "ADV_TERMINATED", "STATUS_7"} : Handle(type)
    BY <1>5 DEF ScanTimeout, AdvTerminated, CommandStatus
  <2>2. Shorter(events, events') /\ events[1].type = type
    BY <1>a, <2>1, TailShorter DEF Handle
  <2>3. Neutral(events[1])
    BY <2>2 DEF Neutral
  <2> QED BY <1>5, <2>2, <2>3 DEF ScanTimeout, AdvTerminated, CommandStatus, Skips
<1>6. ASSUME NEW h \in Handles, Initiated(h)
      PROVE  \E a \in Addrs : ComesUp("master", h, a)
  <2>1. initiating \in Addrs /\ MayLink(h, initiating)
    BY <1>6 DEF Initiated, TypeOK
  <2>2. Complete("master", h, initiating) \in Event
    BY <2>1, EventTypes
  <2>3. Announces(events, events', Complete("master", h, initiating))
    BY <1>a, <1>6, <2>2, EmitOne DEF Initiated, Emit
  <2> QED BY <1>6, <2>1, <2>3, MayLinkMeans DEF Initiated, ComesUp
<1>7. ASSUME NEW h \in Handles, NEW a \in Addrs, PeerConnects(h, a)
      PROVE  ComesUp("slave", h, a)
  <2>1. Complete("slave", h, a) \in Event /\ [type |-> "ADV_TERMINATED"] \in Event
    BY EventTypes
  <2>2. Neutral([type |-> "ADV_TERMINATED"])
    BY DEF Neutral
  <2>3. Announces(events, events', Complete("slave", h, a))
    BY <1>a, <1>7, <2>1, <2>2, EmitTwo DEF PeerConnects, Emit
  <2>4. MayLink(h, a)
    BY <1>7 DEF PeerConnects
  <2> QED BY <1>7, <2>3, <2>4, MayLinkMeans DEF PeerConnects, ComesUp
<1>8. ASSUME NEW h \in Handles, LinkEnds(h) PROVE EndsNow(h)
  <2>1. Disconnected(h) \in Event
    BY EventTypes DEF Disconnected
  <2>2. Announces(events, events', Disconnected(h))
    BY <1>a, <1>8, <2>1, EmitOne DEF LinkEnds, Emit, Disconnected
  <2> QED BY <1>8, <2>2 DEF LinkEnds, EndsNow, Live
<1>9. CASE ScanExpires
  <2>1. Chatter(events, events')
    BY <1>9, AddsNeutral DEF ScanExpires
  <2> QED BY <1>9, <2>1 DEF ScanExpires, Aside, Dialled
<1>10. CASE InitiateTimeout \/ (\E a \in Addrs : AdvReport(a)) \/ (\E h \in Handles : DiscoveryFails(h))
            \/ UNCHANGED vars
  BY <1>10, AddsNothing DEF InitiateTimeout, AdvReport, DiscoveryFails, vars, Aside, Dialled
<1> QED
  BY <1>1, <1>2, <1>3, <1>4, <1>5, <1>6, <1>7, <1>8, <1>9, <1>10 DEF Next, AtCommand, BtTask, World

-----------------------------------------------------------------------------
(* The invariant *)

Kept == ~refused => Listed(events, link, handle, handle_2_id, peer_addr)

Mirror == Heard(events, link) /\ Kept

LEMMA TypeFacts ==
  ASSUME TypeOK
  PROVE  /\ events \in Seq(Event) /\ link \in Links /\ Table(handle, handle_2_id)
         /\ peer_addr \in [Ids -> Addrs \cup {NoAddr}]
BY DEF TypeOK, Links, Table

LEMMA InitMirror == Init => Mirror
<1> SUFFICES ASSUME Init PROVE Mirror
  OBVIOUS
<1>1. /\ Places(events) = {} /\ \A h \in Handles : link[h] = NoLink
      /\ \A id \in Ids : handle[id] = INVALID_HANDLE
  BY DEF Init, Places
<1>2. \A h \in Handles : ~Awaited(events, h) /\ ~Gone(events, h)
  BY <1>1 DEF Awaited, Gone
<1>3. Heard(events, link)
  BY <1>1, <1>2 DEF Heard, Known, Once, Ended, Born, Apart
<1>4. \A h \in Handles : ~Owed(events, link, h)
  BY <1>1, <1>2 DEF Owed
<1>5. Listed(events, link, handle, handle_2_id, peer_addr)
  BY <1>1, <1>4 DEF Listed, Lead, Entered, Matched, Followed
<1> QED BY <1>3, <1>5 DEF Mirror, Kept

LEMMA AsideMirror == TypeOK /\ Mirror /\ Aside /\ events' \in Seq(Event) => Mirror'
<1> SUFFICES ASSUME TypeOK, Mirror, Aside, events' \in Seq(Event) PROVE Mirror'
  OBVIOUS
<1>1. /\ events \in Seq(Event) /\ link \in Links /\ Table(handle, handle_2_id)
      /\ peer_addr \in [Ids -> Addrs \cup {NoAddr}]
  BY TypeFacts
<1>2. Chatter(events, events') /\ UNCHANGED <<handle, handle_2_id, link, refused>>
  BY DEF Aside
<1>3. Heard(events', link)
  BY <1>1, <1>2, ChatterHeard DEF Mirror
<1>4. ASSUME ~refused PROVE Listed(events', link, handle, handle_2_id, peer_addr')
  <2>1. Listed(events, link, handle, handle_2_id, peer_addr)
    BY <1>4 DEF Mirror, Kept
  <2>2. Listed(events, link, handle, handle_2_id, peer_addr')
    <3>1. CASE UNCHANGED peer_addr
      BY <2>1, <3>1
    <3>2. ASSUME NEW id \in MasterIds, NEW a \in Addrs, handle[id] = INVALID_HANDLE,
                 peer_addr' = [peer_addr EXCEPT ![id] = a]
          PROVE  Listed(events, link, handle, handle_2_id, peer_addr')
      BY <1>1, <2>1, <3>2, DialListed
    <3> QED BY <3>1, <3>2 DEF Aside, Dialled
  <2> QED BY <1>1, <1>2, <2>2, ChatterListed
<1> QED BY <1>2, <1>3, <1>4 DEF Mirror, Kept

LEMMA UpMirror ==
  ASSUME TypeOK, Mirror, events' \in Seq(Event), NEW role \in {"master", "slave"},
         NEW h \in Handles, NEW a \in Addrs, ComesUp(role, h, a)
  PROVE  Mirror'
<1>1. /\ events \in Seq(Event) /\ link \in Links /\ Table(handle, handle_2_id)
  BY TypeFacts
<1>2. /\ Announces(events, events', Complete(role, h, a))
      /\ UNCHANGED <<handle, handle_2_id, peer_addr, refused>>
      /\ link[h] = NoLink /\ ~Gone(events, h)
      /\ \A g \in Handles : link[g] # NoLink => link[g].a # a
      /\ link' = [link EXCEPT ![h] = [role |-> role, a |-> a]]
  BY DEF ComesUp, table
<1>3. Heard(events', link')
  BY <1>1, <1>2, UpHeard DEF Mirror
<1>4. ASSUME ~refused PROVE Listed(events', link', handle, handle_2_id, peer_addr)
  <2>1. Listed(events, link, handle, handle_2_id, peer_addr)
    BY <1>4 DEF Mirror, Kept
  <2> QED BY <1>1, <1>2, <2>1, UpListed
<1> QED BY <1>2, <1>3, <1>4 DEF Mirror, Kept

LEMMA EndsMirror ==
  ASSUME TypeOK, Mirror, events' \in Seq(Event), NEW h \in Handles, EndsNow(h)
  PROVE  Mirror'
<1>1. /\ events \in Seq(Event) /\ link \in Links /\ Table(handle, handle_2_id)
  BY TypeFacts
<1>2. /\ Announces(events, events', Disconnected(h))
      /\ UNCHANGED <<handle, handle_2_id, peer_addr, refused>>
      /\ link[h] # NoLink /\ link' = [link EXCEPT ![h] = NoLink]
  BY DEF EndsNow, table
<1>3. Heard(events', link')
  BY <1>1, <1>2, EndsHeard DEF Mirror
<1>4. ASSUME ~refused PROVE Listed(events', link', handle, handle_2_id, peer_addr)
  <2>1. Listed(events, link, handle, handle_2_id, peer_addr)
    BY <1>4 DEF Mirror, Kept
  <2> QED BY <1>1, <1>2, <2>1, EndsListed
<1> QED BY <1>2, <1>3, <1>4 DEF Mirror, Kept

LEMMA SkipsMirror == TypeOK /\ Mirror /\ Skips /\ events' \in Seq(Event) => Mirror'
<1> SUFFICES ASSUME TypeOK, Mirror, Skips, events' \in Seq(Event) PROVE Mirror'
  OBVIOUS
<1>1. /\ events \in Seq(Event) /\ link \in Links /\ Table(handle, handle_2_id)
  BY TypeFacts
<1>2. /\ Shorter(events, events') /\ Neutral(events[1])
      /\ UNCHANGED <<handle, handle_2_id, peer_addr, link, refused>>
  BY DEF Skips, table
<1>3. Heard(events', link)
  BY <1>1, <1>2, ShorterHeard DEF Mirror
<1>4. ASSUME ~refused PROVE Listed(events', link, handle, handle_2_id, peer_addr)
  <2>1. Listed(events, link, handle, handle_2_id, peer_addr)
    BY <1>4 DEF Mirror, Kept
  <2> QED BY <1>1, <1>2, <2>1, SkipListed
<1> QED BY <1>2, <1>3, <1>4 DEF Mirror, Kept

(* The entry at_on_connection_complete finds is free: a link that had it   *)
(* with the same peer has ended, and its end was handled before.           *)
LEMMA CompleteMirror == TypeOK /\ Mirror /\ ConnectionComplete => Mirror'
<1> SUFFICES ASSUME TypeOK, Mirror, ConnectionComplete PROVE Mirror'
  OBVIOUS
<1> DEFINE e == Head(events)
<1>1. /\ events \in Seq(Event) /\ link \in Links /\ Table(handle, handle_2_id)
      /\ peer_addr \in [Ids -> Addrs \cup {NoAddr}]
  BY TypeFacts
<1>2. events # <<>> /\ events' = Tail(events) /\ e.type = "COMPLETE" /\ UNCHANGED link
  BY DEF ConnectionComplete, Handle
<1>3. events' \in Seq(Event) /\ Shorter(events, events') /\ e = events[1] /\ 1 \in Places(events)
  BY <1>1, <1>2, TailShorter
<1>4. Heard(events', link)
  BY <1>1, <1>3, ShorterHeard DEF Mirror
<1>5. CASE ~e.ok
  <2>1. Neutral(e)
    <3>1. e = Cancelled \/ \E role \in {"master", "slave"}, h \in Handles, a \in Addrs : e = Complete(role, h, a)
      BY <1>2, <1>3 DEF Mirror, Heard, Known
    <3>2. e = Cancelled
      BY <1>5, <3>1, EventFacts
    <3> QED BY <3>2 DEF Neutral, Cancelled
  <2>2. UNCHANGED <<handle, handle_2_id, peer_addr, refused>>
    BY <1>5 DEF ConnectionComplete, table
  <2>3. Skips
    BY <1>2, <1>3, <2>1, <2>2 DEF Skips, table
  <2> QED BY <1>3, <2>3, SkipsMirror
<1>6. CASE e.ok
  <2>1. Register(e)
    BY <1>6 DEF ConnectionComplete
  <2>2. CASE Match(e) = {}
    BY <1>2, <1>4, <2>1, <2>2 DEF Register, Mirror, Kept
  <2>3. CASE Match(e) # {}
    <3> DEFINE id == CHOOSE i \in Match(e) : \A j \in Match(e) : i <= j
    <3>1. id \in Match(e)
      <4>1. Match(e) \subseteq Ids
        BY MasterIdsAreIds DEF Match, Free
      <4> QED BY <2>3, <4>1, LeastId
    <3>2. /\ handle' = [handle EXCEPT ![id] = e.h] /\ handle_2_id' = [handle_2_id EXCEPT ![e.h] = id]
          /\ peer_addr' = IF e.role = "slave" THEN [peer_addr EXCEPT ![id] = e.a] ELSE peer_addr
          /\ UNCHANGED refused
      BY <2>1, <2>3 DEF Register
    <3> HIDE DEF id
    <3>3. IsLink(e) /\ e.role \in {"master", "slave"}
      <4>1. IsLink(events[1])
        BY <1>2, <1>3, <1>6 DEF IsLink
      <4> QED BY <1>3, <4>1, KnownFacts DEF Mirror, Heard
    <3>4. ASSUME ~refused PROVE Listed(events', link, handle', handle_2_id', peer_addr')
      <4>1. Listed(events, link, handle, handle_2_id, peer_addr) /\ Heard(events, link)
        BY <3>4 DEF Mirror, Kept
      <4> SUFFICES Enters(e, id, handle, handle_2_id, peer_addr, handle', handle_2_id', peer_addr')
        <5>1. id \in Ids
          BY <3>1, MasterIdsAreIds DEF Match, Free
        <5> QED BY <1>1, <1>3, <3>3, <4>1, <5>1, EnterListed
      <4>2. CASE e.role = "slave"
        <5>1. id \in SlaveIds /\ handle[id] = INVALID_HANDLE
          BY <3>1, <4>2 DEF Match, Free, gap_get_connect_status
        <5>2. peer_addr' = [peer_addr EXCEPT ![id] = e.a]
          BY <3>2, <4>2
        <5> QED BY <3>2, <4>2, <5>1, <5>2 DEF Enters
      <4>3. CASE e.role = "master"
        <5>1. id \in MasterIds /\ peer_addr[id] = e.a
          BY <3>1, <4>3 DEF Match
        <5>2. handle[id] = INVALID_HANDLE
          <6> SUFFICES ASSUME handle[id] # INVALID_HANDLE PROVE FALSE
            OBVIOUS
          <6>1. \E j \in Places(events) : j < 1 /\ Goes(events[j], handle[id])
            BY <1>3, <3>3, <4>1, <4>3, <5>1 DEF Listed, Followed
          <6> QED BY <6>1 DEF Places
        <5>3. peer_addr' = peer_addr
          BY <3>2, <4>3
        <5> QED BY <3>2, <4>3, <5>1, <5>2, <5>3 DEF Enters
      <4> QED BY <3>3, <4>2, <4>3
    <3> QED BY <1>2, <1>4, <3>2, <3>4 DEF Mirror, Kept
  <2> QED BY <2>2, <2>3
<1> QED BY <1>5, <1>6

LEMMA GoneMirror == TypeOK /\ Mirror /\ DisconnectionComplete => Mirror'
<1> SUFFICES ASSUME TypeOK, Mirror, DisconnectionComplete PROVE Mirror'
  OBVIOUS
<1> DEFINE h == Head(events).h
<1>1. /\ events \in Seq(Event) /\ link \in Links /\ Table(handle, handle_2_id)
  BY TypeFacts
<1>2. /\ Handle("DISCONNECTED") /\ UNCHANGED <<link, peer_addr, refused>>
      /\ handle' = [handle EXCEPT ![handle_2_id[h]] = INVALID_HANDLE]
      /\ handle_2_id' = [handle_2_id EXCEPT ![h] = EndedId]
  BY DEF DisconnectionComplete
<1>3. h \in Handles /\ Head(events).type = "DISCONNECTED"
  BY <1>2, HeadEvent
<1>4. events' \in Seq(Event) /\ Shorter(events, events') /\ Goes(events[1], h)
  BY <1>1, <1>2, <1>3, TailShorter DEF Handle, Goes
<1> HIDE DEF h
<1>5. Heard(events', link)
  BY <1>1, <1>4, ShorterHeard DEF Mirror
<1>6. ASSUME ~refused PROVE Listed(events', link, handle', handle_2_id', peer_addr)
  <2>1. Listed(events, link, handle, handle_2_id, peer_addr) /\ Heard(events, link)
    BY <1>6 DEF Mirror, Kept
  <2> QED BY <1>1, <1>2, <1>3, <1>4, <2>1, LeaveListed
<1> QED BY <1>2, <1>5, <1>6 DEF Mirror, Kept

LEMMA StepMirror == TypeOK /\ Mirror /\ [Next]_vars => Mirror'
<1> SUFFICES ASSUME TypeOK, Mirror, [Next]_vars PROVE Mirror'
  OBVIOUS
<1>1. events' \in Seq(Event)
  BY StepEvents
<1> QED BY <1>1, StepKinds, AsideMirror, UpMirror, EndsMirror, SkipsMirror, CompleteMirror, GoneMirror

LEMMA MirrorExact == TypeOK /\ Mirror => TableExact
<1> SUFFICES ASSUME TypeOK, Mirror, ~refused PROVE EntriesLead /\ LinksEntered
  BY DEF TableExact
<1>1. Listed(events, link, handle, handle_2_id, peer_addr) /\ Table(handle, handle_2_id)
  BY TypeFacts DEF Mirror, Kept
<1>2. DOMAIN events = Places(events)
  BY TypeFacts, LenProperties DEF Places
<1>3. ASSUME NEW h \in Handles
      PROVE  /\ Announced(h) <=> ~Awaited(events, h)
             /\ Gone(events, h) <=> \E i \in Pending("DISCONNECTED") : events[i].h = h
  BY <1>2 DEF Announced, Pending, Awaited, Gone, Comes, Goes
<1>4. \A h : h \in Live <=> h \in Handles /\ link[h] # NoLink
  BY DEF Live
<1>5. EntriesLead
  <2> SUFFICES ASSUME NEW id \in Ids, handle[id] # INVALID_HANDLE
               PROVE  /\ handle_2_id[handle[id]] = id
                      /\ \/ handle[id] \in Live
                         \/ \E i \in Pending("DISCONNECTED") : events[i].h = handle[id]
    BY DEF EntriesLead, gap_get_connect_status
  <2>1. handle[id] \in Handles
    BY <1>1 DEF Table
  <2> QED BY <1>1, <1>3, <1>4, <2>1 DEF Listed, Lead, Owed
<1>6. LinksEntered
  <2> SUFFICES ASSUME NEW h \in Live, Announced(h)
               PROVE  /\ handle[handle_2_id[h]] = h
                      /\ link[h].role = "master" <=> handle_2_id[h] \in MasterIds
    BY DEF LinksEntered
  <2>1. h \in Handles /\ link[h] # NoLink /\ ~Awaited(events, h)
    BY <1>3, <1>4
  <2> QED BY <1>1, <2>1 DEF Listed, Entered, Matched, Owed
<1> QED BY <1>5, <1>6

(***************************************************************************)
(* Until a link is turned away, conn_infos and handle_2_id mirror the      *)
(* controller up to the events on their way: every entry holds a link that *)
(* is up or whose end is to come, the two maps are inverse to each other,  *)
(* and every announced link is among the ids of its role, however handles, *)
(* ids and peers are used again.                                           *)
(***************************************************************************)
THEOREM TableAlwaysExact == Spec => []TableExact
<1>1. Spec => [](TypeOK /\ Mirror)
  BY LinksTypeCorrect, InitMirror, StepMirror, PTL DEF Spec
<1> QED BY <1>1, MirrorExact, PTL
=============================================================================
