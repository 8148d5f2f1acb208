---------------------------- MODULE IngLink_proofs ----------------------------
(***************************************************************************)
(* Proofs about IngLink for every set of peers, addresses and handles and  *)
(* every bound: type correctness, that an answered command survives every  *)
(* power cut, that the target of the bytes exists, that the module never   *)
(* falls asleep, and that +CONNECT means a usable subscription.            *)
(*                                                                         *)
(* The inductive invariant has six parts: Types; Persisted, what a power  *)
(* cut finds in flash; Modal, what a role excludes; Queued, how links and  *)
(* the events about them go together; Followed, what the manager knows of  *)
(* its one link; and Found, how far the discovery on this link has come.   *)
(***************************************************************************)
EXTENDS IngLink, TLAPS

-----------------------------------------------------------------------------
(* The inductive invariant *)

EndOf(h)      == [type |-> "DISCONNECTED", h |-> h]
StartOf(h, r) == [type |-> "CONNECTED", h |-> h, role |-> r]

Roles    == {MASTER, SLAVE}
Commands == [op : {"CONA"}, arg : Peers, pc : {"copy", "save"}]
            \cup [op : {"LADDR"}, arg : Macs, pc : {"copy", "save"}]
            \cup [op : {"ROLE"}, arg : Roles, pc : {"save"}]

SavedTypes ==
  /\ phase \in {"off", "boot", "up"} /\ ram \in Image /\ acked \in Image
  /\ saving \in {"no", "erase", "first", "second"}
  /\ flash \in [init : BOOLEAN, mac : Macs \cup {Random, Mixed, Blank},
                role : {MASTER, SLAVE, Blank}, peer : Peers \cup {Factory, Mixed, Blank},
                end : BOOLEAN]
  /\ cmd \in Commands \cup {NoCmd}

ManagerTypes ==
  /\ mode \in {None, MASTER, SLAVE} /\ initiating_id \in {"OFF", "SLAVE1"}
  /\ gap_is_connection_cancel \in 0 .. 1 /\ timeouts \in Nat
  /\ i_am_master_conn_handle \in Handles \cup {INVALID_HANDLE}
  /\ i_am_slave_conn_handle \in Handles \cup {INVALID_HANDLE}
  /\ create_conn_timer \in BOOLEAN

ThroughTypes ==
  /\ throughput_con_handle \in Handles \cup {INVALID_HANDLE}
  /\ throughput_notify_enable \in BOOLEAN
  /\ peer_slave \in [conn_handle : Handles \cup {INVALID_HANDLE}, service : Peers \cup {Zero},
                     char : Peers \cup {Zero}, desc : Peers \cup {Zero}]

RadioTypes ==
  /\ advertising \in BOOLEAN /\ overlap \in BOOLEAN
  /\ initiating \in Peers \cup {Factory, Mixed, None}
  /\ link \in [Handles -> {NoLink} \cup [role : {MASTER}, peer : Peers]
                          \cup [role : {SLAVE}, peer : {Factory}]]
  /\ closing \subseteq Live
  /\ events \in Seq(Event)

Types == SavedTypes /\ ManagerTypes /\ ThroughTypes /\ RadioTypes

(* Flash holds the acknowledged parameters or nothing; a save in progress  *)
(* has written so much; a restart finds nothing worth keeping in RAM.      *)
Persisted ==
  /\ saving \in {"no", "erase"} => IF Whole(flash) THEN flash = Written(acked)
                                                   ELSE acked = Default
  /\ saving = "first"  => flash = Erased
  /\ saving = "second" => flash = [Erased EXCEPT !.init = TRUE, !.mac = ram.mac]
  /\ phase = "off"  => saving = "no" /\ cmd = NoCmd
  /\ phase = "boot" => saving # "no" /\ cmd = NoCmd /\ ram = Default /\ acked = Default
                       /\ ~Whole(flash)
  /\ phase = "up"   => (saving # "no" <=> cmd.pc = "save")
  /\ phase = "up" /\ cmd = NoCmd => ram = acked

(* What a module does not do in a mode. *)
Modal ==
  /\ mode # SLAVE =>
       /\ ~advertising /\ i_am_slave_conn_handle = INVALID_HANDLE /\ ~throughput_notify_enable
       /\ \A i \in DOMAIN events : events[i].type = "CONNECTED" => events[i].role # SLAVE
       /\ \A h \in Handles : link[h].role # SLAVE
  /\ mode # MASTER =>
       /\ initiating = None /\ ~create_conn_timer /\ initiating_id = "OFF" /\ timeouts = 0
       /\ i_am_master_conn_handle = INVALID_HANDLE /\ query = NoQuery
       /\ \A i \in DOMAIN events : /\ events[i].type = "CONNECTED" => events[i].role # MASTER
                                   /\ events[i].type # "FAILED"
  /\ mode = SLAVE => ~overlap /\ (advertising => Live = {} /\ events = <<>>)
  /\ mode = None  => ~overlap /\ Live = {} /\ events = <<>>

(* A link is reported up before it is reported down, and down once. *)
Queued ==
  /\ \A i \in DOMAIN events : events[i].type = "CONNECTED" =>
        \/ events[i].h \in Live
        \/ \E j \in DOMAIN events : j > i /\ events[j] = EndOf(events[i].h)
  /\ \A i \in DOMAIN events : events[i].type = "DISCONNECTED" => events[i].h \notin Live
  /\ \A i, j \in DOMAIN events :
        events[i].type = "DISCONNECTED" /\ events[j].type # "FAILED" /\ events[j].h = events[i].h
        => j <= i

(* The manager has one link, c, and knows it or is about to hear of it. *)
Announced(h) == \E i \in DOMAIN events : events[i].type = "CONNECTED" /\ events[i].h = h

OneLink(c) ==
  /\ c # INVALID_HANDLE => UpOrEnding(c)
  /\ ~overlap =>
       /\ \A g, h \in Handles : UpOrEnding(g) /\ UpOrEnding(h) => g = h
       /\ \A h \in Handles : UpOrEnding(h) => h = c \/ Announced(h)

Followed ==
  /\ throughput_con_handle = IF mode = SLAVE THEN i_am_slave_conn_handle
                                             ELSE i_am_master_conn_handle
  /\ peer_slave.conn_handle = i_am_master_conn_handle
  /\ throughput_notify_enable => throughput_con_handle # INVALID_HANDLE
  /\ OneLink(throughput_con_handle)

(* The query is about this link, and what was found on it is in place. *)
Stages == {"service", "char", "desc", "write"}
Found ==
  /\ query = NoQuery \/ query \in [stage : Stages, h : Handles]
  /\ query # NoQuery =>
       /\ query.h = peer_slave.conn_handle
       /\ query.h \in Live /\ PeerOf(query.h) \notin Bare =>
            /\ query.stage # "service" => peer_slave.service = PeerOf(query.h)
            /\ query.stage \in {"desc", "write"} => peer_slave.char = PeerOf(query.h)
            /\ query.stage = "write" => peer_slave.desc = PeerOf(query.h)

Inv == Types /\ Persisted /\ Modal /\ Queued /\ Followed /\ Found /\ NeverIdle /\ ConnectMeansReady

-----------------------------------------------------------------------------
(* The kinds of steps *)

ManagerStep ==
  \/ FirstWakeUp \/ Timeout \/ ConnectFailed \/ Connected \/ Disconnected \/ TimerFires
  \/ \E ok \in BOOLEAN : QueryDone(ok) \/ \E on \in BOOLEAN : Subscribe(on)

RadioStep == \E h \in Handles : Dialled(h) \/ Called(h) \/ LinkEnds(h)

(* A step is a power cut, or touches what is saved, or all the rest.       *)
LEMMA StepKinds ==
  ASSUME [Next]_vars
  PROVE  \/ PowerOff
         \/ /\ UNCHANGED <<manager, through, radio>>
            /\ said' # "CONNECT" \/ UNCHANGED said
            /\ Boot \/ Save \/ Copied \/ \E c \in Ops : Command(c)
         \/ UNCHANGED <<phase, persist>> /\ (ManagerStep \/ RadioStep)
         \/ UNCHANGED vars
<1>1. CASE PowerLoss
  BY <1>1 DEF PowerLoss
<1>2. CASE Boot
  BY <1>2 DEF Boot
<1>3. CASE Save
  BY <1>3 DEF Save, Quiet, None
<1>4. CASE Copied
  BY <1>4 DEF Copied, Quiet, None
<1>5. ASSUME NEW c \in Ops, Command(c)
      PROVE  PowerOff \/ (UNCHANGED <<manager, through, radio>> /\ said' # "CONNECT")
  BY <1>5 DEF Command, Quiet, None
<1>6. CASE Task \/ TimerFires \/ \E on \in BOOLEAN : Subscribe(on)
  <2>1. UNCHANGED <<phase, persist>>
    BY <1>6 DEF Task, FirstWakeUp, Timeout, ConnectFailed, Connected, Disconnected, Handling,
                QueryDone, TimerFires, Subscribe, UNCHANGED_Bt
  <2> QED BY <1>6, <2>1 DEF Task, ManagerStep
<1>7. CASE RadioStep
  BY <1>7 DEF RadioStep, Dialled, Called, LinkEnds, Reports
<1> QED BY <1>1, <1>2, <1>3, <1>4, <1>5, <1>6, <1>7 DEF Next, RadioStep

-----------------------------------------------------------------------------
(* What is saved *)

LEMMA DefaultTypes == Default \in Image /\ ~Whole(Erased)
BY DEF Default, Image, Whole, Erased

LEMMA InitPersisted == Init => SavedTypes /\ Persisted
<1> SUFFICES ASSUME Init PROVE SavedTypes /\ Persisted
  OBVIOUS
<1>1. CASE flash = Erased /\ acked = Default
  BY <1>1, DefaultTypes DEF Init, SavedTypes, Persisted, Erased, Whole
<1>2. ASSUME NEW i \in Saved, flash = Written(i), acked = i PROVE SavedTypes /\ Persisted
  <2>1. i \in Image /\ i \in [role : Roles, peer : Peers \cup {Factory}, mac : Macs \cup {Random}]
    BY IngLinkAssumption DEF Image, Factory, Random, MASTER, SLAVE, Roles
  <2>2. Whole(flash) /\ flash.init /\ SavedTypes
    BY <1>2, <2>1, DefaultTypes DEF Init, SavedTypes, Whole, Written, Roles
  <2> QED BY <1>2, <2>2 DEF Init, Persisted
<1> QED BY <1>1, <1>2 DEF Init

LEMMA StepPersisted ==
  ASSUME SavedTypes, Persisted, [Next]_vars
  PROVE  SavedTypes' /\ Persisted'
<1> USE DEF persist
<1>1. CASE PowerOff
  <2>1. phase' = "off" /\ ram' = Default /\ cmd' = NoCmd /\ saving' = "no" /\ UNCHANGED flash
        /\ acked' = IF saving \in {"no", "erase"} THEN acked ELSE Default
    BY <1>1 DEF PowerOff
  <2>2. SavedTypes'
    BY <2>1, DefaultTypes DEF SavedTypes
  <2>3. IF Whole(flash') THEN flash' = Written(acked') ELSE acked' = Default
    <3>1. CASE saving \in {"no", "erase"}
      BY <2>1, <3>1 DEF Persisted, Whole
    <3>2. CASE saving \in {"first", "second"}
      <4>1. flash = Erased \/ flash = [Erased EXCEPT !.init = TRUE, !.mac = ram.mac]
        BY <3>2 DEF Persisted
      <4>2. flash.end = FALSE
        <5>1. CASE flash = Erased
          BY <5>1 DEF Erased
        <5>2. CASE flash = [Erased EXCEPT !.init = TRUE, !.mac = ram.mac]
          BY <5>2 DEF Erased
        <5> QED BY <4>1, <5>1, <5>2
      <4>3. ~Whole(flash)
        BY <4>2 DEF Whole
      <4> QED BY <2>1, <3>2, <4>3 DEF Whole
    <3> QED BY <3>1, <3>2 DEF SavedTypes
  <2> QED BY <2>1, <2>2, <2>3 DEF Persisted, Whole
<1>2. CASE Boot
  <2>1. phase = "off" /\ saving = "no" /\ cmd = NoCmd /\ UNCHANGED <<flash, cmd, acked>>
    BY <1>2 DEF Boot, Persisted
  <2>2. CASE Whole(flash)
    <3>1. flash = Written(acked) /\ acked \in Image
      BY <2>1, <2>2 DEF Persisted, SavedTypes
    <3>2. ram' = acked
      BY <1>2, <2>2, <3>1 DEF Boot, Written, Image
    <3>3. phase' = "up" /\ UNCHANGED saving
      BY <1>2, <2>2 DEF Boot
    <3>4. NoCmd.pc # "save"
      BY DEF NoCmd
    <3> QED BY <2>1, <2>2, <3>1, <3>2, <3>3, <3>4 DEF SavedTypes, Persisted, Whole
  <2>3. CASE ~Whole(flash)
    <3>1. acked = Default
      BY <2>1, <2>3 DEF Persisted
    <3>2. phase' = "boot" /\ saving' = "erase" /\ ram' = Default
      BY <1>2, <2>3 DEF Boot
    <3> QED BY <2>1, <2>3, <3>1, <3>2, DefaultTypes DEF SavedTypes, Persisted, Whole
  <2> QED BY <2>2, <2>3
<1>3. CASE Save
  <2>0. phase \in {"boot", "up"}
    BY <1>3 DEF Save, Persisted, SavedTypes
  <2>1. CASE saving = "erase"
    <3>1. saving' = "first" /\ flash' = Erased /\ UNCHANGED <<phase, cmd, acked, ram>>
      BY <1>3, <2>1 DEF Save
    <3> QED BY <2>0, <2>1, <3>1, DefaultTypes DEF SavedTypes, Persisted, Erased
  <2>2. CASE saving = "first"
    <3>1. saving' = "second" /\ flash' = [flash EXCEPT !.init = TRUE, !.mac = ram.mac]
          /\ UNCHANGED <<phase, cmd, acked, ram>>
      BY <1>3, <2>2 DEF Save
    <3>2. flash = Erased
      BY <2>2 DEF Persisted
    <3>3. ~Whole(flash')
      BY <3>1, <3>2 DEF Whole, Erased
    <3>4. ram.mac \in Macs \cup {Random, Mixed}
      BY DEF SavedTypes, Image
    <3> QED BY <2>0, <2>2, <3>1, <3>2, <3>3, <3>4 DEF SavedTypes, Persisted, Erased, Whole
  <2>3. CASE saving = "second"
    <3>1. /\ saving' = "no" /\ phase' = "up" /\ cmd' = NoCmd /\ UNCHANGED ram
          /\ flash' = [flash EXCEPT !.role = ram.role, !.peer = ram.peer, !.end = TRUE]
          /\ acked' = IF phase = "boot" THEN acked ELSE ram
      BY <1>3, <2>3 DEF Save
    <3>2. flash = [Erased EXCEPT !.init = TRUE, !.mac = ram.mac]
      BY <2>3 DEF Persisted
    <3>3. flash' = Written(ram) /\ Whole(flash')
      BY <3>1, <3>2 DEF Whole, Erased, Written
    <3>4. acked' = ram
      BY <2>0, <3>1 DEF Persisted
    <3>5. ram \in Image /\ NoCmd.pc # "save"
      BY DEF SavedTypes, NoCmd
    <3>6. SavedTypes'
      BY <3>1, <3>3, <3>4, <3>5 DEF SavedTypes, Written, Image
    <3> QED BY <3>1, <3>3, <3>4, <3>5, <3>6 DEF Persisted, Whole
  <2> QED BY <1>3, <2>1, <2>2, <2>3 DEF Save
<1>4. CASE Copied
  <2>1. /\ cmd.pc = "copy" /\ cmd' = [cmd EXCEPT !.pc = "save"] /\ saving' = "erase"
        /\ UNCHANGED <<phase, flash, acked>>
        /\ ram' = IF cmd.op = "CONA" THEN [ram EXCEPT !.peer = cmd.arg, !.role = MASTER]
                                     ELSE [ram EXCEPT !.mac = cmd.arg, !.role = SLAVE]
    BY <1>4 DEF Copied
  <2>2. cmd \in Commands /\ cmd # NoCmd
    BY <2>1 DEF SavedTypes, NoCmd
  <2>3. phase = "up" /\ saving = "no"
    BY <2>1, <2>2 DEF Persisted, SavedTypes
  <2>4. cmd' \in Commands /\ cmd' # NoCmd /\ cmd'.pc = "save"
    BY <2>1, <2>2 DEF Commands, NoCmd
  <2>5. ram' \in Image
    BY <2>1, <2>2 DEF SavedTypes, Image, Commands
  <2> QED BY <2>1, <2>3, <2>4, <2>5 DEF SavedTypes, Persisted, Whole
<1>5. ASSUME NEW c \in Ops, Command(c), ~PowerOff PROVE SavedTypes' /\ Persisted'
  <2>1. phase = "up" /\ cmd = NoCmd /\ saving = "no" /\ ram = acked /\ UNCHANGED <<phase, flash, acked>>
    BY <1>5 DEF Command, Persisted, NoCmd, SavedTypes
  <2>2. CASE c.op = "ROLE"
    <3>1. c.arg \in Roles /\ ram' = [ram EXCEPT !.role = c.arg] /\ saving' = "erase"
          /\ cmd' = [op |-> "ROLE", arg |-> c.arg, pc |-> "save"]
      BY <1>5, <2>2 DEF Command, Ops, Roles
    <3>2. cmd' \in Commands /\ cmd' # NoCmd /\ cmd'.pc = "save"
      BY <3>1 DEF Commands, NoCmd
    <3>3. ram' \in Image
      BY <3>1 DEF SavedTypes, Image, Roles
    <3> QED BY <2>1, <3>1, <3>2, <3>3 DEF SavedTypes, Persisted, Whole
  <2>3. CASE c.op \in {"CONA", "LADDR"}
    <3>1. /\ ram' = IF c.op = "CONA" THEN [ram EXCEPT !.peer = Mixed] ELSE [ram EXCEPT !.mac = Mixed]
          /\ cmd' = [op |-> c.op, arg |-> c.arg, pc |-> "copy"] /\ UNCHANGED saving
      BY <1>5, <2>3 DEF Command
    <3>2. cmd' \in Commands /\ cmd' # NoCmd /\ cmd'.pc = "copy"
      BY <2>3, <3>1 DEF Commands, NoCmd, Ops
    <3>3. ram' \in Image
      BY <3>1 DEF SavedTypes, Image
    <3> QED BY <2>1, <3>1, <3>2, <3>3 DEF SavedTypes, Persisted, Whole
  <2> QED BY <1>5, <2>2, <2>3 DEF Command
<1>6. CASE UNCHANGED <<phase, persist>>
  BY <1>6 DEF SavedTypes, Persisted, Whole
<1> QED BY <1>1, <1>2, <1>3, <1>4, <1>5, <1>6, StepKinds DEF vars

-----------------------------------------------------------------------------
(* Links and the queue of events *)

LEMMA EventTypes ==
  /\ [type |-> "FAILED"] \in Event
  /\ \A h \in Handles : EndOf(h) \in Event
  /\ \A h \in Handles, r \in Roles : StartOf(h, r) \in Event
BY DEF Event, EndOf, StartOf, Roles

(* What a step does to the links and to the queue: nothing, it takes the   *)
(* head, or it reports one thing behind all the others.                    *)
Takes    == events # <<>> /\ events' = Tail(events) /\ UNCHANGED <<link, overlap>>
Fails    == events' = Append(events, [type |-> "FAILED"]) /\ UNCHANGED <<link, overlap>>
Starts(h, r) ==
  /\ ~UpOrEnding(h) /\ events' = Append(events, StartOf(h, r))
  /\ Live' = Live \cup {h} /\ \A g \in Handles \ {h} : link'[g] = link[g]
  /\ overlap' = (overlap \/ AnotherLink)
Ends(h) ==
  /\ h \in Live /\ events' = Append(events, EndOf(h)) /\ Live' = Live \ {h}
  /\ (\A g \in Handles \ {h} : link'[g] = link[g]) /\ UNCHANGED overlap
Cleared == Live' = {} /\ events' = <<>> /\ ~overlap'

LEMMA PowerOffClears == PowerOff => Cleared
<1> SUFFICES ASSUME PowerOff PROVE Cleared
  OBVIOUS
<1>1. link' = [h \in Handles |-> NoLink] /\ events' = <<>> /\ overlap' = FALSE
  BY DEF PowerOff
<1> QED BY <1>1 DEF Cleared, Live

LEMMA DialledStarts ==
  ASSUME RadioTypes, NEW h \in Handles, Dialled(h) \/ Called(h)
  PROVE  /\ Starts(h, MASTER) \/ Starts(h, SLAVE)
         /\ Dialled(h) => Starts(h, MASTER)
         /\ Called(h) => Starts(h, SLAVE)
<1>1. ~UpOrEnding(h)
  BY DEF Dialled, Called, Free, UpOrEnding
<1>2. ASSUME NEW r, NEW q, link' = [link EXCEPT ![h] = [role |-> r, peer |-> q]], q # None
      PROVE  Live' = Live \cup {h} /\ \A g \in Handles \ {h} : link'[g] = link[g]
  BY <1>2 DEF RadioTypes, Live, NoLink
<1>3. Factory # None /\ (initiating \in Peers => initiating # None)
  BY IngLinkAssumption DEF Factory, None
<1> QED BY <1>1, <1>2, <1>3 DEF Dialled, Called, Reports, Starts, StartOf

LEMMA LinkEndsEnds ==
  ASSUME RadioTypes, NEW h \in Handles, LinkEnds(h)
  PROVE  Ends(h)
BY DEF LinkEnds, Reports, Ends, EndOf, RadioTypes, Live

LEMMA QueueKinds ==
  ASSUME RadioTypes, [Next]_vars
  PROVE  \/ PowerOff /\ Cleared
         \/ UNCHANGED <<link, events, overlap>>
         \/ Takes /\ (ConnectFailed \/ Connected \/ Disconnected)
         \/ Fails
         \/ \E h \in Handles : Starts(h, MASTER) \/ Starts(h, SLAVE) \/ Ends(h)
<1> USE DEF radio
<1>1. CASE PowerOff
  BY <1>1, PowerOffClears
<1>2. CASE UNCHANGED <<manager, through, radio>> \/ UNCHANGED vars
  BY <1>2 DEF vars
<1>3. CASE ManagerStep
  <2>1. CASE FirstWakeUp \/ TimerFires \/ \E on \in BOOLEAN : Subscribe(on)
    BY <2>1 DEF FirstWakeUp, TimerFires, Subscribe
  <2>2. CASE \E ok \in BOOLEAN : QueryDone(ok)
    BY <2>2 DEF QueryDone
  <2>3. CASE Timeout
    BY <2>3 DEF Timeout, Fails
  <2>4. CASE ConnectFailed \/ Connected \/ Disconnected
    BY <2>4 DEF ConnectFailed, Connected, Disconnected, Handling, Takes
  <2> QED BY <1>3, <2>1, <2>2, <2>3, <2>4 DEF ManagerStep
<1>4. CASE RadioStep
  BY <1>4, DialledStarts, LinkEndsEnds DEF RadioStep
<1> QED BY <1>1, <1>2, <1>3, <1>4, StepKinds

LEMMA StepEvents == RadioTypes /\ [Next]_vars => events' \in Seq(Event)
<1> SUFFICES ASSUME RadioTypes, [Next]_vars PROVE events' \in Seq(Event)
  OBVIOUS
<1>1. events \in Seq(Event)
  BY DEF RadioTypes
<1>2. CASE Cleared \/ UNCHANGED events \/ Takes
  <2>1. events' = <<>> \/ events' = events \/ (events # <<>> /\ events' = Tail(events))
    BY <1>2 DEF Cleared, Takes
  <2>2. <<>> \in Seq(Event)
    OBVIOUS
  <2>3. events # <<>> => Tail(events) \in Seq(Event)
    BY <1>1
  <2> QED BY <1>1, <2>1, <2>2, <2>3
<1>3. CASE Fails
  BY <1>1, <1>3, EventTypes DEF Fails
<1>4. ASSUME NEW h \in Handles, Starts(h, MASTER) \/ Starts(h, SLAVE) \/ Ends(h)
      PROVE  events' \in Seq(Event)
  <2>1. PICK e \in Event : events' = Append(events, e)
    BY <1>4, EventTypes DEF Starts, Ends, Roles
  <2> HIDE <1>4
  <2> QED BY <1>1, <2>1
<1> QED BY <1>2, <1>3, <1>4, QueueKinds

(* The handles that are up, or whose end is on its way, change only when a *)
(* link comes up or when its end is handled.                               *)
LEMMA UpSame ==
  ASSUME RadioTypes, UNCHANGED <<link, events>> \/ Fails, NEW g
  PROVE  UpOrEnding(g)' <=> UpOrEnding(g)
<1>1. Live' = Live
  BY DEF Live, Fails
<1>2. CASE UNCHANGED events
  BY <1>1, <1>2 DEF UpOrEnding
<1>3. CASE Fails
  <2>1. events' = Append(events, [type |-> "FAILED"]) /\ events \in Seq(Event)
    BY <1>3 DEF Fails, RadioTypes
  <2>2. DOMAIN events' = DOMAIN events \cup {Len(events) + 1}
        /\ (\A i \in DOMAIN events : events'[i] = events[i])
        /\ events'[Len(events) + 1] = [type |-> "FAILED"]
    BY <2>1
  <2>3. [type |-> "FAILED"] # [type |-> "DISCONNECTED", h |-> g]
    OBVIOUS
  <2> QED BY <1>1, <2>2, <2>3 DEF UpOrEnding
<1> QED BY <1>2, <1>3

LEMMA UpTaken ==
  ASSUME RadioTypes, Queued, Takes, NEW g
  PROVE  /\ Head(events).type # "DISCONNECTED" => (UpOrEnding(g)' <=> UpOrEnding(g))
         /\ Head(events).type = "DISCONNECTED" =>
              (UpOrEnding(g)' => UpOrEnding(g) /\ g # Head(events).h)
         /\ Head(events).type = "DISCONNECTED" /\ g # Head(events).h =>
              (UpOrEnding(g) => UpOrEnding(g)')
<1>1. Live' = Live
  BY DEF Live, Takes
<1>2. /\ events # <<>> /\ events' = Tail(events) /\ events \in Seq(Event)
      /\ DOMAIN events' = 1 .. Len(events) - 1 /\ DOMAIN events = 1 .. Len(events)
      /\ (\A i \in DOMAIN events' : events'[i] = events[i + 1] /\ i + 1 \in DOMAIN events)
      /\ Head(events) = events[1] /\ 1 \in DOMAIN events
  BY DEF Takes, RadioTypes
<1>3. ASSUME UpOrEnding(g)' PROVE UpOrEnding(g)
  BY <1>1, <1>2, <1>3 DEF UpOrEnding
<1>4. ASSUME UpOrEnding(g), Head(events) # EndOf(g) PROVE UpOrEnding(g)'
  <2>1. CASE g \in Live
    BY <1>1, <2>1 DEF UpOrEnding
  <2>2. ASSUME NEW i \in DOMAIN events, events[i] = EndOf(g) PROVE UpOrEnding(g)'
    <3>1. i # 1 /\ i - 1 \in DOMAIN events' /\ events'[i - 1] = events[i]
      BY <1>2, <1>4, <2>2
    <3> QED BY <2>2, <3>1 DEF UpOrEnding, EndOf
  <2> QED BY <1>4, <2>1, <2>2 DEF UpOrEnding, EndOf
<1>5. ASSUME Head(events).type = "DISCONNECTED", g = Head(events).h, UpOrEnding(g)'
      PROVE  FALSE
  <2>1. g \notin Live
    BY <1>2, <1>5 DEF Queued
  <2>2. PICK i \in DOMAIN events' : events'[i] = EndOf(g)
    BY <1>1, <1>5, <2>1 DEF UpOrEnding, EndOf
  <2>3. events[i + 1] = EndOf(g) /\ i + 1 \in DOMAIN events /\ i + 1 > 1
    BY <1>2, <2>2
  <2>4. events[i + 1].h = events[1].h /\ events[i + 1].type # "FAILED"
    BY <1>2, <1>5, <2>3 DEF EndOf
  <2> QED BY <1>2, <1>5, <2>3, <2>4 DEF Queued
<1> QED BY <1>3, <1>4, <1>5 DEF EndOf

LEMMA UpStarted ==
  ASSUME RadioTypes, NEW h \in Handles, NEW r \in Roles, Starts(h, r), NEW g
  PROVE  UpOrEnding(g)' <=> UpOrEnding(g) \/ g = h
<1>1. events' = Append(events, StartOf(h, r)) /\ events \in Seq(Event) /\ Live' = Live \cup {h}
  BY DEF Starts, RadioTypes
<1>2. /\ DOMAIN events' = DOMAIN events \cup {Len(events) + 1}
      /\ \A i \in DOMAIN events : events'[i] = events[i]
      /\ events'[Len(events) + 1] = StartOf(h, r)
  BY <1>1
<1>3. StartOf(h, r) # [type |-> "DISCONNECTED", h |-> g]
  BY DEF StartOf
<1> QED BY <1>1, <1>2, <1>3 DEF UpOrEnding

LEMMA UpEnded ==
  ASSUME RadioTypes, NEW h \in Handles, Ends(h), NEW g
  PROVE  UpOrEnding(g)' <=> UpOrEnding(g)
<1>1. events' = Append(events, EndOf(h)) /\ events \in Seq(Event) /\ Live' = Live \ {h} /\ h \in Live
  BY DEF Ends, RadioTypes
<1>2. /\ DOMAIN events' = DOMAIN events \cup {Len(events) + 1}
      /\ \A i \in DOMAIN events : events'[i] = events[i]
      /\ events'[Len(events) + 1] = EndOf(h)
  BY <1>1
<1> QED BY <1>1, <1>2 DEF UpOrEnding, EndOf

-----------------------------------------------------------------------------
(* A link is reported up before it is reported down, and down once *)

LEMMA StepQueued ==
  ASSUME RadioTypes, Queued, [Next]_vars
  PROVE  Queued'
<1>a. events \in Seq(Event)
  BY DEF RadioTypes
<1>1. CASE Cleared
  BY <1>1 DEF Cleared, Queued
<1>2. CASE UNCHANGED <<link, events, overlap>>
  BY <1>2 DEF Queued, Live
<1>3. CASE Takes
  <2>1. Live' = Live
    BY <1>3 DEF Live, Takes
  <2>2. /\ DOMAIN events' = 1 .. Len(events) - 1 /\ DOMAIN events = 1 .. Len(events)
        /\ \A i \in DOMAIN events' : events'[i] = events[i + 1] /\ i + 1 \in DOMAIN events
        /\ \A j \in DOMAIN events : j > 1 => j - 1 \in DOMAIN events' /\ events'[j - 1] = events[j]
    BY <1>a, <1>3 DEF Takes
  <2>3. ASSUME NEW i \in DOMAIN events', events'[i].type = "CONNECTED", events'[i].h \notin Live
        PROVE  \E j \in DOMAIN events' : j > i /\ events'[j] = EndOf(events'[i].h)
    <3>1. PICK j \in DOMAIN events : j > i + 1 /\ events[j] = EndOf(events[i + 1].h)
      BY <2>2, <2>3 DEF Queued
    <3>2. j - 1 \in DOMAIN events' /\ j - 1 > i /\ events'[j - 1] = EndOf(events'[i].h)
      BY <2>2, <3>1
    <3> QED BY <3>2
  <2>4. ASSUME NEW i \in DOMAIN events', NEW j \in DOMAIN events', events'[i].type = "DISCONNECTED",
               events'[j].type # "FAILED", events'[j].h = events'[i].h
        PROVE  j <= i
    <3>1. j + 1 <= i + 1
      BY <2>2, <2>4 DEF Queued
    <3> QED BY <2>2, <3>1
  <2>5. \A i \in DOMAIN events' : events'[i].type = "DISCONNECTED" => events'[i].h \notin Live
    BY <2>2 DEF Queued
  <2> QED BY <2>1, <2>3, <2>4, <2>5 DEF Queued
<1>4. ASSUME NEW e \in Event, events' = Append(events, e),
             \/ e.type = "FAILED" /\ Live' = Live
             \/ \E h \in Handles, r \in Roles : e = StartOf(h, r) /\ ~UpOrEnding(h) /\ Live' = Live \cup {h}
             \/ \E h \in Handles : e = EndOf(h) /\ h \in Live /\ Live' = Live \ {h}
      PROVE  Queued'
  <2> DEFINE n == Len(events) + 1
  <2>1. /\ DOMAIN events' = DOMAIN events \cup {n} /\ events'[n] = e
        /\ \A i \in DOMAIN events : events'[i] = events[i] /\ i < n /\ n > i /\ i \in Nat
        /\ n \in Nat
    BY <1>a, <1>4
  <2> HIDE DEF n
  <2>2. CASE e.type = "FAILED" /\ Live' = Live
    BY <2>1, <2>2 DEF Queued
  <2>3. ASSUME NEW h \in Handles, NEW r \in Roles, e = StartOf(h, r), ~UpOrEnding(h), Live' = Live \cup {h}
        PROVE  Queued'
    <3>1. e.type = "CONNECTED" /\ e.h = h
      BY <2>3 DEF StartOf
    <3>2. \A i \in DOMAIN events : events[i].type = "DISCONNECTED" => events[i].h # h
      <4> SUFFICES ASSUME NEW i \in DOMAIN events, events[i].type = "DISCONNECTED", events[i].h = h
                   PROVE  FALSE
        OBVIOUS
      <4>1. events[i] \in Event
        BY <1>a
      <4>2. events[i] = [type |-> "DISCONNECTED", h |-> h]
        BY <4>1 DEF Event
      <4> QED BY <2>3, <4>2 DEF UpOrEnding
    <3> QED BY <2>1, <2>3, <3>1, <3>2 DEF Queued
  <2>4. ASSUME NEW h \in Handles, e = EndOf(h), h \in Live, Live' = Live \ {h} PROVE Queued'
    <3>1. e.type = "DISCONNECTED" /\ e.h = h
      BY <2>4 DEF EndOf
    <3>2. \A i \in DOMAIN events : events[i].type = "DISCONNECTED" => events[i].h # h
      BY <2>4 DEF Queued
    <3>3. ASSUME NEW i \in DOMAIN events', events'[i].type = "CONNECTED"
          PROVE  \/ events'[i].h \in Live'
                 \/ \E j \in DOMAIN events' : j > i /\ events'[j] = EndOf(events'[i].h)
      <4>1. i \in DOMAIN events /\ events'[i] = events[i] /\ n > i
        BY <2>1, <3>1, <3>3
      <4>2. CASE events[i].h = h
        BY <2>1, <2>4, <4>1, <4>2
      <4>3. CASE events[i].h # h
        BY <2>1, <2>4, <3>3, <4>1, <4>3 DEF Queued
      <4> QED BY <4>2, <4>3
    <3>4. \A i \in DOMAIN events' : events'[i].type = "DISCONNECTED" => events'[i].h \notin Live'
      BY <2>1, <2>4, <3>1 DEF Queued
    <3>5. \A i, j \in DOMAIN events' :
            events'[i].type = "DISCONNECTED" /\ events'[j].type # "FAILED" /\ events'[j].h = events'[i].h
            => j <= i
      BY <2>1, <3>1, <3>2 DEF Queued
    <3> QED BY <3>3, <3>4, <3>5 DEF Queued
  <2> QED BY <1>4, <2>2, <2>3, <2>4
<1>5. CASE Fails
  BY <1>4, <1>5, EventTypes DEF Fails, Live
<1>6. ASSUME NEW h \in Handles, Starts(h, MASTER) \/ Starts(h, SLAVE) PROVE Queued'
  BY <1>4, <1>6, EventTypes DEF Starts, Roles
<1>7. ASSUME NEW h \in Handles, Ends(h) PROVE Queued'
  BY <1>4, <1>7, EventTypes DEF Ends
<1> QED BY <1>1, <1>2, <1>3, <1>5, <1>6, <1>7, QueueKinds

-----------------------------------------------------------------------------
(* Type correctness of the rest *)

LEMMA Names ==
  /\ MASTER # SLAVE /\ MASTER # None /\ SLAVE # None
  /\ Factory # None /\ Mixed # None /\ None \notin Peers /\ Factory \notin Peers /\ Mixed \notin Peers
  /\ INVALID_HANDLE \notin Peers /\ Zero \notin Peers /\ INVALID_HANDLE \notin Handles
BY IngLinkAssumption DEF MASTER, SLAVE, None, Factory, Mixed, Zero

LEMMA RamPeer == SavedTypes => ram.peer \in Peers \cup {Factory, Mixed} /\ ram.role \in Roles
BY DEF SavedTypes, Image, Roles

(* The event at the head of the queue. *)
LEMMA HeadEvent ==
  ASSUME RadioTypes, NEW type, Handling(type)
  PROVE  /\ Head(events) \in Event /\ Head(events).type = type
         /\ type \in {"CONNECTED", "DISCONNECTED"} => Head(events).h \in Handles
         /\ type = "CONNECTED" => Head(events).role \in Roles
BY DEF Handling, RadioTypes, Event, Roles

LEMMA StepManagerTypes ==
  ASSUME Types, [Next]_vars
  PROVE  ManagerTypes'
<1> USE DEF manager
<1>a. ManagerTypes /\ RadioTypes /\ SavedTypes
  BY DEF Types
<1>1. CASE PowerOff
  <2>1. /\ mode' = None /\ initiating_id' = "OFF" /\ gap_is_connection_cancel' = 0
        /\ i_am_master_conn_handle' = INVALID_HANDLE /\ i_am_slave_conn_handle' = INVALID_HANDLE
        /\ create_conn_timer' = FALSE /\ timeouts' = 0
    BY <1>1 DEF PowerOff
  <2>2. gap_is_connection_cancel' \in 0 .. 1 /\ timeouts' \in Nat
    BY <2>1, SMT
  <2>3. create_conn_timer' \in BOOLEAN
    BY <2>1
  <2> QED BY <2>1, <2>2, <2>3, Zenon DEF ManagerTypes
<1>2. CASE UNCHANGED manager
  BY <1>a, <1>2 DEF ManagerTypes
<1>3. CASE FirstWakeUp
  BY <1>a, <1>3, RamPeer DEF FirstWakeUp, AutoConnect, ManagerTypes, Roles
<1>4. CASE Timeout
  <2>1. timeouts' \in Nat /\ gap_is_connection_cancel' \in 0 .. 1
    BY <1>a, <1>4 DEF Timeout, ManagerTypes
  <2> QED BY <1>a, <1>4, <2>1 DEF Timeout, AutoConnect, ManagerTypes
<1>5. CASE ConnectFailed
  BY <1>a, <1>5 DEF ConnectFailed, AutoConnect, ManagerTypes
<1>6. CASE Connected
  BY <1>a, <1>6, HeadEvent DEF Connected, ManagerTypes
<1>7. CASE Disconnected
  BY <1>a, <1>7 DEF Disconnected, AutoConnect, ManagerTypes
<1>8. CASE TimerFires
  BY <1>a, <1>8 DEF TimerFires, ManagerTypes
<1>9. ASSUME (\E ok \in BOOLEAN : QueryDone(ok)) \/ (\E on \in BOOLEAN : Subscribe(on)) \/ RadioStep
      PROVE  UNCHANGED manager
  BY <1>9 DEF QueryDone, Subscribe, RadioStep, Dialled, Called, LinkEnds, Reports
<1> QED BY <1>1, <1>2, <1>3, <1>4, <1>5, <1>6, <1>7, <1>8, <1>9, StepKinds DEF ManagerStep, vars

(* The peer a live link of a master belongs to. *)
LEMMA LivePeer ==
  ASSUME RadioTypes, NEW h \in Live
  PROVE  h \in Handles /\ PeerOf(h) \in Peers \cup {Factory}
                       /\ (link[h].role # SLAVE => PeerOf(h) \in Peers)
BY DEF RadioTypes, Live, PeerOf

LEMMA StepThroughTypes ==
  ASSUME Types, Modal, [Next]_vars, Found
  PROVE  ThroughTypes'
<1> USE DEF through
<1>a. ThroughTypes /\ RadioTypes
  BY DEF Types
<1>1. CASE PowerOff
  BY <1>1 DEF PowerOff, ThroughTypes, Unknown
<1>2. CASE UNCHANGED through
  BY <1>a, <1>2 DEF ThroughTypes
<1>3. ASSUME FirstWakeUp \/ Timeout \/ ConnectFailed \/ TimerFires \/ RadioStep
      PROVE  UNCHANGED through
  BY <1>3 DEF FirstWakeUp, Timeout, ConnectFailed, TimerFires, RadioStep, Dialled, Called,
              LinkEnds, Reports
<1>4. CASE Connected
  BY <1>a, <1>4, HeadEvent DEF Connected, ThroughTypes
<1>5. CASE Disconnected
  BY <1>a, <1>5 DEF Disconnected, ThroughputDisconnect, ThroughTypes
<1>6. ASSUME NEW on \in BOOLEAN, Subscribe(on) PROVE ThroughTypes'
  BY <1>a, <1>6 DEF Subscribe, ThroughTypes
<1>7. ASSUME NEW ok \in BOOLEAN, QueryDone(ok) PROVE ThroughTypes'
  <2> DEFINE p == PeerOf(query.h)
  <2>1. UNCHANGED <<throughput_con_handle, throughput_notify_enable>>
    BY <1>7 DEF QueryDone
  <2>2. \/ peer_slave' = peer_slave
        \/ /\ p \in Peers
           /\ \/ peer_slave' = [peer_slave EXCEPT !.service = p]
              \/ peer_slave' = [peer_slave EXCEPT !.char = p]
              \/ peer_slave' = [peer_slave EXCEPT !.desc = p]
    <3>1. query # NoQuery /\ query.h \in Live /\ mode = MASTER
      BY <1>a, <1>7 DEF QueryDone, Modal
    <3>2. p \in Peers
      BY <1>a, <3>1, LivePeer, Names DEF Modal
    <3> QED BY <1>7, <3>2 DEF QueryDone, ServiceDone, CharDone, DescDone, WriteDone
  <2> HIDE DEF p
  <2> QED BY <1>a, <2>1, <2>2 DEF ThroughTypes
<1> QED BY <1>1, <1>2, <1>3, <1>4, <1>5, <1>6, <1>7, StepKinds DEF ManagerStep, vars

LEMMA StepRadioTypes ==
  ASSUME Types, Modal, Found, [Next]_vars
  PROVE  RadioTypes'
<1> USE DEF radio
<1>a. RadioTypes /\ SavedTypes /\ events' \in Seq(Event)
  BY StepEvents DEF Types
<1>b. UNCHANGED link => Live' = Live
  BY DEF Live
<1>1. ASSUME UNCHANGED <<link, overlap>>, advertising' \in BOOLEAN,
             initiating' \in {initiating, None, ram.peer},
             closing' = closing \/ \E hs : closing' = closing \cup (hs \cap Live)
      PROVE  RadioTypes'
  BY <1>a, <1>b, <1>1, RamPeer DEF RadioTypes
<1>2. CASE PowerOff
  <2>1. /\ advertising' = FALSE /\ initiating' = None /\ link' = [h \in Handles |-> NoLink]
        /\ closing' = {} /\ overlap' = FALSE
    BY <1>2 DEF PowerOff
  <2> QED BY <1>a, <2>1 DEF RadioTypes
<1>3. CASE UNCHANGED radio
  BY <1>a, <1>3, <1>b DEF RadioTypes
<1>4. CASE FirstWakeUp
  BY <1>a, <1>1, <1>4 DEF FirstWakeUp, AutoConnect, RadioTypes
<1>5. CASE Timeout
  BY <1>a, <1>1, <1>5 DEF Timeout, AutoConnect, RadioTypes
<1>6. CASE ConnectFailed
  BY <1>a, <1>1, <1>6 DEF ConnectFailed, AutoConnect, RadioTypes
<1>7. CASE Connected
  BY <1>a, <1>1, <1>7 DEF Connected, RadioTypes
<1>8. CASE Disconnected
  <2>1. UNCHANGED <<link, overlap>> /\ advertising' \in BOOLEAN
        /\ \/ UNCHANGED <<initiating, closing>>
           \/ AutoConnect(initiating, INVALID_HANDLE)
    BY <1>a, <1>8 DEF Disconnected, RadioTypes
  <2> QED BY <1>1, <2>1 DEF AutoConnect
<1>9. CASE TimerFires \/ \E on \in BOOLEAN : Subscribe(on)
  BY <1>3, <1>9 DEF TimerFires, Subscribe
<1>10. ASSUME NEW ok \in BOOLEAN, QueryDone(ok) PROVE RadioTypes'
  <2>1. query # NoQuery /\ query.h \in Live /\ UNCHANGED <<advertising, initiating, link, overlap>>
    BY <1>10 DEF QueryDone
  <2>2. query.h = peer_slave.conn_handle
    BY <2>1 DEF Found
  <2>3. \/ UNCHANGED <<closing, peer_slave>> \/ UNCHANGED closing
        \/ closing' = closing \cup {peer_slave.conn_handle}
    BY <1>10 DEF QueryDone, ServiceDone, CharDone, DescDone, WriteDone, Disconnect
  <2>4. {query.h} \cap Live = {query.h}
    BY <2>1
  <2> QED BY <1>a, <1>1, <2>1, <2>2, <2>3, <2>4 DEF RadioTypes
<1>11. ASSUME NEW h \in Handles, NEW l \in [role : {MASTER}, peer : Peers] \cup [role : {SLAVE}, peer : {Factory}],
              link' = [link EXCEPT ![h] = l], closing' = closing,
              advertising' \in BOOLEAN, initiating' \in {initiating, None}, overlap' \in BOOLEAN
       PROVE  RadioTypes'
  <2>1. l # NoLink
    BY Names DEF NoLink
  <2>2. Live \subseteq Live'
    BY <1>a, <1>11, <2>1 DEF Live, RadioTypes
  <2> QED BY <1>a, <1>11, <2>2 DEF RadioTypes
<1>12. ASSUME NEW h \in Handles, Dialled(h) PROVE RadioTypes'
  <2> DEFINE l == [role |-> MASTER, peer |-> initiating]
  <2>1. l \in [role : {MASTER}, peer : Peers] /\ link' = [link EXCEPT ![h] = l]
    BY <1>12 DEF Dialled
  <2> QED BY <1>a, <1>11, <1>12, <2>1 DEF Dialled, RadioTypes
<1>13. ASSUME NEW h \in Handles, Called(h) PROVE RadioTypes'
  <2> DEFINE l == [role |-> SLAVE, peer |-> Factory]
  <2>1. l \in [role : {SLAVE}, peer : {Factory}] /\ link' = [link EXCEPT ![h] = l]
    BY <1>13 DEF Called
  <2> QED BY <1>a, <1>11, <1>13, <2>1 DEF Called, RadioTypes
<1>14. ASSUME NEW h \in Handles, LinkEnds(h) PROVE RadioTypes'
  <2>1. link' = [link EXCEPT ![h] = NoLink] /\ closing' = closing \ {h}
        /\ UNCHANGED <<advertising, initiating, overlap>>
    BY <1>14 DEF LinkEnds
  <2>2. Live' = Live \ {h}
    BY <1>a, <2>1 DEF Live, RadioTypes
  <2> QED BY <1>a, <2>1, <2>2 DEF RadioTypes
<1> QED
  BY <1>2, <1>3, <1>4, <1>5, <1>6, <1>7, <1>8, <1>9, <1>10, <1>12, <1>13, <1>14, StepKinds
     DEF ManagerStep, RadioStep, vars

-----------------------------------------------------------------------------
(* What a role excludes *)

LEMMA StepModal ==
  ASSUME Types, Modal, Queued, Followed, Found, [Next]_vars
  PROVE  Modal'
<1> USE DEF manager, radio, through
<1>a. RadioTypes /\ SavedTypes /\ ManagerTypes /\ events \in Seq(Event)
  BY DEF Types, RadioTypes
<1>b. UNCHANGED link => Live' = Live
  BY DEF Live
<1>1. CASE PowerOff
  <2>1. /\ mode' = None /\ initiating_id' = "OFF"
        /\ i_am_master_conn_handle' = INVALID_HANDLE /\ i_am_slave_conn_handle' = INVALID_HANDLE
        /\ create_conn_timer' = FALSE /\ timeouts' = 0 /\ throughput_notify_enable' = FALSE
        /\ query' = NoQuery /\ advertising' = FALSE /\ initiating' = None
        /\ link' = [h \in Handles |-> NoLink] /\ events' = <<>>
    BY <1>1 DEF PowerOff
  <2>2. Live' = {} /\ ~overlap'
    BY <1>1, PowerOffClears DEF Cleared
  <2> QED BY <2>1, <2>2, Names DEF Modal, NoLink
<1>2. CASE UNCHANGED <<manager, through, radio>>
  BY <1>2, <1>b DEF Modal
<1>3. CASE FirstWakeUp
  <2>1. mode = None /\ mode' \in Roles /\ Live' = Live /\ UNCHANGED <<link, events, overlap>>
    BY <1>a, <1>b, <1>3, RamPeer DEF FirstWakeUp
  <2> QED BY <1>3, <2>1, Names DEF Modal, FirstWakeUp, Roles, AutoConnect
<1>4. CASE Timeout
  <2>1. mode = MASTER /\ UNCHANGED <<mode, overlap, advertising, i_am_slave_conn_handle, throughput_notify_enable, link>>
    BY <1>4 DEF Timeout, Modal
  <2>2. events' = events \/ events' = Append(events, [type |-> "FAILED"])
    BY <1>4 DEF Timeout
  <2>3. \A i \in DOMAIN events' : events'[i].type = "CONNECTED" => events'[i].role # SLAVE
    BY <1>a, <2>1, <2>2, Names DEF Modal
  <2> QED BY <2>1, <2>3, Names DEF Modal
<1>5. ASSUME Takes
      PROVE  /\ \A i \in DOMAIN events' : i + 1 \in DOMAIN events /\ events'[i] = events[i + 1]
             /\ Head(events) = events[1] /\ 1 \in DOMAIN events
  BY <1>a, <1>5 DEF Takes
<1>6. CASE ConnectFailed
  <2>1. Takes /\ UNCHANGED <<mode, overlap, advertising, i_am_slave_conn_handle, throughput_notify_enable, link>>
        /\ Head(events).type = "FAILED"
    BY <1>6 DEF ConnectFailed, Handling, Takes
  <2>2. mode = MASTER
    BY <1>5, <2>1 DEF Modal
  <2> QED BY <1>5, <2>1, <2>2, Names DEF Modal
<1>7. CASE Connected
  <2>1. Takes /\ UNCHANGED <<mode, overlap, advertising, throughput_notify_enable, link, timeouts, initiating_id, initiating>>
        /\ Head(events) \in Event /\ Head(events).type = "CONNECTED" /\ Head(events).role \in Roles
    BY <1>a, <1>7, HeadEvent DEF Connected, Handling, Takes
  <2>2. mode \in Roles /\ Head(events).role = mode
    BY <1>a, <1>5, <2>1, Names DEF Modal, ManagerTypes, Roles
  <2>3. mode = SLAVE => ~advertising
    BY <2>1 DEF Modal, Takes
  <2>4. CASE mode = SLAVE
    BY <1>5, <1>7, <2>1, <2>2, <2>3, <2>4, Names DEF Modal, Connected
  <2>5. CASE mode = MASTER
    BY <1>5, <1>7, <2>1, <2>2, <2>5, Names DEF Modal, Connected
  <2> QED BY <2>2, <2>4, <2>5 DEF Roles
<1>8. CASE Disconnected
  <2> DEFINE h == Head(events).h
  <2>1. Takes /\ UNCHANGED <<mode, overlap, link, timeouts>> /\ h \in Handles
        /\ Head(events).type = "DISCONNECTED" /\ events # <<>>
    BY <1>a, <1>8, HeadEvent DEF Disconnected, Handling, Takes
  <2>2. mode \in Roles
    BY <1>a, <2>1 DEF Modal, ManagerTypes, Roles
  <2>3. /\ i_am_master_conn_handle' \in {i_am_master_conn_handle, INVALID_HANDLE}
        /\ i_am_slave_conn_handle' \in {i_am_slave_conn_handle, INVALID_HANDLE}
        /\ advertising' = (advertising \/ (h # i_am_master_conn_handle /\ h = i_am_slave_conn_handle))
        /\ ~throughput_notify_enable' /\ query' = NoQuery
        /\ h # i_am_master_conn_handle => UNCHANGED <<initiating_id, create_conn_timer, initiating>>
    BY <1>8 DEF Disconnected, ThroughputDisconnect
  <2>4. CASE mode = MASTER
    <3>1. ~advertising'
      BY <2>1, <2>3, <2>4, Names DEF Modal
    <3> QED BY <1>5, <2>1, <2>3, <2>4, <3>1, Names DEF Modal
  <2>5. CASE mode = SLAVE
    <3>1. h # i_am_master_conn_handle
      BY <2>1, <2>5, Names DEF Modal
    <3>2. \A g \in Handles : ~UpOrEnding(g)'
      <4> SUFFICES ASSUME NEW g \in Handles, UpOrEnding(g)' PROVE FALSE
        OBVIOUS
      <4>1. UpOrEnding(g) /\ g # h
        BY <1>a, <2>1, UpTaken
      <4>2. events[1] = EndOf(h) /\ 1 \in DOMAIN events
        BY <1>a, <1>5, <2>1 DEF Event, EndOf
      <4>3. UpOrEnding(h)
        BY <4>2 DEF UpOrEnding, EndOf
      <4> QED BY <2>1, <2>5, <4>1, <4>3 DEF Modal, Followed, OneLink
    <3>3. Live' = {}
      BY <3>2 DEF UpOrEnding, Live
    <3>4. events' = <<>>
      <4>1. events' \in Seq(Event) /\ Queued'
        BY <1>a, StepEvents, StepQueued
      <4> SUFFICES ASSUME events' # <<>> PROVE FALSE
        OBVIOUS
      <4>2. 1 \in DOMAIN events' /\ events'[1] \in Event
        BY <4>1
      <4>3. events'[1].type = "DISCONNECTED" => events'[1] = EndOf(events'[1].h) /\ events'[1].h \in Handles
        BY <4>2 DEF Event, EndOf
      <4>4. events'[1].type # "DISCONNECTED"
        BY <3>2, <4>2, <4>3 DEF UpOrEnding, EndOf
      <4>5. events'[1].type # "FAILED"
        BY <1>5, <2>1, <2>5, <4>2, Names DEF Modal
      <4>6. events'[1].type = "CONNECTED" /\ events'[1].h \in Handles
        BY <4>2, <4>4, <4>5 DEF Event
      <4>7. PICK j \in DOMAIN events' : events'[j] = EndOf(events'[1].h)
        BY <3>3, <4>1, <4>2, <4>6 DEF Queued
      <4> QED BY <3>2, <4>6, <4>7 DEF UpOrEnding, EndOf
    <3> QED BY <1>5, <2>1, <2>3, <2>5, <3>1, <3>3, <3>4, Names DEF Modal
  <2> QED BY <2>2, <2>4, <2>5 DEF Roles
<1>9. CASE TimerFires
  <2>1. mode = MASTER
    BY <1>9 DEF TimerFires, Modal
  <2> QED BY <1>9, <1>b, <2>1, Names DEF TimerFires, Modal
<1>10. ASSUME NEW on \in BOOLEAN, Subscribe(on) PROVE Modal'
  <2>1. i_am_slave_conn_handle # INVALID_HANDLE
    BY <1>10, Names DEF Subscribe, Live
  <2>2. mode = SLAVE
    BY <2>1 DEF Modal
  <2> QED BY <1>10, <1>b, <2>2, Names DEF Subscribe, Modal
<1>11. ASSUME NEW ok \in BOOLEAN, QueryDone(ok) PROVE Modal'
  <2>1. mode = MASTER /\ UNCHANGED <<manager, throughput_con_handle, throughput_notify_enable,
                                     advertising, initiating, link, events, overlap>>
    BY <1>11 DEF QueryDone, Modal
  <2> QED BY <1>b, <2>1, Names DEF Modal
<1>12. ASSUME NEW h \in Handles, Dialled(h) PROVE Modal'
  <2>1. initiating \in Peers /\ mode = MASTER
    BY <1>12, Names DEF Dialled, Modal
  <2>2. UNCHANGED <<manager, through, advertising>> /\ link' = [link EXCEPT ![h] = [role |-> MASTER, peer |-> initiating]]
        /\ events' = Append(events, [type |-> "CONNECTED", h |-> h, role |-> MASTER])
    BY <1>12 DEF Dialled, Reports
  <2>3. \A i \in DOMAIN events' : events'[i].type = "CONNECTED" => events'[i].role # SLAVE
    BY <1>a, <2>1, <2>2, Names DEF Modal
  <2>4. \A g \in Handles : link'[g].role # SLAVE
    BY <1>a, <2>1, <2>2, Names DEF Modal, RadioTypes
  <2> QED BY <2>1, <2>2, <2>3, <2>4, Names DEF Modal
<1>13. ASSUME NEW h \in Handles, Called(h) PROVE Modal'
  <2>1. mode = SLAVE /\ Live = {} /\ events = <<>> /\ ~overlap /\ ~advertising'
    BY <1>13, Names DEF Called, Modal
  <2>2. ~AnotherLink
    BY <2>1 DEF AnotherLink
  <2>3. UNCHANGED <<manager, through, initiating>> /\ ~overlap'
        /\ events' = Append(events, [type |-> "CONNECTED", h |-> h, role |-> SLAVE])
    BY <1>13, <2>1, <2>2 DEF Called, Reports
  <2>4. \A i \in DOMAIN events' : events'[i].type = "CONNECTED" /\ events'[i].role # MASTER
    BY <2>1, <2>3, Names
  <2> QED BY <2>1, <2>3, <2>4, Names DEF Modal
<1>14. ASSUME NEW h \in Handles, LinkEnds(h) PROVE Modal'
  <2>1. h \in Live /\ UNCHANGED <<manager, through, advertising, initiating, overlap>>
        /\ link' = [link EXCEPT ![h] = NoLink]
        /\ events' = Append(events, [type |-> "DISCONNECTED", h |-> h])
    BY <1>14 DEF LinkEnds, Reports
  <2>2. DOMAIN events' = DOMAIN events \cup {Len(events) + 1}
        /\ (\A i \in DOMAIN events : events'[i] = events[i])
        /\ events'[Len(events) + 1].type = "DISCONNECTED"
    BY <1>a, <2>1
  <2>3. NoLink.role # SLAVE
    BY Names DEF NoLink
  <2>4. mode # SLAVE => \A g \in Handles : link'[g].role # SLAVE
    BY <1>a, <2>1, <2>3 DEF Modal, RadioTypes
  <2>5. mode # None /\ (mode = SLAVE => ~advertising)
    BY <2>1 DEF Modal
  <2> QED BY <2>1, <2>2, <2>4, <2>5 DEF Modal
<1> QED
  BY <1>1, <1>2, <1>3, <1>4, <1>6, <1>7, <1>8, <1>9, <1>10, <1>11, <1>12, <1>13, <1>14, StepKinds
     DEF ManagerStep, RadioStep, vars

-----------------------------------------------------------------------------
(* The one link of the manager *)

(* What the manager keeps of its link changes only with the two events.    *)
LEMMA HandlesKept ==
  ASSUME Types, [Next]_vars, ~PowerOff, ~Connected, ~Disconnected
  PROVE  /\ UNCHANGED <<throughput_con_handle, i_am_master_conn_handle, i_am_slave_conn_handle>>
         /\ peer_slave'.conn_handle = peer_slave.conn_handle
         /\ ~FirstWakeUp => UNCHANGED mode
         /\ (\A on \in BOOLEAN : ~Subscribe(on)) => UNCHANGED throughput_notify_enable
<1> USE DEF manager, through
<1>1. CASE UNCHANGED <<manager, through>>
  BY <1>1
<1>2. CASE FirstWakeUp \/ Timeout \/ ConnectFailed \/ TimerFires
  BY <1>2 DEF FirstWakeUp, Timeout, ConnectFailed, TimerFires
<1>3. CASE \E on \in BOOLEAN : Subscribe(on)
  BY <1>3 DEF Subscribe
<1>4. ASSUME NEW ok \in BOOLEAN, QueryDone(ok)
      PROVE  UNCHANGED <<manager, throughput_con_handle, throughput_notify_enable>>
             /\ peer_slave'.conn_handle = peer_slave.conn_handle
  <2> DEFINE p == PeerOf(query.h)
  <2>1. \/ peer_slave' = peer_slave
        \/ peer_slave' = [peer_slave EXCEPT !.service = p]
        \/ peer_slave' = [peer_slave EXCEPT !.char = p]
        \/ peer_slave' = [peer_slave EXCEPT !.desc = p]
    BY <1>4 DEF QueryDone, ServiceDone, CharDone, DescDone, WriteDone
  <2> HIDE DEF p
  <2>2. peer_slave'.conn_handle = peer_slave.conn_handle
    BY <2>1 DEF Types, ThroughTypes
  <2> QED BY <1>4, <2>2 DEF QueryDone
<1>5. CASE RadioStep
  BY <1>5 DEF RadioStep, Dialled, Called, LinkEnds, Reports
<1> QED BY <1>1, <1>2, <1>3, <1>4, <1>5, StepKinds DEF ManagerStep, vars

(* The queue grows by what is no start of a link, or by one. *)
LEMMA AppendAnnounces ==
  ASSUME RadioTypes, NEW e, events' = Append(events, e), NEW h
  PROVE  /\ Announced(h) => Announced(h)'
         /\ e.type = "CONNECTED" /\ e.h = h => Announced(h)'
<1>1. /\ DOMAIN events' = DOMAIN events \cup {Len(events) + 1}
      /\ \A i \in DOMAIN events : events'[i] = events[i]
      /\ events'[Len(events) + 1] = e
  BY DEF RadioTypes
<1> QED BY <1>1 DEF Announced

LEMMA TakesAnnounces ==
  ASSUME RadioTypes, Takes, NEW h, Announced(h),
         Head(events).type # "CONNECTED" \/ Head(events).h # h
  PROVE  Announced(h)'
<1>1. /\ Head(events) = events[1] /\ \A i \in DOMAIN events : i # 1 =>
              i - 1 \in DOMAIN events' /\ events'[i - 1] = events[i]
  BY DEF RadioTypes, Takes
<1>2. PICK i \in DOMAIN events : events[i].type = "CONNECTED" /\ events[i].h = h
  BY DEF Announced
<1> QED BY <1>1, <1>2 DEF Announced

(* Links and events change, the handle does not. *)
LEMMA OneLinkKept ==
  ASSUME Types, Queued, NEW c \in Handles \cup {INVALID_HANDLE}, OneLink(c),
         [Next]_vars, ~PowerOff, ~Connected, ~Disconnected
  PROVE  OneLink(c)'
<1>a. RadioTypes
  BY DEF Types
<1>1. ASSUME UNCHANGED overlap, \A g : UpOrEnding(g)' <=> UpOrEnding(g),
             \A h \in Handles : Announced(h) => Announced(h)'
      PROVE  OneLink(c)'
  BY <1>1 DEF OneLink
<1>2. CASE UNCHANGED <<link, events, overlap>>
  BY <1>a, <1>1, <1>2, UpSame DEF Announced
<1>3. CASE Takes /\ ConnectFailed
  <2>1. Head(events).type = "FAILED" /\ UNCHANGED overlap
    BY <1>3 DEF ConnectFailed, Handling, Takes
  <2> QED BY <1>a, <1>1, <1>3, <2>1, UpTaken, TakesAnnounces
<1>4. CASE Fails
  BY <1>a, <1>1, <1>4, UpSame, AppendAnnounces DEF Fails
<1>5. ASSUME NEW h \in Handles, Ends(h) PROVE OneLink(c)'
  BY <1>a, <1>1, <1>5, UpEnded, AppendAnnounces DEF Ends
<1>6. ASSUME NEW h \in Handles, NEW r \in Roles, Starts(h, r) PROVE OneLink(c)'
  <2>1. \A g : UpOrEnding(g)' <=> UpOrEnding(g) \/ g = h
    BY <1>a, <1>6, UpStarted
  <2>2. Announced(h)'
    BY <1>a, <1>6, AppendAnnounces DEF Starts, StartOf
  <2>3. ASSUME ~overlap' PROVE \A g \in Handles : UpOrEnding(g)' => g = h
    <3>1. ~AnotherLink
      BY <1>6, <2>3 DEF Starts
    <3>2. \A g \in Handles : ~UpOrEnding(g)
      BY <3>1 DEF AnotherLink, UpOrEnding
    <3> QED BY <2>1, <3>2
  <2> QED BY <2>1, <2>2, <2>3 DEF OneLink
<1> QED BY <1>2, <1>3, <1>4, <1>5, <1>6, <1>a, QueueKinds DEF Roles

(* The event at the head is the start of the link or its end. *)
LEMMA OneLinkTaken ==
  ASSUME Types, Queued, NEW c \in Handles \cup {INVALID_HANDLE}, OneLink(c), Takes,
         NEW h \in Handles, Head(events).h = h
  PROVE  /\ Head(events).type = "CONNECTED"    => OneLink(h)'
         /\ Head(events).type = "DISCONNECTED" => OneLink(INVALID_HANDLE)'
<1>a. RadioTypes /\ UNCHANGED overlap
  BY DEF Types, Takes
<1>b. events[1] = Head(events) /\ 1 \in DOMAIN events /\ Head(events) \in Event
  BY <1>a DEF Takes, RadioTypes
<1>1. CASE Head(events).type = "CONNECTED"
  <2>1. \A g : UpOrEnding(g)' <=> UpOrEnding(g)
    BY <1>a, <1>1, UpTaken
  <2>2. UpOrEnding(h)
    BY <1>b, <1>1 DEF Queued, UpOrEnding, EndOf
  <2> QED BY <1>a, <1>1, <2>1, <2>2 DEF OneLink
<1>2. CASE Head(events).type = "DISCONNECTED"
  <2>1. \A g : UpOrEnding(g)' => UpOrEnding(g) /\ g # h
    BY <1>a, <1>2, UpTaken
  <2>2. UpOrEnding(h)
    <3>1. events[1] = [type |-> "DISCONNECTED", h |-> h]
      BY <1>b, <1>2 DEF Event
    <3> QED BY <1>b, <3>1 DEF UpOrEnding
  <2> QED BY <1>a, <1>2, <2>1, <2>2 DEF OneLink
<1> QED BY <1>1, <1>2

LEMMA ClearedOneLink == Cleared => OneLink(INVALID_HANDLE)'
BY DEF Cleared, OneLink, UpOrEnding

LEMMA HeadMode ==
  ASSUME Types, Modal, Takes
  PROVE  /\ mode \in Roles
         /\ Head(events).type = "CONNECTED" => Head(events).role = mode /\ (mode = SLAVE => ~advertising)
<1>1. Head(events) = events[1] /\ 1 \in DOMAIN events /\ events # <<>> /\ Head(events) \in Event
  BY DEF Types, RadioTypes, Takes
<1>2. mode \in Roles
  BY <1>1 DEF Modal, Types, ManagerTypes, Roles
<1>3. Head(events).type = "CONNECTED" => Head(events).role \in Roles
  BY <1>1 DEF Event, Roles
<1> QED BY <1>1, <1>2, <1>3, Names DEF Modal, Roles

LEMMA StepFollowed ==
  ASSUME Types, Modal, Queued, Followed, [Next]_vars
  PROVE  Followed'
<1>a. throughput_con_handle \in Handles \cup {INVALID_HANDLE} /\ OneLink(throughput_con_handle)
  BY DEF Types, ThroughTypes, Followed
<1>b. peer_slave \in [conn_handle : Handles \cup {INVALID_HANDLE}, service : Peers \cup {Zero},
                      char : Peers \cup {Zero}, desc : Peers \cup {Zero}]
  BY DEF Types, ThroughTypes
<1>1. CASE PowerOff
  <2>1. /\ mode' = None /\ i_am_master_conn_handle' = INVALID_HANDLE
        /\ throughput_con_handle' = INVALID_HANDLE /\ ~throughput_notify_enable'
        /\ peer_slave'.conn_handle = INVALID_HANDLE
    BY <1>1 DEF PowerOff, Unknown
  <2>2. OneLink(throughput_con_handle)'
    BY <1>1, <2>1, PowerOffClears, ClearedOneLink DEF OneLink, UpOrEnding
  <2> QED BY <2>1, <2>2, Names DEF Followed
<1>2. CASE Connected
  <2>1. PICK h \in Handles : h = Head(events).h
    BY <1>2, HeadEvent DEF Connected, Types
  <2>2. Takes /\ Head(events).type = "CONNECTED" /\ throughput_con_handle' = h /\ UNCHANGED mode
    BY <1>2, <2>1 DEF Connected, Handling, Takes
  <2>3. OneLink(throughput_con_handle)'
    BY <1>a, <2>1, <2>2, OneLinkTaken DEF OneLink, UpOrEnding
  <2>4. Head(events).role = mode /\ mode \in Roles
    BY <2>2, HeadMode
  <2>5. CASE mode = SLAVE
    BY <1>2, <2>1, <2>2, <2>3, <2>4, <2>5, Names DEF Connected, Followed
  <2>6. CASE mode = MASTER
    <3>1. i_am_master_conn_handle' = h /\ peer_slave' = [peer_slave EXCEPT !.conn_handle = h]
      BY <1>2, <2>1, <2>4, <2>6, Names DEF Connected
    <3>2. peer_slave'.conn_handle = h
      BY <1>b, <3>1
    <3> QED BY <2>1, <2>2, <2>3, <2>6, <3>1, <3>2, Names DEF Followed
  <2> QED BY <2>4, <2>5, <2>6 DEF Roles
<1>3. CASE Disconnected
  <2>1. PICK h \in Handles : h = Head(events).h
    BY <1>3, HeadEvent DEF Disconnected, Types
  <2>2. Takes /\ Head(events).type = "DISCONNECTED" /\ throughput_con_handle' = INVALID_HANDLE
        /\ ~throughput_notify_enable' /\ UNCHANGED mode
        /\ peer_slave' = [peer_slave EXCEPT !.conn_handle = INVALID_HANDLE]
    BY <1>3 DEF Disconnected, ThroughputDisconnect, Handling, Takes
  <2>3. OneLink(throughput_con_handle)'
    BY <1>a, <2>1, <2>2, OneLinkTaken DEF OneLink, UpOrEnding
  <2>4. peer_slave'.conn_handle = INVALID_HANDLE
    BY <1>b, <2>2
  <2>5. mode \in Roles
    BY <2>2, HeadMode
  <2>6. i_am_master_conn_handle' = INVALID_HANDLE /\ (mode = SLAVE => i_am_slave_conn_handle' = INVALID_HANDLE)
    BY <1>3, <2>1, <2>5, Names DEF Disconnected, Modal, Roles
  <2> QED BY <2>2, <2>3, <2>4, <2>6 DEF Followed
<1>4. CASE ~PowerOff /\ ~Connected /\ ~Disconnected
  <2>1. OneLink(throughput_con_handle)'
    BY <1>a, <1>4, OneLinkKept, HandlesKept DEF OneLink, UpOrEnding
  <2>2. UNCHANGED <<throughput_con_handle, i_am_master_conn_handle, i_am_slave_conn_handle>>
        /\ peer_slave'.conn_handle = peer_slave.conn_handle
    BY <1>4, HandlesKept
  <2>3. throughput_con_handle' = IF mode' = SLAVE THEN i_am_slave_conn_handle'
                                                  ELSE i_am_master_conn_handle'
    <3>1. CASE UNCHANGED mode
      BY <2>2, <3>1 DEF Followed
    <3>2. CASE FirstWakeUp
      BY <2>2, <3>2, Names DEF FirstWakeUp, Modal, Followed
    <3> QED BY <1>4, <3>1, <3>2, HandlesKept
  <2>4. throughput_notify_enable' => throughput_con_handle # INVALID_HANDLE
    <3>1. ASSUME NEW on \in BOOLEAN, Subscribe(on) PROVE throughput_con_handle # INVALID_HANDLE
      <4>1. i_am_slave_conn_handle # INVALID_HANDLE
        BY <3>1, Names DEF Subscribe, Live
      <4> QED BY <4>1 DEF Modal, Followed
    <3>2. CASE UNCHANGED throughput_notify_enable
      BY <3>2 DEF Followed
    <3> QED BY <1>4, <3>1, <3>2, HandlesKept
  <2> QED BY <2>1, <2>2, <2>3, <2>4 DEF Followed
<1> QED BY <1>1, <1>2, <1>3, <1>4

-----------------------------------------------------------------------------
(* Discovery *)

(* The link a query is about is not replaced under it. *)
LEMMA QueriedLink ==
  ASSUME Types, Modal, Followed, Found, query # NoQuery, ~PowerOff, [Next]_vars,
         NEW h \in Handles, h = query.h, h \in Live'
  PROVE  h \in Live /\ PeerOf(h)' = PeerOf(h)
<1>1. UpOrEnding(h)
  BY Names DEF Found, Modal, Followed, OneLink
<1>2. CASE UNCHANGED link
  BY <1>2 DEF Live, PeerOf
<1>3. ASSUME NEW g \in Handles, Starts(g, MASTER) \/ Starts(g, SLAVE) \/ Ends(g)
      PROVE  h # g /\ link'[h] = link[h] /\ h \in Live
  BY <1>1, <1>3 DEF Starts, Ends
<1> QED BY <1>2, <1>3, QueueKinds DEF Types, Takes, Fails, PeerOf

LEMMA QueryStage ==
  ASSUME Types, Found, Modal, NEW ok \in BOOLEAN, QueryDone(ok)
  PROVE  Found' /\ (said' = "CONNECT" => query.stage = "write" /\ UNCHANGED peer_slave)
<1> DEFINE p == PeerOf(query.h)
<1>a. /\ query \in [stage : Stages, h : Handles] /\ query.h \in Live /\ query.h = peer_slave.conn_handle
      /\ link' = link /\ Live' = Live /\ mode = MASTER /\ query # NoQuery
  BY DEF QueryDone, Found, Live, Modal
<1>b. p \in Peers /\ peer_slave \in [conn_handle : Handles \cup {INVALID_HANDLE}, service : Peers \cup {Zero},
                      char : Peers \cup {Zero}, desc : Peers \cup {Zero}]
  BY <1>a, LivePeer, Names DEF Types, ThroughTypes, Modal
<1>c. \A h : PeerOf(h)' = PeerOf(h)
  BY <1>a DEF PeerOf
<1>d. /\ query.stage # "service" /\ p \notin Bare => peer_slave.service = p
      /\ query.stage \in {"desc", "write"} /\ p \notin Bare => peer_slave.char = p
      /\ query.stage = "write" /\ p \notin Bare => peer_slave.desc = p
  BY <1>a DEF Found
<1>e. None # "CONNECT"
  BY DEF None
<1>1. ASSUME query' = NoQuery PROVE Found'
  BY <1>1 DEF Found, NoQuery
<1>2. ASSUME NEW s \in Stages, query' = [query EXCEPT !.stage = s],
             peer_slave'.conn_handle = peer_slave.conn_handle,
             s # "service" /\ p \notin Bare => peer_slave'.service = p,
             s \in {"desc", "write"} /\ p \notin Bare => peer_slave'.char = p,
             s = "write" /\ p \notin Bare => peer_slave'.desc = p
      PROVE  Found'
  <2>1. query'.h = query.h /\ query'.stage = s /\ query' \in [stage : Stages, h : Handles]
    BY <1>a, <1>2
  <2>2. PeerOf(query.h)' = p
    BY <1>a, <2>1 DEF PeerOf
  <2> HIDE DEF p
  <2> QED BY <1>a, <1>2, <2>1, <2>2 DEF Found
<1> HIDE DEF p
<1>3. CASE ServiceDone(ok)
  <2>1. /\ query.stage = "service" /\ said' = None
        /\ peer_slave' = IF ok /\ p \notin Bare THEN [peer_slave EXCEPT !.service = p] ELSE peer_slave
        /\ query' = NoQuery \/ (ok /\ query' = [query EXCEPT !.stage = "char"])
    BY <1>3 DEF ServiceDone, Quiet, Disconnect, Next_, p
  <2>2. CASE query' = NoQuery
    BY <1>1, <1>e, <2>1, <2>2
  <2>3. CASE ok /\ query' = [query EXCEPT !.stage = "char"]
    <3>1. peer_slave'.conn_handle = peer_slave.conn_handle /\ (p \notin Bare => peer_slave'.service = p)
      BY <1>b, <2>1, <2>3
    <3> QED BY <1>2, <1>e, <2>1, <2>3, <3>1 DEF Stages
  <2> QED BY <2>1, <2>2, <2>3
<1>4. CASE CharDone(ok)
  <2>1. /\ query.stage = "char" /\ said' = None
        /\ peer_slave' = IF ok /\ peer_slave.service = p THEN [peer_slave EXCEPT !.char = p] ELSE peer_slave
        /\ query' = NoQuery \/ (ok /\ query' = [query EXCEPT !.stage = "desc"])
    BY <1>4 DEF CharDone, Quiet, Disconnect, Next_, p
  <2>2. CASE query' = NoQuery
    BY <1>1, <1>e, <2>1, <2>2
  <2>3. CASE ok /\ query' = [query EXCEPT !.stage = "desc"]
    <3>1. peer_slave'.conn_handle = peer_slave.conn_handle
          /\ (p \notin Bare => peer_slave'.service = p /\ peer_slave'.char = p)
      BY <1>b, <1>d, <2>1, <2>3
    <3> QED BY <1>2, <1>e, <2>1, <2>3, <3>1 DEF Stages
  <2> QED BY <2>1, <2>2, <2>3
<1>5. CASE DescDone(ok)
  <2>1. /\ query.stage = "desc" /\ said' = None
        /\ peer_slave' = IF ok /\ peer_slave.char = p THEN [peer_slave EXCEPT !.desc = p] ELSE peer_slave
        /\ query' = NoQuery \/ (ok /\ query' = [query EXCEPT !.stage = "write"])
    BY <1>5 DEF DescDone, Quiet, Next_, p
  <2>2. CASE query' = NoQuery
    BY <1>1, <1>e, <2>1, <2>2
  <2>3. CASE ok /\ query' = [query EXCEPT !.stage = "write"]
    <3>1. peer_slave'.conn_handle = peer_slave.conn_handle
          /\ (p \notin Bare => peer_slave'.service = p /\ peer_slave'.char = p /\ peer_slave'.desc = p)
      BY <1>b, <1>d, <2>1, <2>3
    <3> QED BY <1>2, <1>e, <2>1, <2>3, <3>1 DEF Stages
  <2> QED BY <2>1, <2>2, <2>3
<1>6. CASE WriteDone(ok)
  BY <1>1, <1>6 DEF WriteDone
<1> QED BY <1>3, <1>4, <1>5, <1>6 DEF QueryDone

LEMMA StepFound ==
  ASSUME Types, Modal, Followed, Found, [Next]_vars
  PROVE  Found'
<1> USE DEF through
<1>1. CASE PowerOff \/ Disconnected
  <2>1. query' = NoQuery
    BY <1>1 DEF PowerOff, Disconnected, ThroughputDisconnect
  <2> QED BY <2>1 DEF Found
<1>2. ASSUME UNCHANGED <<query, peer_slave>>, ~PowerOff PROVE Found'
  <2>1. CASE query = NoQuery
    BY <1>2, <2>1 DEF Found
  <2>2. CASE query # NoQuery
    <3>1. query.h \in Handles
      BY <2>2 DEF Found
    <3>2. query.h \in Live' => query.h \in Live /\ PeerOf(query.h)' = PeerOf(query.h)
      <4>1. PICK h \in Handles : h = query.h
        BY <3>1
      <4>2. h \in Live' => h \in Live /\ PeerOf(h)' = PeerOf(h)
        BY <1>2, <2>2, <4>1, QueriedLink
      <4> QED BY <1>2, <4>1, <4>2 DEF PeerOf
    <3> QED BY <1>2, <2>2, <3>1, <3>2 DEF Found
  <2> QED BY <2>1, <2>2
<1>3. CASE Connected /\ ~PowerOff
  <2>1. PICK h \in Handles : h = Head(events).h
    BY <1>3, HeadEvent DEF Connected, Types
  <2>2. CASE Head(events).role = SLAVE
    BY <1>2, <1>3, <2>2 DEF Connected
  <2>3. CASE Head(events).role # SLAVE
    <3>1. query' = [stage |-> "service", h |-> h] /\ peer_slave' = [peer_slave EXCEPT !.conn_handle = h]
      BY <1>3, <2>1, <2>3 DEF Connected
    <3>2. peer_slave'.conn_handle = h
      BY <3>1 DEF Types, ThroughTypes
    <3> QED BY <2>1, <3>1, <3>2 DEF Found, Stages
  <2> QED BY <2>2, <2>3
<1>4. ASSUME NEW ok \in BOOLEAN, QueryDone(ok) PROVE Found'
  BY <1>4, QueryStage
<1>5. ASSUME FirstWakeUp \/ Timeout \/ ConnectFailed \/ TimerFires \/ RadioStep
             \/ \E on \in BOOLEAN : Subscribe(on)
      PROVE  UNCHANGED <<query, peer_slave>>
  BY <1>5 DEF FirstWakeUp, Timeout, ConnectFailed, TimerFires, Subscribe, RadioStep, Dialled, Called,
              LinkEnds, Reports
<1> QED BY <1>1, <1>2, <1>3, <1>4, <1>5, StepKinds DEF ManagerStep, vars

LEMMA StepReady ==
  ASSUME Types, Modal, Followed, Found, ConnectMeansReady, [Next]_vars
  PROVE  ConnectMeansReady'
<1> USE DEF manager, through, radio
<1> SUFFICES ASSUME said' = "CONNECT", mode' = MASTER
             PROVE  PeerOf(peer_slave.conn_handle)' \notin Bare =>
                      {peer_slave.service, peer_slave.char, peer_slave.desc}'
                        = {PeerOf(peer_slave.conn_handle)}'
  BY DEF ConnectMeansReady
<1>1. CASE UNCHANGED <<said, mode, peer_slave, link>>
  BY <1>1 DEF ConnectMeansReady, PeerOf
<1>2. ASSUME NEW ok \in BOOLEAN, QueryDone(ok) PROVE ConnectMeansReady'
  <2>1. query.stage = "write" /\ UNCHANGED <<peer_slave, link>> /\ query # NoQuery /\ query.h \in Live
    BY <1>2, QueryStage DEF QueryDone
  <2>2. query.h = peer_slave.conn_handle
        /\ (PeerOf(query.h) \notin Bare =>
              peer_slave.service = PeerOf(query.h) /\ peer_slave.char = PeerOf(query.h)
              /\ peer_slave.desc = PeerOf(query.h))
    BY <2>1 DEF Found
  <2> QED BY <2>1, <2>2 DEF ConnectMeansReady, PeerOf
<1>3. ASSUME NEW on \in BOOLEAN, Subscribe(on) PROVE FALSE
  <2>1. i_am_slave_conn_handle # INVALID_HANDLE /\ mode = MASTER
    BY <1>3, Names DEF Subscribe, Live
  <2> QED BY <2>1, Names DEF Modal
<1>4. None # "CONNECT"
  BY DEF None
<1>5. CASE PowerOff
  BY <1>4, <1>5 DEF PowerOff
<1>6. CASE FirstWakeUp \/ Timeout \/ ConnectFailed \/ Connected \/ Disconnected \/ TimerFires \/ RadioStep
  BY <1>4, <1>6 DEF FirstWakeUp, Timeout, ConnectFailed, Connected, Disconnected, ThroughputDisconnect,
                    TimerFires, RadioStep, Dialled, Called, LinkEnds, Reports, Quiet
<1> QED BY <1>1, <1>2, <1>3, <1>5, <1>6, StepKinds DEF ManagerStep, vars, ConnectMeansReady

-----------------------------------------------------------------------------
(* The module never falls asleep *)

LEMMA AppendBusy ==
  ASSUME RadioTypes, NEW e
  PROVE  Append(events, e) # <<>>
<1>1. Len(Append(events, e)) = Len(events) + 1 /\ Len(events) \in Nat
  BY DEF RadioTypes
<1> QED BY <1>1

LEMMA StepNeverIdle ==
  ASSUME Types, Modal, Queued, Followed, NeverIdle, [Next]_vars
  PROVE  NeverIdle'
<1> USE DEF manager, through, radio
<1>a. RadioTypes /\ SavedTypes /\ (UNCHANGED link => Live' = Live)
  BY DEF Types, Live
<1>1. CASE PowerOff
  BY <1>1, Names DEF PowerOff, NeverIdle
<1>2. CASE UNCHANGED <<manager, radio>>
  BY <1>2 DEF NeverIdle, Live
<1>3. CASE FirstWakeUp
  <2>1. mode' = MASTER => initiating' # None
    BY <1>a, <1>3, RamPeer, Names DEF FirstWakeUp, AutoConnect
  <2>2. mode' = SLAVE => advertising'
    BY <1>a, <1>3, RamPeer, Names DEF FirstWakeUp
  <2> QED BY <2>1, <2>2 DEF NeverIdle
<1>4. CASE Timeout
  <2>1. mode = MASTER /\ UNCHANGED <<mode, overlap, link>>
    BY <1>4 DEF Timeout, Modal
  <2>2. CASE initiating # None
    <3>1. events' # <<>>
      BY <1>a, <1>4, <2>2, AppendBusy DEF Timeout
    <3> QED BY <3>1 DEF NeverIdle
  <2>3. CASE initiating = None
    <3>1. events' = events
      BY <1>4, <2>3 DEF Timeout
    <3> QED BY <1>a, <2>1, <2>3, <3>1, Names DEF NeverIdle
  <2> QED BY <2>2, <2>3
<1>5. CASE ConnectFailed
  <2>1. UNCHANGED mode /\ Takes /\ initiating' = (IF initiating = None THEN ram.peer ELSE initiating)
        /\ Head(events).type = "FAILED"
    BY <1>5 DEF ConnectFailed, Handling, Takes, AutoConnect
  <2>2. mode = MASTER
    BY <1>a, <2>1 DEF Modal, RadioTypes, Takes
  <2> QED BY <1>a, <2>1, <2>2, RamPeer, Names DEF NeverIdle
<1>6. CASE Connected
  <2>1. PICK h \in Handles : h = Head(events).h
    BY <1>a, <1>6, HeadEvent DEF Connected
  <2>2. Takes /\ Head(events).type = "CONNECTED" /\ UNCHANGED link
    BY <1>6 DEF Connected, Handling, Takes
  <2>3. UpOrEnding(h)
    <3>1. 1 \in DOMAIN events /\ events[1] = Head(events)
      BY <1>a, <2>2 DEF Takes, RadioTypes
    <3> QED BY <2>1, <2>2, <3>1 DEF Queued, UpOrEnding, EndOf
  <2>4. UpOrEnding(h)'
    BY <1>a, <2>2, <2>3, UpTaken
  <2>5. Live' # {} \/ events' # <<>>
    BY <2>4 DEF UpOrEnding
  <2> QED BY <2>5 DEF NeverIdle
<1>7. CASE Disconnected
  <2>1. PICK h \in Handles : h = Head(events).h
    BY <1>a, <1>7, HeadEvent DEF Disconnected
  <2>2. Takes /\ Head(events).type = "DISCONNECTED" /\ UNCHANGED <<link, mode, overlap>>
    BY <1>7 DEF Disconnected, Handling, Takes
  <2>3. mode \in Roles
    BY <2>2, HeadMode
  <2>4. 1 \in DOMAIN events /\ events[1] = EndOf(h)
    BY <1>a, <2>1, <2>2 DEF Takes, RadioTypes, Event, EndOf
  <2>5. ASSUME ~overlap PROVE h = throughput_con_handle
    <3>1. UpOrEnding(h)
      BY <2>4 DEF UpOrEnding, EndOf
    <3>2. CASE h = throughput_con_handle
      BY <3>2
    <3>3. ASSUME NEW i \in DOMAIN events, events[i].type = "CONNECTED", events[i].h = h PROVE FALSE
      <4>1. i <= 1
        BY <2>4, <3>3 DEF Queued, EndOf
      <4>2. i = 1
        BY <1>a, <4>1 DEF RadioTypes
      <4> QED BY <2>4, <3>3, <4>2 DEF EndOf
    <3> QED BY <2>5, <3>1, <3>2, <3>3 DEF Followed, OneLink, Announced
  <2>6. CASE mode = MASTER
    <3>1. ASSUME ~overlap PROVE initiating' # None
      <4>1. h = i_am_master_conn_handle
        BY <2>5, <2>6, <3>1, Names DEF Followed
      <4> QED BY <1>a, <1>7, <2>1, <4>1, RamPeer, Names DEF Disconnected, AutoConnect
    <3> QED BY <2>2, <2>6, <3>1, Names DEF NeverIdle
  <2>7. CASE mode = SLAVE
    <3>1. h = i_am_slave_conn_handle /\ h # i_am_master_conn_handle
      BY <2>1, <2>5, <2>7, Names DEF Followed, Modal
    <3>2. advertising'
      BY <1>7, <2>1, <3>1 DEF Disconnected
    <3> QED BY <2>2, <2>7, <3>2, Names DEF NeverIdle
  <2> QED BY <2>3, <2>6, <2>7 DEF Roles
<1>8. CASE TimerFires
  BY <1>8 DEF TimerFires, NeverIdle, Live
<1>9. CASE \E on \in BOOLEAN : Subscribe(on)
  BY <1>2, <1>9 DEF Subscribe
<1>10. CASE \E ok \in BOOLEAN : QueryDone(ok)
  BY <1>a, <1>10 DEF QueryDone, NeverIdle
<1>11. ASSUME NEW h \in Handles, Dialled(h) \/ Called(h) \/ LinkEnds(h) PROVE NeverIdle'
  <2>1. events' # <<>>
    BY <1>a, <1>11, AppendBusy DEF Dialled, Called, LinkEnds, Reports
  <2> QED BY <2>1 DEF NeverIdle
<1> QED
  BY <1>1, <1>2, <1>3, <1>4, <1>5, <1>6, <1>7, <1>8, <1>9, <1>10, <1>11, StepKinds
     DEF ManagerStep, RadioStep, vars

-----------------------------------------------------------------------------
(* The theorems *)

LEMMA InitInv == Init => Inv
<1> SUFFICES ASSUME Init PROVE Inv
  OBVIOUS
<1>1. SavedTypes /\ Persisted
  BY InitPersisted
<1>2. Live = {} /\ link \in [Handles -> {NoLink}]
  BY DEF Init, Live
<1>3. ManagerTypes
  <2>1. gap_is_connection_cancel \in 0 .. 1 /\ timeouts \in Nat
    BY SMT DEF Init
  <2>2. create_conn_timer \in BOOLEAN
    BY DEF Init
  <2> QED BY <2>1, <2>2, Zenon DEF Init, ManagerTypes
<1>4. ThroughTypes /\ RadioTypes
  <2>1. ThroughTypes
    BY DEF Init, ThroughTypes, Unknown
  <2>2. events \in Seq(Event)
    BY DEF Init
  <2> QED BY <1>2, <2>1, <2>2 DEF Init, RadioTypes
<1>5. Modal /\ Queued /\ Found /\ NeverIdle
  BY <1>2, Names DEF Init, Modal, Queued, Found, NeverIdle, NoLink
<1>6. Followed
  BY <1>2 DEF Init, Followed, OneLink, UpOrEnding, Unknown
<1>7. ConnectMeansReady
  BY DEF Init, ConnectMeansReady, None
<1> QED BY <1>1, <1>3, <1>4, <1>5, <1>6, <1>7 DEF Inv, Types

LEMMA StepInv == Inv /\ [Next]_vars => Inv'
BY StepPersisted, StepManagerTypes, StepThroughTypes, StepRadioTypes, StepModal, StepQueued,
   StepFollowed, StepFound, StepNeverIdle, StepReady
   DEF Inv, Types

LEMMA AlwaysInv == FairSpec => []Inv
BY InitInv, StepInv, PTL DEF FairSpec

LEMMA InvGoals == Inv => TypeOK /\ AckedSurvives /\ NeverIdle /\ TargetExists /\ ConnectMeansReady
<1> SUFFICES ASSUME Inv PROVE TypeOK /\ AckedSurvives /\ TargetExists
  BY DEF Inv
<1>1. TypeOK
  <2>1. peer_slave \in [conn_handle : Handles \cup {INVALID_HANDLE}, service : Peers \cup {Zero},
                        char : Peers \cup {Zero}, desc : Peers \cup {Zero}]
    BY DEF Inv, Types, ThroughTypes
  <2>2. {peer_slave.service, peer_slave.char, peer_slave.desc} \subseteq Peers \cup {Zero}
        /\ peer_slave.conn_handle \in Handles \cup {INVALID_HANDLE}
    BY <2>1
  <2>3. flash.role \in {MASTER, SLAVE, Blank}
    BY DEF Inv, Types, SavedTypes
  <2> QED BY <2>2, <2>3 DEF Inv, Types, SavedTypes, ManagerTypes, ThroughTypes, RadioTypes, TypeOK
<1>2. AckedSurvives
  BY DEF Inv, Persisted, AckedSurvives
<1>3. TargetExists
  <2>1. throughput_notify_enable => mode = SLAVE
    BY DEF Inv, Modal
  <2>2. peer_slave.conn_handle # INVALID_HANDLE => mode # SLAVE
    BY Names DEF Inv, Modal, Followed
  <2>3. CASE mode = SLAVE
    BY <2>2, <2>3 DEF Inv, Followed, OneLink, TargetExists
  <2>4. CASE mode # SLAVE
    BY <2>1, <2>4 DEF Inv, Followed, OneLink, TargetExists, UpOrEnding
  <2> QED BY <2>3, <2>4
<1> QED BY <1>1, <1>2, <1>3

(***************************************************************************)
(* Whatever the power, the controller, the peers and the tasks do, every   *)
(* state of the connection manager is well typed: the handles it keeps are *)
(* handles or INVALID_HANDLE, and it asks only live links to end.          *)
(***************************************************************************)
THEOREM LinkTypeCorrect == FairSpec => []TypeOK
BY AlwaysInv, InvGoals, PTL

(***************************************************************************)
(* A command that was answered OK survives every power cut, also one in    *)
(* the middle of the next save, which costs all parameters but never       *)
(* leaves a mixture of two.                                                *)
(***************************************************************************)
THEOREM AckedAlwaysSurvives == FairSpec => []AckedSurvives
BY AlwaysInv, InvGoals, PTL

(***************************************************************************)
(* A master that never had two links at once dials, is linked or has an    *)
(* event to handle; a slave advertises, is linked or has one: no order of  *)
(* timeouts, failures and late events leaves the module idle.              *)
(***************************************************************************)
THEOREM AlwaysBusy == FairSpec => []NeverIdle
BY AlwaysInv, InvGoals, PTL

(***************************************************************************)
(* Bytes are sent only to a link that is up, or whose end the manager has  *)
(* yet to hear of, in both roles, also when two links overlap.             *)
(***************************************************************************)
THEOREM TargetAlwaysExists == FairSpec => []TargetExists
BY AlwaysInv, InvGoals, PTL

(***************************************************************************)
(* +CONNECT on a link to a peer that has the throughput service means that *)
(* all three handles were found on this link, whatever peers, also bare    *)
(* ones, were met before.                                                  *)
(***************************************************************************)
THEOREM ConnectAlwaysReady == FairSpec => []ConnectMeansReady
BY AlwaysInv, InvGoals, PTL
=============================================================================
