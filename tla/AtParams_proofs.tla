---------------------------- MODULE AtParams_proofs ----------------------------
(***************************************************************************)
(* Proofs about AtParams, with AtServer and AtScan, for every set of names,*)
(* addresses, UUIDs, reports, filters, links and sessions, and every size  *)
(* of the tables.                                                          *)
(*                                                                         *)
(* The parts of the inductive invariant stand side by side: types; InFlash,*)
(* what a restart finds in flash; InForce, what the module does with each  *)
(* parameter; Registry, Counted, Queued and Scanned, what AtServer and     *)
(* AtScan keep; and Linked, the handles of the live links.                 *)
(***************************************************************************)
EXTENDS AtParams, TLAPS, SequenceTheorems

-----------------------------------------------------------------------------
(* The inductive invariant *)

Addresses == Macs \cup {Random, Garbled, Unset}
Labels    == Names \cup {Random, Unset}
Air       == [addr : Addresses, name : Labels, interval : 0 .. 5 \cup {Wild, -1}, on : BOOLEAN]

PhaseTypes ==
  /\ phase \in {"off", "boot", "start", "stack", "up", "fault"}
  /\ saving \in {"no", "erase", "write", "rest"}
  /\ session \in Sessions /\ torn \in BOOLEAN

ImageTypes ==
  /\ flash \in [head : BOOLEAN, image : Image] /\ ram \in Image /\ saved \in Image

WareTypes ==
  /\ uart \in UartSettings /\ air \in Air

LinkTypes ==
  /\ conn_infos \in [Ids -> {NoLink} \cup [handle : Handles, latency : Nat]]
  /\ ctl \in [Handles -> [latency : Nat, phy : Nat]]
  /\ told \in [Ids -> [latency : Nat, phy : Nat]]

InFlash ==
  /\ saving # "no" => phase \in {"boot", "up"}
  /\ phase = "boot" => saving # "no" /\ ram = Fresh
  /\ ~torn => /\ saving \in {"no", "erase"} => IF flash.head THEN flash.image = saved
                                                             ELSE saved = Fresh
              /\ phase = "boot"  => saved = Fresh
              /\ phase = "start" => ram = saved

Named == ram.adv_name = ram.name /\ flash.image.adv_name = flash.image.name

Answers == {[q |-> "NAME", v |-> ram.name], [q |-> "MAC", v |-> ram.mac],
            [q |-> "UUID", v |-> ram.uuid], [q |-> "UART", v |-> ram.uart],
            [q |-> "SLEEP", v |-> ram.sleep]}

(* What is in force is what RAM says, from the start on, but for the UART  *)
(* while AT+UART waits.                                                    *)
InForce ==
  /\ phase \in {"stack", "up"} =>
       /\ db_uuid = ram.uuid /\ power_saving = ram.sleep /\ (switching \/ uart = ram.uart)
  /\ phase = "up" => air.name = ram.name /\ air.addr = ram.mac
  /\ phase \in {"off", "boot", "start", "stack"} => air = NoAir
  /\ said # Nothing => phase = "up" /\ saving = "no" /\ ~switching /\ said \in Answers
  /\ switching => phase = "up" /\ saving = "no"

(* The two registries, once the database is built. *)
Slot(handle, fun) == <<handle, fun>>
WriteSlots == <<Slot(4, "output_desc"), Slot(6, "input"), Slot(11, "ota_data"), Slot(13, "ota_ctrl")>>
ReadSlots  == <<Slot(9, "ota_ver"), Slot(13, "ota_ctrl")>>

Registry ==
  \/ att_db = NoDb /\ module_att_write_callback = <<>> /\ module_att_read_callback = <<>>
  \/ /\ att_db = DbFrom(0)
     /\ module_att_write_callback = WriteSlots /\ module_att_read_callback = ReadSlots

Counted ==
  /\ print_data_len_flag \in BOOLEAN /\ timer_due \in BOOLEAN
  /\ receive_master_data_len \in Nat /\ cnt \in 0 .. AVG - 1 /\ sum \in Nat
  /\ total \in Nat /\ counted \in Nat
  /\ print_data_len_flag => counted + receive_master_data_len = total

(* What is printed and what is queued make up what was accepted. *)
Queued ==
  /\ printed \in Seq(Payloads) /\ accepted \in Seq(Payloads) /\ master_data \in Seq(Seq(Payloads))
  /\ Len(accepted) = Len(printed) + Len(master_data)
  /\ \A i \in 1 .. Len(printed) : printed[i] = accepted[i]
  /\ \A i \in 1 .. Len(master_data) : master_data[i] = Copied(accepted[Len(printed) + i])

Scanned ==
  /\ adv_rpt \in Seq({r.addr : r \in Reports}) /\ Len(adv_rpt) <= ADV_REPORT_NUM
  /\ undefined \in BOOLEAN
  /\ listed = NoList \/ listed = adv_rpt
  /\ ~undefined => ToSet(adv_rpt) = seen /\ IsInjective(adv_rpt)

(* Live links have handles of their own. *)
Linked ==
  /\ \A i, j \in Live : conn_infos[i].handle = conn_infos[j].handle => i = j
  /\ Live # {} => "LINK" \in session

-----------------------------------------------------------------------------
(* Which steps concern which part *)

LEMMA ServerKinds ==
  ASSUME [Next]_vars
  PROVE  \/ ServerOff \/ (init_service /\ UNCHANGED <<counting, incoming>>)
         \/ (\E flag \in BOOLEAN : RXNUM(flag)) \/ (\E p \in Payloads : MasterWrites(p))
         \/ PrintMasterData \/ TimerDue \/ UNCHANGED server
<1>1. CASE Off
  BY <1>1 DEF Off
<1>2. CASE Start \/ (\E k \in Parts, u \in Uuids : UUID(k, u))
  BY <1>2 DEF Start, UUID
<1>3. CASE (\E on \in BOOLEAN : SetRXNUM(on)) \/ (\E p \in Payloads : Written(p)) \/ Printed \/ Timer
  BY <1>3 DEF SetRXNUM, Written, Printed, Timer
<1>4. CASE Load \/ Save \/ StackUp \/ UartSwitch \/ WakeUp
  BY <1>4 DEF Load, Save, StackUp, UartSwitch, WakeUp
<1>5. CASE (\E n \in Names : NAME(n)) \/ (\E m \in Macs : MAC(m)) \/ (\E u \in Uarts : UART(u))
           \/ (\E n \in Intervals : ADVINT(n) \/ POWER(n)) \/ MODE_B \/ FLASH \/ QUERY
  BY <1>5 DEF NAME, MAC, UART, ADVINT, POWER, MODE_B, FLASH, QUERY
<1>6. CASE (\E on \in BOOLEAN : SLEEP(on)) \/ (\E i \in Ids, s \in Settings : CONN_SET(i, s))
           \/ (\E f \in Filters : SCAN_FILTER(f)) \/ SCAN \/ ScanEnds
  BY <1>6 DEF SLEEP, CONN_SET, SCAN_FILTER, SCAN, ScanEnds
<1>7. CASE \/ \E i \in Ids : LinkDown(i) \/ \E h \in Handles, s \in Settings : LinkUp(i, h, s)
           \/ \E r \in Reports : AdvReport(r)
  BY <1>7 DEF LinkDown, LinkUp, AdvReport
<1>8. CASE UNCHANGED vars
  BY <1>8 DEF vars
<1>9. PowerLoss \/ RESTART \/ Watchdog => Off
  BY DEF PowerLoss, RESTART, Watchdog
<1> QED BY <1>1, <1>2, <1>3, <1>4, <1>5, <1>6, <1>7, <1>8, <1>9 DEF Next, Own

LEMMA ScanKinds ==
  ASSUME [Next]_vars
  PROVE  \/ ScanOff \/ StartScan \/ (\E f, r : r \in Reports /\ Report(f, r)) \/ ScanDone
         \/ (listed' = NoList /\ UNCHANGED <<scanning, adv_rpt, seen, undefined>>)
         \/ UNCHANGED scan
<1>1. CASE Off
  BY <1>1 DEF Off
<1>2. CASE Start \/ (\E k \in Parts, u \in Uuids : UUID(k, u))
  BY <1>2 DEF Start, UUID
<1>3. CASE (\E on \in BOOLEAN : SetRXNUM(on)) \/ (\E p \in Payloads : Written(p)) \/ Printed \/ Timer
  BY <1>3 DEF SetRXNUM, Written, Printed, Timer
<1>4. CASE Load \/ Save \/ StackUp \/ UartSwitch \/ WakeUp
  BY <1>4 DEF Load, Save, StackUp, UartSwitch, WakeUp
<1>5. CASE (\E n \in Names : NAME(n)) \/ (\E m \in Macs : MAC(m)) \/ (\E u \in Uarts : UART(u))
           \/ (\E n \in Intervals : ADVINT(n) \/ POWER(n)) \/ MODE_B \/ FLASH \/ QUERY
  BY <1>5 DEF NAME, MAC, UART, ADVINT, POWER, MODE_B, FLASH, QUERY
<1>6. CASE (\E on \in BOOLEAN : SLEEP(on)) \/ (\E i \in Ids, s \in Settings : CONN_SET(i, s))
           \/ (\E f \in Filters : SCAN_FILTER(f)) \/ SCAN \/ ScanEnds
  BY <1>6 DEF SLEEP, CONN_SET, SCAN_FILTER, SCAN, ScanEnds
<1>7. CASE \E i \in Ids : LinkDown(i) \/ \E h \in Handles, s \in Settings : LinkUp(i, h, s)
  BY <1>7 DEF LinkDown, LinkUp
<1>8. CASE \E r \in Reports : AdvReport(r)
  BY <1>8 DEF AdvReport
<1>9. CASE UNCHANGED vars
  BY <1>9 DEF vars
<1>10. PowerLoss \/ RESTART \/ Watchdog => Off
  BY DEF PowerLoss, RESTART, Watchdog
<1> QED BY <1>1, <1>2, <1>3, <1>4, <1>5, <1>6, <1>7, <1>8, <1>9, <1>10 DEF Next, Own

-----------------------------------------------------------------------------
(* The registry *)

(* Registering the handles of the one database there is finds room the     *)
(* first time, and replaces every slot by itself from then on.             *)
LEMMA SlotHandle == \A h, f : Slot(h, f)[1] = h
BY DEF Slot

LEMMA RegisteredNew ==
  ASSUME NEW S, NEW reg \in Seq(S), NEW n \in 0 .. 3, Len(reg) = n, NEW h, NEW f,
         Slot(h, f) \in S, \A i \in 1 .. n : reg[i][1] # h
  PROVE  /\ Registered(reg, h, f) \in Seq(S)
         /\ Len(Registered(reg, h, f)) = n + 1
         /\ \A i \in 1 .. n : Registered(reg, h, f)[i] = reg[i]
         /\ Registered(reg, h, f)[n + 1] = Slot(h, f)
<1>1. Registered(reg, h, f) = Append(reg, Slot(h, f))
  <2>1. DOMAIN reg = 1 .. n /\ ~(Len(reg) >= GATT_HANDLE_MAX_NUM)
    BY ServerAssumption
  <2> QED BY <2>1, Zenon DEF Registered, Slot
<1> QED BY <1>1, AppendProperties

LEMMA RegisteredFirst ==
  ASSUME NEW S, NEW h, NEW f, Slot(h, f) \in S
  PROVE  /\ Registered(<<>>, h, f) \in Seq(S) /\ Len(Registered(<<>>, h, f)) = 1
         /\ Registered(<<>>, h, f)[1] = Slot(h, f)
<1>1. Registered(<<>>, h, f) = Append(<<>>, Slot(h, f))
  <2>1. DOMAIN <<>> = {} /\ ~(Len(<<>>) >= GATT_HANDLE_MAX_NUM)
    BY ServerAssumption
  <2> QED BY <2>1, Zenon DEF Registered, Slot
<1>2. \A a \in S : /\ Append(<<>>, a) \in Seq(S) /\ Len(Append(<<>>, a)) = 1
                   /\ Append(<<>>, a)[1] = a
  OBVIOUS
<1> QED BY <1>1, <1>2, Zenon

LEMMA RegisteredAgain ==
  ASSUME NEW S, NEW reg \in Seq(S), NEW h, NEW f, \E i \in DOMAIN reg : reg[i][1] = h,
         \A i \in DOMAIN reg : reg[i][1] = h => reg[i] = Slot(h, f)
  PROVE  Registered(reg, h, f) = reg
<1>1. [i \in DOMAIN reg |-> IF reg[i][1] = h THEN Slot(h, f) ELSE reg[i]] = reg
  <2>1. \A i \in DOMAIN reg : (IF reg[i][1] = h THEN Slot(h, f) ELSE reg[i]) = reg[i]
    OBVIOUS
  <2>2. reg = [i \in DOMAIN reg |-> reg[i]]
    OBVIOUS
  <2> QED BY <2>1, <2>2
<1> QED BY <1>1, Zenon DEF Registered, Slot

(* Four handles that differ, registered in turn: the first time ... *)
LEMMA FourNew ==
  ASSUME NEW S, NEW h1, NEW h2, NEW h3, NEW h4, NEW f1, NEW f2, NEW f3, NEW f4,
         h1 # h2, h1 # h3, h1 # h4, h2 # h3, h2 # h4, h3 # h4,
         NEW t \in Seq(S), Len(t) = 4,
         t[1] = Slot(h1, f1), t[2] = Slot(h2, f2),
         t[3] = Slot(h3, f3), t[4] = Slot(h4, f4)
  PROVE  Registered(Registered(Registered(Registered(<<>>, h1, f1), h2, f2), h3, f3), h4, f4) = t
<1> DEFINE s1 == Registered(<<>>, h1, f1)
           s2 == Registered(s1, h2, f2)
           s3 == Registered(s2, h3, f3)
           s4 == Registered(s3, h4, f4)
<1>1. Slot(h1, f1) \in S /\ Slot(h2, f2) \in S /\ Slot(h3, f3) \in S /\ Slot(h4, f4) \in S
  <2>1. \A i \in 1 .. Len(t) : t[i] \in S
    BY ElementOfSeq
  <2> QED BY <2>1
<1>2. s1 \in Seq(S) /\ Len(s1) = 1 /\ s1[1] = Slot(h1, f1)
  BY <1>1, RegisteredFirst
<1> HIDE DEF s1
<1>3. /\ s2 \in Seq(S) /\ Len(s2) = 2
      /\ s2[1] = Slot(h1, f1) /\ s2[2] = Slot(h2, f2)
  <2>1. \A i \in 1 .. 1 : s1[i][1] # h2
    BY <1>2, SlotHandle
  <2>2. /\ s2 \in Seq(S) /\ Len(s2) = 2 /\ s2[2] = Slot(h2, f2)
        /\ \A i \in 1 .. 1 : s2[i] = s1[i]
    BY <1>1, <1>2, <2>1, RegisteredNew
  <2> QED BY <1>2, <2>2
<1> HIDE DEF s2
<1>4. /\ s3 \in Seq(S) /\ Len(s3) = 3
      /\ s3[1] = Slot(h1, f1) /\ s3[2] = Slot(h2, f2)
      /\ s3[3] = Slot(h3, f3)
  <2>1. \A i \in 1 .. 2 : s2[i][1] # h3
    BY <1>3, SlotHandle
  <2>2. /\ s3 \in Seq(S) /\ Len(s3) = 3 /\ s3[3] = Slot(h3, f3)
        /\ \A i \in 1 .. 2 : s3[i] = s2[i]
    BY <1>1, <1>3, <2>1, RegisteredNew
  <2> QED BY <1>3, <2>2
<1> HIDE DEF s3
<1>5. /\ s4 \in Seq(S) /\ Len(s4) = 4
      /\ s4[1] = Slot(h1, f1) /\ s4[2] = Slot(h2, f2)
      /\ s4[3] = Slot(h3, f3) /\ s4[4] = Slot(h4, f4)
  <2>1. \A i \in 1 .. 3 : s3[i][1] # h4
    BY <1>4, SlotHandle
  <2>2. /\ s4 \in Seq(S) /\ Len(s4) = 4 /\ s4[4] = Slot(h4, f4)
        /\ \A i \in 1 .. 3 : s4[i] = s3[i]
    BY <1>1, <1>4, <2>1, RegisteredNew
  <2> QED BY <1>4, <2>2
<1> HIDE DEF s4
<1>6. s4 = t
  <2>1. \A i \in 1 .. 4 : s4[i] = t[i]
    BY <1>5
  <2> QED BY <1>5, <2>1, SeqEqual
<1> QED BY <1>6 DEF s1, s2, s3, s4

(* ... and again. *)
LEMMA FourAgain ==
  ASSUME NEW S, NEW h1, NEW h2, NEW h3, NEW h4, NEW f1, NEW f2, NEW f3, NEW f4,
         h1 # h2, h1 # h3, h1 # h4, h2 # h3, h2 # h4, h3 # h4,
         NEW t \in Seq(S), Len(t) = 4,
         t[1] = Slot(h1, f1), t[2] = Slot(h2, f2),
         t[3] = Slot(h3, f3), t[4] = Slot(h4, f4)
  PROVE  Registered(Registered(Registered(Registered(t, h1, f1), h2, f2), h3, f3), h4, f4) = t
<1>1. DOMAIN t = 1 .. 4 /\ 1 \in DOMAIN t /\ 2 \in DOMAIN t /\ 3 \in DOMAIN t /\ 4 \in DOMAIN t
  OBVIOUS
<1>2. Registered(t, h1, f1) = t
  <2>1. \E i \in DOMAIN t : t[i][1] = h1
    BY <1>1, SlotHandle
  <2>2. \A i \in DOMAIN t : t[i][1] = h1 => t[i] = Slot(h1, f1)
    BY <1>1, SlotHandle
  <2> QED BY <2>1, <2>2, RegisteredAgain
<1>3. Registered(t, h2, f2) = t
  <2>1. \E i \in DOMAIN t : t[i][1] = h2
    BY <1>1, SlotHandle
  <2>2. \A i \in DOMAIN t : t[i][1] = h2 => t[i] = Slot(h2, f2)
    BY <1>1, SlotHandle
  <2> QED BY <2>1, <2>2, RegisteredAgain
<1>4. Registered(t, h3, f3) = t
  <2>1. \E i \in DOMAIN t : t[i][1] = h3
    BY <1>1, SlotHandle
  <2>2. \A i \in DOMAIN t : t[i][1] = h3 => t[i] = Slot(h3, f3)
    BY <1>1, SlotHandle
  <2> QED BY <2>1, <2>2, RegisteredAgain
<1>5. Registered(t, h4, f4) = t
  <2>1. \E i \in DOMAIN t : t[i][1] = h4
    BY <1>1, SlotHandle
  <2>2. \A i \in DOMAIN t : t[i][1] = h4 => t[i] = Slot(h4, f4)
    BY <1>1, SlotHandle
  <2> QED BY <2>1, <2>2, RegisteredAgain
<1> QED BY <1>2, <1>3, <1>4, <1>5

(* Two handles that differ, registered in turn: the first time ... *)
LEMMA TwoNew ==
  ASSUME NEW S, NEW h1, NEW h2, NEW f1, NEW f2,
         h1 # h2,
         NEW t \in Seq(S), Len(t) = 2,
         t[1] = Slot(h1, f1), t[2] = Slot(h2, f2)
  PROVE  Registered(Registered(<<>>, h1, f1), h2, f2) = t
<1> DEFINE s1 == Registered(<<>>, h1, f1)
           s2 == Registered(s1, h2, f2)
<1>1. Slot(h1, f1) \in S /\ Slot(h2, f2) \in S
  <2>1. \A i \in 1 .. Len(t) : t[i] \in S
    BY ElementOfSeq
  <2> QED BY <2>1
<1>2. s1 \in Seq(S) /\ Len(s1) = 1 /\ s1[1] = Slot(h1, f1)
  BY <1>1, RegisteredFirst
<1> HIDE DEF s1
<1>3. /\ s2 \in Seq(S) /\ Len(s2) = 2
      /\ s2[1] = Slot(h1, f1) /\ s2[2] = Slot(h2, f2)
  <2>1. \A i \in 1 .. 1 : s1[i][1] # h2
    BY <1>2, SlotHandle
  <2>2. /\ s2 \in Seq(S) /\ Len(s2) = 2 /\ s2[2] = Slot(h2, f2)
        /\ \A i \in 1 .. 1 : s2[i] = s1[i]
    BY <1>1, <1>2, <2>1, RegisteredNew
  <2> QED BY <1>2, <2>2
<1> HIDE DEF s2
<1>4. s2 = t
  <2>1. \A i \in 1 .. 2 : s2[i] = t[i]
    BY <1>3
  <2> QED BY <1>3, <2>1, SeqEqual
<1> QED BY <1>4 DEF s1, s2

(* ... and again. *)
LEMMA TwoAgain ==
  ASSUME NEW S, NEW h1, NEW h2, NEW f1, NEW f2,
         h1 # h2,
         NEW t \in Seq(S), Len(t) = 2,
         t[1] = Slot(h1, f1), t[2] = Slot(h2, f2)
  PROVE  Registered(Registered(t, h1, f1), h2, f2) = t
<1>1. DOMAIN t = 1 .. 2 /\ 1 \in DOMAIN t /\ 2 \in DOMAIN t
  OBVIOUS
<1>2. Registered(t, h1, f1) = t
  <2>1. \E i \in DOMAIN t : t[i][1] = h1
    BY <1>1, SlotHandle
  <2>2. \A i \in DOMAIN t : t[i][1] = h1 => t[i] = Slot(h1, f1)
    BY <1>1, SlotHandle
  <2> QED BY <2>1, <2>2, RegisteredAgain
<1>3. Registered(t, h2, f2) = t
  <2>1. \E i \in DOMAIN t : t[i][1] = h2
    BY <1>1, SlotHandle
  <2>2. \A i \in DOMAIN t : t[i][1] = h2 => t[i] = Slot(h2, f2)
    BY <1>1, SlotHandle
  <2> QED BY <2>1, <2>2, RegisteredAgain
<1> QED BY <1>2, <1>3

LEMMA Slots ==
  /\ \E S : WriteSlots \in Seq(S)
  /\ Len(WriteSlots) = 4
  /\ WriteSlots[1] = Slot(4, "output_desc") /\ WriteSlots[2] = Slot(6, "input")
  /\ WriteSlots[3] = Slot(11, "ota_data") /\ WriteSlots[4] = Slot(13, "ota_ctrl")
  /\ \E S : ReadSlots \in Seq(S)
  /\ Len(ReadSlots) = 2
  /\ ReadSlots[1] = Slot(9, "ota_ver") /\ ReadSlots[2] = Slot(13, "ota_ctrl")
<1>1. PICK a, b, c, d : /\ a = Slot(4, "output_desc") /\ b = Slot(6, "input")
                        /\ c = Slot(11, "ota_data") /\ d = Slot(13, "ota_ctrl")
  OBVIOUS
<1>2. PICK e : e = Slot(9, "ota_ver")
  OBVIOUS
<1>3. <<a, b, c, d>> \in Seq({a, b, c, d}) /\ <<e, d>> \in Seq({e, d})
  OBVIOUS
<1>4. WriteSlots = <<a, b, c, d>> /\ ReadSlots = <<e, d>>
  BY <1>1, <1>2, Zenon DEF WriteSlots, ReadSlots
<1> QED BY <1>1, <1>2, <1>3, <1>4

LEMMA StepRegistry ==
  ASSUME Registry, [Next]_vars
  PROVE  Registry'
<1> USE DEF registry, server
<1>1. CASE ServerOff
  BY <1>1 DEF ServerOff, Registry
<1>2. CASE UNCHANGED registry
  BY <1>2 DEF Registry, NoDb, DbFrom
<1>3. CASE init_service
  <2>1. /\ att_db' = DbFrom(0)
        /\ module_att_write_callback' =
             Registered(Registered(Registered(Registered(module_att_write_callback,
               4, "output_desc"), 6, "input"), 11, "ota_data"), 13, "ota_ctrl")
        /\ module_att_read_callback' =
             Registered(Registered(module_att_read_callback, 9, "ota_ver"), 13, "ota_ctrl")
    BY <1>3 DEF init_service, att_db_util_init, DbFrom
  <2>2. module_att_write_callback' = WriteSlots
    <3>1. module_att_write_callback = <<>> \/ module_att_write_callback = WriteSlots
      BY DEF Registry
    <3>2. PICK S : WriteSlots \in Seq(S)
      BY Slots
    <3>3. CASE module_att_write_callback = <<>>
      BY <2>1, <3>2, <3>3, Slots, FourNew
    <3>4. CASE module_att_write_callback = WriteSlots
      BY <2>1, <3>2, <3>4, Slots, FourAgain
    <3> QED BY <3>1, <3>3, <3>4
  <2>3. module_att_read_callback' = ReadSlots
    <3>1. module_att_read_callback = <<>> \/ module_att_read_callback = ReadSlots
      BY DEF Registry
    <3>2. PICK S : ReadSlots \in Seq(S)
      BY Slots
    <3>3. CASE module_att_read_callback = <<>>
      BY <2>1, <3>2, <3>3, Slots, TwoNew
    <3>4. CASE module_att_read_callback = ReadSlots
      BY <2>1, <3>2, <3>4, Slots, TwoAgain
    <3> QED BY <3>1, <3>3, <3>4
  <2> QED BY <2>1, <2>2, <2>3 DEF Registry
<1>4. ASSUME (\E flag \in BOOLEAN : RXNUM(flag)) \/ (\E p \in Payloads : MasterWrites(p))
             \/ PrintMasterData \/ TimerDue
      PROVE  UNCHANGED registry
  BY <1>4 DEF RXNUM, MasterWrites, PrintMasterData, TimerDue
<1> QED BY <1>1, <1>2, <1>3, <1>4, ServerKinds

LEMMA CallbackOf ==
  ASSUME NEW S, NEW reg \in Seq(S), NEW h, NEW f, \E i \in DOMAIN reg : reg[i][1] = h,
         \A i \in DOMAIN reg : reg[i][1] = h => reg[i] = Slot(h, f),
         \A i, j \in DOMAIN reg : reg[i][1] = h /\ reg[j][1] = h => i = j
  PROVE  Callback(reg, h) = f
<1> DEFINE I == {i \in 1 .. Len(reg) : reg[i][1] = h}
<1>1. PICK k \in 1 .. Len(reg) : reg[k][1] = h /\ reg[k] = Slot(h, f)
  OBVIOUS
<1>2. reg[k][2] = f
  BY <1>1 DEF Slot
<1>3. I = {k}
  BY <1>1
<1>4. Min(I) = k
  BY <1>3 DEF Min
<1>5. SelectInSeq(reg, LAMBDA slot : slot[1] = h) = k
  BY <1>3, <1>4 DEF SelectInSeq
<1> QED BY <1>2, <1>5 DEF Callback

LEMMA RegistryServing == Registry => RegistryServes
<1> SUFFICES ASSUME Registry, att_db # NoDb
             PROVE  RegistryServes
  BY DEF RegistryServes
<1>1. /\ att_db.output + 1 = 4 /\ att_db.input = 6
      /\ att_db.ota[1] = 9 /\ att_db.ota[2] = 11 /\ att_db.ota[3] = 13
  BY DEF Registry, DbFrom
<1>2. module_att_write_callback = WriteSlots /\ module_att_read_callback = ReadSlots
  BY DEF Registry
<1>3. PICK S : WriteSlots \in Seq(S)
  BY Slots
<1>4. PICK T : ReadSlots \in Seq(T)
  BY Slots
<1>5. DOMAIN WriteSlots = 1 .. 4 /\ DOMAIN ReadSlots = 1 .. 2
  BY <1>3, <1>4, Slots
<1>6. /\ WriteSlots[1][1] = 4 /\ WriteSlots[2][1] = 6 /\ WriteSlots[3][1] = 11
      /\ WriteSlots[4][1] = 13 /\ ReadSlots[1][1] = 9 /\ ReadSlots[2][1] = 13
  BY Slots, SlotHandle
<1>7. /\ Callback(WriteSlots, 4) = "output_desc" /\ Callback(WriteSlots, 6) = "input"
      /\ Callback(WriteSlots, 11) = "ota_data" /\ Callback(WriteSlots, 13) = "ota_ctrl"
  <2>1. /\ \E i \in DOMAIN WriteSlots : WriteSlots[i][1] = 4
        /\ \A i \in DOMAIN WriteSlots : WriteSlots[i][1] = 4 => i = 1 /\ WriteSlots[i] = Slot(4, "output_desc")
    BY <1>5, <1>6, Slots
  <2>2. /\ \E i \in DOMAIN WriteSlots : WriteSlots[i][1] = 6
        /\ \A i \in DOMAIN WriteSlots : WriteSlots[i][1] = 6 => i = 2 /\ WriteSlots[i] = Slot(6, "input")
    BY <1>5, <1>6, Slots
  <2>3. /\ \E i \in DOMAIN WriteSlots : WriteSlots[i][1] = 11
        /\ \A i \in DOMAIN WriteSlots : WriteSlots[i][1] = 11 => i = 3 /\ WriteSlots[i] = Slot(11, "ota_data")
    BY <1>5, <1>6, Slots
  <2>4. /\ \E i \in DOMAIN WriteSlots : WriteSlots[i][1] = 13
        /\ \A i \in DOMAIN WriteSlots : WriteSlots[i][1] = 13 => i = 4 /\ WriteSlots[i] = Slot(13, "ota_ctrl")
    BY <1>5, <1>6, Slots
  <2> QED BY <1>3, <2>1, <2>2, <2>3, <2>4, CallbackOf
<1>8. Callback(ReadSlots, 9) = "ota_ver" /\ Callback(ReadSlots, 13) = "ota_ctrl"
  <2>1. /\ \E i \in DOMAIN ReadSlots : ReadSlots[i][1] = 9
        /\ \A i \in DOMAIN ReadSlots : ReadSlots[i][1] = 9 => i = 1 /\ ReadSlots[i] = Slot(9, "ota_ver")
    BY <1>5, <1>6, Slots
  <2>2. /\ \E i \in DOMAIN ReadSlots : ReadSlots[i][1] = 13
        /\ \A i \in DOMAIN ReadSlots : ReadSlots[i][1] = 13 => i = 2 /\ ReadSlots[i] = Slot(13, "ota_ctrl")
    BY <1>5, <1>6, Slots
  <2> QED BY <1>4, <2>1, <2>2, CallbackOf
<1> QED BY <1>1, <1>2, <1>7, <1>8 DEF RegistryServes

-----------------------------------------------------------------------------
(* The table of reports *)

LEMMA AppendSet ==
  ASSUME NEW S, NEW s \in Seq(S), NEW a \in S, ~Contains(s, a)
  PROVE  /\ Append(s, a) \in Seq(S) /\ Len(Append(s, a)) = Len(s) + 1
         /\ ToSet(Append(s, a)) = ToSet(s) \cup {a}
         /\ IsInjective(s) => IsInjective(Append(s, a))
<1> DEFINE t == Append(s, a)
<1>1. /\ t \in Seq(S) /\ Len(t) = Len(s) + 1 /\ DOMAIN t = 1 .. Len(s) + 1
      /\ \A i \in 1 .. Len(s) : t[i] = s[i]
      /\ t[Len(s) + 1] = a
  OBVIOUS
<1> HIDE DEF t
<1>2. DOMAIN s = 1 .. Len(s) /\ Len(s) \in Nat
  OBVIOUS
<1>3. \A i \in DOMAIN t : i \in DOMAIN s \/ i = Len(s) + 1
  BY <1>1, <1>2
<1>4. \A i \in DOMAIN s : i \in DOMAIN t /\ t[i] = s[i]
  BY <1>1, <1>2
<1>5. Len(s) + 1 \in DOMAIN t
  BY <1>1, <1>2
<1>6. ToSet(t) = ToSet(s) \cup {a}
  BY <1>1, <1>3, <1>4, <1>5 DEF ToSet
<1>7. IsInjective(s) => IsInjective(t)
  BY <1>1, <1>2, <1>3, <1>4 DEF IsInjective, Contains
<1> QED BY <1>1, <1>6, <1>7 DEF t

LEMMA StepScanned ==
  ASSUME Scanned, [Next]_vars
  PROVE  Scanned'
<1> DEFINE A == {r.addr : r \in Reports}
<1>1. ASSUME ScanOff \/ StartScan
      PROVE  Scanned'
  <2>1. adv_rpt' = <<>> /\ listed' = NoList /\ seen' = {} /\ undefined' \in BOOLEAN
    BY <1>1 DEF ScanOff, StartScan, Scanned
  <2>2. <<>> \in Seq(A) /\ Len(<<>>) <= ADV_REPORT_NUM /\ ToSet(<<>>) = {} /\ IsInjective(<<>>)
    BY ScanAssumption DEF ToSet, IsInjective
  <2> QED BY <2>1, <2>2 DEF Scanned, NoList
<1>2. ASSUME NEW f, NEW r \in Reports, Report(f, r)
      PROVE  Scanned'
  <2>1. listed' = NoList
    BY <1>2 DEF Report
  <2>2. CASE UNCHANGED adv_rpt
    <3>1. undefined' \in BOOLEAN /\ (undefined => undefined')
      BY <1>2 DEF Report, Scanned
    <3>2. ~undefined' => UNCHANGED seen \/ (Known(r.addr) /\ seen' = seen \cup {r.addr})
      BY <1>2, <2>2 DEF Report
    <3>3. Known(r.addr) => r.addr \in ToSet(adv_rpt)
      BY DEF Known, Contains, ToSet, Scanned
    <3>4. ~undefined' => UNCHANGED seen
      BY <3>1, <3>2, <3>3 DEF Scanned
    <3> QED BY <2>1, <2>2, <3>1, <3>4 DEF Scanned
  <2>3. CASE /\ ~Known(r.addr) /\ adv_rpt' = Append(adv_rpt, r.addr) /\ Len(adv_rpt) # ADV_REPORT_NUM
             /\ seen' = seen \cup {r.addr}
    <3>1. undefined' \in BOOLEAN /\ (undefined => undefined')
      BY <1>2 DEF Report, Scanned
    <3>2. adv_rpt \in Seq(A) /\ r.addr \in A
      BY DEF Scanned
    <3>3. /\ adv_rpt' \in Seq(A) /\ Len(adv_rpt') = Len(adv_rpt) + 1
          /\ ToSet(adv_rpt') = ToSet(adv_rpt) \cup {r.addr}
          /\ IsInjective(adv_rpt) => IsInjective(adv_rpt')
      BY <2>3, <3>2, AppendSet DEF Known
    <3>4. Len(adv_rpt') <= ADV_REPORT_NUM
      BY <2>3, <3>2, <3>3, ScanAssumption DEF Scanned
    <3> QED BY <2>1, <2>3, <3>1, <3>3, <3>4 DEF Scanned
  <2> QED BY <1>2, <2>2, <2>3 DEF Report
<1>3. ASSUME ScanDone \/ (listed' = NoList /\ UNCHANGED <<scanning, adv_rpt, seen, undefined>>)
             \/ UNCHANGED scan
      PROVE  Scanned'
  BY <1>3 DEF Scanned, ScanDone, scan
<1> QED BY <1>1, <1>2, <1>3, ScanKinds

LEMMA ScanListed == Scanned => ListExact
BY DEF Scanned, ListExact

-----------------------------------------------------------------------------
(* The masters' writes *)

LEMMA CopyOf ==
  ASSUME NEW p \in Payloads
  PROVE  /\ Copied(p) \in Seq(Payloads) /\ Copied(p) # <<>> /\ Len(Copied(p)) = 1
         /\ Copied(p)[1] = p
BY DEF Copied

LEMMA PrintedIs ==
  ASSUME Queued, PrintMasterData
  PROVE  /\ printed' \in Seq(Payloads) /\ Len(printed') = Len(printed) + 1
         /\ \A i \in 1 .. Len(printed) : printed'[i] = printed[i]
         /\ printed'[Len(printed) + 1] = accepted[Len(printed) + 1]
<1> DEFINE p == accepted[Len(printed) + 1]
<1>1. master_data # <<>> /\ master_data \in Seq(Seq(Payloads))
  BY DEF PrintMasterData, Queued
<1>2. Len(master_data) >= 1 /\ Head(master_data) = master_data[1]
  BY <1>1
<1>3. Head(master_data) = Copied(p) /\ p \in Payloads
  <2>1. 1 \in 1 .. Len(master_data) /\ Len(printed) + 1 \in 1 .. Len(accepted)
    BY <1>2 DEF Queued
  <2>2. \A i \in 1 .. Len(accepted) : accepted[i] \in Payloads
    BY DEF Queued
  <2>3. \A i \in 1 .. Len(master_data) : master_data[i] = Copied(accepted[Len(printed) + i])
    BY DEF Queued
  <2> QED BY <1>2, <2>1, <2>2, <2>3
<1> HIDE DEF p
<1>4. printed' = printed \o Copied(p)
  BY <1>3, CopyOf DEF PrintMasterData
<1>5. printed \in Seq(Payloads)
  BY DEF Queued
<1> QED BY <1>3, <1>4, <1>5, CopyOf, ConcatProperties DEF p

LEMMA StepCounted ==
  ASSUME Counted, [Next]_vars
  PROVE  Counted'
<1>1. CASE ServerOff
  <2>1. /\ receive_master_data_len' = 0 /\ cnt' = 0 /\ sum' = 0 /\ total' = 0 /\ counted' = 0
        /\ timer_due' = FALSE /\ print_data_len_flag' = FALSE
    BY <1>1 DEF ServerOff
  <2>2. 0 \in 0 .. AVG - 1
    BY ServerAssumption
  <2> QED BY <2>1, <2>2 DEF Counted
<1>2. CASE UNCHANGED counting
  BY <1>2 DEF Counted, counting
<1>3. ASSUME NEW flag \in BOOLEAN, RXNUM(flag)
      PROVE  Counted'
  BY <1>3 DEF Counted, RXNUM
<1>4. ASSUME NEW p \in Payloads, Counting(p)
      PROVE  Counted'
  <2>1. PayloadLen(p) \in Nat /\ AVG \in Nat \ {0}
    BY ServerAssumption
  <2>2. total' = total + PayloadLen(p) /\ print_data_len_flag /\ UNCHANGED print_data_len_flag
    BY <1>4 DEF Counting
  <2>5. print_data_len_flag' \in BOOLEAN /\ (timer_due' \in BOOLEAN)
    <3>1. timer_due' = FALSE \/ UNCHANGED timer_due
      BY <1>4 DEF Counting
    <3> QED BY <2>2, <3>1 DEF Counted
  <2>3. CASE timer_due
    <3>1. timer_due' = FALSE /\ receive_master_data_len' = 0
      BY <1>4, <2>3 DEF Counting
    <3>2. counted' = counted + (receive_master_data_len + PayloadLen(p))
      BY <1>4, <2>3 DEF Counting
    <3>3. CASE cnt + 1 >= AVG
      <4>1. cnt' = 0 /\ sum' = 0
        BY <1>4, <2>3, <3>3 DEF Counting
      <4>2. cnt' \in 0 .. AVG - 1
        BY <2>1, <4>1
      <4> QED BY <2>1, <2>2, <2>5, <3>1, <3>2, <4>1, <4>2 DEF Counted
    <3>4. CASE ~(cnt + 1 >= AVG)
      <4>1. cnt' = cnt + 1 /\ sum' = sum + (receive_master_data_len + PayloadLen(p))
        BY <1>4, <2>3, <3>4 DEF Counting
      <4>2. cnt' \in 0 .. AVG - 1
        BY <2>1, <3>4, <4>1 DEF Counted
      <4> QED BY <2>1, <2>2, <2>5, <3>1, <3>2, <4>1, <4>2 DEF Counted
    <3> QED BY <3>3, <3>4
  <2>4. CASE ~timer_due
    <3>1. /\ receive_master_data_len' = receive_master_data_len + PayloadLen(p)
          /\ UNCHANGED <<timer_due, cnt, sum, counted>>
      BY <1>4, <2>4 DEF Counting
    <3> QED BY <2>1, <2>2, <2>5, <3>1 DEF Counted
  <2> QED BY <2>3, <2>4
<1>5. CASE TimerDue
  BY <1>5 DEF TimerDue, Counted
<1>6. ASSUME NEW p \in Payloads, MasterWrites(p), ~Counting(p)
      PROVE  UNCHANGED counting
  BY <1>6 DEF MasterWrites, Printing
<1>7. PrintMasterData \/ UNCHANGED server \/ UNCHANGED <<counting, incoming>> => UNCHANGED counting
  BY DEF PrintMasterData, server
<1> QED BY <1>1, <1>2, <1>3, <1>4, <1>5, <1>6, <1>7, ServerKinds

LEMMA StepQueued ==
  ASSUME Queued, [Next]_vars
  PROVE  Queued'
<1>0. /\ Len(accepted) \in Nat /\ Len(printed) \in Nat /\ Len(master_data) \in Nat
      /\ Len(accepted) = Len(printed) + Len(master_data) /\ accepted \in Seq(Payloads)
  BY DEF Queued
<1>1. CASE ServerOff
  <2>1. printed' = <<>> /\ accepted' = <<>> /\ master_data' = <<>>
    BY <1>1 DEF ServerOff
  <2> QED BY <2>1 DEF Queued
<1>2. CASE UNCHANGED <<printed, accepted, master_data>>
  BY <1>2 DEF Queued
<1>3. ASSUME NEW p \in Payloads, UNCHANGED printed,
             master_data' = Append(master_data, Copied(p)), accepted' = Append(accepted, p)
      PROVE  Queued'
  <2>1. /\ accepted' \in Seq(Payloads) /\ Len(accepted') = Len(accepted) + 1
        /\ \A i \in 1 .. Len(accepted) : accepted'[i] = accepted[i]
        /\ accepted'[Len(accepted) + 1] = p
    BY <1>0, <1>3, AppendProperties
  <2>2. /\ master_data' \in Seq(Seq(Payloads)) /\ Len(master_data') = Len(master_data) + 1
        /\ \A i \in 1 .. Len(master_data) : master_data'[i] = master_data[i]
        /\ master_data'[Len(master_data) + 1] = Copied(p)
    BY <1>3, CopyOf, AppendProperties DEF Queued
  <2>3. \A i \in 1 .. Len(printed') : printed'[i] = accepted'[i]
    BY <1>0, <1>3, <2>1 DEF Queued
  <2>4. \A i \in 1 .. Len(master_data') : master_data'[i] = Copied(accepted'[Len(printed') + i])
    <3>1. ASSUME NEW i \in 1 .. Len(master_data)
          PROVE  master_data'[i] = Copied(accepted'[Len(printed') + i])
      <4>1. accepted'[Len(printed) + i] = accepted[Len(printed) + i]
        BY <1>0, <2>1 DEF Queued
      <4> QED BY <1>3, <2>2, <4>1 DEF Queued
    <3>2. Len(printed') + (Len(master_data) + 1) = Len(accepted) + 1
      BY <1>0, <1>3 DEF Queued
    <3>3. master_data'[Len(master_data) + 1] = Copied(accepted'[Len(printed') + (Len(master_data) + 1)])
      BY <2>1, <2>2, <3>2
    <3>4. \A i \in 1 .. Len(master_data') : i \in 1 .. Len(master_data) \/ i = Len(master_data) + 1
      BY <1>0, <2>2
    <3> QED BY <3>1, <3>3, <3>4
  <2>5. Len(accepted') = Len(printed') + Len(master_data')
    BY <1>0, <1>3, <2>1, <2>2 DEF Queued
  <2>6. printed' \in Seq(Payloads)
    BY <1>3 DEF Queued
  <2> QED BY <2>1, <2>2, <2>3, <2>4, <2>5, <2>6 DEF Queued
<1>4. CASE PrintMasterData
  <2>1. /\ master_data' \in Seq(Seq(Payloads)) /\ Len(master_data') = Len(master_data) - 1
        /\ \A i \in 1 .. Len(master_data') : master_data'[i] = master_data[i + 1]
    BY <1>4, HeadTailProperties DEF PrintMasterData, Queued
  <2>2. UNCHANGED accepted
    BY <1>4 DEF PrintMasterData
  <2>3. /\ printed' \in Seq(Payloads) /\ Len(printed') = Len(printed) + 1
        /\ \A i \in 1 .. Len(printed) : printed'[i] = printed[i]
        /\ printed'[Len(printed) + 1] = accepted[Len(printed) + 1]
    BY <1>4, PrintedIs
  <2>8. Len(master_data') = Len(master_data) - 1 /\ Len(printed') = Len(printed) + 1
    BY <2>1, <2>3
  <2>4. \A i \in 1 .. Len(printed') : printed'[i] = accepted'[i]
    <3>1. \A i \in 1 .. Len(printed') : i \in 1 .. Len(printed) \/ i = Len(printed) + 1
      BY <1>0, <2>3
    <3> QED BY <2>2, <2>3, <3>1 DEF Queued
  <2>5. \A i \in 1 .. Len(master_data') : master_data'[i] = Copied(accepted'[Len(printed') + i])
    <3> SUFFICES ASSUME NEW i \in 1 .. Len(master_data')
                 PROVE  master_data'[i] = Copied(accepted'[Len(printed') + i])
      OBVIOUS
    <3>1. i + 1 \in 1 .. Len(master_data) /\ Len(printed) + (i + 1) = Len(printed') + i
      BY <1>0, <2>8
    <3>2. master_data[i + 1] = Copied(accepted[Len(printed) + (i + 1)])
      BY <3>1 DEF Queued
    <3> QED BY <2>1, <2>2, <3>1, <3>2
  <2>6. Len(accepted') = Len(printed') + Len(master_data')
    BY <1>0, <2>2, <2>8
  <2>7. accepted' \in Seq(Payloads)
    BY <2>2 DEF Queued
  <2> QED BY <2>1, <2>3, <2>4, <2>5, <2>6, <2>7 DEF Queued
<1>5. ASSUME NEW p \in Payloads, MasterWrites(p)
      PROVE  Queued'
  <2>1. UNCHANGED printed
    BY <1>5 DEF MasterWrites
  <2>2. \/ UNCHANGED <<master_data, accepted>>
        \/ master_data' = Append(master_data, Copied(p)) /\ accepted' = Append(accepted, p)
    BY <1>5 DEF MasterWrites, Printing, Counting
  <2> QED BY <1>2, <1>3, <2>1, <2>2
<1>6. ASSUME (\E flag \in BOOLEAN : RXNUM(flag)) \/ TimerDue \/ UNCHANGED server
             \/ UNCHANGED <<counting, incoming>>
      PROVE  UNCHANGED <<printed, accepted, master_data>>
  BY <1>6 DEF RXNUM, TimerDue, server, incoming
<1> QED BY <1>1, <1>2, <1>4, <1>5, <1>6, ServerKinds

LEMMA WritesSafe == Counted /\ Queued => WritesAccounted
<1> SUFFICES ASSUME Queued
             PROVE  IsPrefix(printed, accepted)
  BY DEF WritesAccounted, Counted
<1>1. Len(printed) <= Len(accepted) /\ printed \in Seq(Payloads) /\ accepted \in Seq(Payloads)
  BY DEF Queued
<1>2. SubSeq(printed, 1, Len(printed)) = printed
  BY <1>1
<1>3. /\ SubSeq(accepted, 1, Len(printed)) \in Seq(Payloads)
      /\ Len(SubSeq(accepted, 1, Len(printed))) = Len(printed)
      /\ \A i \in 1 .. Len(printed) : SubSeq(accepted, 1, Len(printed))[i] = accepted[i]
  BY <1>1, SubSeqProperties
<1>4. SubSeq(accepted, 1, Len(printed)) = printed
  BY <1>1, <1>3, SeqEqual DEF Queued
<1> QED BY <1>1, <1>2, <1>4 DEF IsPrefix

-----------------------------------------------------------------------------
(* Flash *)

(* What a step does to the phase and to the image.                         *)
LEMMA StoreKinds ==
  ASSUME [Next]_vars
  PROVE  /\ UNCHANGED session
         /\ \/ PowerLoss \/ Watchdog \/ RESTART \/ Load \/ Save \/ FLASH
            \/ phase = "start" /\ phase' = "stack" /\ UNCHANGED <<store, ram>>
            \/ phase = "stack" /\ phase' \in {"up", "fault"} /\ UNCHANGED <<store, ram>>
            \/ Running /\ phase' \in {"up", "fault"} /\ UNCHANGED store
            \/ UNCHANGED <<phase, store, ram>>
<1> DEFINE Others == \/ phase = "start" /\ phase' = "stack" /\ UNCHANGED <<store, ram>>
                     \/ phase = "stack" /\ phase' \in {"up", "fault"} /\ UNCHANGED <<store, ram>>
                     \/ Running /\ phase' \in {"up", "fault"} /\ UNCHANGED store
                     \/ UNCHANGED <<phase, store, ram>>
<1>1. CASE PowerLoss \/ Watchdog \/ RESTART
  BY <1>1 DEF PowerLoss, Watchdog, RESTART, Command, counts
<1>2. CASE Load \/ Save \/ FLASH
  BY <1>2 DEF Load, Save, FLASH, Command, counts
<1>3. CASE Start \/ StackUp
  <2>1. UNCHANGED session
    BY <1>3 DEF Start, StackUp, counts
  <2>2. Others
    BY <1>3 DEF Start, StackUp, Advertise
  <2> QED BY <2>1, <2>2
<1>4. CASE WakeUp \/ UartSwitch \/ Timer
  BY <1>4 DEF WakeUp, UartSwitch, Timer, counts
<1>5. ASSUME \/ \E n \in Names : NAME(n)
             \/ \E m \in Macs : MAC(m)
             \/ \E c \in Parts, u \in Uuids : UUID(c, u)
             \/ \E u \in Uarts : UART(u)
             \/ \E n \in Intervals : ADVINT(n) \/ POWER(n)
      PROVE  UNCHANGED session /\ Others
  BY <1>5 DEF NAME, MAC, UUID, UART, ADVINT, POWER, Command, Running, counts
<1>6. ASSUME \/ QUERY \/ SCAN
             \/ \E on \in BOOLEAN : SLEEP(on) \/ SetRXNUM(on)
             \/ \E i \in Ids, x \in Settings : CONN_SET(i, x)
             \/ \E f \in Filters : SCAN_FILTER(f)
      PROVE  UNCHANGED session /\ Others
  BY <1>6 DEF QUERY, SCAN, SLEEP, SetRXNUM, CONN_SET, SCAN_FILTER, Command, Running, counts
<1>7. ASSUME MODE_B
      PROVE  UNCHANGED session /\ Others
  <2>1. Running /\ UNCHANGED session /\ UNCHANGED store
    BY <1>7 DEF MODE_B, Command, counts
  <2>2. UNCHANGED phase \/ phase' \in {"up", "fault"}
    BY <1>7 DEF MODE_B, Advertise
  <2> QED BY <2>1, <2>2 DEF Running
<1>8. ASSUME \/ ScanEnds \/ Printed
             \/ \E i \in Ids : LinkDown(i) \/ \E h \in Handles, x \in Settings : LinkUp(i, h, x)
             \/ \E r \in Reports : AdvReport(r)
             \/ \E p \in Payloads : Written(p)
      PROVE  UNCHANGED session /\ Others
  BY <1>8 DEF ScanEnds, Printed, LinkDown, LinkUp, AdvReport, Written, Event, Running
<1>9. CASE UNCHANGED vars
  BY <1>9 DEF vars, counts
<1> QED BY <1>1, <1>2, <1>3, <1>4, <1>5, <1>6, <1>7, <1>8, <1>9 DEF Next, Own

LEMMA StepPhase ==
  ASSUME PhaseTypes, [Next]_vars
  PROVE  /\ phase' \in {"off", "boot", "start", "stack", "up", "fault"}
         /\ saving' \in {"no", "erase", "write", "rest"}
         /\ session' \in Sessions /\ torn' \in BOOLEAN
<1>1. CASE PowerLoss \/ Watchdog \/ RESTART
  <2>1. phase' = "off" /\ saving' = "no"
    BY <1>1 DEF PowerLoss, Watchdog, RESTART, Off
  <2>2. torn' \in BOOLEAN
    BY <1>1 DEF PowerLoss, Watchdog, RESTART, PhaseTypes
  <2> QED BY <2>1, <2>2, StoreKinds DEF PhaseTypes
<1>2. CASE Load \/ Save \/ FLASH
  <2>1. phase' \in {"boot", "start"} \/ UNCHANGED phase
    BY <1>2 DEF Load, Save, FLASH
  <2>2. saving' \in {"no", "erase", "write", "rest"} \/ UNCHANGED saving
    BY <1>2 DEF Load, Save, FLASH
  <2>3. torn' = FALSE \/ UNCHANGED torn
    BY <1>2 DEF Load, Save, FLASH
  <2> QED BY <2>1, <2>2, <2>3, StoreKinds DEF PhaseTypes
<1> QED BY <1>1, <1>2, StoreKinds DEF PhaseTypes, store

LEMMA StepInFlash ==
  ASSUME PhaseTypes, ImageTypes, InFlash, [Next]_vars
  PROVE  InFlash'
<1>1. CASE PowerLoss
  <2>1. phase' = "off" /\ saving' = "no" /\ UNCHANGED <<flash, saved>>
    BY <1>1 DEF PowerLoss, Off
  <2>2. ~torn' => ~torn /\ saving \in {"no", "erase"}
    BY <1>1 DEF PowerLoss, PhaseTypes
  <2> QED BY <2>1, <2>2 DEF InFlash
<1>2. CASE Watchdog \/ RESTART
  <2>1. phase' = "off" /\ saving' = "no" /\ UNCHANGED <<flash, saved, torn>>
    BY <1>2 DEF Watchdog, RESTART, Off
  <2>2. saving = "no"
    BY <1>2 DEF Watchdog, RESTART, Command, Running, InFlash
  <2> QED BY <2>1, <2>2 DEF InFlash
<1>3. CASE Load
  <2>1. saving = "no" /\ UNCHANGED <<flash, saved, torn>>
    BY <1>3 DEF Load, InFlash
  <2>2. CASE flash.head
    <3>1. ram' = flash.image /\ phase' = "start" /\ saving' = "no"
      BY <1>3, <2>1, <2>2 DEF Load, Whole
    <3> QED BY <2>1, <2>2, <3>1 DEF InFlash
  <2>3. CASE ~flash.head
    <3>1. ram' = Fresh /\ phase' = "boot" /\ saving' = "erase"
      BY <1>3, <2>3 DEF Load, Whole
    <3> QED BY <2>1, <2>3, <3>1 DEF InFlash
  <2> QED BY <2>2, <2>3
<1>4. CASE Save
  <2>1. CASE saving \in {"erase", "write"}
    <3>1. saving' \in {"write", "rest"} /\ UNCHANGED <<saved, torn, phase, ram>>
      BY <1>4, <2>1 DEF Save
    <3> QED BY <2>1, <3>1 DEF InFlash
  <2>2. CASE saving = "rest"
    <3>1. /\ saving' = "no" /\ flash' = [head |-> TRUE, image |-> ram] /\ saved' = ram
          /\ torn' = FALSE /\ UNCHANGED ram
      BY <1>4, <2>2 DEF Save
    <3>2. phase = "boot" \/ phase = "up"
      BY <2>2 DEF InFlash
    <3>3. (phase = "boot" /\ phase' = "start") \/ (phase = "up" /\ phase' = "up")
      BY <1>4, <2>2, <3>2 DEF Save
    <3> QED BY <3>1, <3>3 DEF InFlash
  <2> QED BY <1>4, <2>1, <2>2 DEF Save
<1>5. CASE FLASH
  <2>1. /\ phase = "up" /\ saving = "no" /\ saving' = "erase"
        /\ UNCHANGED <<phase, flash, saved, torn, ram>>
    BY <1>5 DEF FLASH, Command, Running
  <2> QED BY <2>1 DEF InFlash
<1>6. CASE phase = "start" /\ phase' = "stack" /\ UNCHANGED <<store, ram>>
  BY <1>6 DEF InFlash, store
<1>7. CASE phase = "stack" /\ phase' \in {"up", "fault"} /\ UNCHANGED <<store, ram>>
  BY <1>7 DEF InFlash, store
<1>8. CASE Running /\ phase' \in {"up", "fault"} /\ UNCHANGED store
  BY <1>8 DEF InFlash, store, Running
<1>9. CASE UNCHANGED <<phase, store, ram>>
  BY <1>9 DEF InFlash, store
<1> QED BY <1>1, <1>2, <1>3, <1>4, <1>5, <1>6, <1>7, <1>8, <1>9, StoreKinds

LEMMA ImageKept == InFlash => AfterRestart
BY DEF InFlash, AfterRestart

-----------------------------------------------------------------------------
(* The types of the image *)

LEMMA FirstImages == Default \in Image /\ Fresh \in Image
<1>1. Default \in Image
  <2>1. Default.uuid \in [Parts -> Uuids \cup {Nordic, Blank, Unset}]
    BY DEF Default
  <2>2. Default.uart \in UartSettings
    BY DEF UartSettings
  <2>3. Default.filter \in {Effective(f) : f \in Filters} \cup {Default.filter}
    OBVIOUS
  <2> QED BY <2>1, <2>2, <2>3 DEF Default, Image
<1>2. [k \in Parts |-> Nordic] \in [Parts -> Uuids \cup {Nordic, Blank, Unset}]
  OBVIOUS
<1> QED BY <1>1, <1>2 DEF Fresh, Image

LEMMA HalfImage ==
  ASSUME NEW i \in Image
  PROVE  Half(i) \in Image
<1>1. [k \in Parts |-> Blank] \in [Parts -> Uuids \cup {Nordic, Blank, Unset}]
  OBVIOUS
<1>2. BadUart \in UartSettings
  BY DEF UartSettings
<1> QED BY <1>1, <1>2 DEF Half, Image

LEMMA NamedImage ==
  ASSUME NEW i \in Image, NEW n \in Names
  PROVE  /\ SetName(i, n) \in Image
         /\ SetName(i, n).name = n /\ SetName(i, n).adv_name = n
         /\ SetName(i, n).uuid = i.uuid /\ SetName(i, n).uart = i.uart
         /\ n \notin LongNames => SetName(i, n).mac = i.mac /\ SetName(i, n).sleep = i.sleep
<1> DEFINE named == [i EXCEPT !.name = n, !.adv_name = n]
<1>1. named \in Image /\ named.name = n /\ named.adv_name = n
  BY DEF Image
<1>2. named.uuid = i.uuid /\ named.uart = i.uart /\ named.mac = i.mac /\ named.sleep = i.sleep
  BY DEF Image
<1>3. CASE n \in LongNames
  <2>1. SetName(i, n) = [named EXCEPT !.mac = Garbled, !.sleep = TRUE]
    BY <1>3 DEF SetName
  <2> HIDE DEF named
  <2> QED BY <1>1, <1>2, <1>3, <2>1 DEF Image
<1>4. CASE n \notin LongNames
  BY <1>1, <1>2, <1>4 DEF SetName
<1> QED BY <1>3, <1>4

(* What a step does to RAM.                                                *)
LEMMA RamKinds ==
  ASSUME [Next]_vars
  PROVE  \/ ram' \in {Default, Fresh, ram} \/ (Whole(flash) /\ ram' = flash.image)
         \/ \E n \in Names : ram' = SetName(ram, n)
         \/ \E m \in Macs : ram' = [ram EXCEPT !.mac = m]
         \/ \E k \in Parts, u \in Uuids : ram' = [ram EXCEPT !.uuid[k] = u]
         \/ \E u \in Uarts : ram' = [ram EXCEPT !.uart = Clamped(u)]
         \/ \E n \in Intervals : Accepted(n) /\ ram' = [ram EXCEPT !.adv_int = Stored(n)]
         \/ \E n \in Intervals : Accepted(n) /\ ram' = [ram EXCEPT !.rf_power = Stored(n)]
         \/ \E on \in BOOLEAN : ram' = [ram EXCEPT !.sleep = on]
         \/ \E f \in Filters : ram' = [ram EXCEPT !.filter = Effective(f)]
<1>1. CASE PowerLoss \/ Watchdog \/ RESTART
  BY <1>1 DEF PowerLoss, Watchdog, RESTART, Off
<1>2. CASE Load \/ Save \/ FLASH
  BY <1>2 DEF Load, Save, FLASH
<1>3. CASE Start \/ StackUp \/ WakeUp \/ UartSwitch \/ Timer
  BY <1>3 DEF Start, StackUp, WakeUp, UartSwitch, Timer
<1>4. CASE \E n \in Names : NAME(n)
  BY <1>4 DEF NAME
<1>5. CASE (\E m \in Macs : MAC(m)) \/ (\E k \in Parts, u \in Uuids : UUID(k, u))
           \/ (\E u \in Uarts : UART(u))
  BY <1>5 DEF MAC, UUID, UART
<1>6. CASE \E n \in Intervals : ADVINT(n) \/ POWER(n)
  BY <1>6 DEF ADVINT, POWER
<1>7. CASE MODE_B \/ QUERY \/ SCAN \/ ScanEnds \/ Printed
  BY <1>7 DEF MODE_B, QUERY, SCAN, ScanEnds, Printed, Event
<1>8. CASE (\E on \in BOOLEAN : SLEEP(on) \/ SetRXNUM(on)) \/ (\E f \in Filters : SCAN_FILTER(f))
           \/ (\E i \in Ids, x \in Settings : CONN_SET(i, x))
  BY <1>8 DEF SLEEP, SetRXNUM, SCAN_FILTER, CONN_SET
<1>9. CASE \/ \E i \in Ids : LinkDown(i) \/ \E h \in Handles, x \in Settings : LinkUp(i, h, x)
           \/ \E r \in Reports : AdvReport(r)
           \/ \E p \in Payloads : Written(p)
  BY <1>9 DEF LinkDown, LinkUp, AdvReport, Written, Event
<1>10. CASE UNCHANGED vars
  BY <1>10 DEF vars
<1> QED BY <1>1, <1>2, <1>3, <1>4, <1>5, <1>6, <1>7, <1>8, <1>9, <1>10 DEF Next, Own

LEMMA StepRam ==
  ASSUME ImageTypes, [Next]_vars
  PROVE  ram' \in Image
<1>0. ram \in Image /\ flash.image \in Image
  BY DEF ImageTypes
<1>1. CASE ram' \in {Default, Fresh, ram} \/ ram' = flash.image
  BY <1>0, <1>1, FirstImages
<1>2. CASE \E n \in Names : ram' = SetName(ram, n)
  BY <1>0, <1>2, NamedImage
<1>3. CASE \E m \in Macs : ram' = [ram EXCEPT !.mac = m]
  BY <1>0, <1>3 DEF Image
<1>4. ASSUME NEW k \in Parts, NEW u \in Uuids, ram' = [ram EXCEPT !.uuid[k] = u]
      PROVE  ram' \in Image
  <2>1. ram' = [ram EXCEPT !.uuid = [ram.uuid EXCEPT ![k] = u]]
    BY <1>0, <1>4 DEF Image
  <2>2. [ram.uuid EXCEPT ![k] = u] \in [Parts -> Uuids \cup {Nordic, Blank, Unset}]
    BY <1>0 DEF Image
  <2> QED BY <1>0, <2>1, <2>2 DEF Image
<1>5. CASE \E u \in Uarts : ram' = [ram EXCEPT !.uart = Clamped(u)]
  <2>1. PICK u \in Uarts : ram' = [ram EXCEPT !.uart = Clamped(u)]
    BY <1>5
  <2>2. Clamped(u) \in UartSettings
    BY DEF UartSettings
  <2> QED BY <1>0, <2>1, <2>2 DEF Image
<1>6. ASSUME NEW n \in Intervals, Accepted(n)
      PROVE  Stored(n) \in 0 .. 5 \cup {Wild}
  BY <1>6, ParamsAssumption DEF Accepted, Stored
<1>7. CASE \E n \in Intervals : Accepted(n) /\ ram' = [ram EXCEPT !.adv_int = Stored(n)]
  BY <1>0, <1>6, <1>7 DEF Image
<1>8. CASE \E n \in Intervals : Accepted(n) /\ ram' = [ram EXCEPT !.rf_power = Stored(n)]
  BY <1>0, <1>6, <1>8 DEF Image
<1>9. CASE \E on \in BOOLEAN : ram' = [ram EXCEPT !.sleep = on]
  BY <1>0, <1>9 DEF Image
<1>10. CASE \E f \in Filters : ram' = [ram EXCEPT !.filter = Effective(f)]
  <2>1. PICK f \in Filters : ram' = [ram EXCEPT !.filter = Effective(f)]
    BY <1>10
  <2>2. Effective(f) \in {Effective(g) : g \in Filters} \cup {Default.filter}
    OBVIOUS
  <2> QED BY <1>0, <2>1, <2>2 DEF Image
<1> QED BY <1>1, <1>2, <1>3, <1>4, <1>5, <1>7, <1>8, <1>9, <1>10, RamKinds

LEMMA StepImages ==
  ASSUME ImageTypes, [Next]_vars
  PROVE  ImageTypes'
<1>1. CASE UNCHANGED <<flash, saved>>
  BY <1>1, StepRam DEF ImageTypes
<1>2. CASE Save
  <2>1. \/ flash' = Erased
        \/ flash' = [head |-> TRUE, image |-> Half(ram)]
        \/ flash' = [head |-> TRUE, image |-> ram]
    BY <1>2 DEF Save
  <2>2. Half(ram) \in Image /\ Default \in Image
    BY HalfImage, FirstImages DEF ImageTypes
  <2>3. flash' \in [head : BOOLEAN, image : Image]
    <3>1. \A b \in BOOLEAN, i \in Image : [head |-> b, image |-> i] \in [head : BOOLEAN, image : Image]
      OBVIOUS
    <3>2. ram \in Image
      BY DEF ImageTypes
    <3>3. flash' = Erased => flash' \in [head : BOOLEAN, image : Image]
      BY <2>2, <3>1, Zenon DEF Erased
    <3> QED BY <2>1, <2>2, <3>1, <3>2, <3>3, Zenon
  <2>4. saved' \in Image
    BY <1>2 DEF Save, ImageTypes
  <2> QED BY <2>3, <2>4, StepRam DEF ImageTypes
<1>3. PowerLoss \/ Watchdog \/ RESTART \/ Load \/ FLASH \/ UNCHANGED store
      => UNCHANGED <<flash, saved>>
  BY DEF PowerLoss, Watchdog, RESTART, Off, Load, FLASH, store
<1> QED BY <1>1, <1>2, <1>3, StoreKinds DEF store

-----------------------------------------------------------------------------
(* What is in force *)

LEMMA StepNamed ==
  ASSUME ImageTypes, Named, [Next]_vars
  PROVE  Named'
<1>0. ram \in Image
  BY DEF ImageTypes
<1>1. ram'.adv_name = ram'.name
  <2>0. Default.adv_name = Default.name /\ Fresh.adv_name = Fresh.name
    BY DEF Default, Fresh
  <2>1. CASE ram' \in {Default, Fresh, ram} \/ ram' = flash.image
    BY <2>0, <2>1 DEF Named
  <2>2. CASE \E n \in Names : ram' = SetName(ram, n)
    BY <1>0, <2>2, NamedImage
  <2>3. CASE \/ \E m \in Macs : ram' = [ram EXCEPT !.mac = m]
             \/ \E k \in Parts, u \in Uuids : ram' = [ram EXCEPT !.uuid[k] = u]
             \/ \E u \in Uarts : ram' = [ram EXCEPT !.uart = Clamped(u)]
    BY <1>0, <2>3 DEF Named, Image
  <2>4. CASE \/ \E n \in Intervals : ram' = [ram EXCEPT !.adv_int = Stored(n)]
             \/ \E n \in Intervals : ram' = [ram EXCEPT !.rf_power = Stored(n)]
             \/ \E on \in BOOLEAN : ram' = [ram EXCEPT !.sleep = on]
             \/ \E f \in Filters : ram' = [ram EXCEPT !.filter = Effective(f)]
    BY <1>0, <2>4 DEF Named, Image
  <2> QED BY <2>1, <2>2, <2>3, <2>4, RamKinds
<1>2. flash'.image.adv_name = flash'.image.name
  <2>1. CASE UNCHANGED flash
    BY <2>1 DEF Named
  <2>2. CASE Save
    <3>1. \/ flash'.image = Default \/ flash'.image = Half(ram) \/ flash'.image = ram
      BY <2>2 DEF Save, Erased, ImageTypes
    <3>2. Half(ram).adv_name = ram.adv_name /\ Half(ram).name = ram.name
      BY <1>0 DEF Half, Image
    <3> QED BY <3>1, <3>2 DEF Named, Default
  <2>3. PowerLoss \/ Watchdog \/ RESTART \/ Load \/ FLASH \/ UNCHANGED store => UNCHANGED flash
    BY DEF PowerLoss, Watchdog, RESTART, Off, Load, FLASH, store
  <2> QED BY <2>1, <2>2, <2>3, StoreKinds DEF store
<1> QED BY <1>1, <1>2 DEF Named

(* What a step does to the advertising set and to the UART.                *)
LEMMA WareKinds ==
  ASSUME [Next]_vars
  PROVE  /\ \/ air' \in {NoAir, air} \/ air' = [air EXCEPT !.on = FALSE]
            \/ \E m \in Macs : air' = [air EXCEPT !.addr = m, !.on = TRUE]
            \/ air' = [air EXCEPT !.name = ram'.adv_name]
            \/ air' = [addr |-> IF air.on THEN air.addr ELSE ram.mac, name |-> ram.adv_name,
                       interval |-> IF air.on THEN air.interval ELSE ram.adv_int, on |-> TRUE]
         /\ uart' \in {BadUart, ram.uart, uart}
<1>1. CASE Off
  BY <1>1 DEF Off
<1>2. CASE Start \/ (\E k \in Parts, u \in Uuids : UUID(k, u)) \/ UartSwitch \/ WakeUp
  BY <1>2 DEF Start, UUID, UartSwitch, WakeUp
<1>3. CASE Load \/ Save \/ FLASH \/ QUERY \/ SCAN \/ ScanEnds \/ Printed \/ Timer
  BY <1>3 DEF Load, Save, FLASH, QUERY, SCAN, ScanEnds, Printed, Timer, wares
<1>4. CASE StackUp \/ MODE_B
  <2>1. UNCHANGED uart
    BY <1>4 DEF StackUp, MODE_B
  <2>2. Advertise \/ UNCHANGED air
    BY <1>4 DEF StackUp, MODE_B
  <2> QED BY <2>1, <2>2 DEF Advertise
<1>5. CASE \E n \in Names : NAME(n)
  BY <1>5 DEF NAME, at_init_adv_rsp_parameter
<1>6. CASE (\E m \in Macs : MAC(m)) \/ (\E u \in Uarts : UART(u))
           \/ (\E n \in Intervals : ADVINT(n) \/ POWER(n))
  BY <1>6 DEF MAC, UART, ADVINT, POWER, wares
<1>7. CASE (\E on \in BOOLEAN : SLEEP(on) \/ SetRXNUM(on)) \/ (\E f \in Filters : SCAN_FILTER(f))
           \/ (\E i \in Ids, x \in Settings : CONN_SET(i, x))
  BY <1>7 DEF SLEEP, SetRXNUM, SCAN_FILTER, CONN_SET, wares
<1>8. CASE \/ \E i \in Ids : LinkDown(i) \/ \E h \in Handles, x \in Settings : LinkUp(i, h, x)
           \/ \E r \in Reports : AdvReport(r)
           \/ \E p \in Payloads : Written(p)
  BY <1>8 DEF LinkDown, LinkUp, AdvReport, Written, wares
<1>9. CASE UNCHANGED vars
  BY <1>9 DEF vars, wares
<1>10. PowerLoss \/ RESTART \/ Watchdog => Off
  BY DEF PowerLoss, RESTART, Watchdog
<1> QED BY <1>1, <1>2, <1>3, <1>4, <1>5, <1>6, <1>7, <1>8, <1>9, <1>10 DEF Next, Own

LEMMA StepWares ==
  ASSUME ImageTypes, WareTypes, [Next]_vars
  PROVE  WareTypes'
<1>0. ram \in Image /\ ram' \in Image /\ air \in Air
  BY StepRam DEF ImageTypes, WareTypes
<1>1. uart' \in UartSettings
  <2>1. ram.uart \in UartSettings /\ BadUart \in UartSettings
    BY <1>0 DEF Image, UartSettings
  <2> QED BY <2>1, WareKinds DEF WareTypes
<1>2. ram.mac \in Addresses /\ ram.adv_name \in Labels /\ ram'.adv_name \in Labels
      /\ ram.adv_int \in 0 .. 5 \cup {Wild, -1}
  BY <1>0 DEF Image, Addresses, Labels
<1>3. ASSUME air' \in {NoAir, air} \/ air' = [air EXCEPT !.on = FALSE]
      PROVE  air' \in Air
  <2>1. NoAir \in Air
    BY DEF NoAir, Air, Addresses, Labels
  <2>2. [air EXCEPT !.on = FALSE] \in Air
    BY <1>0 DEF Air
  <2> QED BY <1>0, <1>3, <2>1, <2>2
<1>4. ASSUME NEW m \in Macs, air' = [air EXCEPT !.addr = m, !.on = TRUE]
      PROVE  air' \in Air
  BY <1>0, <1>4 DEF Air, Addresses
<1>5. ASSUME air' = [air EXCEPT !.name = ram'.adv_name]
      PROVE  air' \in Air
  BY <1>0, <1>2, <1>5 DEF Air
<1>6. ASSUME air' = [addr |-> IF air.on THEN air.addr ELSE ram.mac, name |-> ram.adv_name,
                     interval |-> IF air.on THEN air.interval ELSE ram.adv_int, on |-> TRUE]
      PROVE  air' \in Air
  BY <1>0, <1>2, <1>6 DEF Air
<1>7. air' \in Air
  BY <1>3, <1>4, <1>5, <1>6, WareKinds DEF WareTypes
<1> QED BY <1>1, <1>7 DEF WareTypes

LEMMA StepInForce ==
  ASSUME Names \cap LongNames = {}, PhaseTypes, ImageTypes, WareTypes, Named, InFlash, InForce,
         [Next]_vars
  PROVE  InForce'
<1>0. ram \in Image /\ air \in Air /\ ram.adv_name = ram.name
  BY DEF ImageTypes, WareTypes, Named
<1>1. CASE Off
  <2>1. phase' = "off" /\ air' = NoAir /\ said' = Nothing /\ switching' = FALSE
    BY <1>1 DEF Off
  <2> QED BY <2>1 DEF InForce
<1>2. CASE Load
  <2>1. /\ phase = "off" /\ phase' \in {"boot", "start"}
        /\ UNCHANGED <<air, said, switching>>
    BY <1>2 DEF Load, wares
  <2> QED BY <2>1 DEF InForce
<1>3. CASE Save
  <2>1. /\ UNCHANGED <<ram, air, db_uuid, uart, switching, power_saving, said>>
        /\ saving # "no" /\ (UNCHANGED phase \/ (phase = "boot" /\ phase' = "start"))
    BY <1>3 DEF Save, wares
  <2>2. phase \in {"boot", "up"} /\ said = Nothing /\ ~switching
    BY <2>1 DEF InFlash, InForce
  <2> QED BY <2>1, <2>2 DEF InForce
<1>4. CASE Start
  <2>1. /\ phase = "start" /\ phase' = "stack" /\ uart' = ram.uart /\ power_saving' = ram.sleep
        /\ db_uuid' = ram.uuid /\ UNCHANGED <<ram, air, switching, said>>
    BY <1>4 DEF Start
  <2> QED BY <2>1 DEF InForce
<1>5. CASE StackUp
  <2>1. /\ phase = "stack" /\ Advertise
        /\ UNCHANGED <<ram, db_uuid, uart, switching, power_saving, said>>
    BY <1>5 DEF StackUp
  <2>2. air = NoAir /\ said = Nothing /\ ~switching
    BY <2>1 DEF InForce
  <2>3. phase' = "fault" \/ (phase' = "up" /\ air'.name = ram.name /\ air'.addr = ram.mac)
    BY <1>0, <2>1, <2>2 DEF Advertise, NoAir
  <2> QED BY <2>1, <2>2, <2>3 DEF InForce
<1>6. CASE WakeUp
  <2>1. /\ phase = "up" /\ uart' = ram.uart /\ said' = Nothing
        /\ UNCHANGED <<phase, saving, ram, air, db_uuid, switching, power_saving>>
    BY <1>6 DEF WakeUp, store
  <2> QED BY <2>1 DEF InForce
<1>7. CASE UartSwitch
  <2>1. /\ switching /\ switching' = FALSE /\ uart' = ram.uart /\ said' = Nothing
        /\ UNCHANGED <<phase, saving, ram, air, db_uuid, power_saving>>
    BY <1>7 DEF UartSwitch, store
  <2> QED BY <2>1 DEF InForce
<1>8. ASSUME NEW n \in Names, NAME(n)
      PROVE  InForce'
  <2>1. /\ phase = "up" /\ ~switching /\ said' = Nothing
        /\ UNCHANGED <<phase, saving, db_uuid, uart, switching, power_saving>>
    BY <1>8 DEF NAME, Command, Running, store
  <2>2. CASE n = ram.name
    <3>1. UNCHANGED <<ram, air>>
      BY <1>8, <2>2 DEF NAME
    <3> QED BY <2>1, <3>1 DEF InForce
  <2>3. CASE n # ram.name
    <3>1. ram' = SetName(ram, n) /\ air' = [air EXCEPT !.name = ram'.adv_name]
      BY <1>8, <2>3 DEF NAME, at_init_adv_rsp_parameter
    <3>2. /\ ram'.name = n /\ ram'.adv_name = n /\ ram'.uuid = ram.uuid /\ ram'.uart = ram.uart
          /\ ram'.mac = ram.mac /\ ram'.sleep = ram.sleep
      BY <1>0, <3>1, NamedImage
    <3>3. air'.name = n /\ air'.addr = air.addr
      BY <1>0, <3>1, <3>2 DEF Air
    <3> QED BY <2>1, <3>2, <3>3 DEF InForce
  <2> QED BY <2>2, <2>3
<1>9. ASSUME NEW m \in Macs, MAC(m)
      PROVE  InForce'
  <2>1. /\ phase = "up" /\ ~switching /\ said' = Nothing
        /\ UNCHANGED <<phase, saving, db_uuid, uart, switching, power_saving>>
        /\ ram' = [ram EXCEPT !.mac = m] /\ air' = [air EXCEPT !.addr = m, !.on = TRUE]
    BY <1>9 DEF MAC, Command, Running, store
  <2>2. /\ ram'.mac = m /\ ram'.name = ram.name /\ ram'.uuid = ram.uuid /\ ram'.uart = ram.uart
        /\ ram'.sleep = ram.sleep /\ air'.addr = m /\ air'.name = air.name
    BY <1>0, <2>1 DEF Image, Air
  <2> QED BY <2>1, <2>2 DEF InForce
<1>10. ASSUME NEW k \in Parts, NEW u \in Uuids, UUID(k, u)
       PROVE  InForce'
  <2>1. /\ phase = "up" /\ ~switching /\ said' = Nothing /\ db_uuid' = ram'.uuid
        /\ UNCHANGED <<phase, saving, air, uart, switching, power_saving>>
        /\ ram' = [ram EXCEPT !.uuid[k] = u]
    BY <1>10 DEF UUID, Command, Running, store
  <2>2. /\ ram'.mac = ram.mac /\ ram'.name = ram.name /\ ram'.uart = ram.uart
        /\ ram'.sleep = ram.sleep
    BY <1>0, <2>1 DEF Image
  <2> QED BY <2>1, <2>2 DEF InForce
<1>11. ASSUME NEW u \in Uarts, UART(u)
       PROVE  InForce'
  <2>1. /\ phase = "up" /\ saving = "no" /\ said' = Nothing /\ switching' = TRUE
        /\ UNCHANGED <<phase, saving, air, db_uuid, power_saving>>
        /\ ram' = [ram EXCEPT !.uart = Clamped(u)]
    BY <1>11 DEF UART, Command, Running, store
  <2>2. /\ ram'.mac = ram.mac /\ ram'.name = ram.name /\ ram'.uuid = ram.uuid
        /\ ram'.sleep = ram.sleep
    BY <1>0, <2>1 DEF Image
  <2> QED BY <2>1, <2>2 DEF InForce
<1>12. ASSUME \/ \E n \in Intervals : ADVINT(n) \/ POWER(n)
              \/ \E f \in Filters : SCAN_FILTER(f)
       PROVE  InForce'
  <2>1. /\ phase = "up" /\ ~switching /\ said' = Nothing
        /\ UNCHANGED <<phase, saving, air, db_uuid, uart, switching, power_saving>>
    BY <1>12 DEF ADVINT, POWER, SCAN_FILTER, Command, Running, store, wares
  <2>2. \/ UNCHANGED ram
        \/ \E n : ram' = [ram EXCEPT !.adv_int = n] \/ ram' = [ram EXCEPT !.rf_power = n]
        \/ \E f : ram' = [ram EXCEPT !.filter = f]
    BY <1>12 DEF ADVINT, POWER, SCAN_FILTER
  <2>3. /\ ram'.mac = ram.mac /\ ram'.name = ram.name /\ ram'.uuid = ram.uuid
        /\ ram'.uart = ram.uart /\ ram'.sleep = ram.sleep
    BY <1>0, <2>2 DEF Image
  <2> QED BY <2>1, <2>3 DEF InForce
<1>13. CASE MODE_B
  <2>1. /\ phase = "up" /\ ~switching /\ said' = Nothing
        /\ UNCHANGED <<saving, ram, db_uuid, uart, switching, power_saving>>
        /\ Advertise \/ UNCHANGED <<air, phase>>
    BY <1>13 DEF MODE_B, Command, Running, store
  <2>2. air.name = ram.name /\ air.addr = ram.mac
    BY <2>1 DEF InForce
  <2>3. phase' = "fault" \/ (phase' = "up" /\ air'.name = ram.name /\ air'.addr = ram.mac)
    BY <1>0, <2>1, <2>2 DEF Advertise
  <2> QED BY <2>1, <2>3 DEF InForce
<1>14. ASSUME NEW on \in BOOLEAN, SLEEP(on)
       PROVE  InForce'
  <2>1. /\ phase = "up" /\ ~switching /\ said' = Nothing /\ power_saving' = on
        /\ UNCHANGED <<phase, saving, air, db_uuid, uart, switching>>
        /\ ram' = [ram EXCEPT !.sleep = on]
    BY <1>14 DEF SLEEP, Command, Running, store
  <2>2. /\ ram'.mac = ram.mac /\ ram'.name = ram.name /\ ram'.uuid = ram.uuid
        /\ ram'.uart = ram.uart /\ ram'.sleep = on
    BY <1>0, <2>1 DEF Image
  <2> QED BY <2>1, <2>2 DEF InForce
<1>15. CASE FLASH
  <2>1. /\ phase = "up" /\ ~switching /\ said' = Nothing
        /\ UNCHANGED <<phase, ram, air, db_uuid, uart, switching, power_saving>>
    BY <1>15 DEF FLASH, Command, Running, wares
  <2> QED BY <2>1 DEF InForce
<1>16. CASE QUERY
  <2>1. /\ phase = "up" /\ saving = "no" /\ ~switching /\ said' \in Answers
        /\ UNCHANGED <<phase, saving, ram, air, db_uuid, uart, switching, power_saving>>
    BY <1>16 DEF QUERY, Command, Running, wares, store, Answers
  <2>2. Answers' = Answers
    BY <2>1 DEF Answers
  <2> QED BY <2>1, <2>2 DEF InForce
<1>17. ASSUME said' = Nothing, phase = "up", phase' \in {"up", "fault"}, ~switching \/ UNCHANGED phase,
              UNCHANGED <<saving, ram, db_uuid, uart, switching, power_saving>>,
              UNCHANGED air \/ air' = [air EXCEPT !.on = FALSE]
       PROVE  InForce'
  <2>1. air'.name = air.name /\ air'.addr = air.addr
    BY <1>0, <1>17 DEF Air
  <2> QED BY <1>17, <2>1 DEF InForce
<1>18. ASSUME SCAN \/ (\E on \in BOOLEAN : SetRXNUM(on))
              \/ (\E i \in Ids, x \in Settings : CONN_SET(i, x))
       PROVE  InForce'
  <2>1. /\ said' = Nothing /\ phase = "up" /\ UNCHANGED phase
        /\ UNCHANGED <<saving, ram, db_uuid, uart, switching, power_saving, air>>
    BY <1>18 DEF SCAN, SetRXNUM, CONN_SET, Command, Running, store, wares
  <2> QED BY <1>17, <2>1
<1>19. ASSUME ScanEnds \/ Printed \/ Timer \/ (\E p \in Payloads : Written(p))
              \/ (\E i \in Ids : LinkDown(i))
       PROVE  InForce'
  <2>1. /\ said' = Nothing /\ phase = "up" /\ UNCHANGED phase
        /\ UNCHANGED <<saving, ram, db_uuid, uart, switching, power_saving, air>>
    BY <1>19 DEF ScanEnds, Printed, Timer, Written, LinkDown, Event, Running, store, wares
  <2> QED BY <1>17, <2>1
<1>20. ASSUME NEW i \in Ids, NEW h \in Handles, NEW x \in Settings, LinkUp(i, h, x)
       PROVE  InForce'
  <2>1. /\ said' = Nothing /\ phase = "up" /\ UNCHANGED phase
        /\ UNCHANGED <<saving, ram, db_uuid, uart, switching, power_saving>>
        /\ air' = [air EXCEPT !.on = FALSE]
    BY <1>20 DEF LinkUp, Event, Running, store
  <2> QED BY <1>17, <2>1
<1>21. ASSUME NEW r \in Reports, AdvReport(r)
       PROVE  InForce'
  <2>1. /\ said' = Nothing /\ phase = "up" /\ phase' \in {"up", "fault"} /\ ~switching
        /\ UNCHANGED <<saving, ram, db_uuid, uart, switching, power_saving, air>>
    BY <1>21 DEF AdvReport, Event, Running, store, wares
  <2> QED BY <1>17, <2>1
<1>22. CASE UNCHANGED vars
  <2>1. UNCHANGED <<phase, saving, ram, db_uuid, uart, switching, power_saving, air, said>>
    BY <1>22 DEF vars, store, wares
  <2>2. Answers' = Answers
    BY <2>1 DEF Answers
  <2> QED BY <2>1, <2>2 DEF InForce
<1>23. PowerLoss \/ RESTART \/ Watchdog => Off
  BY DEF PowerLoss, RESTART, Watchdog
<1> QED BY <1>1, <1>2, <1>3, <1>4, <1>5, <1>6, <1>7, <1>8, <1>9, <1>10, <1>11, <1>12, <1>13,
           <1>14, <1>15, <1>16, <1>18, <1>19, <1>20, <1>21, <1>22, <1>23 DEF Next, Own

LEMMA AnswersGiven == InForce => AnswersTrue
<1> SUFFICES ASSUME InForce
             PROVE  AnswersTrue
  OBVIOUS
<1>1. CASE said = Nothing
  BY <1>1 DEF Nothing, AnswersTrue
<1>2. CASE said # Nothing
  <2>1. /\ said \in Answers /\ db_uuid = ram.uuid /\ power_saving = ram.sleep /\ uart = ram.uart
        /\ air.name = ram.name /\ air.addr = ram.mac
    BY <1>2 DEF InForce
  <2> QED BY <2>1 DEF Answers, AnswersTrue
<1> QED BY <1>1, <1>2

-----------------------------------------------------------------------------
(* Links *)

LEMMA ConnKinds ==
  ASSUME [Next]_vars
  PROVE  \/ Off \/ (\E on \in BOOLEAN : SLEEP(on)) \/ (\E i \in Ids : LinkDown(i))
         \/ (\E i \in Ids, x \in Settings : CONN_SET(i, x))
         \/ (\E i \in Ids, h \in Handles, x \in Settings : LinkUp(i, h, x))
         \/ UNCHANGED conn
<1>1. PowerLoss \/ RESTART \/ Watchdog => Off
  BY DEF PowerLoss, RESTART, Watchdog
<1>2. Load \/ Save \/ Start \/ StackUp \/ WakeUp \/ UartSwitch \/ Timer \/ FLASH => UNCHANGED conn
  BY DEF Load, Save, Start, StackUp, WakeUp, UartSwitch, Timer, FLASH
<1>3. ASSUME \/ \E n \in Names : NAME(n)
             \/ \E m \in Macs : MAC(m)
             \/ \E k \in Parts, u \in Uuids : UUID(k, u)
             \/ \E u \in Uarts : UART(u)
             \/ \E n \in Intervals : ADVINT(n) \/ POWER(n)
             \/ \E f \in Filters : SCAN_FILTER(f)
      PROVE  UNCHANGED conn
  BY <1>3 DEF NAME, MAC, UUID, UART, ADVINT, POWER, SCAN_FILTER
<1>4. ASSUME \/ MODE_B \/ QUERY \/ SCAN \/ ScanEnds \/ Printed
             \/ \E on \in BOOLEAN : SetRXNUM(on)
             \/ \E r \in Reports : AdvReport(r)
             \/ \E p \in Payloads : Written(p)
      PROVE  UNCHANGED conn
  BY <1>4 DEF MODE_B, QUERY, SCAN, ScanEnds, Printed, SetRXNUM, AdvReport, Written
<1>5. UNCHANGED vars => UNCHANGED conn
  BY DEF vars
<1> QED BY <1>1, <1>2, <1>3, <1>4, <1>5 DEF Next, Own

LEMMA StepLinkTypes ==
  ASSUME LinkTypes, [Next]_vars
  PROVE  LinkTypes'
<1> DEFINE Setting == [latency : Nat, phy : Nat]
           Link    == {NoLink} \cup [handle : Handles, latency : Nat]
<1>0. /\ Setting0 \in Setting /\ NoLink \in Link
      /\ \A x \in Settings : x \in Setting
      /\ \A h \in Handles, x \in Settings : [handle |-> h, latency |-> x.latency] \in Link
  BY ParamsAssumption DEF Setting0
<1>1. CASE Off
  BY <1>0, <1>1 DEF Off, LinkTypes
<1>2. ASSUME NEW on \in BOOLEAN, SLEEP(on)
      PROVE  LinkTypes'
  <2>1. PICK l \in Nat :
          /\ ctl' = [h \in Handles |-> IF h \in Live /\ conn_infos[h].latency # l
                                       THEN [ctl[h] EXCEPT !.latency = l] ELSE ctl[h]]
          /\ told' = [i \in Ids |-> IF i \in Live THEN [told[i] EXCEPT !.latency = l] ELSE told[i]]
    BY <1>2 DEF SLEEP
  <2>2. \A x \in Setting : [x EXCEPT !.latency = l] \in Setting
    OBVIOUS
  <2>3. ctl' \in [Handles -> Setting] /\ told' \in [Ids -> Setting]
    BY <2>1, <2>2 DEF LinkTypes
  <2>4. UNCHANGED conn_infos
    BY <1>2 DEF SLEEP
  <2> QED BY <2>3, <2>4 DEF LinkTypes
<1>3. ASSUME NEW i \in Ids, LinkDown(i)
      PROVE  LinkTypes'
  BY <1>0, <1>3 DEF LinkDown, LinkTypes
<1>4. ASSUME NEW i \in Ids, NEW x \in Settings, CONN_SET(i, x)
      PROVE  LinkTypes'
  BY <1>0, <1>4 DEF CONN_SET, LinkTypes
<1>5. ASSUME NEW i \in Ids, NEW h \in Handles, NEW x \in Settings, LinkUp(i, h, x)
      PROVE  LinkTypes'
  BY <1>0, <1>5 DEF LinkUp, LinkTypes
<1>6. CASE UNCHANGED conn
  BY <1>6 DEF conn, LinkTypes
<1> QED BY <1>1, <1>2, <1>3, <1>4, <1>5, <1>6, ConnKinds

LEMMA StepLinked ==
  ASSUME \A S \in Sessions : ~({"SLEEP", "LINK"} \subseteq S),
         PhaseTypes, LinkTypes, Linked, LinksAsTold, [Next]_vars
  PROVE  Linked' /\ LinksAsTold'
<1>0. \A i \in Ids : i \in Live <=> conn_infos[i] # NoLink
  BY DEF Live
<1>1. \A i \in Live : i \in Ids /\ conn_infos[i].handle \in Handles
  BY DEF Live, LinkTypes
<1>2. UNCHANGED session
  BY StoreKinds
<1>3. CASE Off
  <2>1. Live' = {}
    BY <1>3 DEF Off, Live
  <2> QED BY <2>1 DEF Linked, LinksAsTold
<1>4. CASE UNCHANGED conn
  <2>1. Live' = Live
    BY <1>4 DEF conn, Live
  <2> QED BY <1>2, <1>4, <2>1 DEF conn, Linked, LinksAsTold
<1>5. ASSUME NEW on \in BOOLEAN, SLEEP(on)
      PROVE  Linked' /\ LinksAsTold'
  <2>1. "SLEEP" \in session /\ UNCHANGED conn_infos
    BY <1>5 DEF SLEEP, Command
  <2>2. Live = {}
    BY <2>1 DEF PhaseTypes, Linked
  <2>3. Live' = Live
    BY <2>1 DEF Live
  <2> QED BY <2>2, <2>3 DEF Linked, LinksAsTold
<1>6. ASSUME NEW i \in Ids, LinkDown(i)
      PROVE  Linked' /\ LinksAsTold'
  <2>1. conn_infos' = [conn_infos EXCEPT ![i] = NoLink] /\ UNCHANGED <<ctl, told>>
    BY <1>6 DEF LinkDown
  <2>2. Live' \subseteq Live /\ \A j \in Live' : conn_infos'[j] = conn_infos[j]
    BY <2>1 DEF Live, LinkTypes
  <2> QED BY <1>2, <2>1, <2>2 DEF Linked, LinksAsTold
<1>7. ASSUME NEW i \in Ids, NEW x \in Settings, CONN_SET(i, x)
      PROVE  Linked' /\ LinksAsTold'
  <2>1. /\ i \in Live /\ UNCHANGED conn_infos
        /\ ctl' = [h \in Handles |-> IF h = conn_infos[i].handle THEN x ELSE ctl[h]]
        /\ told' = [told EXCEPT ![i] = x]
    BY <1>7 DEF CONN_SET, get_handle_of_id
  <2>2. Live' = Live
    BY <2>1 DEF Live
  <2>3. ASSUME NEW j \in Live
        PROVE  ctl'[conn_infos[j].handle] = told'[j]
    <3>1. CASE j = i
      BY <1>1, <2>1, <3>1 DEF LinkTypes
    <3>2. CASE j # i
      <4>1. conn_infos[j].handle # conn_infos[i].handle
        BY <2>1, <3>2 DEF Linked
      <4> QED BY <1>1, <2>1, <3>2, <4>1 DEF LinksAsTold, LinkTypes
    <3> QED BY <3>1, <3>2
  <2> QED BY <1>2, <2>1, <2>2, <2>3 DEF Linked, LinksAsTold
<1>8. ASSUME NEW i \in Ids, NEW h \in Handles, NEW x \in Settings, LinkUp(i, h, x)
      PROVE  Linked' /\ LinksAsTold'
  <2>1. /\ "LINK" \in session /\ i \notin Live /\ \A j \in Ids : conn_infos[j].handle # h
        /\ conn_infos' = [conn_infos EXCEPT ![i] = [handle |-> h, latency |-> x.latency]]
        /\ ctl' = [ctl EXCEPT ![h] = x] /\ told' = [told EXCEPT ![i] = x]
    BY <1>8 DEF LinkUp
  <2>2. /\ conn_infos'[i].handle = h
        /\ \A j \in Live : j # i /\ conn_infos'[j] = conn_infos[j]
    BY <1>1, <2>1 DEF LinkTypes
  <2>3. Live' \subseteq Live \cup {i}
    BY <2>1 DEF Live, LinkTypes
  <2>4. \A j, k \in Live' : conn_infos'[j].handle = conn_infos'[k].handle => j = k
    BY <1>1, <2>1, <2>2, <2>3 DEF Linked
  <2>5. ASSUME NEW j \in Live'
        PROVE  ctl'[conn_infos'[j].handle] = told'[j]
    <3>1. CASE j = i
      BY <2>1, <2>2, <3>1 DEF LinkTypes
    <3>2. CASE j \in Live
      BY <1>1, <2>1, <2>2, <3>2 DEF LinksAsTold, LinkTypes
    <3> QED BY <2>3, <3>1, <3>2
  <2> QED BY <1>2, <2>1, <2>4, <2>5 DEF Linked, LinksAsTold
<1> QED BY <1>3, <1>4, <1>5, <1>6, <1>7, <1>8, ConnKinds

-----------------------------------------------------------------------------
(* The theorems *)

Kept    == PhaseTypes /\ ImageTypes /\ WareTypes /\ LinkTypes /\ InFlash
Brought   == Registry /\ Counted /\ Queued /\ Scanned

LEMMA InitStored == Init => Kept
<1> SUFFICES ASSUME Init
             PROVE  Kept
  OBVIOUS
<1>1. PhaseTypes
  BY DEF Init, PhaseTypes
<1>2. ImageTypes
  <2>1. flash = [head |-> FALSE, image |-> Default] /\ ram = Default /\ saved = Fresh
    BY DEF Init, Erased
  <2> QED BY <2>1, FirstImages DEF ImageTypes
<1>3. WareTypes
  <2>1. uart = BadUart /\ air = NoAir
    BY DEF Init
  <2>2. NoAir \in Air
    BY DEF NoAir, Air, Addresses, Labels
  <2> QED BY <2>1, <2>2 DEF WareTypes, UartSettings
<1>4. LinkTypes
  BY DEF Init, LinkTypes, Setting0
<1>5. InFlash
  <2>1. flash.head = FALSE /\ saving = "no" /\ phase = "off" /\ saved = Fresh
    BY DEF Init, Erased
  <2> QED BY <2>1 DEF InFlash
<1> QED BY <1>1, <1>2, <1>3, <1>4, <1>5 DEF Kept

LEMMA StepStored == Kept /\ [Next]_vars => Kept'
<1> SUFFICES ASSUME Kept, [Next]_vars
             PROVE  Kept'
  OBVIOUS
<1>1. PhaseTypes'
  BY StepPhase DEF Kept, PhaseTypes
<1> QED BY <1>1, StepImages, StepWares, StepLinkTypes, StepInFlash DEF Kept

LEMMA InitBrought == Init => Brought
<1> SUFFICES ASSUME Init
             PROVE  Brought
  OBVIOUS
<1>1. Registry
  BY DEF Init, ServerInit, Registry
<1>2. Counted
  <2>1. /\ receive_master_data_len = 0 /\ cnt = 0 /\ sum = 0 /\ total = 0 /\ counted = 0
        /\ timer_due = FALSE /\ print_data_len_flag = FALSE
    BY DEF Init, ServerInit
  <2>2. 0 \in 0 .. AVG - 1
    BY ServerAssumption
  <2> QED BY <2>1, <2>2 DEF Counted
<1>3. Queued
  <2>1. printed = <<>> /\ accepted = <<>> /\ master_data = <<>>
    BY DEF Init, ServerInit
  <2> QED BY <2>1 DEF Queued
<1>4. Scanned
  <2>1. adv_rpt = <<>> /\ listed = NoList /\ seen = {} /\ undefined = FALSE
    BY DEF Init, ScanInit
  <2>2. <<>> \in Seq({r.addr : r \in Reports}) /\ Len(<<>>) <= ADV_REPORT_NUM
    BY ScanAssumption
  <2>3. ToSet(<<>>) = {} /\ IsInjective(<<>>)
    BY DEF ToSet, IsInjective
  <2> QED BY <2>1, <2>2, <2>3 DEF Scanned
<1> QED BY <1>1, <1>2, <1>3, <1>4 DEF Brought

LEMMA StepBrought == Brought /\ [Next]_vars => Brought'
BY StepRegistry, StepCounted, StepQueued, StepScanned DEF Brought

LEMMA InitForce == Init => Named /\ InForce
BY DEF Init, Named, InForce, Default, Erased, Nothing

LEMMA InitLinked == Init => Linked /\ LinksAsTold
<1> SUFFICES ASSUME Init
             PROVE  Live = {}
  BY DEF Linked, LinksAsTold
<1> QED BY DEF Init, Live

LEMMA AlwaysStored == Spec => []Kept
BY InitStored, StepStored, PTL DEF Spec

LEMMA AlwaysBrought == Spec => []Brought
BY InitBrought, StepBrought, PTL DEF Spec

(* Every variable keeps its type, and no table outgrows its array: the     *)
(* registries of transmission_callback.c and the reports of AT+SCAN.       *)
THEOREM ParamsTypeCorrect == Spec => []TypeOK
<1>1. Kept /\ Brought => TypeOK
  <2> SUFFICES ASSUME Kept, Brought
               PROVE  TypeOK
    OBVIOUS
  <2>1. air.on \in BOOLEAN
    BY DEF Kept, WareTypes, Air
  <2>2. conn_infos \in [Ids -> [handle : Handles \cup {NoHandle}, latency : Nat]]
    <3>1. {NoLink} \cup [handle : Handles, latency : Nat]
          \subseteq [handle : Handles \cup {NoHandle}, latency : Nat]
      BY DEF NoLink
    <3> QED BY <3>1 DEF Kept, LinkTypes
  <2>3. ServerTypeOK
    <3>1. /\ Len(module_att_write_callback) <= GATT_HANDLE_MAX_NUM
          /\ Len(module_att_read_callback) <= GATT_HANDLE_MAX_NUM
      <4>1. 0 <= GATT_HANDLE_MAX_NUM /\ 2 <= GATT_HANDLE_MAX_NUM /\ 4 <= GATT_HANDLE_MAX_NUM
        BY ServerAssumption
      <4>2. Len(module_att_write_callback) = 0 \/ Len(module_att_write_callback) = 4
        BY Slots DEF Brought, Registry
      <4>3. Len(module_att_read_callback) = 0 \/ Len(module_att_read_callback) = 2
        BY Slots DEF Brought, Registry
      <4> QED BY <4>1, <4>2, <4>3
    <3> QED BY <3>1 DEF Brought, Counted, Queued, ServerTypeOK
  <2> QED BY <2>1, <2>2, <2>3 DEF Kept, PhaseTypes, ImageTypes, WareTypes, Brought, Scanned, TypeOK
<1> QED BY <1>1, AlwaysStored, AlwaysBrought, PTL

(* A restart brings back what AT+FLASH saved last, wherever the power      *)
(* failed, unless it failed in a later save.                               *)
THEOREM RestartAlwaysRestores == Spec => []AfterRestart
<1>1. Kept => AfterRestart
  BY ImageKept DEF Kept
<1> QED BY <1>1, AlwaysStored, PTL

(* Every attribute has its own function, however often AT+UUID has built   *)
(* the database anew.                                                      *)
THEOREM RegistryAlwaysServes == Spec => []RegistryServes
<1>1. Brought => RegistryServes
  BY RegistryServing DEF Brought
<1> QED BY <1>1, AlwaysBrought, PTL

(* The host sees the masters' writes themselves, in order, and every byte  *)
(* written under AT+RXNUM=1 is in one report.                              *)
THEOREM WritesAlwaysAccounted == Spec => []WritesAccounted
<1>1. Brought => WritesAccounted
  BY WritesSafe DEF Brought
<1> QED BY <1>1, AlwaysBrought, PTL

(* The list of a scan names every matching device, and each of them once.  *)
THEOREM ListAlwaysExact == Spec => []ListExact
<1>1. Brought => ListExact
  BY ScanListed DEF Brought
<1> QED BY <1>1, AlwaysBrought, PTL

(* What a query answers is in force, as long as no name is longer than the *)
(* field it is copied into.                                                *)
THEOREM AnswersAlwaysTrue ==
  ASSUME Names \cap LongNames = {}
  PROVE  Spec => []AnswersTrue
<1> DEFINE Inv == Kept /\ Named /\ InForce
<1>1. Init => Inv
  BY InitStored, InitForce
<1>2. Inv /\ [Next]_vars => Inv'
  BY StepStored, StepNamed, StepInForce DEF Kept
<1>3. Inv => AnswersTrue
  BY AnswersGiven
<1> QED BY <1>1, <1>2, <1>3, PTL DEF Spec

(* A link has the parameters its host was last told, whichever handle it   *)
(* has, as long as the host does not send AT+SLEEP while links are up.     *)
THEOREM LinksAlwaysAsTold ==
  ASSUME \A S \in Sessions : ~({"SLEEP", "LINK"} \subseteq S)
  PROVE  Spec => []LinksAsTold
<1> DEFINE Inv == Kept /\ Linked /\ LinksAsTold
<1>1. Init => Inv
  BY InitStored, InitLinked
<1>2. Inv /\ [Next]_vars => Inv'
  BY StepStored, StepLinked DEF Kept
<1>3. Inv => LinksAsTold
  OBVIOUS
<1> QED BY <1>1, <1>2, <1>3, PTL DEF Spec

=============================================================================
