------------------------------ MODULE AtParams ------------------------------
(***************************************************************************)
(* The parameters of 9168_AT: the commands that set them, the image in     *)
(* flash, the start of the module from that image, and what the module     *)
(* does with each parameter: its advertising, attribute database, UART,    *)
(* power saving and links.  AtServer and AtScan hold the parts that bring  *)
(* data to the host.                                                       *)
(*                                                                         *)
(* All of it runs in the Bluetooth task, one command or event at a time;   *)
(* the power may fail at any time, also in the middle of a save.           *)
(***************************************************************************)
EXTENDS AtServer, AtScan, Integers

CONSTANTS
  Names, LongNames,     \* names of at most 16 and of more than 22 characters
  Macs, Uuids,          \* addresses and service UUIDs the host gives
  Uarts,                \* [baud, bits] settings the host asks for
  Intervals,            \* arguments of AT+ADVINT and AT+POWER
  Ids, Handles,         \* link ids, connection handles
  Settings,             \* [latency, phy] settings of a link
  Sessions,             \* sets of commands used together; LINK: masters connect too
  MaxCommands, MaxPowerLoss, MaxLinks   \* bounds

ASSUME ParamsAssumption ==
  /\ Intervals \subseteq Int /\ Ids \subseteq Nat /\ Handles \subseteq Nat
  /\ Settings \subseteq [latency : Nat, phy : Nat]
  /\ {MaxCommands, MaxPowerLoss, MaxLinks} \subseteq Nat

VARIABLES
  session,            \* the commands this host uses
  phase,              \* "off", "boot" (first save), "start", "stack", "up" or "fault"
  flash, saving,      \* the private_flash_data_t page, and a write's progress
  ram,                \* g_power_off_save_data_in_ram
  async_evt_on_going, adv_ongoing,
  air,                \* the controller's advertising set
  db_uuid,            \* the UUIDs of the attribute database
  uart, switching,    \* the UART's setting; AT+UART waits before it sets it
  power_saving,       \* PLATFORM_CFG_POWER_SAVING
  conn_infos,         \* [handle, latency] of each link id
  ctl, told,          \* settings in the controller per handle; as answered per id
  said,               \* the query this step answered
  saved, torn,        \* history: the last image saved; a later save was cut short
  commands, losses, conns   \* history: bounded

store  == <<flash, saving, saved, torn>>
wares  == <<air, db_uuid, uart, switching, power_saving>>
conn   == <<conn_infos, ctl, told>>
counts == <<session, losses, conns>>
vars   == <<phase, store, ram, async_evt_on_going, adv_ongoing, wares, conn, said, commands,
            counts, server, scan>>

-----------------------------------------------------------------------------
(* Data *)

Wild    == 99          \* an adv_int outside adv_int_arr
Random  == "random"    \* an address and a name made by platform_rand
Garbled == "garbled"   \* overwritten with a part of a name
Blank   == "blank"     \* erased flash
Nordic  == "nordic"    \* the default UUIDs
Unset   == "unset"
NoHandle == -1

Parts   == {"AA", "BB", "CC"}   \* service, output and input characteristic
BadUart == [baud |-> -1, bits |-> -1]

(* g_power_off_save_data_in_ram before anything is loaded. *)
Default ==
  [name |-> Unset, adv_name |-> Unset, mac |-> Unset, uuid |-> [k \in Parts |-> Unset],
   uart |-> [baud |-> 115200, bits |-> 8], sleep |-> FALSE, adv_int |-> 1, rf_power |-> 2,
   filter |-> [prefix |-> "9168_AT", suffix |-> Star, uuid16 |-> Star, uuid128 |-> Star,
               rssi |-> 0]]
Fresh == [Default EXCEPT !.name = Random, !.adv_name = Random, !.mac = Random,
                         !.uuid = [k \in Parts |-> Nordic]]

(* A page is programmed from its start: of a save cut short, the two words *)
(* that the start looks at are there, and the rest is erased.              *)
Erased  == [head |-> FALSE, image |-> Default]
Half(i) == [i EXCEPT !.uuid = [k \in Parts |-> Blank], !.uart = BadUart, !.sleep = TRUE,
                     !.adv_int = Wild, !.rf_power = Wild]

NoLink   == [handle |-> NoHandle, latency |-> 0]
Setting0 == [latency |-> 0, phy |-> 1]
NoAir    == [addr |-> Unset, name |-> Unset, interval |-> -1, on |-> FALSE]
Nothing  == [q |-> "none"]

Live == {i \in Ids : conn_infos[i] # NoLink}

Init ==
  /\ session \in Sessions /\ phase = "off"
  /\ flash = Erased /\ saving = "no" /\ saved = Fresh /\ torn = FALSE
  /\ ram = Default /\ async_evt_on_going = FALSE /\ adv_ongoing = FALSE
  /\ air = NoAir /\ db_uuid = Default.uuid /\ uart = BadUart /\ switching = FALSE
  /\ power_saving = FALSE /\ said = Nothing
  /\ conn_infos = [i \in Ids |-> NoLink]
  /\ ctl = [h \in Handles |-> Setting0] /\ told = [i \in Ids |-> Setting0]
  /\ commands = 0 /\ losses = 0 /\ conns = 0
  /\ ServerInit /\ ScanInit

-----------------------------------------------------------------------------
(* Power, start and flash *)

(* The module is without power or resets: RAM and the controller are lost. *)
Off ==
  /\ phase' = "off" /\ ram' = Default /\ saving' = "no"
  /\ async_evt_on_going' = FALSE /\ adv_ongoing' = FALSE
  /\ air' = NoAir /\ db_uuid' = Default.uuid /\ uart' = BadUart /\ switching' = FALSE
  /\ power_saving' = FALSE /\ said' = Nothing
  /\ conn_infos' = [i \in Ids |-> NoLink]
  /\ ctl' = [h \in Handles |-> Setting0] /\ told' = [i \in Ids |-> Setting0]
  /\ ServerOff /\ ScanOff /\ UNCHANGED <<flash, saved>>

PowerLoss ==
  /\ phase # "off" /\ losses < MaxPowerLoss /\ losses' = losses + 1
  /\ torn' = (torn \/ saving \in {"write", "rest"})
  /\ Off /\ UNCHANGED <<session, conns, commands>>

(* Mutant: the flag and the length are not looked at. *)
Whole_any(f) == TRUE

(* sdk_load_private_flash_data looks at the first two words only. *)
Whole(f) == f.head

Load ==
  /\ phase = "off"
  /\ IF Whole(flash) THEN ram' = flash.image /\ phase' = "start" /\ UNCHANGED saving
                     ELSE ram' = Fresh /\ phase' = "boot" /\ saving' = "erase"
  /\ UNCHANGED <<flash, saved, torn, async_evt_on_going, adv_ongoing, wares, conn, said,
                 commands, counts, server, scan>>

(* program_flash, for the first start and for AT+FLASH. *)
Save ==
  /\ \/ saving = "erase" /\ saving' = "write" /\ flash' = Erased
        /\ UNCHANGED <<saved, torn, phase>>
     \/ saving = "write" /\ saving' = "rest" /\ flash' = [head |-> TRUE, image |-> Half(ram)]
        /\ UNCHANGED <<saved, torn, phase>>
     \/ /\ saving = "rest" /\ saving' = "no" /\ flash' = [head |-> TRUE, image |-> ram]
        /\ saved' = ram /\ torn' = FALSE
        /\ phase' = IF phase = "boot" THEN "start" ELSE phase
  /\ UNCHANGED <<ram, async_evt_on_going, adv_ongoing, wares, conn, said, commands, counts,
                 server, scan>>

(* The rest of app_main, and setup_profile. *)
Start ==
  /\ phase = "start" /\ phase' = "stack"
  /\ uart' = ram.uart /\ power_saving' = ram.sleep
  /\ init_service /\ db_uuid' = ram.uuid
  /\ UNCHANGED <<store, ram, async_evt_on_going, adv_ongoing, air, switching, conn, said,
                 commands, counts, counting, incoming, scan>>

(* adv_int_arr[ram.adv_int]; outside the array the read may give anything  *)
(* or raise a hard fault.                                                  *)
InArray(n) == n \in 0 .. 5

(* config_adv_and_set_interval and start_adv.  The controller refuses a    *)
(* new address or interval while it advertises, and takes new data.        *)
Advertise ==
  \/ /\ air' = [addr |-> IF air.on THEN air.addr ELSE ram.mac, name |-> ram.adv_name,
                interval |-> IF air.on THEN air.interval ELSE ram.adv_int, on |-> TRUE]
     /\ adv_ongoing' = TRUE
     /\ phase' = "up"
  \/ /\ ~InArray(ram.adv_int) /\ phase' = "fault"
     /\ UNCHANGED <<air, adv_ongoing>>

(* BTSTACK_EVENT_STATE *)
StackUp ==
  /\ phase = "stack" /\ Advertise
  /\ UNCHANGED <<store, ram, async_evt_on_going, db_uuid, uart, switching, power_saving, conn,
                 said, commands, counts, server, scan>>

(* Mutant: nobody gets the module out of the hard fault's loop. *)
Watchdog_off == phase = "never" /\ Off /\ UNCHANGED <<torn, commands, counts>>

(* cb_hard_fault loops, so watchdog_task does not run any more. *)
Watchdog == phase = "fault" /\ Off /\ UNCHANGED <<torn, commands, counts>>

(* on_deep_sleep_wakeup *)
WakeUp ==
  /\ phase = "up" /\ power_saving /\ uart' = ram.uart /\ said' = Nothing
  /\ UNCHANGED <<phase, store, ram, async_evt_on_going, adv_ongoing, air, db_uuid, switching,
                 power_saving, conn, commands, counts, server, scan>>

-----------------------------------------------------------------------------
(* Commands *)

Running == phase = "up" /\ saving = "no" /\ ~switching

Command(c) ==
  /\ c \in session /\ Running /\ ~async_evt_on_going
  /\ commands < MaxCommands /\ commands' = commands + 1
  /\ UNCHANGED counts

(* Mutant: the advertising data are left as they were. *)
at_init_adv_rsp_parameter_not(a, r) == a
at_init_adv_rsp_parameter(a, r) == [a EXCEPT !.name = r.adv_name]

(* gap_set_dev_name.  module_name has room for 16 characters and is        *)
(* followed by the address, local_name by the default settings.            *)
SetName(r, n) ==
  LET named == [r EXCEPT !.name = n, !.adv_name = n]
  IN  IF n \in LongNames THEN [named EXCEPT !.mac = Garbled, !.sleep = TRUE] ELSE named

NAME(n) ==
  /\ Command("NAME")
  /\ ram' = IF n = ram.name THEN ram ELSE SetName(ram, n)
  /\ air' = IF n = ram.name THEN air ELSE at_init_adv_rsp_parameter(air, ram')
  /\ said' = Nothing
  /\ UNCHANGED <<phase, store, async_evt_on_going, adv_ongoing, db_uuid, uart, switching,
                 power_saving, conn, server, scan>>

(* gap_address_set: advertising is on afterwards, whatever it was before. *)
MAC(m) ==
  /\ Command("MAC")
  /\ ram' = [ram EXCEPT !.mac = m] /\ air' = [air EXCEPT !.addr = m, !.on = TRUE]
  /\ said' = Nothing
  /\ UNCHANGED <<phase, store, async_evt_on_going, adv_ongoing, db_uuid, uart, switching,
                 power_saving, conn, server, scan>>

UUID(k, u) ==
  /\ Command("UUID")
  /\ ram' = [ram EXCEPT !.uuid[k] = u]
  /\ init_service /\ db_uuid' = ram'.uuid /\ said' = Nothing
  /\ UNCHANGED <<phase, store, async_evt_on_going, adv_ongoing, air, uart, switching,
                 power_saving, conn, counting, incoming, scan>>

(* convert_to_word_length and convert_from_word_length; the parity and the *)
(* stop bits go the same way.                                              *)
Clamped(u) == IF u.bits \in 5 .. 8 THEN u ELSE [u EXCEPT !.bits = 8]

UART(u) ==
  /\ Command("UART")
  /\ ram' = [ram EXCEPT !.uart = Clamped(u)] /\ switching' = TRUE /\ said' = Nothing
  /\ UNCHANGED <<phase, store, async_evt_on_going, adv_ongoing, air, db_uuid, uart,
                 power_saving, conn, server, scan>>

(* ... after vTaskDelay *)
UartSwitch ==
  /\ switching /\ switching' = FALSE /\ uart' = ram.uart /\ said' = Nothing
  /\ UNCHANGED <<phase, store, ram, async_evt_on_going, adv_ongoing, air, db_uuid,
                 power_saving, conn, commands, counts, server, scan>>

(* Mutant: the limit is not the table's. *)
Accepted_more(n) == n < 7

(* `>= 5' is the only check; adv_int is unsigned. *)
Accepted(n) == n < 5
Stored(n)   == IF n < 0 THEN Wild ELSE n

ADVINT(n) ==
  /\ Command("ADVINT")
  /\ ram' = IF Accepted(n) THEN [ram EXCEPT !.adv_int = Stored(n)] ELSE ram
  /\ said' = Nothing
  /\ UNCHANGED <<phase, store, async_evt_on_going, adv_ongoing, wares, conn, server, scan>>

POWER(n) ==
  /\ Command("POWER")
  /\ ram' = IF Accepted(n) THEN [ram EXCEPT !.rf_power = Stored(n)] ELSE ram
  /\ said' = Nothing
  /\ UNCHANGED <<phase, store, async_evt_on_going, adv_ongoing, wares, conn, server, scan>>

MODE_B ==
  /\ Command("MODE")
  /\ IF adv_ongoing THEN UNCHANGED <<air, adv_ongoing, phase>> ELSE Advertise
  /\ said' = Nothing
  /\ UNCHANGED <<store, ram, async_evt_on_going, db_uuid, uart, switching, power_saving, conn,
                 server, scan>>

(* AT+SLEEP=S and =E: at_con_param_update takes the id for the handle and  *)
(* compares with the latency the link came up with.                        *)
SLEEP(on) ==
  LET latency == IF on THEN 15 ELSE 0 IN
  /\ Command("SLEEP")
  /\ ram' = [ram EXCEPT !.sleep = on] /\ power_saving' = on /\ said' = Nothing
  /\ ctl' = [h \in Handles |->
               IF h \in Live /\ conn_infos[h].latency # latency
               THEN [ctl[h] EXCEPT !.latency = latency] ELSE ctl[h]]
  /\ told' = [i \in Ids |-> IF i \in Live THEN [told[i] EXCEPT !.latency = latency]
                                          ELSE told[i]]
  /\ UNCHANGED <<phase, store, async_evt_on_going, adv_ongoing, air, db_uuid, uart, switching,
                 conn_infos, server, scan>>

(* Mutant: the id is taken for the handle. *)
get_handle_of_id_same(i) == i
get_handle_of_id(i) == conn_infos[i].handle

(* AT+CONN_PARAM and AT+CONN_PHY *)
CONN_SET(i, s) ==
  /\ i \in Live
  /\ \/ Command("CONN_PARAM") /\ s.phy = told[i].phy
     \/ Command("CONN_PHY") /\ s.latency = told[i].latency
  /\ ctl' = [h \in Handles |-> IF h = get_handle_of_id(i) THEN s ELSE ctl[h]]
  /\ told' = [told EXCEPT ![i] = s] /\ said' = Nothing
  /\ UNCHANGED <<phase, store, ram, async_evt_on_going, adv_ongoing, wares, conn_infos,
                 server, scan>>

FLASH ==
  /\ Command("FLASH") /\ saving' = "erase" /\ said' = Nothing
  /\ UNCHANGED <<phase, flash, saved, torn, ram, async_evt_on_going, adv_ongoing, wares, conn,
                 server, scan>>

(* AT+Z, AT+CLR_BOND and AT+SHUTDOWN *)
RESTART == Command("Z") /\ Off /\ UNCHANGED torn

SCAN_FILTER(f) ==
  /\ Command("SCAN") /\ ram' = [ram EXCEPT !.filter = Effective(f)] /\ said' = Nothing
  /\ listed' = NoList
  /\ UNCHANGED <<phase, store, async_evt_on_going, adv_ongoing, wares, conn, server, scanning,
                 adv_rpt, seen, undefined>>

SCAN ==
  /\ Command("SCAN") /\ StartScan /\ async_evt_on_going' = TRUE /\ said' = Nothing
  /\ UNCHANGED <<phase, store, ram, adv_ongoing, wares, conn, server>>

SetRXNUM(flag) ==
  /\ Command("RXNUM") /\ RXNUM(flag) /\ said' = Nothing
  /\ UNCHANGED <<phase, store, ram, async_evt_on_going, adv_ongoing, wares, conn, scan>>

(* The queries that tell what is in force. *)
QUERY ==
  /\ Command("QUERY")
  /\ said' \in {[q |-> "NAME", v |-> ram.name], [q |-> "MAC", v |-> ram.mac],
                [q |-> "UUID", v |-> ram.uuid], [q |-> "UART", v |-> ram.uart],
                [q |-> "SLEEP", v |-> ram.sleep]}
  /\ UNCHANGED <<phase, store, ram, async_evt_on_going, adv_ongoing, wares, conn, server, scan>>

-----------------------------------------------------------------------------
(* Events *)

Event == Running /\ said' = Nothing /\ UNCHANGED <<session, losses, commands, store, ram>>

(* A link comes up as the slave, which ends advertising, and is lost. *)
LinkUp(i, h, s) ==
  /\ Event /\ "LINK" \in session /\ air.on /\ conns < MaxLinks /\ conns' = conns + 1
  /\ i \notin Live /\ \A j \in Ids : conn_infos[j].handle # h
  /\ conn_infos' = [conn_infos EXCEPT ![i] = [handle |-> h, latency |-> s.latency]]
  /\ ctl' = [ctl EXCEPT ![h] = s] /\ told' = [told EXCEPT ![i] = s]
  /\ air' = [air EXCEPT !.on = FALSE] /\ adv_ongoing' = FALSE /\ async_evt_on_going' = FALSE
  /\ UNCHANGED <<phase, db_uuid, uart, switching, power_saving, server, scan>>

LinkDown(i) ==
  /\ Event /\ i \in Live
  /\ conn_infos' = [conn_infos EXCEPT ![i] = NoLink] /\ async_evt_on_going' = FALSE
  /\ UNCHANGED <<phase, adv_ongoing, wares, ctl, told, conns, server, scan>>

AdvReport(r) ==
  /\ Event /\ Report(ram.filter, r)
  /\ \/ UNCHANGED phase
     \/ Undefined(ram.filter, r) /\ phase' = "fault"
  /\ UNCHANGED <<async_evt_on_going, adv_ongoing, wares, conn, conns, server>>

ScanEnds ==
  /\ Event /\ ScanDone /\ async_evt_on_going' = FALSE
  /\ UNCHANGED <<phase, adv_ongoing, wares, conn, conns, server>>

Written(p) ==
  /\ Event /\ "RXNUM" \in session /\ MasterWrites(p)
  /\ UNCHANGED <<phase, async_evt_on_going, adv_ongoing, wares, conn, conns, scan>>

Printed ==
  /\ Event /\ PrintMasterData
  /\ UNCHANGED <<phase, async_evt_on_going, adv_ongoing, wares, conn, conns, scan>>

Timer ==
  /\ phase = "up" /\ "RXNUM" \in session /\ TimerDue /\ said' = Nothing
  /\ UNCHANGED <<phase, store, ram, async_evt_on_going, adv_ongoing, wares, conn, commands,
                 counts, scan>>

-----------------------------------------------------------------------------
Own == Load \/ Save \/ Start \/ StackUp \/ Watchdog \/ UartSwitch

Next ==
  \/ PowerLoss \/ Own \/ WakeUp
  \/ \E n \in Names : NAME(n)
  \/ \E m \in Macs : MAC(m)
  \/ \E k \in Parts, u \in Uuids : UUID(k, u)
  \/ \E u \in Uarts : UART(u)
  \/ \E n \in Intervals : ADVINT(n) \/ POWER(n)
  \/ MODE_B \/ FLASH \/ RESTART \/ QUERY
  \/ \E on \in BOOLEAN : SLEEP(on) \/ SetRXNUM(on)
  \/ \E i \in Ids, s \in Settings : CONN_SET(i, s)
  \/ \E f \in Filters : SCAN_FILTER(f)
  \/ SCAN \/ ScanEnds
  \/ \E i \in Ids : LinkDown(i) \/ \E h \in Handles, s \in Settings : LinkUp(i, h, s)
  \/ \E r \in Reports : AdvReport(r)
  \/ \E p \in Payloads : Written(p)
  \/ Printed \/ Timer

Spec == Init /\ [][Next]_vars

(* The module runs, and the watchdog bites. *)
FairSpec == Spec /\ WF_vars(Own)

-----------------------------------------------------------------------------
(* Properties *)

UartSettings == {Clamped(u) : u \in Uarts} \cup {Default.uart, BadUart}

Image ==
  [name : Names \cup {Random, Unset}, adv_name : Names \cup {Random, Unset},
   mac : Macs \cup {Random, Garbled, Unset},
   uuid : [Parts -> Uuids \cup {Nordic, Blank, Unset}],
   uart : UartSettings, sleep : BOOLEAN,
   adv_int : 0 .. 5 \cup {Wild}, rf_power : 0 .. 5 \cup {Wild},
   filter : {Effective(f) : f \in Filters} \cup {Default.filter}]

TypeOK ==
  /\ phase \in {"off", "boot", "start", "stack", "up", "fault"}
  /\ saving \in {"no", "erase", "write", "rest"}
  /\ flash \in [head : BOOLEAN, image : Image] /\ ram \in Image /\ saved \in Image
  /\ uart \in UartSettings /\ air.on \in BOOLEAN
  /\ conn_infos \in [Ids -> [handle : Handles \cup {NoHandle}, latency : Nat]]
  /\ ServerTypeOK /\ Len(adv_rpt) <= ADV_REPORT_NUM

(* A restart brings back exactly what AT+FLASH saved last, or the defaults *)
(* if nothing was ever saved, unless the power failed in a later save.     *)
AfterRestart == phase \in {"boot", "start"} /\ ~torn => ram = saved

(* What a query answers is what the module does: it advertises this name   *)
(* and this address, its database has these UUIDs, its UART this setting,  *)
(* and its power saving is on or off as told.                              *)
AnswersTrue ==
  CASE said.q = "NAME"  -> said.v = air.name
    [] said.q = "MAC"   -> said.v = air.addr
    [] said.q = "UUID"  -> said.v = db_uuid
    [] said.q = "UART"  -> said.v = uart
    [] said.q = "SLEEP" -> said.v = power_saving
    [] OTHER            -> TRUE

(* A link has the parameters its host was last told it has, whichever      *)
(* handle the controller gave it.                                          *)
LinksAsTold == \A i \in Live : ctl[conn_infos[i].handle] = told[i]

(* A hard fault is not the end: the module is up again, provided the image *)
(* in flash has an interval of the table.                                  *)
Recovers ==
  phase = "fault" /\ flash.head /\ InArray(flash.image.adv_int) ~> phase = "up"

(* A name sets the name and nothing else. *)
NameAlone ==
  [][\A n \in Names : NAME(n) => ram'.mac = ram.mac /\ ram'.sleep = ram.sleep]_vars
=============================================================================
