------------------------------ MODULE AtServer ------------------------------
(***************************************************************************)
(* The GATT server of 9168_AT: the attribute database, the registry of     *)
(* attribute callbacks, and what becomes of the bytes a master writes to   *)
(* the input characteristic: they are printed, or, after AT+RXNUM=1, only  *)
(* counted and reported now and then.                                      *)
(***************************************************************************)
EXTENDS Naturals, Sequences, FiniteSets, SequencesExt

CONSTANTS
  GATT_HANDLE_MAX_NUM,   \* slots of each registry
  AVG,                   \* reports between two averages (20 in the code)
  Payloads,              \* what a master writes in one go
  PayloadLen(_),         \* its length
  MaxWrites              \* bound

ASSUME ServerAssumption ==
  /\ GATT_HANDLE_MAX_NUM \in Nat /\ GATT_HANDLE_MAX_NUM >= 4   \* 10 in the code
  /\ AVG \in Nat \ {0} /\ MaxWrites \in Nat
  /\ \A p \in Payloads : PayloadLen(p) \in Nat

VARIABLES
  att_db,                  \* value handle of each characteristic, and the last one given
  module_att_write_callback, module_att_read_callback,   \* <<handle, function>> pairs
  print_data_len_flag, receive_master_data_len,
  timer_due,               \* timer_isr_count >= 10000
  cnt, sum,                \* the static counters of the average
  att_buf,                 \* the stack's buffer with the last write
  master_data,             \* USER_MSG_PROCESS_BLE_MASTER_DATA messages queued
  printed,                 \* what the host has seen of the masters' writes
  report,                  \* the last report: bytes, and whether an average came too
  writes, accepted,        \* history: writes so far, those to be printed
  total, counted           \* history, since AT+RXNUM=1: bytes written, bytes reported

registry == <<att_db, module_att_write_callback, module_att_read_callback>>
counting == <<print_data_len_flag, receive_master_data_len, timer_due, cnt, sum, report,
              total, counted>>
incoming == <<att_buf, master_data, printed, writes, accepted>>
server   == <<registry, counting, incoming>>

-----------------------------------------------------------------------------
(* The database and the registry *)

NoDb == [last |-> 0, output |-> 0, input |-> 0, ota |-> <<0, 0, 0>>]

(* The handles att_db_util gives to the two services: one for a service,   *)
(* two for a characteristic, the second being its value, and one more for  *)
(* the descriptor of one that notifies.  `ota' are version, data, control. *)
DbFrom(last) ==
  [last |-> last + 13, output |-> last + 3, input |-> last + 6,
   ota |-> <<last + 9, last + 11, last + 13>>]

(* Mutant: the database is not emptied first, so the handles move on. *)
att_db_util_init_grow(db) == db.last
att_db_util_init(db) == 0

(* module_att_*_callback_register: the same handle again replaces; when    *)
(* all slots are taken it fails, and no caller looks.                      *)
Registered(reg, handle, fun) ==
  IF Len(reg) >= GATT_HANDLE_MAX_NUM THEN reg
  ELSE IF \E i \in DOMAIN reg : reg[i][1] = handle
       THEN [i \in DOMAIN reg |-> IF reg[i][1] = handle THEN <<handle, fun>> ELSE reg[i]]
       ELSE Append(reg, <<handle, fun>>)

init_service ==
  LET db == DbFrom(att_db_util_init(att_db)) IN
  /\ att_db' = db
  /\ module_att_write_callback' =
       Registered(Registered(Registered(Registered(module_att_write_callback,
         db.output + 1, "output_desc"), db.input, "input"),
         db.ota[2], "ota_data"), db.ota[3], "ota_ctrl")
  /\ module_att_read_callback' =
       Registered(Registered(module_att_read_callback, db.ota[1], "ota_ver"),
                  db.ota[3], "ota_ctrl")

(* module_handle_att_write_callback: the first slot with the handle. *)
Callback(reg, handle) ==
  LET at == SelectInSeq(reg, LAMBDA slot : slot[1] = handle)
  IN  IF at = 0 THEN "none" ELSE reg[at][2]

-----------------------------------------------------------------------------
(* Writes of a master *)

NoReport == [len |-> 0, avg |-> FALSE, of |-> 0]

ServerInit ==
  /\ att_db = NoDb /\ module_att_write_callback = <<>> /\ module_att_read_callback = <<>>
  /\ print_data_len_flag = FALSE /\ receive_master_data_len = 0 /\ timer_due = FALSE
  /\ cnt = 0 /\ sum = 0 /\ report = NoReport /\ total = 0 /\ counted = 0
  /\ att_buf = <<>> /\ master_data = <<>> /\ printed = <<>> /\ writes = 0 /\ accepted = <<>>

(* What a restart leaves: the .data and .bss of the program afresh. *)
ServerOff ==
  /\ att_db' = NoDb /\ module_att_write_callback' = <<>> /\ module_att_read_callback' = <<>>
  /\ print_data_len_flag' = FALSE /\ receive_master_data_len' = 0 /\ timer_due' = FALSE
  /\ cnt' = 0 /\ sum' = 0 /\ report' = NoReport /\ total' = 0 /\ counted' = 0
  /\ att_buf' = <<>> /\ master_data' = <<>> /\ printed' = <<>> /\ accepted' = <<>>
  /\ UNCHANGED writes

(* Mutant: the message carries the stack's buffer, not a copy of it. *)
Copied_not(p) == <<>>
Copied(p) == <<p>>

Printing(p) ==
  /\ ~print_data_len_flag /\ UNCHANGED counting
  /\ \/ /\ master_data' = Append(master_data, Copied(p))
        /\ accepted' = Append(accepted, p)
     \/ UNCHANGED <<master_data, accepted>>       \* no memory, or no room for the message

Counting(p) ==
  LET len == receive_master_data_len + PayloadLen(p)
      avg == cnt + 1 >= AVG IN
  /\ print_data_len_flag /\ total' = total + PayloadLen(p)
  /\ IF timer_due
     THEN /\ timer_due' = FALSE
          /\ report' = [len |-> len, avg |-> avg, of |-> sum + len]
          /\ cnt' = (IF avg THEN 0 ELSE cnt + 1) /\ sum' = (IF avg THEN 0 ELSE sum + len)
          /\ receive_master_data_len' = 0 /\ counted' = counted + len
     ELSE receive_master_data_len' = len /\ UNCHANGED <<timer_due, cnt, sum, report, counted>>
  /\ UNCHANGED <<print_data_len_flag, master_data, accepted>>

(* att_write_callback for the input characteristic. *)
MasterWrites(p) ==
  /\ writes < MaxWrites /\ writes' = writes + 1
  /\ att_db # NoDb /\ att_buf' = <<p>>
  /\ IF Callback(module_att_write_callback, att_db.input) = "input"
     THEN Printing(p) \/ Counting(p)
     ELSE UNCHANGED <<counting, master_data, accepted>>
  /\ UNCHANGED <<registry, printed>>

(* user_msg_handler, USER_MSG_PROCESS_BLE_MASTER_DATA. *)
PrintMasterData ==
  /\ master_data # <<>> /\ master_data' = Tail(master_data)
  /\ printed' = printed \o (IF Head(master_data) = <<>> THEN att_buf ELSE Head(master_data))
  /\ UNCHANGED <<registry, counting, att_buf, writes, accepted>>

(* bt_cmd_data_timer_isr counts up to the next report. *)
TimerDue ==
  /\ ~timer_due /\ timer_due' = TRUE
  /\ UNCHANGED <<registry, incoming, print_data_len_flag, receive_master_data_len, cnt, sum,
                 report, total, counted>>

(* AT+RXNUM=<flag>.  cnt and sum are not reset, nor is the timer. *)
RXNUM(flag) ==
  /\ print_data_len_flag' = flag
  /\ IF flag THEN receive_master_data_len' = 0 /\ total' = 0 /\ counted' = 0
             ELSE UNCHANGED <<receive_master_data_len, total, counted>>
  /\ report' = NoReport
  /\ UNCHANGED <<registry, incoming, timer_due, cnt, sum>>

-----------------------------------------------------------------------------
(* Properties *)

ServerTypeOK ==
  /\ Len(module_att_write_callback) <= GATT_HANDLE_MAX_NUM
  /\ Len(module_att_read_callback) <= GATT_HANDLE_MAX_NUM
  /\ print_data_len_flag \in BOOLEAN /\ timer_due \in BOOLEAN
  /\ receive_master_data_len \in Nat /\ cnt \in 0 .. AVG - 1 /\ sum \in Nat
  /\ printed \in Seq(Payloads) /\ accepted \in Seq(Payloads)

(* Every attribute of the present database that needs a function has its   *)
(* own, however often AT+UUID has built the database anew: the ten slots   *)
(* of transmission_callback.c are never used up.                           *)
RegistryServes ==
  att_db # NoDb =>
    /\ Callback(module_att_write_callback, att_db.output + 1) = "output_desc"
    /\ Callback(module_att_write_callback, att_db.input) = "input"
    /\ Callback(module_att_write_callback, att_db.ota[2]) = "ota_data"
    /\ Callback(module_att_write_callback, att_db.ota[3]) = "ota_ctrl"
    /\ Callback(module_att_read_callback, att_db.ota[1]) = "ota_ver"
    /\ Callback(module_att_read_callback, att_db.ota[3]) = "ota_ctrl"

(* What the host sees of the masters' writes are the writes themselves, in *)
(* order, although the stack reuses its buffer before they are printed;    *)
(* and after AT+RXNUM=1 every byte is in exactly one report.               *)
WritesAccounted ==
  /\ IsPrefix(printed, accepted)
  /\ print_data_len_flag => counted + receive_master_data_len = total
=============================================================================
