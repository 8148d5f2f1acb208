------------------------------- MODULE AtScan -------------------------------
(***************************************************************************)
(* AT+SCAN of 9168_AT: which advertising reports pass the filter, the      *)
(* table of reports, and the list the host gets at the end.  AtLinks has   *)
(* the scan's place among the other procedures; here are its results.      *)
(***************************************************************************)
EXTENDS Naturals, Sequences, SequencesExt

CONSTANTS
  ADV_REPORT_NUM,   \* entries of adv_rpt
  Reports,          \* [addr, prefix, suffix, uuid16, rssi]: what devices send
  Filters           \* [prefix, suffix, uuid16, uuid128, rssi]: what AT+SCAN_FILTER gives

Star   == "*"
Odd    == "odd"     \* a UUID of the wrong length
Absent == "absent"  \* the report lacks the field

ASSUME ScanAssumption == ADV_REPORT_NUM \in Nat \ {0}

VARIABLES
  scanning,        \* the controller scans
  adv_rpt,         \* addresses of the entries in use, in order
  listed,          \* what at_scan_done has printed, if this step did
  seen,            \* history: addresses whose report passed in this scan
  undefined        \* history: undefined behaviour has touched the table

scan == <<scanning, adv_rpt, listed, seen, undefined>>

NoList == <<"none">>

ScanInit == scanning = FALSE /\ adv_rpt = <<>> /\ listed = NoList /\ seen = {} /\ undefined = FALSE
ScanOff  == /\ scanning' = FALSE /\ adv_rpt' = <<>> /\ listed' = NoList /\ seen' = {}
            /\ undefined' = FALSE

(* AT+SCAN_FILTER=: a UUID of the wrong length turns its filter off. *)
Enabled(uuid) == IF uuid = Odd THEN Star ELSE uuid
Effective(f)  == [f EXCEPT !.uuid16 = Enabled(f.uuid16), !.uuid128 = Enabled(f.uuid128)]

(* at_get_adv up to the filters' end.  A report without the UUID is read   *)
(* through a null pointer, and a 16-byte UUID is copied into two bytes of  *)
(* the stack: in both cases anything may come out.                         *)
Passes(f, r) ==
  /\ f.prefix = Star \/ r.prefix = f.prefix
  /\ f.suffix = Star \/ r.suffix = f.suffix
  /\ f.uuid16 = Star \/ r.uuid16 = f.uuid16 \/ r.uuid16 = Absent
  /\ f.rssi = 0 \/ r.rssi >= f.rssi

Undefined(f, r) == f.uuid128 # Star \/ (f.uuid16 # Star /\ r.uuid16 = Absent)

(* AT+SCAN starts from an empty table. *)
StartScan ==
  /\ scanning' = TRUE /\ adv_rpt' = <<>> /\ seen' = {} /\ listed' = NoList
  /\ UNCHANGED undefined

(* Mutant: the table is not searched for the address. *)
Known_not(a) == FALSE
Known(a) == Contains(adv_rpt, a)

(* The entry at_get_adv writes: the first free one, or, when all are used, *)
(* entry 0xff, far beyond the table.                                       *)
Report(f, r) ==
  /\ scanning /\ listed' = NoList /\ UNCHANGED scanning
  /\ \/ /\ Passes(f, r) /\ seen' = seen \cup {r.addr}
        /\ IF Known(r.addr)
           THEN UNCHANGED adv_rpt /\ undefined' = (undefined \/ Undefined(f, r))
           ELSE IF Len(adv_rpt) = ADV_REPORT_NUM
                THEN UNCHANGED adv_rpt /\ undefined' = TRUE
                ELSE /\ adv_rpt' = Append(adv_rpt, r.addr)
                     /\ undefined' = (undefined \/ Undefined(f, r))
     \/ /\ ~Passes(f, r) \/ Undefined(f, r)
        /\ undefined' = (undefined \/ Undefined(f, r))
        /\ UNCHANGED <<adv_rpt, seen>>

(* HCI_SUBEVENT_LE_SCAN_TIMEOUT and at_scan_done. *)
ScanDone ==
  /\ scanning /\ scanning' = FALSE /\ listed' = adv_rpt
  /\ UNCHANGED <<adv_rpt, seen, undefined>>

(* The list of a scan names every device that a matching report came from, *)
(* and each of them once, however their reports interleave, as long as     *)
(* there is an entry for each.                                             *)
ListExact ==
  listed # NoList /\ ~undefined =>
    ToSet(listed) = seen /\ IsInjective(listed)
=============================================================================
