# A TLA+ model of the INGCHIPS AT modem firmware

The repository holds two firmware applications for INGCHIPS Bluetooth LE
chips, written in C on FreeRTOS and the vendor's btstack.  `9168_AT` is an AT
modem: a host drives it over a UART with `AT+...` lines and moves data through
it to and from up to ten links.  `AT_ING` is an older UART bridge for one link.
There are no unit tests; what the program promises stands in its comments and
in what a user of a serial modem may expect.

This directory models the part where the difficulty lies, which is not in any
one function but between them: an interrupt, the FreeRTOS timer task and the
Bluetooth task share a ring buffer and a handful of flags without locks, and a
controller that runs on its own reports what has happened with a delay.

Paths below are relative to `src/9168_AT/src/` unless they begin with `AT_ING`.

## 1. Inventory

### 9168_AT

| Component | State | Operations | Hard behaviour |
|---|---|---|---|
| UART ring (`at_recv_cmd.c` 30-77) | `at_recv_buffer`, `_rp`, `_wp` | enqueue, dequeue, size, full, empty, read | wrap-around, one slot unused, two writers of `rp` |
| Serial data path (`at_recv_cmd.c`, parts of `profile.c` and `at_cmd_task.c`) | `at_recv_state`, `transparent_start`, `one_slot_send_start/len`, `transparent_data_send_ongoing`, `transparent_conidx/method`, `can_send_now`, two timers, the user message queue | `app_at_recv_c` in the interrupt; `transparent_timer_handler` and `exit_trans_tim_fn` in the timer task; `recv_transparent_data`, both send functions, the can-send-now events, AT+TO, AT+SEND, AT++++ and the end of a link in the Bluetooth task | interleaving at the grain of a statement, lost wakeups, stale targets, overflow during a send |
| Link table (`at_cmd_task.c` 1000-1140) | `conn_infos[]`, `handle_2_id[]` | `at_on_connection_complete`, `at_on_disconnect` | events describe the past; handles are reused |
| Radio actions (`profile.c` 300-700, `at_cmd_task.c` 740-940, 1590-1830, 2095-2134) | `adv_ongoing`, `scan_ongoing`, `initialization_ongoing`, `async_evt_on_going`, `at_cb_func[]`, the initiate timer, queued runnables | AT+SCAN, AT+CONN, AT+DISCONN, AT+MODE; `stack_initiate`, `stack_cancel_create_conn`; eight events of the stack | a command is over when an event says so, and events of other links come in between |
| Scan filter and report table (`at_cmd_task.c` 674-831, 1660-1767) | `scan_filter`, `adv_rpt` (ten entries) | AT+SCAN_FILTER, `at_get_adv`, `at_scan_done` | the eleventh device; filters that read or write out of bounds |
| AT parser and parameter commands (`at_cmd_task.c` 337-400, 1516-2573) | `g_power_off_save_data_in_ram` | about 35 commands | each parameter lives in three places: RAM, flash and where it takes effect |
| GATT client (`profile.c` 55-300, `at_cmd_task.c` 1148-1485, 2400-2550) | `slave_*`, `write_char_info`, `gatts_value_info`, `first_handler`, `discoverer` | discovery on each master link; BLEGATT* as handler, runnable and callback | one set of variables for eight links; the link may end between handler, runnable and callback |
| GATT server, callback registry (`service/`) | the attribute database, ten callback slots, the counters of AT+RXNUM | `init_service`, register, read and write callbacks, data of the master to the UART | a registry never emptied; a write printed after its buffer is used again |
| Flash store (`common/flash_data.c`) | one page | load, save | a power cut between erase and write |
| Start-up (`main.c`, `profile.c` 522-537) | registers, watchdog | set-up from the image, wake-up, hard fault | an image that makes every start fault |
| `router.c`, `at_profile_spsc.c`, `at_profile_spss.c` | not part of the image | | |

Interaction.  The timer interrupt `bt_cmd_data_timer_isr` (`at_recv_cmd.c`
586-601) empties the UART FIFO into `app_at_recv_c`, which stores bytes in the
ring and posts user messages (`btstack_push_user_msg`) to the Bluetooth task:
a complete AT line, "start the send timer", "send the ring".
`user_msg_handler` (`profile.c` 479-500) dispatches them.  The stack calls
`user_packet_handler` in the same task with the events of the controller.
AT commands call the stack directly or queue a runnable for their own task.
The two timers run in the FreeRTOS timer task, which preempts the Bluetooth
task.

What makes it correct: bytes typed as data reach the air in order, each at
most once, and are lost only by overflow or when the mode or the link ends;
bytes that wait have somebody who will look at them; a send has a target; a
command handed over is the line that was typed; the link table mirrors the
controller; a flag that says "under way" is true only while that is so or its
news is coming; a command that waits for an event gets it.

### AT_ING

| Component | State | Operations | Hard behaviour |
|---|---|---|---|
| UART bridge (`project_common/bt_cmd_data_uart_io_adp.c`, `bt_at_cmd_parse.c`, `app.c`) | `com_buf`, `ble_buf` with indices, `process_state` bits | UART interrupt, frame timers, `cmd_process_task` | the request flag is cleared without a lock while the interrupt adds bytes (354); buffers without an overflow check (128) |
| Connection (`profile.c`) | `initiating_id`, the handles of both roles, `create_conn_timer` | initiate, time-out, cancel, automatic connection | the time-out message races the completed connection (169-193) |
| Throughput service (`service/throughput_service.c`) | one connection handle, the notify flag, `peer_slave` | discovery, subscription, notify and write loops | any disconnection clears them all |
| AT commands (`project_common/bt_at_cmd_parse.c`) | role and addresses in RAM | CONA, LADDR, ROLE, SLEEP2 | executed in another task than the one that acts on them |
| Flash store (`sdk_private_flash_data.c`) | one page with a flag at either end | load, save | a power cut at any word |
| Low power (`project_common/low_power.c`) | whether the 50 ms tick runs | exit saving | the mask of line 333 of the adapter |

What makes it correct: bytes pass in both directions in order and without a
gap and do not stay behind; a command is executed once; a module in either
role is linked or looks for a link; the host is told of a connection when data
can flow; parameters answered with OK survive a restart.

## 2. Modules

| Module | What it is |
|---|---|
| `AtRing` | the ring's operators, named as in C; no variables |
| `AtChannel` | abstract specification: an ordered queue from the host to the air |
| `AtStream` | 9168_AT: the serial data path: three contexts, ring, modes, timers, send functions |
| `AtLinks` | 9168_AT: link table, radio actions, the commands about them, the controller |
| `AtServer` | 9168_AT: attribute database, callback registry, what a master writes; its actions are parts of those of `AtParams` |
| `AtScan` | 9168_AT: scan filter, report table, the list at the end; likewise |
| `AtParams` | 9168_AT: the saved parameters, from command to flash to effect; extends `AtServer` and `AtScan` |
| `AtGatt` | 9168_AT: the BLEGATT commands and the module's own discovery |
| `IngBridge` | AT_ING: both byte buffers and the four contexts that share them |
| `IngLink` | AT_ING: the connection manager, discovery, and the saved parameters |
| `AtStream_proofs`, `AtChannel_proofs` | the serial data path, and that it implements the channel: theorems for all values of the constants |
| `AtLinks_proofs`, `AtParams_proofs`, `AtGatt_proofs` | the same for the other parts of 9168_AT; `AtParams_proofs` covers `AtServer` and `AtScan` |
| `IngBridge_proofs`, `IngLink_proofs` | the same for AT_ING |
| `MCStream`, `MCLinks`, `MCParams`, `MCGatt`, `MCBridge`, `MCIngLink` | instances for TLC: peers, lines, commands, restricted behaviours |

`AtStream` extends `AtRing` and implements `AtChannel` under the refinement
mapping `Waiting`, but for one step (section 4).  Of the links it keeps only which ones are up; `AtLinks` has
the table, and `AtGatt` a table that is exact (what `AtLinks` checks) and what
hangs on its entries.  `AtParams` composes the image with the two components it
feeds.  In AT_ING the two modules divide the program at the AT command, which
is one symbol in the bridge and an action with its parts in `IngLink`.

Every module keeps history variables apart, marked in its VARIABLES, and
definitions marked as mutants stand beside the definition they change; no
specification uses them.

### AtStream

State and code.

| Variable | Code |
|---|---|
| `buf`, `rp`, `wp` | `gAT_env.at_recv_buffer`, `_rp`, `_wp`; a slot holds the character and the number of the data byte, so that bytes can be told apart |
| `at_recv_state` | the number of characters of `AT+` matched |
| `transparent_start`, `one_slot_send_start`, `one_slot_send_len` | the mode |
| `transparent_data_send_ongoing` | set when a send was posted |
| `transparent_conidx`, `transparent_method` | target and GATT procedure: `M2S_W` writes to a slave, `S2M_N` notifies a master |
| `transparent_notify_enable`, `subs` | the one flag of the code; the links that really subscribed |
| `can_send_now`, `evreq`, `acl` | the flag of the code; events asked of the stack; its free buffers |
| `msgq` | user messages waiting for the Bluetooth task |
| `t1`, `t2`, `tpc` | `transparent_timer`, `exit_transparent_mode_timer` running; where the timer task stands in a callback |
| `bt` | where the Bluetooth task stands: its place, whether interrupts are masked, whether it is in `recv_transparent_data` or in an event, the send's procedure and link, and during a call of the stack the packet and the bytes received meanwhile |
| `typing`, `cmds_left`, `data_left` | the host |
| `air`, `rx`, `first` | history: last packet, data bytes accepted, first character of the line |

Actions and code.  The interrupt: `RxTransparent`, `RxOneSlot`, `RxSwallowed`,
`RxPrefix`, `RxCommand`, the branches of `app_at_recv_c` (430-567); each is one
step, since nothing preempts an interrupt.  The timer task:
`SendTimerFires`/`SendTimerPosts` (191-199) and `ExitTimerFires`/
`ExitTransparent`/`ExitClears` (212-226), one step per statement the interrupt
can come between.  The Bluetooth task: `StartTimerMsg`; `CommandMsg` with
`SetTarget`, `StartOneSlot`, `EnterTransparent`, `OtherCommand` and
`CommandIgnored`; `ClearAfterCommand`; `RecvTransparentData`, `CanSendNow`,
then `SendPacket` and `PopSent` (the call of the stack and the pop after it),
left by `SendEnds` or, when a write to a lost link is repeated for ever, by
`SendHangs`; `SendDone`, `ReportSendOk`; `Disconnect`, `ClearOnDisconnect`,
`LeaveModes`; `Connect`, `WriteOutputDesc`, `AsyncDone`.

Assumptions of the model:

- The timer task has a higher priority than the Bluetooth task, so the
  Bluetooth task makes no step inside a timer callback, and a callback begins
  between any two steps of the Bluetooth task unless interrupts are masked.
- A step is a statement, or several that no other context can tell apart.
  Clearing the ring (`rp = wp = 0`) is one step: the two stores are
  neighbours.
- While the stack copies a packet the interrupt may take in at most `MaxBurst`
  bytes, and the ring is larger than a packet and a burst
  (`MTU + MaxBurst < AT_RECV_MAX_LEN`) and than a packet and three bytes.  On the chip the ring has 3000 slots, a
  packet at most 512 bytes and a UART byte takes tens of microseconds.
- The stack drops the event requests of a link that ends; a write or a
  notification fails with anything but "full" only when the link is gone;
  posting a message never fails; timers expire at any time.
- `gap_get_connect_status(0xFF)` reads past the end of `conn_infos`; its
  answer is arbitrary (`Disconnect`).  A line feed right after `AT+` reads the
  ring at index 65535, below `rp` or outside the array (`LineEnds`).
- Not modelled: the copy of a wrapped command that reads behind the array
  (535-541), because 543 overwrites it; a negative length of AT+SEND.

### AtLinks

| Variable | Code |
|---|---|
| `handle`, `peer_addr`, `handle_2_id` | `conn_infos[]`, `handle_2_id[]` |
| `adv_ongoing`, `scan_ongoing`, `initialization_ongoing`, `async_evt_on_going` | the flags of `gAT_ctrl_env` and `gAT_env` |
| `at_cb_func`, `adv_rpt`, `said` | registered callbacks, reported addresses, the answer of this step |
| `initiate_timer`, `runq` | the time-out and the runnables of the Bluetooth task |
| `advertising`, `scanning`, `initiating`, `ll_max`, `link`, `closing`, `events` | the controller and its events on the way |
| `refused` | history: a completed connection was turned away |

Everything runs in the Bluetooth task, so an event, a runnable or a command is
one action.  `AtCommand` holds the commands, `BtTask` what the task owes
(runnables and events), `World` what the controller and the peers may do.
Assumptions: a handle is reused only after the task has handled the end of its
link; two devices have at most one link; stopping advertising or a scan gives no
event, a scan has a finite duration; statuses other than 7 have no effect;
`gap_disconnect` acts on live handles only.  `DiscoveryFails` stands for every
error path of discovery, all of which close the link.

### AtParams, AtServer, AtScan

| Variable | Code |
|---|---|
| `ram`, `flash`, `saving` | `g_power_off_save_data_in_ram`; the page of `flash_data.c`; how far `program_flash` has got |
| `phase` | where the module stands between power-on and "up", or in the loop of `cb_hard_fault` |
| `air`, `db_uuid`, `uart`, `switching`, `power_saving`, `ctl` | where parameters take effect: the advertising set, the database, the UART and AT+UART's delay, power saving, the controller's settings of each handle |
| `conn_infos`, `told` | handle and latency of an id; the settings its host was told of |
| `async_evt_on_going`, `adv_ongoing` | the flags of the same name |
| `att_db`, `module_att_*_callback` | value handles of the present database; the two registries |
| `print_data_len_flag`, `receive_master_data_len`, `timer_due`, `cnt`, `sum` | the counters of AT+RXNUM |
| `att_buf`, `master_data`, `printed` | the stack's buffer, the messages with copies of it, what the host saw |
| `scanning`, `adv_rpt`, `listed` | the scan, the report table, the list printed |
| `saved`, `torn`, `said`, `seen`, `undefined`, `accepted`, `total`, `counted`, `report` | history |

An action is a command with all that its handler changes (`NAME`, `MAC`, `UUID`,
`UART` and the switch after its delay, `ADVINT`, `POWER`, `MODE_B`, `SLEEP`,
`CONN_SET`, `FLASH`, `RESTART`, `SCAN_FILTER`, `SCAN`, `SetRXNUM`, `QUERY`), an
event of the stack, or a step of start-up or of a save; everything runs in the
Bluetooth task, and the power may fail between any two steps.

Assumptions.  A flash page is programmed from its start, so a save cut short
leaves the first two words and erased cells behind.  The controller refuses a
new address and interval while it advertises.  A read of `adv_int_arr` outside
the array, a UUID filter of 16 bytes and a report without the UUID filtered by
are undefined behaviour: anything passes, or the module faults.  A name of 17 to
22 characters reaches only the address, a longer one the settings behind it;
the model keeps the longer ones.  Addresses, names and UUIDs are model values.

A host uses one of the sets of commands of `SomeSessions`.  They put together
the commands that share state, and separate what does not: with the commands of
all hosts in one the state space has no end in five minutes.

### AtGatt

| Variable | Code |
|---|---|
| `link`, `handle_2_id` | `conn_infos[].handle` with the peer; `handle_2_id[]` |
| `write_char_info`, `gatts_value_info` | the same; `kept` says whether the memory the data pointer names has been given out again |
| `first_handler`, `listeners` | the list of each id; the listeners registered with the stack, also those whose handler is freed |
| `discoverer`, `discoverers` | the pointer of each id; the objects allocated |
| `slave` | `slave_service`, `slave_input_char`, `slave_output_char`, `slave_output_desc` |
| `slave_output_notify` | the one listener of `profile.c` |
| `msgs`, `runq`, `query` | messages and runnables queued; the GATT query under way on a handle |

`Handle` is `at_recv_cmd_handler` for the five commands; `stack_write_char` and
its like are the runnables, which look up the link again; `HostResult` the
callbacks of the host's queries; `Found`, `Complete` and `Broken` those of the
discovery; `LinkUp` and `LinkDown` the table's changes with all that hangs on
an entry.  A link comes up only when no command is queued: setting one up takes
far longer than the queue.  A host either waits for each answer or does not;
properties of what it asked for are about hosts that wait.

### IngBridge

| Variable | Code |
|---|---|
| `com`, `ble` | `com_buf` and `ble_buf` with `process_state`, both indices and both counts; the data bytes are numbered |
| `fifo`, `rx`, `tmr` | the UART's FIFO; the statics of `bt_cmd_data_uart_recv_data`; the timer task inside it |
| `b`, `sem` | `cmd_process_task` with its register, `sem_cmd_process` |
| `bt`, `queue`, `sending` | the Bluetooth task, its events, `g_throughput_is_sending_data` |
| `link`, `credit`, `request` | somebody to send to, room in the stack, a can-send-now event asked for |
| `power` | whether the tick runs |
| `pend`, `spoilt`, `faithful`, `executed`, `uart`, `overrun`, `missed` | history |

Priorities: UART interrupt, timer task, Bluetooth task, task "b".  A context
runs only while those above are idle (`TmrDone`, `BtDone`), and between any two
accesses of a lower one a higher one may run whole: `tmr.pc` and `b.pc` name the
places where that makes a difference.  There is no `FreeRTOSConfig.h` in the
repository; this order is the one its task creation and the vendor's SDK give.
`spoilt` marks the instants at which a race hits: the interrupt between the
timer task's load and store of index or count, a byte after the reset of the
index and before that of the count, a send during the reset, a byte between the
terminator and the command, and an overflow.  What is claimed is that nothing
else spoils the buffer.

### IngLink

| Variable | Code |
|---|---|
| `flash`, `ram`, `saving` | the page, `g_power_off_save_data_in_ram`, how far a save has got |
| `cmd` | the command task "b" executes, with its place in it |
| `initiating_id`, `gap_is_connection_cancel`, `i_am_master_conn_handle`, `i_am_slave_conn_handle`, `create_conn_timer`, `timeouts` | the same; queued time-out messages |
| `throughput_con_handle`, `throughput_notify_enable`, `peer_slave`, `query` | the throughput service and its discovery |
| `advertising`, `initiating`, `link`, `closing`, `events` | the controller and its events on the way |
| `mode`, `acked`, `overlap` | history: the role at start-up, what the last OK left in RAM, whether a link came up before the end of another was handled |

The Bluetooth task may interrupt task "b" anywhere, so an address may be half
copied (`Mixed`) when it is dialled; a save is three steps, after each of which
the power may fail.  A handle found by discovery is named after the peer it
belongs to, so that using one peer's handle on another can be seen.


## 3. Runs

Bounds are the smallest at which the interesting cases happen. 9168_AT's ring
has 4 to 6 slots, so that it wraps and overflows, a packet is cut at the end of
the array and the level that asks for a send at once is reached; the stack has
one buffer and is often full. The registry keeps its ten slots, of which a
second database built elsewhere would need eight. Two links, two handles and two
peers are enough for a handle to be used again by another link and another
peer. AT_ING's buffers have two cells and the spare one of the code, so
that every second byte wraps and a third one overflows; the threshold is 2 and
not half of that, so that a count below it exists; the counts restart at 3, so
that they do. One power cut (in AT_ING any number) and, on
most hosts, two to four commands suffice: every effect the properties speak of
takes a set, a save and a restart. AT_ING's queue of events holds two, so that
events and time-outs overtake each other, and two of its three peers have the
service, so that one is met after another whose handles are still known.

| Run | Instance | Properties |
|---|---|---|
| `stream_session` | one master link, ring of 6, packets of 2, two AT lines, two strings (`+++` or four bytes) | `TypeOK`, `TargetKnown`, `OngoingCovered`, `NoLostWakeup`, `MaskedPopExact`, `ImplementsChannel` |
| `stream_oneslot` | two master links, ring of 4, packets of 1, AT+SEND of two bytes | `OneSlotWillEnd` |
| `stream_commands` | one master link that stays up (an action constraint), three lines: AT+TO, another command, a bad prefix, an early line feed, a line longer than the ring | `CmdFaithful` |
| `stream_drain` | a master and a slave link, ring of 5, three bytes, fairness | `ImplementsChannel`, `BufferedBytesMove` |
| `links_table` | two master ids, one slave id, two handles, two peers, dialling and closing, symmetric | `TableExact` |
| `links_answers` | one master id, two slave ids, scans, modes and closing, fairness | `TypeOK`, `AdvNotPhantom`, `CommandEnds` |
| `params` | seven hosts, four commands each, one power cut, two links, three devices, fairness | `TypeOK`, `AfterRestart`, `AnswersTrue`, `RegistryServes`, `WritesAccounted`, `ListExact`, `LinksAsTold`, `Recovers` |
| `gatt` | a master and a slave id, two peers with different databases, three waiting hosts and a hasty one, two commands, fairness | `TypeOK`, `WriteFaithful`, `FreesOwn`, `AnswersLink`, `SubscribesRight`, `Answered`, `DiscoveryEnds` |
| `bridge_bytes` | buffers of two, counts that restart at three (`CountReset`), five sessions of up to four bytes, a command, four bytes of the peer, fairness | `TypeOK`, `PeerGetsHostBytes`, `CommandsOnce`, `HostGetsPeerBytes`, `BytesLeave` |
| `ing_link` | a module that was master of `p` or of `r`, peers `p` and `q` with the service and `r` without it (`Bare`), two handles, two events on their way at once, one command, any number of power cuts, fairness | `TypeOK`, `AckedSurvives`, `NeverIdle`, `TargetExists`, `ConnectMeansReady`, `DialsNewPeer` |
| `stream_v_stale_command` | one link that stays up, a host that waits for each answer | `CmdFaithful` is violated |
| `params_v_name` | a host that gives a name of 17 to 26 characters | `NameAlone` is violated |

What they show.

- `TargetKnown`: whoever reaches a send function has a target; `0xFF` is never
  used to look up a handle for sending, although the target is chosen by
  commands and sends are triggered by timers, bytes and events.
- `OngoingCovered`: `transparent_data_send_ongoing` is written by all three
  contexts and read before it is written in two of them; it never outlives
  the message it stands for.
- `OneSlotWillEnd`: a one-shot send whose last byte has come owes a report.
- `NoLostWakeup`: in transparent mode on a live link served by writes,
  waiting bytes always have somebody who will look at them. Two exceptions
  are written into the property and are real: notifications that the peer has
  switched off (the send function returns and nobody looks again), and a
  `can_send_now` that was cleared for a link which then ended. It is checked
  and proved while AT+TO chooses master links only; section 4 says what goes
  wrong with both roles.
- `MaskedPopExact`: under the mask, the packet given to the stack is the head
  of the ring, and what is popped is what was sent.
- `ImplementsChannel`: the ring with unprotected indices is an ordered channel,
  with writes and with notifications, for one session. With AT lines typed after
  the session ends it is not one: an event that sends the ring does so with
  interrupts enabled, and the interrupt's reset of the indices at the end of a
  line can come between the call of the stack and the pop. The bound of two AT
  lines keeps the runs before that point; section 4 proves that there is no
  other obstacle.
- `CmdFaithful` holds while commands alone use the ring, even with bad
  prefixes and overlong lines, and fails once data has moved `rp`.
- `BufferedBytesMove`: under fairness waiting bytes do not wait for ever.
- `TableExact`: the table and the reverse map mirror the controller, up to
  events on their way, until a connection is turned away; then the end of the
  refused link clears entry 0, whose link is another one.
- `AdvNotPhantom`: "advertising" is never believed for ever without cause.
- `CommandEnds`: without dialling, `async_evt_on_going` is always cleared.
- `AfterRestart`, `Recovers`: whatever is set, saved and cut short, a start has
  the image saved last or the defaults, except after a save that was itself cut
  short; and a fault at start or in a command ends in a start that succeeds,
  except when the image saved holds an interval outside the table.
- `AnswersTrue`: name, address, UUIDs, UART and power saving are each kept in
  the image and where they act; the answer to a query, read from the image, is
  what is in force.
- `RegistryServes`, `WritesAccounted`: AT+UUID builds the database anew with the
  registry not emptied. It fits because the handles come out the same. The
  host then gets each write as it was made, or counted once.
- `ListExact`: the devices listed at the end of a scan are those that passed
  the filter, each once, unless the table overflowed or the filter read out of
  bounds.
- `LinksAsTold`: AT+CONN_PARAM and AT+CONN_PHY act on the link named, though ids
  and handles are both small numbers and are used for each other elsewhere.
- `WriteFaithful`, `FreesOwn`, `AnswersLink`, `Answered`: a command of the
  BLEGATT family is three steps (handler, runnable, answer), with the link lost
  or replaced between them. A host that waits gets the right value to the right
  attribute, and one answer; a hasty one at least gets answers that name the
  right link.
- `SubscribesRight`, `DiscoveryEnds`: with one master link at a time what an
  earlier peer left in `slave_*` does no harm, and a discovery ends with a
  subscription, a failed query or the end of the link.
- `PeerGetsHostBytes`, `CommandsOnce`, `HostGetsPeerBytes`: outside the races
  `spoilt` names and the overflow, no interleaving of the four contexts loses,
  repeats or moves a byte, and no command runs twice.
- `BytesLeave`: a request to send may be forgotten, and the tick makes up for
  it in one direction; in the other nothing does, which the property names.
- `NeverIdle`, `DialsNewPeer`: a module is linked, or on its way to a link.
  The exception named is a master with two links at once. Two events fit into
  the queue, so that a time-out overtakes a connection that is complete but not
  yet handled, a failed attempt is reported before the link that came after it,
  and a link ends before its start was handled.
- `TargetExists`, `ConnectMeansReady`: what is written goes to a link that is
  up or whose end is on its way, with handles found on that very link by the
  time the host is told of it. `q` is met after `p`, whose handles are still
  there, and after `r`, which left none.
- `AckedSurvives`: AT_ING checks a flag at either end of its page, so a save cut
  short gives the defaults and never a mixture.

### Fairness

`FairSpec` of `AtStream` asks weak fairness of the interrupt (its timer is
periodic), of the timer task and the Bluetooth task (FreeRTOS schedules the
highest ready priority, and no task of the firmware runs for ever at a higher
one), and of the radio giving back buffers. The host and the peers owe nothing.
`FairSpec` of `AtLinks` asks it of the Bluetooth task, of the end of a scan (it
has a duration), of the initiate timer, and of the end of each link the
controller was told to close (the link layer's supervision time-out ends it if
the peer does not answer). `FairSpec` of `AtParams` asks it of the steps of
start-up and of a save, of the UART's switch, and of the watchdog, which bites
in the loop of `cb_hard_fault`. `FairSpec` of `AtGatt` asks it of the Bluetooth
task and of the answers to queries: the attribute protocol ends each with a
response or a time-out. `FairSpec` of `IngBridge` asks weak fairness of the
tick, which the timer task makes periodic, of the way out of low power and of
buffers given back, and strong fairness of the Bluetooth task and task "b": a
tick interrupts them again and again, so they are not continuously enabled, but
it is short against its period of 50 ms, and they get the rest. `FairSpec` of
`IngLink` asks weak fairness of each task's steps, of the timer going off and of
the end of each link told to close, and strong fairness of the time-out
message's handler, which the events of a link may disable for a while.

### Divergences with a run

1. `at_recv_cmd.c:543` copies a command from slot 0 whatever `rp` is
   (`stream_v_stale_command`).
2. `at_cmd_task.c:1565` lets names of up to 26 characters pass, and
   `gap_set_dev_name` copies them into the 17 bytes of `module_name`
   (`params_v_name`).

### Divergences seen while modelling, without a run

9168_AT, serial data path:

- `at_recv_cmd.c:212`: bytes after `+++` do not keep the exit timer from ending
  the mode.
- `at_recv_cmd.c:414`: SEND OK is said when the stack took only part of the data.
- `at_cmd_task.c:2204`: AT+SEND sets the target and not the procedure, so after
  AT+TO of the other role the wrong one is used.
- `at_recv_cmd.c:478`: AT+SEND of length 0 never ends; the end of the link does
  not reset it either (`at_cmd_task.c` 1120-1136).
- `at_recv_cmd.c:367`: `can_send_now` stays false when the link it was cleared
  for ends.
- `profile.c:648`: the can-send-now events pop the ring with interrupts on.
- `at_recv_cmd.c:257`: with notifications off the send returns, and nothing looks
  at the ring again until it is next empty or above the level.
- `transmission_service.c:98`: one notify flag stands for all links.
- `at_recv_cmd.c:337`: a write to a lost link is repeated for ever (`SendHangs`).
- `at_recv_cmd.c:102`: `uart_io_send` counts with 8 bits; a message of 256 bytes
  or more is sent for ever.

9168_AT, links:

- `at_cmd_task.c:1807`: AT+DISCONN=A passes ids where handles are due.
- `at_cmd_task.c:2110-2124`: AT+CONN with no id free leaves `async_evt_on_going`
  set with nothing to clear it.
- `at_cmd_task.c:1092`: the end of a link that is not in the table is taken for
  the end of the link with id 0.
- `profile.c:633`: the callback of AT+DISCONN=A counts the links before the one
  that ended is taken out, so the last end is not reported.
- `profile.c:569`: a link of the other role that completes clears
  `initialization_ongoing` of a connection still being made.
- `profile.c:662`: a refusal that arrives after another event has cleared
  `async_evt_on_going` leaves `initialization_ongoing` set.
- `profile.c:596`: a master link stops the scan and leaves `scan_ongoing` set.

9168_AT, parameters, server and scan:

- `at_cmd_task.c:526-528`: AT+SLEEP takes the id for the handle. `LinksAsTold`
  fails for a host that uses AT+SLEEP with links; the run has no such host.
- `at_cmd_task.c:2339`: a negative AT+ADVINT is stored as an index beyond the
  table. Saved, it can make every start fault.
- `at_cmd_task.c:289`: AT+MAC turns advertising on without raising `adv_ongoing`.
- `flash_data.c:76`: an image whose save was cut short after two words is taken
  for whole. `flash_data.c:91`: 17 bytes are copied into a field of 16.
- `at_cmd_task.c:713,722`: a report without the filtered UUID is read through a
  null pointer; a 16-byte UUID is reversed into two bytes of the stack.
- `at_cmd_task.c:750`: the eleventh device is written to entry 0xff.
- `at_cmd_task.c:2376`: AT+RXNUM does not reset what the average is made of.

9168_AT, BLEGATT commands and discovery:

- `at_cmd_task.c:2423,2497`: the value is measured as a string after conversion,
  so a zero byte cuts it short. `WriteFaithful` fails with such a value.
- `profile.c:489`: the runnable reads a value out of the command line, which has
  been freed. For a host that waits nothing is allocated in between.
- `at_cmd_task.c:1234,1317`: a second command before the first one's runnable has
  run overwrites its value or its discoverer.
- `at_cmd_task.c:1103`: the handlers of a link are freed at its end and stay
  registered with the stack (`wild`).
- `at_cmd_task.c:1419`: `stack_sub_char` answers nothing when the stack is busy;
  `at_cmd_task.c:2469`: AT+BLEGATTCRD loses its buffer on an argument error.
- `profile.c:76,169`: two master links at once share `slave_*` and the listener.
- `profile.c:209,252`: variables that start as 0 are compared with
  `INVALID_HANDLE`, so a peer without the service passes the check.
- `profile.c:250`: a discovery that fails says nothing.

AT_ING:

- `profile.c:403-406`: the end of the older of two master links forgets the newer.
- `throughput_service.c:408`: the same comparison of 0 with `INVALID_HANDLE`; the
  disconnection it guards never happens. `throughput_service.c:268`: bytes are
  written before discovery has found where to.
- `sdk_private_flash_data.c:88`: a power cut in a save loses all parameters.
- `bt_cmd_data_uart_io_adp.c:354,359,365`: requests are cleared by a read and a
  write, or after the loop that serves them, and may be lost.
- `bt_cmd_data_uart_io_adp.c:108-128`: index and count are stored by two contexts
  without a lock, and nothing checks for overflow.
- `bt_cmd_data_uart_io_adp.c:333`: the mask of the reasons lacks its complement.

## 4. Proofs

Every safety invariant a passing run checks, and the refinement, is a theorem
for all values of the constants; the runs check the same properties on small
instances.  A theorem is about `Spec`, or about `FairSpec` where a module
states no other, of which it uses the safety part.  What a theorem needs besides
is in the assumptions on the constants (`ASSUME`) or in its own hypotheses, and
is named below.  Each inductive invariant was checked by TLC before its proof.

### AtStream

For every ring length above 3, every level, packet size, burst, set of links
and set of lines (`RingAssumption`, `StreamAssumption`):

| Theorem | States |
|---|---|
| `TypeCorrect` | `Spec => []TypeOK` |
| `TargetAlwaysKnown` | `Spec => []TargetKnown` |
| `OngoingAlwaysCovered` | `Spec => []OngoingCovered` |
| `OneSlotAlwaysEnds` | `Spec => []OneSlotWillEnd` |
| `PopAlwaysExact` | `Spec => []MaskedPopExact` |
| `NoWakeupLost` | `Spec /\ []WritesOnly => []NoLostWakeup` |
| `MasterLosesNoWakeup` | if the modem has no slave links, `Spec => []NoLostWakeup` |
| `CommandsAreFaithful` | `Spec /\ [][up \subseteq up']_vars /\ []CommandMode => []CmdFaithful` |
| `RingIsChannel` (`AtChannel_proofs`) | `Spec /\ [][~LineClash]_vars => ImplementsChannel` |

The inductive invariant is built in layers, each preserved under those before
it.

1. `TypeOK`.  It also bounds the indices, the packet and the burst, which is
   what makes the arithmetic of the ring work.
2. `TaskShape`: interrupts are masked exactly in `recv_transparent_data`, there
   no timer callback is in progress and the send timer is stopped, and a send is
   for the target.  Without it the timer callback could come between the pop and
   the reset of the flag.
3. `TargetKnown` is inductive with `TypeOK`: a target is never unchosen.
4. `OngoingCovered` and `OneSlotWillEnd` by one lemma (`OwedStays`): a queued
   send or one in progress ends only in `SendDone` and `ReportSendOk`.
5. `MaskedPopExact` from the ring's lemmas: a packet cut from a ring that is not
   empty is its head and does not wrap (`PacketLenType`).
6. `NoLostWakeup` needs two more: `LiveTarget`, transparent mode has a live
   target until its loss has been handled; and `OneRequest`, while all is sent
   by writes at most one event is asked for, and `can_send_now` is false while
   it is awaited.  Then every step that takes away one reason to look at the
   ring empties it, ends the mode, or leaves another reason; `RxTransparent`
   adds one when the ring was empty, and `SendTimerFires` gives its own up only
   when `OngoingCovered` supplies another.  The restriction `WritesOnly`
   (AT+TO has chosen no link of which we are the slave; such links may be up)
   is needed, because both roles share one `can_send_now`.  A one-shot send to
   the slave's link fills the stack and asks for its event; then bytes for a
   master link find the stack full, that link ends, comes back, and transparent
   mode is entered again.  Bytes wait with `can_send_now` false until the
   slave's event sets it; with that peer's notifications off `at_spss_send_data`
   returns at once, and nobody looks at the ring (TLC confirms this behaviour of
   `AtStream` with one link of each role and nine typed lines).
   `MasterLosesNoWakeup` is the case the run has, where the hypothesis is
   itself a consequence of `Spec` (`MasterWrites`).
7. `CmdFaithful`, in general false (`stream_v_stale_command`), holds of a modem
   that stays in command mode and loses no link, which is what the run
   `stream_commands` checks.  `Undisturbed` says why: nothing is pending that
   moves `rp`, so the line begins at slot 0, from where the code copies it.

The refinement is proved in steps.  `Fits` says that the ring never takes its
last free slot but one, that the packet at the stack is still in the ring, and
that the exit timer is not about to clear the ring then.  Each step of `Next` is
one of five kinds (`StepKind`): it leaves the ring alone, stores a byte, clears
the ring with no packet at the stack, cuts a packet, or pops it.  Lemmas about the ring
as a sequence (`RestStore`, `RestDrop`, `RestPush`) say what each does to
`Waiting`: nothing, `Accept` or `Overflow`, `Discard`, `Send`, nothing.  The
one step excluded is `LineClash`, the reset at the end of an AT line between an
event's packet and its pop, after which `rp` passes `wp`.  So that step is the
whole of what the code's missing mask costs.  The channel's `Overflow` needs
a byte behind every packet in a full ring, hence `MTU < AT_RECV_MAX_LEN - 2`.

### AtLinks

For every number of ids and handles, every set of peers and of commands
(`LinksAssumption`):

| Theorem | States |
|---|---|
| `LinksTypeCorrect` | `Spec => []TypeOK` |
| `AdvAlwaysReal` | `Spec => []AdvNotPhantom` |
| `TableAlwaysExact` | `Spec => []TableExact` |

Type correctness is proved by groups of variables (`TableType`, `FlagType`,
`WorkType`, `RadioType`, the event queue); the loops that look for an id need
the least-element lemma `LeastId`, from the library's theorem that the natural
numbers are well founded.  `AdvNotPhantom` is inductive with it: a step that
ends advertising clears the flag, starts it, or puts the event on its way, and
no step takes another event's place in the queue.

`TableExact` speaks of a table the code changes when it hears of a link, which
is later than the controller knows of it.  Its invariant `Mirror` therefore
has two parts.  `Heard` is about the events alone: a connection is announced
at most once, its end after it, the live link of a handle after the end of
the one before on that handle, and after the end of the one before with that
peer (`Apart`).  `Kept`, until a link is turned away, is about the table: an
entry has a handle exactly when its link has been heard of and its end has not
(`Lead`, `Entered`), `handle_2_id` leads back to it, role and address are those
of the link (`Matched`), and the end of the link an entry holds comes before the
next link with the same peer (`Followed`).  The last is what makes the search
by address in `at_on_connection_complete` right: the entry it finds is free.

### AtParams, AtServer, AtScan

For every set of names, addresses, UUIDs, intervals, reports, filters, links,
hosts, and every size of the tables:

| Theorem | States |
|---|---|
| `ParamsTypeCorrect` | `Spec => []TypeOK` |
| `RestartAlwaysRestores` | `Spec => []AfterRestart` |
| `RegistryAlwaysServes` | `Spec => []RegistryServes` |
| `WritesAlwaysAccounted` | `Spec => []WritesAccounted` |
| `ListAlwaysExact` | `Spec => []ListExact` |
| `AnswersAlwaysTrue` | if no name is longer than its field (`Names \cap LongNames = {}`), `Spec => []AnswersTrue` |
| `LinksAlwaysAsTold` | if no host uses AT+SLEEP and has links, `Spec => []LinksAsTold` |

Both hypotheses are needed: the names are the finding of `params_v_name`, and
AT+SLEEP takes the id for the handle.  The registry needs four slots at least
(`ServerAssumption`; the code has ten), one for each handle the database gives
out.

The parts of the invariant stand side by side, one for each component's state,
and most of them need the others only for types: `InFlash`, the page is the
image saved last or was torn; `InForce`, each parameter of the image is the one
that acts; `Registry`, the slots in use are the four of `WriteSlots` in this
order, which is why registering a rebuilt database finds each attribute's own
slot; `Counted` and `Queued`, each write is in one place on its way to the
host; `Scanned`, the report table has the addresses seen, each once; and
`Linked`, the handles of the live links.

### AtGatt

For every set of ids, handles, peers with whatever database, values and hosts:

| Theorem | States |
|---|---|
| `GattTypeCorrect` | `Spec => []TypeOK` |
| `AnswersAlwaysOfLink` | `Spec => []AnswersLink` |
| `OwnAlwaysFreed` | `Spec => []FreesOwn` |
| `WritesAlwaysFaithful` | if no value holds a zero byte (`NoZeroByte`), `Spec => []WriteFaithful` |
| `AlwaysSubscribesRight` | if there is one master id and every peer has the service (`OneMaster`, `Served`), `Spec => []SubscribesRight` |

A zero byte cuts a value short, and two master links, or a peer without the
service, make the descriptor a wrong one; section 3 lists the lines.

The invariant has a part for each thing that a runnable or an answer relies on
when it comes: the handle it was given is still that of its id (`Captured`,
`Queried`), what the infos and the handlers hold is still what the host gave
(`AsGiven`), and a discoverer belongs to one query (`Discovering`).  The last two
rest on `OneAtATime`: of a host that waits, one command at most is a message, a
runnable or a query.  `Discovered` follows `slave_*` along the discovery.

### IngBridge

For every size of the buffers, the FIFO and the packets, and every session:

| Theorem | States |
|---|---|
| `BridgeTypeCorrect` | `FairSpec => []TypeOK` |
| `HostAlwaysGets` | `FairSpec => []HostGetsPeerBytes` |
| `PeerAlwaysGets` | `FairSpec => []PeerGetsHostBytes` |
| `CommandsAlwaysOnce` | `FairSpec => []CommandsOnce` |

The counts of a buffer restart when they pass `CountReset`, which is larger
than a buffer (`BridgeAssumption`; 0xEFFFFFFF and 4000 in the code): a restart
then leaves their difference as it was.

`HostGetsPeerBytes` has the invariant `Queued` of `ble_buf`: the cells between
the indices are the peer's bytes that the UART lacks, in order, as many as the
counts say, and only task "b" moves `top` and only the Bluetooth task `bottom`.
For `com_buf` three contexts store the same index and count.  `Placed` says where
its bytes are in each place the timer task and task "b" can stand: with a
byte written and index and count not yet moved, or with the index reset and the count
not.  Every combination those places allow that is not in it is one of the
races that set `spoilt`.  `Faithful` carries what was sent.

`CommandsOnce` counts: the commands in the FIFO, in the timer task's hand, in
`com_buf` and already executed are together no more than those typed (`Ahead`,
`Owed`); `Unseen` adds that an empty buffer shows no old command to the task that
looks at it.

The interrupt's loop over the FIFO is a fold, about which no induction
theorem with an operator parameter can be used; `LeastNat` and `FoldSteps`, from the
library's theorem that set inclusion on finite sets is well founded, take its
place.

### IngLink

For every set of peers, with the service or without, of addresses and handles,
every image the module may have been left with, and every bound
(`IngLinkAssumption`):

| Theorem | States |
|---|---|
| `LinkTypeCorrect` | `FairSpec => []TypeOK` |
| `AckedAlwaysSurvives` | `FairSpec => []AckedSurvives` |
| `AlwaysBusy` | `FairSpec => []NeverIdle` |
| `TargetAlwaysExists` | `FairSpec => []TargetExists` |
| `ConnectAlwaysReady` | `FairSpec => []ConnectMeansReady` |

One invariant serves all five.  `Persisted`: what a power cut finds, at each
stage of a save.  `Modal`: what a role excludes; a slave never dials, a master
never advertises.  `Queued`: how links and the events about them go together.
`Followed`: what the manager knows of its one link, as long as there have not
been two.  `Found`: how far the discovery on this link has come, and that the
handles it has written so far are this link's; the rest may be another's until
then, which is why `ConnectMeansReady` excludes a peer without the service.

### Only model-checked

The liveness properties `BufferedBytesMove`, `CommandEnds`, `Recovers`, `Answered`,
`DiscoveryEnds`, `BytesLeave` and `DialsNewPeer`: fairness and ENABLED are beyond
the proof system.  And the two violations, which are counterexamples.
No module uses a RECURSIVE operator.

## 5. Not modelled, and the plan

Planned, most important first.

1. Weaker hypotheses: `LineClash` excluded by what the host does instead of by
   the step.
2. The pure algorithms, each against a reference definition: hexadecimal
   conversion, reversal, the argument parser, the 8-bit counter of
   `uart_io_send`.
3. A composition of `AtStream` with the table of `AtLinks`, so that a target can
   be an id whose link was replaced.

Left out for good: register set-up, logging and the wording of answers; the
heap, except where an object is used after it was freed; the OTA and the
device-information services, which are the vendor's; `router.c`,
`at_profile_spsc.c`, `at_profile_spss.c`, `crc.c` and `project_crc.c`, which are
not built; AT+CONNADD, AT+AUTO+++ and AT+CLR_DFT, whose bodies are commented out.
