------------------------------- MODULE AtGatt -------------------------------
(***************************************************************************)
(* The GATT commands of 9168_AT, AT+BLEGATT..., and the discovery the      *)
(* module does by itself on a link it has made as the master.              *)
(*                                                                         *)
(* A command is a message to the Bluetooth task.  Its handler only notes   *)
(* what to do, frees the command line and pushes a runnable; the runnable  *)
(* calls the stack, which answers later.  Links come and go between.       *)
(***************************************************************************)
EXTENDS Naturals, Sequences, FiniteSets, SequencesExt

CONSTANTS
  MasterIds, SlaveIds,    \* ids of conn_infos
  Handles,                \* connection handles
  Peers, Layout(_),       \* devices; [svc, in, out, ccc] handles of a device, 0 if it lacks it
  Values,                 \* what the host writes: sequences of bytes
  Attrs,                  \* attribute handles the host names
  Sessions,               \* [ops, waits]: the commands of a host, and whether it waits
  MaxCommands, MaxLinks, MaxQueue   \* bounds

Ids == MasterIds \cup SlaveIds

INVALID_HANDLE == 65535
NoLink  == [h |-> INVALID_HANDLE, peer |-> "nobody"]

Ops == {"SWR", "C", "CRD", "CWR", "CSUB"}

ASSUME GattAssumption ==
  /\ MasterIds \cap SlaveIds = {} /\ Ids \subseteq Nat /\ 0 \in Ids
  /\ {0, INVALID_HANDLE} \cap Handles = {} /\ Attrs \subseteq Nat \ {0}
  /\ \A d \in Peers : Layout(d) \in [svc : Nat, in : Nat, out : Nat, ccc : Nat]
  /\ Values \subseteq Seq(Nat)
  /\ \A s \in Sessions : s.ops \subseteq Ops /\ s.waits \in BOOLEAN
  /\ {MaxCommands, MaxLinks, MaxQueue} \subseteq Nat

VARIABLES
  session,
  link, handle_2_id,        \* conn_infos[id].handle and the peer; the id of a handle
  write_char_info, gatts_value_info,   \* [vh, data, kept] of each id
  first_handler,            \* the notification handlers of each id
  discoverer, discoverers,  \* conn_infos[id].discoverer; those allocated
  slave,                    \* what slave_service, slave_*_char and slave_output_desc hold
  msgs, runq,               \* commands and runnables queued for the Bluetooth task
  query,                    \* the GATT query under way on each handle
  slave_output_notify,      \* whose values the module's own listener takes
  listeners,                \* the other listeners, those of freed handlers too
  said,                     \* what this step answered or sent
  wild,                     \* history: a freed listener has been called
  asked,                    \* history: the command a waiting host waits for
  commands, conns           \* history: bounded

queues == <<msgs, runq>>
info   == <<write_char_info, gatts_value_info>>
lists  == <<first_handler, listeners>>
disc   == <<discoverer, discoverers>>
vars   == <<session, link, handle_2_id, info, lists, disc, slave, queues, query,
            slave_output_notify, said, wild, asked, commands, conns>>

-----------------------------------------------------------------------------
NoCmd   == [op |-> "none", id |-> 0, vh |-> 0, val |-> <<>>]
NoQuery == [kind |-> "none", arg |-> 0, found |-> FALSE, cmd |-> NoCmd]
NoInfo  == [vh |-> 0, data |-> <<>>, kept |-> TRUE]
Nobody  == [h |-> 0, vh |-> 0]
Quiet   == [what |-> "nothing", id |-> 0, h |-> 0, vh |-> 0, val |-> <<>>, cmd |-> NoCmd]

On == <<1>>   \* the two configurations of a subscription
No == <<0>>

Args(op) == CASE op \in {"SWR", "CWR"} -> Values
              [] op = "CSUB" -> {On, No}
              [] OTHER -> {<<>>}
Live == {i \in Ids : link[i] # NoLink}
waits == session.waits

Init ==
  /\ session \in Sessions
  /\ link = [i \in Ids |-> NoLink] /\ handle_2_id = [h \in Handles |-> 0]
  /\ write_char_info = [i \in Ids |-> NoInfo] /\ gatts_value_info = [i \in Ids |-> NoInfo]
  /\ first_handler = [i \in Ids |-> <<>>] /\ listeners = {}
  /\ discoverer = [i \in Ids |-> 0] /\ discoverers = {}
  /\ slave = [svc |-> 0, in |-> 0, out |-> 0, ccc |-> 0]
  /\ msgs = <<>> /\ runq = <<>> /\ query = [h \in Handles |-> NoQuery]
  /\ slave_output_notify = Nobody
  /\ said = Quiet /\ wild = FALSE /\ asked = NoCmd /\ commands = 0 /\ conns = 0

-----------------------------------------------------------------------------
(* Commands *)

(* A command line is allocated when it is complete.  Memory that was freed *)
(* before may be given out again, so what the infos point at is lost.      *)
Lost(inf) == [i \in Ids |-> [inf[i] EXCEPT !.kept = FALSE]]

Type(c) ==
  /\ commands < MaxCommands /\ commands' = commands + 1
  /\ IF waits THEN /\ c.id \in Live /\ msgs = <<>> /\ runq = <<>> /\ asked = NoCmd
                   /\ \A h \in Handles : query[h] = NoQuery
                   /\ asked' = c
              ELSE Len(msgs) < MaxQueue /\ UNCHANGED asked
  /\ msgs' = Append(msgs, c)
  /\ write_char_info' = Lost(write_char_info) /\ gatts_value_info' = Lost(gatts_value_info)
  /\ said' = Quiet
  /\ UNCHANGED <<session, link, handle_2_id, lists, disc, slave, runq, query,
                 slave_output_notify, wild, conns>>

Answer(c, what) ==
  /\ said' = [Quiet EXCEPT !.what = what, !.id = c.id, !.cmd = c]
  /\ asked' = NoCmd

(* The bytes are made in place of the hex text, and the length is that of  *)
(* what is then a string: a zero byte ends it early.                       *)
Length(val) ==
  LET zero == SelectInSeq(val, LAMBDA b : b = 0)
  IN  IF zero = 0 THEN Len(val) ELSE (zero - 1) \div 2

Run(fn, c, n) == [fn |-> fn, h |-> link[c.id].h, n |-> n, cmd |-> c]

(* Mutant: the configuration is noted in a new handler only. *)
WithConfig_new(hs, vh, config) ==
  IF \E k \in DOMAIN hs : hs[k].vh = vh THEN hs
  ELSE <<[vh |-> vh, config |-> config, registered |-> FALSE]>> \o hs

(* AT+BLEGATTCSUB: a handler for the characteristic is found or made. *)
WithConfig(hs, vh, config) ==
  IF \E k \in DOMAIN hs : hs[k].vh = vh
  THEN [k \in DOMAIN hs |-> IF hs[k].vh = vh THEN [hs[k] EXCEPT !.config = config] ELSE hs[k]]
  ELSE <<[vh |-> vh, config |-> config, registered |-> FALSE]>> \o hs

Infos(inf, c) == [inf EXCEPT ![c.id] = [vh |-> c.vh, data |-> c.val, kept |-> TRUE]]

(* at_recv_cmd_handler for the five commands. *)
Handle ==
  LET c == Head(msgs)
      fn == CASE c.op = "SWR" -> "stack_gatts_notify" [] c.op = "CWR" -> "stack_write_char"
              [] c.op = "C" -> "stack_discover_all"   [] c.op = "CRD" -> "stack_read_char"
              [] c.op = "CSUB" -> "stack_sub_char" IN
  /\ msgs # <<>> /\ msgs' = Tail(msgs)
  /\ IF c.id \notin Live
     THEN Answer(c, "ERR") /\ UNCHANGED <<info, first_handler, runq>>
     ELSE /\ said' = Quiet /\ UNCHANGED asked
          /\ runq' = Append(runq, Run(fn, c, Length(c.val)))
          /\ gatts_value_info' = IF c.op = "SWR" THEN Infos(gatts_value_info, c)
                                                 ELSE gatts_value_info
          /\ write_char_info' =
               CASE c.op = "CWR" -> Infos(write_char_info, c)
                 [] c.op = "CRD" -> [write_char_info EXCEPT ![c.id].vh = c.vh]
                 [] OTHER -> write_char_info
          /\ first_handler' = IF c.op = "CSUB"
               THEN [first_handler EXCEPT ![c.id] = WithConfig(@, c.vh, c.val)]
               ELSE first_handler
  /\ UNCHANGED <<session, link, handle_2_id, listeners, disc, slave, query,
                 slave_output_notify, wild, commands, conns>>

-----------------------------------------------------------------------------
(* Runnables *)

Ready == {h \in Handles : query[h] = NoQuery}

Runs(fn) == runq # <<>> /\ Head(runq).fn = fn /\ runq' = Tail(runq)

(* stack_write_char, stack_gatts_notify and stack_gatts_indicate: the link *)
(* and the value are those of the id by now.                               *)
Sends(fn, inf, ready) ==
  LET r == Head(runq)
      i == r.cmd.id
      h == link[i].h IN
  /\ Runs(fn) /\ asked' = NoCmd
  /\ IF i \in Live /\ h \in ready
     THEN \E v \in (IF inf[i].kept THEN {inf[i].data} ELSE Values) :
            said' = [what |-> "sent", id |-> i, h |-> h, vh |-> inf[i].vh,
                     val |-> SubSeq(v, 1, IF r.n < Len(v) THEN r.n ELSE Len(v)),
                     cmd |-> r.cmd]
     ELSE said' = [Quiet EXCEPT !.what = "ERROR", !.id = i, !.cmd = r.cmd]
  /\ UNCHANGED <<session, link, handle_2_id, info, lists, disc, slave, msgs, query,
                 slave_output_notify, wild, commands, conns>>

stack_write_char   == Sends("stack_write_char", write_char_info, Ready)
stack_gatts_notify == Sends("stack_gatts_notify", gatts_value_info, Handles)

Query(h, kind, arg, c) == [query EXCEPT ![h] = [kind |-> kind, arg |-> arg, found |-> FALSE,
                                                cmd |-> c]]

(* stack_read_char, with the handle the link had. *)
stack_read_char ==
  LET r == Head(runq) IN
  /\ Runs("stack_read_char")
  /\ IF r.h \in Ready /\ \E i \in Live : link[i].h = r.h
     THEN /\ query' = Query(r.h, "read", r.cmd.vh, r.cmd)
          /\ said' = Quiet /\ UNCHANGED asked
     ELSE Answer(r.cmd, "ERROR") /\ UNCHANGED query
  /\ UNCHANGED <<session, link, handle_2_id, info, lists, disc, slave, msgs,
                 slave_output_notify, wild, commands, conns>>

(* stack_discover_all: a second one forgets the first one's discoverer. *)
stack_discover_all ==
  LET r == Head(runq)
      d == 1 + Cardinality(discoverers) IN
  /\ Runs("stack_discover_all") /\ said' = Quiet
  /\ IF r.h \in Ready /\ \E i \in Live : link[i].h = r.h
     THEN /\ query' = Query(r.h, "all", d, r.cmd)
          /\ discoverer' = [discoverer EXCEPT ![r.cmd.id] = d]
          /\ discoverers' = discoverers \cup {d}
          /\ UNCHANGED asked
     ELSE /\ discoverer' = [discoverer EXCEPT ![r.cmd.id] = 0]
          /\ asked' = NoCmd
          /\ UNCHANGED <<query, discoverers>>
  /\ UNCHANGED <<session, link, handle_2_id, info, lists, slave, msgs, slave_output_notify,
                 wild, commands, conns>>

(* Mutant: the search compares with the descriptor's handle. *)
Wanted_desc(handler, vh) == handler.vh + 1 = vh
Wanted(handler, vh) == handler.vh = vh

(* stack_sub_char searches the list of the id again; it says nothing when  *)
(* the handler is gone, nor when the stack is busy.                        *)
stack_sub_char ==
  LET r == Head(runq)
      i == r.cmd.id
      h == link[i].h
      k == SelectInSeq(first_handler[i], LAMBDA x : Wanted(x, r.cmd.vh)) IN
  /\ Runs("stack_sub_char")
  /\ IF k = 0 THEN UNCHANGED <<lists, query, asked>> /\ said' = Quiet
     ELSE /\ first_handler' = [first_handler EXCEPT ![i][k].registered = TRUE]
          /\ listeners' = IF first_handler[i][k].registered THEN listeners
               ELSE listeners \cup {[h |-> h, vh |-> r.cmd.vh, freed |-> FALSE]}
          /\ IF h \in Ready
             THEN /\ query' = Query(h, "sub", r.cmd.vh, r.cmd)
                  /\ said' = [Quiet EXCEPT !.what = "config", !.id = i, !.vh = r.cmd.vh,
                                           !.val = first_handler[i][k].config,
                                           !.cmd = r.cmd]
             ELSE UNCHANGED query /\ said' = Quiet
          /\ UNCHANGED asked
  /\ UNCHANGED <<session, link, handle_2_id, info, disc, slave, msgs, slave_output_notify,
                 wild, commands, conns>>

-----------------------------------------------------------------------------
(* Answers of the stack to the host's queries *)

(* Mutant: the pointer is cleared before the discoverer is freed. *)
Released_cleared(i) == 0

(* gatt_client_dump_profile frees the discoverer of the id, then forgets it. *)
Released(i) == discoverer[i]

Dump(h) ==
  LET i == query[h].cmd.id IN
  /\ said' = [Quiet EXCEPT !.what = "freed", !.id = i, !.vh = Released(i), !.cmd = query[h].cmd]
  /\ discoverer' = [discoverer EXCEPT ![i] = 0]
  /\ discoverers' = discoverers \ {Released(i)}

(* read_characteristic_value_callback, write_characteristic_descriptor_    *)
(* callback: they find the id by the handle.                               *)
Report(h) ==
  /\ said' = [Quiet EXCEPT !.what = "result", !.id = handle_2_id[h], !.cmd = query[h].cmd]
  /\ UNCHANGED disc

Finish(h) == IF query[h].kind = "all" THEN Dump(h) ELSE Report(h)

HostKinds == {"read", "sub", "all"}

HostResult(h) ==
  /\ query[h].kind \in HostKinds /\ Finish(h)
  /\ query' = [query EXCEPT ![h] = NoQuery] /\ asked' = NoCmd
  /\ UNCHANGED <<session, link, handle_2_id, info, lists, slave, queues, slave_output_notify,
                 wild, commands, conns>>

(* A value from the peer: the stack calls each listener for it. *)
Notified(h, vh) ==
  /\ \E i \in Live : link[i].h = h
  /\ wild' = (wild \/ \E l \in listeners : l.freed)
  /\ \/ /\ [h |-> h, vh |-> vh, freed |-> FALSE] \in listeners
        /\ said' = [Quiet EXCEPT !.what = "noti", !.id = handle_2_id[h], !.h = h, !.vh = vh]
     \/ /\ slave_output_notify = [h |-> h, vh |-> vh]
        /\ said' = [Quiet EXCEPT !.what = "raw", !.h = h, !.vh = vh]
  /\ UNCHANGED <<session, link, handle_2_id, info, lists, disc, slave, queues, query,
                 slave_output_notify, asked, commands, conns>>

-----------------------------------------------------------------------------
(* The discovery of profile.c on a link made as the master *)

Has(h) == Layout((CHOOSE l \in {link[i] : i \in Live} : l.h = h).peer)

(* Does the query have a result that the callback takes?  A range taken    *)
(* from another peer gives none.                                           *)
Result(h) ==
  CASE query[h].kind = "svc"  -> Has(h).svc # 0
    [] query[h].kind = "char" -> query[h].arg = Has(h).svc /\ Has(h).svc # 0
    [] query[h].kind = "desc" -> query[h].arg = Has(h).out /\ Has(h).out # 0
    [] OTHER -> FALSE

(* The one set of variables for the peer of every link. *)
Stored(kind, has) ==
  CASE kind = "svc"  -> [slave EXCEPT !.svc = has.svc]
    [] kind = "char" -> [slave EXCEPT !.in = has.in, !.out = has.out]
    [] kind = "desc" -> [slave EXCEPT !.ccc = has.ccc]

(* Mutant: what an earlier peer had is kept. *)
Taken_first(kind, has) == IF kind = "svc" /\ slave.svc # 0 THEN slave ELSE Stored(kind, has)
Taken(kind, has) == Stored(kind, has)

Found(h) ==
  /\ ~query[h].found /\ Result(h)
  /\ slave' = Taken(query[h].kind, Has(h))
  /\ query' = [query EXCEPT ![h].found = TRUE] /\ said' = Quiet
  /\ UNCHANGED <<session, link, handle_2_id, info, lists, disc, queues, slave_output_notify,
                 wild, asked, commands, conns>>

(* Mutant: nothing is asked for once the characteristics are known. *)
AfterChars_stop == NoQuery
AfterChars == [kind |-> "desc", arg |-> slave.out, found |-> FALSE, cmd |-> NoCmd]

(* service_, characteristic_ and descriptor_discovery_callback at the end  *)
(* of a query.  The variables start as 0 and never become INVALID_HANDLE.  *)
Complete(h) ==
  LET k == query[h].kind IN
  /\ k \in {"svc", "char", "desc", "ccc"} /\ (Result(h) => query[h].found)
  /\ query' = [query EXCEPT ![h] =
       CASE k = "svc"  -> [NoQuery EXCEPT !.kind = "char", !.arg = slave.svc]
         [] k = "char" -> AfterChars
         [] k = "desc" -> [NoQuery EXCEPT !.kind = "ccc", !.arg = slave.ccc]
         [] k = "ccc"  -> NoQuery]
  /\ slave_output_notify' = IF k = "desc" THEN [h |-> h, vh |-> slave.out]
                                          ELSE slave_output_notify
  /\ said' = IF k = "ccc" THEN [Quiet EXCEPT !.what = "subscribed", !.h = h] ELSE Quiet
  /\ UNCHANGED <<session, link, handle_2_id, info, lists, disc, slave, queues, wild, asked,
                 commands, conns>>

(* A query that ends with an error ends the discovery. *)
Broken(h) ==
  /\ query[h].kind \in {"svc", "char", "desc", "ccc"}
  /\ query' = [query EXCEPT ![h] = NoQuery]
  /\ said' = [Quiet EXCEPT !.what = "broken", !.h = h]
  /\ UNCHANGED <<session, link, handle_2_id, info, lists, disc, slave, queues,
                 slave_output_notify, wild, asked, commands, conns>>

-----------------------------------------------------------------------------
(* Links *)

(* Mutant: the id of the handle is not noted. *)
Named_not(h, i) == handle_2_id
Named(h, i) == [handle_2_id EXCEPT ![h] = i]

(* What is queued is done long before a link can come up. *)
LinkUp(i, h, p) ==
  /\ conns < MaxLinks /\ conns' = conns + 1 /\ msgs = <<>> /\ runq = <<>>
  /\ i \notin Live /\ \A j \in Ids : link[j].h # h
  /\ link' = [link EXCEPT ![i] = [h |-> h, peer |-> p]]
  /\ handle_2_id' = Named(h, i)
  /\ query' = IF i \in MasterIds THEN Query(h, "svc", 0, NoCmd) ELSE query
  /\ said' = Quiet
  /\ UNCHANGED <<session, info, lists, disc, slave, queues, slave_output_notify, wild, asked,
                 commands>>

(* Mutant: the handlers of the link stay on its list. *)
Freed_not(hs) == hs
Freed(hs) == <<>>

(* The stack first ends the query of the link with an error; then          *)
(* at_on_disconnect frees the handlers of the id, which the stack's list   *)
(* of listeners still names.                                               *)
LinkDown(i) ==
  LET h == link[i].h IN
  /\ i \in Live
  /\ IF query[h].kind \in HostKinds THEN Finish(h) ELSE said' = Quiet /\ UNCHANGED disc
  /\ query' = [query EXCEPT ![h] = NoQuery]
  /\ asked' = IF asked.id = i THEN NoCmd ELSE asked
  /\ link' = [link EXCEPT ![i] = NoLink] /\ handle_2_id' = [handle_2_id EXCEPT ![h] = 0]
  /\ first_handler' = [first_handler EXCEPT ![i] = Freed(@)]
  /\ listeners' = {IF l.h = h THEN [l EXCEPT !.freed = TRUE] ELSE l : l \in listeners}
  /\ UNCHANGED <<session, info, slave, queues, slave_output_notify, wild, commands, conns>>

-----------------------------------------------------------------------------
Cmds == {c \in [op : session.ops, id : Ids, vh : Attrs, val : Values \cup {<<>>, On, No}] :
           c.val \in Args(c.op) /\ (c.op = "C" => c.vh = CHOOSE a \in Attrs : TRUE)}

Own == \/ Handle \/ stack_write_char \/ stack_gatts_notify \/ stack_read_char
       \/ stack_discover_all \/ stack_sub_char
       \/ \E h \in Handles : HostResult(h) \/ Found(h) \/ Complete(h)

Next ==
  \/ \E c \in Cmds : Type(c)
  \/ Own
  \/ \E h \in Handles : Broken(h) \/ \E vh \in Attrs : Notified(h, vh)
  \/ \E i \in Ids : LinkDown(i) \/ \E h \in Handles, p \in Peers : LinkUp(i, h, p)

Spec == Init /\ [][Next]_vars

(* The Bluetooth task runs and the peers answer. *)
FairSpec == Spec /\ WF_vars(Own)

-----------------------------------------------------------------------------
(* Properties *)

TypeOK ==
  /\ link \in [Ids -> {NoLink} \cup [h : Handles, peer : Peers]]
  /\ handle_2_id \in [Handles -> Ids]
  /\ \A i \in Ids : write_char_info[i].vh \in Attrs \cup {0}
                    /\ gatts_value_info[i].data \in Values \cup {<<>>}
  /\ \A i \in Ids : first_handler[i] # <<>> => i \in Live
  /\ \A i \in Ids : IsInjective([k \in DOMAIN first_handler[i] |-> first_handler[i][k].vh])
  /\ \A h \in Handles : query[h] # NoQuery => \E i \in Live : link[i].h = h

(* A host that waits for each answer has its values sent to the link and   *)
(* the attribute it named, and as it wrote them, although the command line *)
(* is freed before the runnable reads the value from it; and what is       *)
(* written to a descriptor is the configuration it asked for, also when a  *)
(* handler for the characteristic was there already.                       *)
WriteFaithful ==
  waits /\ said.what \in {"sent", "config"} =>
    /\ said.id = said.cmd.id /\ said.vh = said.cmd.vh /\ said.val = said.cmd.val

(* For such a host a finished discovery frees the discoverer it has used,  *)
(* and none is ever lost.                                                  *)
FreesOwn ==
  waits => /\ said.what = "freed" => said.vh # 0
           /\ discoverers \subseteq {discoverer[i] : i \in Ids}

(* The answer to a query, and a value a peer sends, name the link they     *)
(* come from, for any host.                                                *)
AnswersLink ==
  /\ said.what = "result" => said.id = said.cmd.id
  /\ said.what = "noti" => link[said.id].h = said.h

(* The module writes to the descriptor of the peer at hand, whatever an    *)
(* earlier peer had at other handles, while it has one such link.          *)
SubscribesRight ==
  \A i \in MasterIds \cap Live :
    query[link[i].h].kind = "ccc" => query[link[i].h].arg = Layout(link[i].peer).ccc

(* A waiting host gets an answer to every command or loses the link.       *)
Answered == asked # NoCmd ~> asked = NoCmd

(* A link made as the master gets subscribed, or is lost, or a query of    *)
(* its discovery fails.                                                    *)
DiscoveryEnds ==
  \A h \in Handles :
    query[h].kind = "svc" ~>
      \/ said.what \in {"subscribed", "broken"} /\ said.h = h
      \/ \A i \in Live : link[i].h # h
=============================================================================
