---------------------------- MODULE AtGatt_proofs ----------------------------
(***************************************************************************)
(* Proofs about AtGatt, for every set of ids, handles, devices, values,    *)
(* attributes and sessions.                                                *)
(*                                                                         *)
(* The invariant has a part for each thing a runnable or an answer of the  *)
(* stack relies on when it comes: that the handle it was given is still    *)
(* that of its id (Captured, Queried), that what the infos and the list of *)
(* handlers hold is still what the host gave (AsGiven), that a discoverer  *)
(* is used by one query (Discovering); and, for hosts that wait, that one  *)
(* command is under way (OneAtATime), on which the last two rest.          *)
(***************************************************************************)
EXTENDS AtGatt, TLAPS, SequenceTheorems, FiniteSetTheorems

-----------------------------------------------------------------------------
(* The inductive invariant *)

Texts   == Values \cup {<<>>, On, No}
AnyCmd  == {c \in [op : Ops, id : Ids, vh : Attrs, val : Texts] : c.val \in Args(c.op)}
Info    == [vh : Attrs \cup {0}, data : Values \cup {<<>>}, kept : BOOLEAN]
Handler == [vh : Attrs, config : Texts, registered : BOOLEAN]
Funs    == {"stack_gatts_notify", "stack_write_char", "stack_discover_all", "stack_read_char",
            "stack_sub_char"}
RunType == [fn : Funs, h : Handles, n : {Length(v) : v \in Texts}, cmd : AnyCmd]
DiscoveryKinds == {"svc", "char", "desc", "ccc"}
AnyQuery == [kind : HostKinds \cup DiscoveryKinds \cup {"none"}, arg : Nat, found : BOOLEAN,
             cmd : AnyCmd \cup {NoCmd}]

LinkTypes ==
  /\ link \in [Ids -> {NoLink} \cup [h : Handles, peer : Peers]]
  /\ handle_2_id \in [Handles -> Ids]

InfoTypes == write_char_info \in [Ids -> Info] /\ gatts_value_info \in [Ids -> Info]

DiscTypes ==
  /\ discoverer \in [Ids -> Nat] /\ IsFiniteSet(discoverers)
  /\ slave \in [svc : Nat, in : Nat, out : Nat, ccc : Nat]

QueueTypes == session \in Sessions /\ msgs \in Seq(AnyCmd) /\ runq \in Seq(RunType)

QueryTypes == query \in [Handles -> AnyQuery]

Types == LinkTypes /\ InfoTypes /\ DiscTypes /\ QueueTypes /\ QueryTypes

(* A link has a handle of its own, and the handle its id. *)
Linked ==
  /\ \A i, j \in Live : link[i].h = link[j].h => i = j
  /\ \A i \in Live : handle_2_id[link[i].h] = i

(* The handlers of an id: for a live link only, one for a characteristic. *)
Handlers ==
  /\ first_handler \in [Ids -> Seq(Handler)]
  /\ \A i \in Ids : first_handler[i] # <<>> => i \in Live
  /\ \A i \in Ids : \A j, k \in DOMAIN first_handler[i] :
       first_handler[i][j].vh = first_handler[i][k].vh => j = k

(* The handle a runnable was given is that of its id, or of no live link. *)
Captured ==
  \A k \in DOMAIN runq : \A i \in Live : link[i].h = runq[k].h => i = runq[k].cmd.id

(* Each query is that of a live link: one of its host, or, on a link made  *)
(* as the master, one of its discovery.                                    *)
Queried ==
  /\ \A h \in Handles : query[h].kind = "none" => query[h] = NoQuery
  /\ \A h \in Handles : query[h] # NoQuery => \E i \in Live : link[i].h = h
  /\ \A h \in Handles : query[h].kind \in HostKinds =>
       query[h].cmd \in AnyCmd /\ \A i \in Live : link[i].h = h => i = query[h].cmd.id
  /\ \A h \in Handles : query[h].kind \in DiscoveryKinds =>
       \A i \in Live : link[i].h = h => i \in MasterIds

(* A waiting host has at most one command under way. *)
Asking(h) == query[h].kind \in HostKinds

OneAtATime ==
  waits =>
    /\ Len(msgs) <= 1 /\ Len(runq) <= 1 /\ (msgs = <<>> \/ runq = <<>>)
    /\ msgs # <<>> \/ runq # <<>> => \A h \in Handles : ~Asking(h)
    /\ \A g, h \in Handles : Asking(g) /\ Asking(h) => g = h

(* What the runnable of a waiting host will find is what the host gave.    *)
Ready2Send(r, inf) ==
  /\ inf[r.cmd.id].kept /\ inf[r.cmd.id].data = r.cmd.val /\ inf[r.cmd.id].vh = r.cmd.vh

AsGiven ==
  waits => \A k \in DOMAIN runq :
    /\ runq[k].fn = "stack_write_char" => Ready2Send(runq[k], write_char_info)
    /\ runq[k].fn = "stack_gatts_notify" => Ready2Send(runq[k], gatts_value_info)
    /\ runq[k].fn \in {"stack_write_char", "stack_gatts_notify"} =>
         runq[k].cmd.val \in Values /\ runq[k].n = Length(runq[k].cmd.val)
    /\ runq[k].fn = "stack_sub_char" =>
         \A j \in DOMAIN first_handler[runq[k].cmd.id] :
           first_handler[runq[k].cmd.id][j].vh = runq[k].cmd.vh =>
             first_handler[runq[k].cmd.id][j].config = runq[k].cmd.val

(* Its discoverers are those its queries use. *)
Discovering ==
  waits =>
    /\ 0 \notin discoverers /\ discoverers \subseteq {discoverer[i] : i \in Ids}
    /\ \A h \in Handles : query[h].kind = "all" => discoverer[query[h].cmd.id] # 0
    /\ \A i \in Ids : discoverer[i] # 0 =>
         \E h \in Handles : query[h].kind = "all" /\ query[h].cmd.id = i

(* What has been discovered on a link is of its peer. *)
OfPeer(q, has, got) ==
  /\ q.kind = "svc"  => (q.found => got.svc = has.svc)
  /\ q.kind = "char" => q.arg = has.svc /\ (q.found => got.out = has.out)
  /\ q.kind = "desc" => q.arg = has.out /\ (q.found => got.ccc = has.ccc)
  /\ q.kind = "ccc"  => q.arg = has.ccc

Discovered ==
  \A i \in MasterIds \cap Live : OfPeer(query[link[i].h], Layout(link[i].peer), slave)

(* What a host that waits is told has been freed. *)
FreedSaid == waits /\ said.what = "freed" => said.vh # 0

Inv == Types /\ Linked /\ Handlers /\ Captured /\ Queried /\ OneAtATime /\ AsGiven
       /\ Discovering /\ FreedSaid /\ AnswersLink

-----------------------------------------------------------------------------
(* The steps, and what a constant is *)

LEMMA Steps ==
  ASSUME [Next]_vars
  PROVE  \/ \E c \in Cmds : Type(c)
         \/ Handle \/ stack_write_char \/ stack_gatts_notify \/ stack_read_char
         \/ stack_discover_all \/ stack_sub_char
         \/ \E h \in Handles : HostResult(h)
         \/ \E h \in Handles : Found(h)
         \/ \E h \in Handles : Complete(h)
         \/ \E h \in Handles : Broken(h)
         \/ \E h \in Handles, vh \in Attrs : Notified(h, vh)
         \/ \E i \in Ids : LinkDown(i)
         \/ \E i \in Ids, h \in Handles, p \in Peers : LinkUp(i, h, p)
         \/ UNCHANGED vars
BY DEF Next, Own

LEMMA Constants0 ==
  /\ 0 \in Ids /\ Ids \subseteq Nat /\ Attrs \subseteq Nat \ {0}
  /\ 0 \notin Handles /\ INVALID_HANDLE \notin Handles
  /\ \A h \in Handles : \A p : [h |-> h, peer |-> p] # NoLink
  /\ \A l \in [h : Handles, peer : Peers] : l # NoLink
BY GattAssumption DEF Ids, NoLink

LEMMA CmdsTyped ==
  ASSUME session \in Sessions
  PROVE  Cmds \subseteq AnyCmd
BY GattAssumption DEF Cmds, AnyCmd, Texts

LEMMA CmdFields ==
  ASSUME NEW c \in AnyCmd
  PROVE  /\ c.op \in Ops /\ c.id \in Ids /\ c.vh \in Attrs /\ c.val \in Texts
         /\ c.val \in Args(c.op)
BY DEF AnyCmd

(* The link of a live id. *)
LEMMA LinkFields ==
  ASSUME LinkTypes, NEW i \in Live
  PROVE  i \in Ids /\ link[i].h \in Handles /\ link[i].peer \in Peers
         /\ link[i] \in [h : Handles, peer : Peers]
BY DEF LinkTypes, Live

-----------------------------------------------------------------------------
(* Links *)

LEMMA LinkKinds ==
  ASSUME [Next]_vars
  PROVE  \/ UNCHANGED <<link, handle_2_id>>
         \/ \E i \in Ids : LinkDown(i)
         \/ \E i \in Ids, h \in Handles, p \in Peers : LinkUp(i, h, p)
<1>1. CASE (\E c \in Cmds : Type(c)) \/ Handle
  BY <1>1 DEF Type, Handle
<1>2. CASE stack_write_char \/ stack_gatts_notify
  BY <1>2 DEF stack_write_char, stack_gatts_notify, Sends
<1>3. CASE stack_read_char \/ stack_discover_all \/ stack_sub_char
  BY <1>3 DEF stack_read_char, stack_discover_all, stack_sub_char
<1>4. CASE \E h \in Handles : HostResult(h) \/ Found(h) \/ Complete(h) \/ Broken(h)
                              \/ \E vh \in Attrs : Notified(h, vh)
  BY <1>4 DEF HostResult, Found, Complete, Broken, Notified
<1>5. CASE UNCHANGED vars
  BY <1>5 DEF vars
<1> QED BY <1>1, <1>2, <1>3, <1>4, <1>5, Steps

LEMMA StepLinkTypes == LinkTypes /\ [Next]_vars => LinkTypes'
<1> SUFFICES ASSUME LinkTypes, [Next]_vars PROVE LinkTypes'
  OBVIOUS
<1>1. ASSUME NEW i \in Ids, LinkDown(i) PROVE LinkTypes'
  <2>1. link' = [link EXCEPT ![i] = NoLink] /\ handle_2_id' = [handle_2_id EXCEPT ![link[i].h] = 0]
    BY <1>1 DEF LinkDown
  <2> QED BY <2>1, Constants0 DEF LinkTypes
<1>2. ASSUME NEW i \in Ids, NEW h \in Handles, NEW p \in Peers, LinkUp(i, h, p) PROVE LinkTypes'
  <2>1. /\ link' = [link EXCEPT ![i] = [h |-> h, peer |-> p]]
        /\ handle_2_id' = [handle_2_id EXCEPT ![h] = i]
    BY <1>2 DEF LinkUp, Named
  <2>2. [h |-> h, peer |-> p] \in [h : Handles, peer : Peers]
    OBVIOUS
  <2>3. link' \in [Ids -> {NoLink} \cup [h : Handles, peer : Peers]]
    BY <2>1, <2>2, Zenon DEF LinkTypes
  <2> QED BY <2>1, <2>3 DEF LinkTypes
<1>3. CASE UNCHANGED <<link, handle_2_id>>
  BY <1>3 DEF LinkTypes
<1> QED BY <1>1, <1>2, <1>3, LinkKinds

(* What the two steps do to the set of live links. *)
LEMMA DownLive ==
  ASSUME LinkTypes, NEW i \in Ids, LinkDown(i)
  PROVE  /\ i \in Live /\ Live' = Live \ {i}
         /\ \A j \in Live \ {i} : link'[j] = link[j]
BY DEF LinkTypes, LinkDown, Live

LEMMA UpLive ==
  ASSUME LinkTypes, NEW i \in Ids, NEW h \in Handles, NEW p \in Peers, LinkUp(i, h, p)
  PROVE  /\ i \notin Live /\ Live' = Live \cup {i} /\ link'[i].h = h /\ link'[i].peer = p
         /\ \A j \in Live : link'[j] = link[j] /\ link[j].h # h
<1>1. link' = [link EXCEPT ![i] = [h |-> h, peer |-> p]] /\ i \notin Live
      /\ \A j \in Ids : link[j].h # h
  BY DEF LinkUp
<1>2. [h |-> h, peer |-> p] # NoLink
  BY Constants0
<1>3. link'[i] = [h |-> h, peer |-> p] /\ \A j \in Ids \ {i} : link'[j] = link[j]
  BY <1>1 DEF LinkTypes
<1>4. link'[i].h = h /\ link'[i].peer = p
  BY <1>3
<1> QED BY <1>1, <1>2, <1>3, <1>4 DEF Live

LEMMA StepLinked == LinkTypes /\ Linked /\ [Next]_vars => Linked'
<1> SUFFICES ASSUME LinkTypes, Linked, [Next]_vars PROVE Linked'
  OBVIOUS
<1>1. ASSUME NEW i \in Ids, LinkDown(i) PROVE Linked'
  <2>1. handle_2_id' = [handle_2_id EXCEPT ![link[i].h] = 0]
    BY <1>1 DEF LinkDown
  <2>2. \A j \in Live \ {i} : link[j].h # link[i].h /\ link[j].h \in Handles
    BY <1>1, DownLive, LinkFields DEF Linked
  <2> QED BY <1>1, <2>1, <2>2, DownLive DEF Linked, LinkTypes
<1>2. ASSUME NEW i \in Ids, NEW h \in Handles, NEW p \in Peers, LinkUp(i, h, p) PROVE Linked'
  <2>1. handle_2_id' = [handle_2_id EXCEPT ![h] = i]
    BY <1>2 DEF LinkUp, Named
  <2>2. \A j \in Live : link[j].h \in Handles
    BY LinkFields
  <2>3. link'[i].h = h
    BY <1>2, UpLive
  <2>4. \A j, k \in Live' : link'[j].h = link'[k].h => j = k
    <3>1. /\ Live' = Live \cup {i} /\ \A j \in Live : link'[j] = link[j] /\ link[j].h # h
      BY <1>2, UpLive
    <3> QED BY <2>3, <3>1 DEF Linked
  <2>5. \A j \in Live' : handle_2_id'[link'[j].h] = j
    <3>1. /\ Live' = Live \cup {i} /\ \A j \in Live : link'[j] = link[j] /\ link[j].h # h
      BY <1>2, UpLive
    <3>2. handle_2_id'[h] = i /\ \A g \in Handles \ {h} : handle_2_id'[g] = handle_2_id[g]
      BY <2>1 DEF LinkTypes
    <3> QED BY <2>2, <2>3, <3>1, <3>2 DEF Linked
  <2> QED BY <2>4, <2>5 DEF Linked
<1>3. CASE UNCHANGED <<link, handle_2_id>>
  BY <1>3 DEF Linked, Live
<1> QED BY <1>1, <1>2, <1>3, LinkKinds

-----------------------------------------------------------------------------
(* Queues *)

LEMMA QueueKinds ==
  ASSUME [Next]_vars
  PROVE  /\ session' = session
         /\ \/ UNCHANGED queues
            \/ \E c \in Cmds : Type(c) /\ msgs' = Append(msgs, c) /\ runq' = runq
            \/ Handle
            \/ runq # <<>> /\ runq' = Tail(runq) /\ msgs' = msgs
<1>1. CASE \E c \in Cmds : Type(c)
  BY <1>1 DEF Type
<1>2. CASE Handle
  BY <1>2 DEF Handle
<1>3. CASE stack_write_char \/ stack_gatts_notify
  BY <1>3 DEF stack_write_char, stack_gatts_notify, Sends, Runs
<1>4. CASE stack_read_char
  BY <1>4 DEF stack_read_char, Runs
<1>5. CASE stack_discover_all
  BY <1>5 DEF stack_discover_all, Runs
<1>6. CASE stack_sub_char
  BY <1>6 DEF stack_sub_char, Runs
<1>7. CASE \E h \in Handles : HostResult(h) \/ Found(h) \/ Complete(h) \/ Broken(h)
                              \/ \E vh \in Attrs : Notified(h, vh)
  BY <1>7 DEF HostResult, Found, Complete, Broken, Notified, queues
<1>8. CASE \E i \in Ids : LinkDown(i) \/ \E h \in Handles, p \in Peers : LinkUp(i, h, p)
  BY <1>8 DEF LinkDown, LinkUp, queues
<1>9. CASE UNCHANGED vars
  BY <1>9 DEF vars, queues
<1> QED BY <1>1, <1>2, <1>3, <1>4, <1>5, <1>6, <1>7, <1>8, <1>9, Steps

FnOf(op) == CASE op = "SWR" -> "stack_gatts_notify" [] op = "CWR" -> "stack_write_char"
              [] op = "C" -> "stack_discover_all"   [] op = "CRD" -> "stack_read_char"
              [] op = "CSUB" -> "stack_sub_char"

LEMMA FnOfOps ==
  ASSUME NEW op \in Ops
  PROVE  /\ FnOf(op) \in Funs
         /\ FnOf(op) = "stack_gatts_notify" => op = "SWR"
         /\ FnOf(op) = "stack_write_char" => op = "CWR"
         /\ FnOf(op) = "stack_sub_char" => op = "CSUB"
         /\ FnOf(op) = "stack_discover_all" => op = "C"
BY DEF Ops, FnOf, Funs

(* What the handler of a command does. *)
LEMMA HandleDoes ==
  ASSUME QueueTypes, LinkTypes, Handle
  PROVE  \E c \in AnyCmd :
           /\ msgs # <<>> /\ c = Head(msgs) /\ msgs' = Tail(msgs)
           /\ \/ UNCHANGED <<info, first_handler, runq>>
              \/ /\ c.id \in Live
                 /\ runq' = Append(runq, Run(FnOf(c.op), c, Length(c.val)))
                 /\ gatts_value_info' = IF c.op = "SWR" THEN Infos(gatts_value_info, c)
                                                        ELSE gatts_value_info
                 /\ write_char_info' =
                      CASE c.op = "CWR" -> Infos(write_char_info, c)
                        [] c.op = "CRD" -> [write_char_info EXCEPT ![c.id].vh = c.vh]
                        [] OTHER -> write_char_info
                 /\ first_handler' = IF c.op = "CSUB"
                      THEN [first_handler EXCEPT ![c.id] = WithConfig(@, c.vh, c.val)]
                      ELSE first_handler
<1> DEFINE c == Head(msgs)
<1>1. msgs # <<>> /\ msgs \in Seq(AnyCmd)
  BY DEF Handle, QueueTypes
<1>2. c \in AnyCmd
  BY <1>1, HeadTailProperties
<1>3. CASE c.id \notin Live
  BY <1>1, <1>2, <1>3 DEF Handle
<1>4. CASE c.id \in Live
  BY <1>1, <1>2, <1>4 DEF Handle, FnOf
<1> QED BY <1>3, <1>4

LEMMA RunTyped ==
  ASSUME LinkTypes, NEW c \in AnyCmd, c.id \in Live
  PROVE  /\ Run(FnOf(c.op), c, Length(c.val)) \in RunType
         /\ Run(FnOf(c.op), c, Length(c.val)).h = link[c.id].h
         /\ Run(FnOf(c.op), c, Length(c.val)).fn = FnOf(c.op)
         /\ Run(FnOf(c.op), c, Length(c.val)).n = Length(c.val)
         /\ Run(FnOf(c.op), c, Length(c.val)).cmd = c
<1>1. FnOf(c.op) \in Funs /\ c.val \in Texts /\ link[c.id].h \in Handles
  BY CmdFields, FnOfOps, LinkFields
<1>2. Length(c.val) \in {Length(v) : v \in Texts}
  BY <1>1
<1> QED BY <1>1, <1>2 DEF Run, RunType

LEMMA StepQueueTypes == LinkTypes /\ QueueTypes /\ [Next]_vars => QueueTypes'
<1> SUFFICES ASSUME LinkTypes, QueueTypes, [Next]_vars PROVE QueueTypes'
  OBVIOUS
<1>0. session' = session /\ session \in Sessions /\ msgs \in Seq(AnyCmd) /\ runq \in Seq(RunType)
  BY QueueKinds DEF QueueTypes
<1>1. CASE UNCHANGED queues
  BY <1>0, <1>1 DEF QueueTypes, queues
<1>2. ASSUME NEW c \in Cmds, msgs' = Append(msgs, c), runq' = runq PROVE QueueTypes'
  <2>1. c \in AnyCmd
    BY <1>0, CmdsTyped
  <2>2. msgs' \in Seq(AnyCmd)
    BY <1>0, <1>2, <2>1, AppendProperties
  <2> QED BY <1>0, <1>2, <2>2 DEF QueueTypes
<1>3. CASE Handle
  <2>1. PICK c \in AnyCmd :
          /\ msgs # <<>> /\ msgs' = Tail(msgs)
          /\ \/ runq' = runq
             \/ c.id \in Live /\ runq' = Append(runq, Run(FnOf(c.op), c, Length(c.val)))
    BY <1>3, HandleDoes
  <2>2. msgs' \in Seq(AnyCmd)
    BY <1>0, <2>1, HeadTailProperties
  <2>3. runq' \in Seq(RunType)
    BY <1>0, <2>1, RunTyped, AppendProperties
  <2> QED BY <1>0, <2>2, <2>3 DEF QueueTypes
<1>4. CASE runq # <<>> /\ runq' = Tail(runq) /\ msgs' = msgs
  <2>1. runq' \in Seq(RunType)
    BY <1>0, <1>4, HeadTailProperties
  <2> QED BY <1>0, <1>4, <2>1 DEF QueueTypes
<1> QED BY <1>1, <1>2, <1>3, <1>4, QueueKinds

(* The runnable that runs. *)
LEMMA HeadRun ==
  ASSUME QueueTypes, runq # <<>>
  PROVE  /\ Head(runq) \in RunType /\ Head(runq).cmd \in AnyCmd
         /\ Head(runq).fn \in Funs /\ Head(runq).h \in Handles
         /\ 1 \in DOMAIN runq /\ Head(runq) = runq[1]
<1>1. runq \in Seq(RunType)
  BY DEF QueueTypes
<1>2. Head(runq) \in RunType
  BY <1>1, HeadTailProperties
<1>3. Len(runq) \in Nat \ {0}
  BY <1>1, EmptySeq
<1>4. 1 \in DOMAIN runq /\ Head(runq) = runq[1]
  BY <1>1, <1>3
<1> QED BY <1>2, <1>4 DEF RunType

(* What a queue holds after a runnable or a message has been taken or added. *)
LEMMA TailIn ==
  ASSUME NEW S, NEW s \in Seq(S), s # <<>>, NEW k \in DOMAIN Tail(s)
  PROVE  k + 1 \in DOMAIN s /\ Tail(s)[k] = s[k + 1] /\ s[k + 1] \in S
<1>1. Tail(s) \in Seq(S) /\ Len(Tail(s)) = Len(s) - 1
      /\ \A i \in 1 .. Len(Tail(s)) : Tail(s)[i] = s[i + 1]
  BY HeadTailProperties
<1>2. k \in 1 .. Len(Tail(s)) /\ Len(s) \in Nat
  BY <1>1
<1> QED BY <1>1, <1>2

LEMMA AppendIn ==
  ASSUME NEW S, NEW s \in Seq(S), NEW e \in S, NEW k \in DOMAIN Append(s, e)
  PROVE  Append(s, e)[k] = e \/ (k \in DOMAIN s /\ Append(s, e)[k] = s[k])
BY AppendProperties

LEMMA StepCaptured ==
  LinkTypes /\ QueueTypes /\ Linked /\ Captured /\ [Next]_vars => Captured'
<1> SUFFICES ASSUME LinkTypes, QueueTypes, Linked, Captured, [Next]_vars PROVE Captured'
  OBVIOUS
<1>0. runq \in Seq(RunType)
  BY DEF QueueTypes
<1>1. CASE \E i \in Ids : LinkDown(i)
  <2>1. runq' = runq
    BY <1>1 DEF LinkDown, queues
  <2> QED BY <1>1, <2>1, DownLive DEF Captured
<1>2. CASE \E i \in Ids, h \in Handles, p \in Peers : LinkUp(i, h, p)
  <2>1. runq' = <<>>
    BY <1>2 DEF LinkUp, queues
  <2>2. DOMAIN <<>> = {}
    OBVIOUS
  <2> QED BY <2>1, <2>2 DEF Captured
<1>3. ASSUME UNCHANGED <<link, handle_2_id>> PROVE Captured'
  <2>0. Live' = Live /\ link' = link
    BY <1>3 DEF Live
  <2>1. CASE runq' = runq
    BY <2>0, <2>1 DEF Captured
  <2>2. CASE Handle
    <3>1. PICK c \in AnyCmd : runq' = runq \/ (c.id \in Live
                              /\ runq' = Append(runq, Run(FnOf(c.op), c, Length(c.val))))
      BY <2>2, HandleDoes
    <3>2. CASE c.id \in Live /\ runq' = Append(runq, Run(FnOf(c.op), c, Length(c.val)))
      <4> DEFINE r == Run(FnOf(c.op), c, Length(c.val))
      <4>1. r \in RunType /\ r.h = link[c.id].h /\ r.cmd = c
        BY <3>2, RunTyped
      <4>2. \A i \in Live : link[i].h = r.h => i = r.cmd.id
        BY <3>2, <4>1 DEF Linked
      <4> QED BY <1>0, <2>0, <3>2, <4>1, <4>2, AppendIn DEF Captured
    <3> QED BY <2>1, <3>1, <3>2
  <2>3. CASE runq # <<>> /\ runq' = Tail(runq)
    BY <1>0, <2>0, <2>3, TailIn DEF Captured
  <2> QED BY <2>1, <2>2, <2>3, QueueKinds DEF queues
<1> QED BY <1>1, <1>2, <1>3, LinkKinds

-----------------------------------------------------------------------------
(* What the host gave *)

LEMMA InfoKinds ==
  ASSUME [Next]_vars
  PROVE  \/ UNCHANGED info
         \/ write_char_info' = Lost(write_char_info) /\ gatts_value_info' = Lost(gatts_value_info)
         \/ Handle
<1>1. CASE \E c \in Cmds : Type(c)
  BY <1>1 DEF Type
<1>2. CASE stack_write_char \/ stack_gatts_notify
  BY <1>2 DEF stack_write_char, stack_gatts_notify, Sends
<1>3. CASE stack_read_char \/ stack_discover_all \/ stack_sub_char
  BY <1>3 DEF stack_read_char, stack_discover_all, stack_sub_char
<1>4. CASE \E h \in Handles : HostResult(h) \/ Found(h) \/ Complete(h) \/ Broken(h)
                              \/ \E vh \in Attrs : Notified(h, vh)
  BY <1>4 DEF HostResult, Found, Complete, Broken, Notified
<1>5. CASE \E i \in Ids : LinkDown(i) \/ \E h \in Handles, p \in Peers : LinkUp(i, h, p)
  BY <1>5 DEF LinkDown, LinkUp
<1>6. CASE UNCHANGED vars
  BY <1>6 DEF vars
<1> QED BY <1>1, <1>2, <1>3, <1>4, <1>5, <1>6, Steps

LEMMA LostTyped ==
  ASSUME NEW inf \in [Ids -> Info]
  PROVE  Lost(inf) \in [Ids -> Info]
<1>1. \A x \in Info : [x EXCEPT !.kept = FALSE] \in Info
  BY DEF Info
<1> QED BY <1>1 DEF Lost

LEMMA InfosTyped ==
  ASSUME NEW inf \in [Ids -> Info], NEW c \in AnyCmd, c.op \in {"SWR", "CWR"}
  PROVE  /\ Infos(inf, c) \in [Ids -> Info] /\ c.val \in Values
         /\ Infos(inf, c)[c.id].kept /\ Infos(inf, c)[c.id].data = c.val
         /\ Infos(inf, c)[c.id].vh = c.vh
<1>1. c.val \in Values /\ c.vh \in Attrs /\ c.id \in Ids
  BY CmdFields DEF Args
<1> DEFINE x == [vh |-> c.vh, data |-> c.val, kept |-> TRUE]
<1>2. x \in Info /\ x.vh = c.vh /\ x.data = c.val /\ x.kept
  BY <1>1 DEF Info
<1>3. Infos(inf, c) = [inf EXCEPT ![c.id] = x]
  BY DEF Infos
<1> HIDE DEF x
<1> QED BY <1>1, <1>2, <1>3

LEMMA NotedTyped ==
  ASSUME NEW inf \in [Ids -> Info], NEW c \in AnyCmd
  PROVE  [inf EXCEPT ![c.id].vh = c.vh] \in [Ids -> Info]
<1>1. \A x \in Info : [x EXCEPT !.vh = c.vh] \in Info
  BY CmdFields DEF Info
<1> QED BY <1>1, CmdFields

LEMMA StepInfoTypes == Types /\ [Next]_vars => InfoTypes'
<1> SUFFICES ASSUME Types, [Next]_vars PROVE InfoTypes'
  OBVIOUS
<1>0. write_char_info \in [Ids -> Info] /\ gatts_value_info \in [Ids -> Info]
  BY DEF Types, InfoTypes
<1>1. CASE UNCHANGED info
  BY <1>0, <1>1 DEF info, InfoTypes
<1>2. CASE write_char_info' = Lost(write_char_info) /\ gatts_value_info' = Lost(gatts_value_info)
  BY <1>0, <1>2, LostTyped DEF InfoTypes
<1>3. CASE Handle
  <2>1. PICK c \in AnyCmd :
          \/ UNCHANGED info
          \/ /\ gatts_value_info' = IF c.op = "SWR" THEN Infos(gatts_value_info, c)
                                                    ELSE gatts_value_info
             /\ write_char_info' =
                  CASE c.op = "CWR" -> Infos(write_char_info, c)
                    [] c.op = "CRD" -> [write_char_info EXCEPT ![c.id].vh = c.vh]
                    [] OTHER -> write_char_info
    BY <1>3, HandleDoes DEF Types
  <2>2. gatts_value_info' \in [Ids -> Info]
    BY <1>0, <2>1, InfosTyped DEF info
  <2>3. write_char_info' \in [Ids -> Info]
    BY <1>0, <2>1, InfosTyped, NotedTyped DEF info
  <2> QED BY <2>2, <2>3 DEF InfoTypes
<1> QED BY <1>1, <1>2, <1>3, InfoKinds

-----------------------------------------------------------------------------
(* Handlers *)

Distinct(hs) == \A j, k \in DOMAIN hs : hs[j].vh = hs[k].vh => j = k

LEMMA HandlerWith ==
  ASSUME NEW x \in Handler, NEW config \in Texts
  PROVE  /\ [x EXCEPT !.config = config] \in Handler
         /\ [x EXCEPT !.config = config].vh = x.vh
         /\ [x EXCEPT !.config = config].config = config
BY DEF Handler

LEMMA HandlerSet ==
  ASSUME NEW x \in Handler
  PROVE  /\ [x EXCEPT !.registered = TRUE] \in Handler
         /\ [x EXCEPT !.registered = TRUE].vh = x.vh
         /\ [x EXCEPT !.registered = TRUE].config = x.config
BY DEF Handler

LEMMA ConfigNoted ==
  ASSUME NEW hs \in Seq(Handler), NEW vh \in Attrs, NEW config \in Texts, Distinct(hs)
  PROVE  /\ WithConfig(hs, vh, config) \in Seq(Handler) /\ Distinct(WithConfig(hs, vh, config))
         /\ \A k \in DOMAIN WithConfig(hs, vh, config) :
              WithConfig(hs, vh, config)[k].vh = vh => WithConfig(hs, vh, config)[k].config = config
<1> DEFINE new == WithConfig(hs, vh, config)
<1>0. Len(hs) \in Nat /\ DOMAIN hs = 1 .. Len(hs) /\ \A k \in DOMAIN hs : hs[k] \in Handler
  OBVIOUS
<1>1. CASE \E k \in DOMAIN hs : hs[k].vh = vh
  <2>1. new = [k \in DOMAIN hs |-> IF hs[k].vh = vh THEN [hs[k] EXCEPT !.config = config] ELSE hs[k]]
    BY <1>1 DEF WithConfig
  <2>2. \A k \in DOMAIN hs : new[k] \in Handler /\ new[k].vh = hs[k].vh
                             /\ (hs[k].vh = vh => new[k].config = config)
    <3> SUFFICES ASSUME NEW k \in DOMAIN hs
                 PROVE  new[k] \in Handler /\ new[k].vh = hs[k].vh
                        /\ (hs[k].vh = vh => new[k].config = config)
      OBVIOUS
    <3>1. new[k] = IF hs[k].vh = vh THEN [hs[k] EXCEPT !.config = config] ELSE hs[k]
      BY <2>1
    <3>2. hs[k] \in Handler
      BY <1>0
    <3> HIDE DEF new
    <3>3. CASE hs[k].vh = vh
      <4> DEFINE x == [hs[k] EXCEPT !.config = config]
      <4>1. x \in Handler /\ x.vh = hs[k].vh /\ x.config = config
        BY <3>2, HandlerWith, Zenon
      <4>2. new[k] = x
        BY <3>1, <3>3
      <4> HIDE DEF x
      <4> QED BY <4>1, <4>2
    <3>4. CASE hs[k].vh # vh
      BY <3>1, <3>2, <3>4
    <3> QED BY <3>3, <3>4
  <2>3. DOMAIN new = 1 .. Len(hs)
    BY <1>0, <2>1
  <2>4. new \in [1 .. Len(hs) -> Handler]
    BY <1>0, <2>1, <2>2
  <2>5. new \in Seq(Handler)
    BY <1>0, <2>4, IsASeq
  <2> HIDE DEF new
  <2>6. Distinct(new) /\ \A k \in DOMAIN new : new[k].vh = vh => new[k].config = config
    BY <1>0, <2>2, <2>3 DEF Distinct
  <2> QED BY <2>5, <2>6 DEF new
<1>2. CASE ~ \E k \in DOMAIN hs : hs[k].vh = vh
  <2> DEFINE x == [vh |-> vh, config |-> config, registered |-> FALSE]
             s == <<x>>
  <2>1. x \in Handler /\ x.vh = vh /\ x.config = config
    BY DEF Handler
  <2>2. new = s \o hs
    BY <1>2 DEF WithConfig
  <2> HIDE DEF x, new
  <2>3. s \in Seq(Handler) /\ Len(s) = 1 /\ s[1] = x
    BY <2>1
  <2> HIDE DEF s
  <2>4. /\ new \in Seq(Handler) /\ Len(new) = 1 + Len(hs)
        /\ \A i \in 1 .. 1 + Len(hs) : new[i] = IF i <= 1 THEN s[i] ELSE hs[i - 1]
    <3>1. /\ s \o hs \in Seq(Handler) /\ Len(s \o hs) = Len(s) + Len(hs)
          /\ \A i \in 1 .. Len(s) + Len(hs) :
               (s \o hs)[i] = IF i <= Len(s) THEN s[i] ELSE hs[i - Len(s)]
      BY <2>3, ConcatProperties
    <3> QED BY <2>2, <2>3, <3>1
  <2>5. DOMAIN new = 1 .. 1 + Len(hs)
    BY <2>4, <1>0
  <2>6. \A i \in DOMAIN new : \/ i = 1 /\ new[i] = x
                              \/ i # 1 /\ i - 1 \in DOMAIN hs /\ new[i] = hs[i - 1]
    BY <1>0, <2>3, <2>4, <2>5
  <2>7. \A k \in DOMAIN new : new[k].vh = vh => new[k].config = config
    BY <1>2, <2>1, <2>6
  <2>8. ASSUME NEW j \in DOMAIN new, NEW k \in DOMAIN new, new[j].vh = new[k].vh PROVE j = k
    <3>0. j \in Nat /\ k \in Nat
      BY <1>0, <2>5
    <3>1. CASE j = 1
      BY <1>2, <2>1, <2>6, <2>8, <3>1
    <3>2. CASE k = 1
      BY <1>2, <2>1, <2>6, <2>8, <3>2
    <3>3. CASE j # 1 /\ k # 1
      <4>1. j - 1 \in DOMAIN hs /\ k - 1 \in DOMAIN hs /\ hs[j - 1].vh = hs[k - 1].vh
        BY <2>6, <2>8, <3>3
      <4>2. j - 1 = k - 1
        BY <4>1 DEF Distinct
      <4> QED BY <3>0, <4>2
    <3> QED BY <3>1, <3>2, <3>3
  <2>9. Distinct(new)
    BY <2>8 DEF Distinct
  <2> QED BY <2>4, <2>7, <2>9 DEF new
<1> QED BY <1>1, <1>2

(* The search of the runnable. *)
LEMMA Searched ==
  ASSUME NEW hs \in Seq(Handler), NEW vh, Distinct(hs)
  PROVE  LET k == SelectInSeq(hs, LAMBDA x : Wanted(x, vh))
         IN  k = 0 \/ (k \in DOMAIN hs /\ hs[k].vh = vh)
<1> DEFINE I == {i \in 1 .. Len(hs) : Wanted(hs[i], vh)}
<1>0. Len(hs) \in Nat /\ DOMAIN hs = 1 .. Len(hs)
  OBVIOUS
<1>1. CASE I = {}
  <2>1. SelectInSeq(hs, LAMBDA x : Wanted(x, vh)) = 0
    BY <1>1 DEF SelectInSeq
  <2> QED BY <2>1
<1>2. CASE I # {}
  <2>1. PICK k \in I : TRUE
    BY <1>2
  <2>2. I = {k}
    BY <1>0, <2>1 DEF Distinct, Wanted
  <2>3. k \in Nat
    BY <1>0, <2>1
  <2>4. Min(I) = k
    BY <2>2, <2>3 DEF Min
  <2>5. SelectInSeq(hs, LAMBDA x : Wanted(x, vh)) = k
    BY <1>2, <2>4 DEF SelectInSeq
  <2>6. k \in DOMAIN hs /\ hs[k].vh = vh
    BY <1>0, <2>1 DEF Wanted
  <2> QED BY <2>5, <2>6
<1> QED BY <1>1, <1>2

RegisteredAt(hs, k) == [hs EXCEPT ![k].registered = TRUE]

LEMMA RegisteredOne ==
  ASSUME NEW hs \in Seq(Handler), NEW k \in DOMAIN hs, Distinct(hs)
  PROVE  /\ RegisteredAt(hs, k) \in Seq(Handler) /\ Distinct(RegisteredAt(hs, k))
         /\ DOMAIN RegisteredAt(hs, k) = DOMAIN hs
         /\ \A j \in DOMAIN hs : /\ RegisteredAt(hs, k)[j].vh = hs[j].vh
                                 /\ RegisteredAt(hs, k)[j].config = hs[j].config
<1> DEFINE x == [hs[k] EXCEPT !.registered = TRUE]
           new == [hs EXCEPT ![k] = x]
<1>0. Len(hs) \in Nat /\ DOMAIN hs = 1 .. Len(hs) /\ \A j \in DOMAIN hs : hs[j] \in Handler
  OBVIOUS
<1>1. x \in Handler /\ x.vh = hs[k].vh /\ x.config = hs[k].config
  BY <1>0, HandlerSet, Zenon
<1>2. RegisteredAt(hs, k) = new
  BY DEF RegisteredAt
<1> HIDE DEF x
<1>3. new \in Seq(Handler) /\ Len(new) = Len(hs)
  BY <1>0, <1>1, ExceptSeq
<1>4. DOMAIN new = DOMAIN hs
  OBVIOUS
<1>5. \A j \in DOMAIN hs : new[j].vh = hs[j].vh /\ new[j].config = hs[j].config
  BY <1>1
<1> HIDE DEF new
<1>6. Distinct(new)
  BY <1>4, <1>5 DEF Distinct
<1> QED BY <1>2, <1>3, <1>4, <1>5, <1>6

LEMMA HandlersOf ==
  ASSUME Handlers, NEW i \in Ids
  PROVE  /\ first_handler[i] \in Seq(Handler) /\ Distinct(first_handler[i])
         /\ first_handler[i] # <<>> => i \in Live
BY DEF Handlers, Distinct

(* What the runnable of AT+BLEGATTCSUB does, once it has found the handler. *)
Subscribes(i, k) ==
  LET r == Head(runq) IN
  /\ i = r.cmd.id /\ i \in Live /\ k \in DOMAIN first_handler[i]
  /\ first_handler[i][k].vh = r.cmd.vh
  /\ first_handler' = [first_handler EXCEPT ![i] = RegisteredAt(@, k)]
  /\ \/ UNCHANGED query /\ said' = Quiet
     \/ /\ link[i].h \in Ready /\ query' = Query(link[i].h, "sub", r.cmd.vh, r.cmd)
        /\ said' = [Quiet EXCEPT !.what = "config", !.id = i, !.vh = r.cmd.vh,
                                 !.val = first_handler[i][k].config, !.cmd = r.cmd]

LEMMA SubDoes ==
  ASSUME QueueTypes, Handlers, stack_sub_char
  PROVE  /\ runq # <<>> /\ Head(runq).fn = "stack_sub_char"
         /\ \/ UNCHANGED <<first_handler, query>> /\ said' = Quiet
            \/ \E i \in Ids : \E k \in DOMAIN first_handler[i] : Subscribes(i, k)
<1> DEFINE r == Head(runq)
           i == r.cmd.id
           k == SelectInSeq(first_handler[i], LAMBDA x : Wanted(x, r.cmd.vh))
<1>1. runq # <<>> /\ Head(runq).fn = "stack_sub_char"
  BY DEF stack_sub_char, Runs
<1>2. i \in Ids
  BY <1>1, HeadRun, CmdFields
<1>3. k = 0 \/ (k \in DOMAIN first_handler[i] /\ first_handler[i][k].vh = r.cmd.vh)
  BY <1>2, HandlersOf, Searched
<1>4. CASE k = 0
  BY <1>1, <1>4 DEF stack_sub_char, lists
<1>5. CASE k # 0
  <2>1. /\ first_handler' = [first_handler EXCEPT ![i][k].registered = TRUE]
        /\ \/ UNCHANGED query /\ said' = Quiet
           \/ /\ link[i].h \in Ready /\ query' = Query(link[i].h, "sub", r.cmd.vh, r.cmd)
              /\ said' = [Quiet EXCEPT !.what = "config", !.id = i, !.vh = r.cmd.vh,
                                       !.val = first_handler[i][k].config, !.cmd = r.cmd]
    BY <1>5 DEF stack_sub_char
  <2>2. k \in DOMAIN first_handler[i] /\ first_handler[i][k].vh = r.cmd.vh
    BY <1>3, <1>5
  <2> HIDE DEF k
  <2>3. first_handler' = [first_handler EXCEPT ![i] = RegisteredAt(@, k)]
    BY <2>1 DEF RegisteredAt
  <2>4. first_handler[i] # <<>>
    <3>1. DOMAIN <<>> = {}
      OBVIOUS
    <3> QED BY <2>2, <3>1
  <2>5. i \in Live
    BY <1>2, <2>4, HandlersOf
  <2>6. Subscribes(i, k)
    BY <2>1, <2>2, <2>3, <2>5 DEF Subscribes
  <2> QED BY <1>1, <1>2, <2>2, <2>6
<1> QED BY <1>4, <1>5

LEMMA HandlerKinds ==
  ASSUME LinkTypes, QueueTypes, Handlers, [Next]_vars
  PROVE  \/ first_handler' = first_handler /\ Live \subseteq Live'
         \/ \E i \in Ids : LinkDown(i)
         \/ /\ Live' = Live
            /\ \E i \in Live, vh \in Attrs, config \in Texts :
                 first_handler' = [first_handler EXCEPT ![i] = WithConfig(@, vh, config)]
         \/ /\ Live' = Live
            /\ \E i \in Live : \E k \in DOMAIN first_handler[i] : Subscribes(i, k)
<1>1. CASE \E c \in Cmds : Type(c)
  BY <1>1 DEF Type, lists, Live
<1>2. CASE Handle
  <2>1. PICK c \in AnyCmd :
          \/ first_handler' = first_handler
          \/ /\ c.id \in Live
             /\ first_handler' = IF c.op = "CSUB"
                  THEN [first_handler EXCEPT ![c.id] = WithConfig(@, c.vh, c.val)]
                  ELSE first_handler
    BY <1>2, HandleDoes
  <2>2. Live' = Live
    BY <1>2 DEF Handle, Live
  <2> QED BY <2>1, <2>2, CmdFields
<1>3. CASE stack_write_char \/ stack_gatts_notify
  BY <1>3 DEF stack_write_char, stack_gatts_notify, Sends, lists, Live
<1>4. CASE stack_read_char \/ stack_discover_all
  BY <1>4 DEF stack_read_char, stack_discover_all, lists, Live
<1>5. CASE stack_sub_char
  <2>1. Live' = Live
    BY <1>5 DEF stack_sub_char, Live
  <2> QED BY <1>5, <2>1, SubDoes DEF Subscribes
<1>6. CASE \E h \in Handles : HostResult(h) \/ Found(h) \/ Complete(h) \/ Broken(h)
                              \/ \E vh \in Attrs : Notified(h, vh)
  BY <1>6 DEF HostResult, Found, Complete, Broken, Notified, lists, Live
<1>7. CASE \E i \in Ids, h \in Handles, p \in Peers : LinkUp(i, h, p)
  <2>1. first_handler' = first_handler
    BY <1>7 DEF LinkUp, lists
  <2> QED BY <1>7, <2>1, UpLive
<1>8. CASE UNCHANGED vars
  BY <1>8 DEF vars, lists, Live
<1> QED BY <1>1, <1>2, <1>3, <1>4, <1>5, <1>6, <1>7, <1>8, Steps

LEMMA StepHandlers == LinkTypes /\ QueueTypes /\ Handlers /\ [Next]_vars => Handlers'
<1> SUFFICES ASSUME LinkTypes, QueueTypes, Handlers, [Next]_vars PROVE Handlers'
  OBVIOUS
<1>0. first_handler \in [Ids -> Seq(Handler)]
  BY DEF Handlers
<1>1. CASE first_handler' = first_handler /\ Live \subseteq Live'
  BY <1>1 DEF Handlers
<1>2. ASSUME NEW i \in Ids, LinkDown(i) PROVE Handlers'
  <2>1. first_handler' = [first_handler EXCEPT ![i] = <<>>]
    BY <1>2 DEF LinkDown, Freed
  <2>2. Live' = Live \ {i}
    BY <1>2, DownLive
  <2>3. <<>> \in Seq(Handler) /\ DOMAIN <<>> = {}
    OBVIOUS
  <2> DEFINE e == <<>>
  <2>4. e \in Seq(Handler) /\ DOMAIN e = {}
    BY <2>3
  <2> HIDE DEF e
  <2>5. first_handler' = [first_handler EXCEPT ![i] = e]
    BY <2>1 DEF e
  <2>6. first_handler' \in [Ids -> Seq(Handler)]
    BY <1>0, <2>4, <2>5
  <2>7. first_handler'[i] = e /\ \A j \in Ids \ {i} : first_handler'[j] = first_handler[j]
    BY <1>0, <2>5
  <2> QED BY <2>2, <2>4, <2>6, <2>7 DEF Handlers, e
<1>3. ASSUME NEW i \in Live, NEW new, Live' = Live,
             new \in Seq(Handler), Distinct(new), first_handler' = [first_handler EXCEPT ![i] = new]
      PROVE  Handlers'
  <2>1. i \in Ids
    BY DEF Live
  <2>2. first_handler' \in [Ids -> Seq(Handler)]
    BY <1>0, <1>3, <2>1
  <2>3. first_handler'[i] = new /\ \A j \in Ids \ {i} : first_handler'[j] = first_handler[j]
    BY <1>0, <1>3, <2>1
  <2> QED BY <1>3, <2>2, <2>3 DEF Handlers, Distinct
<1>4. ASSUME Live' = Live, NEW i \in Live, NEW vh \in Attrs, NEW config \in Texts,
             first_handler' = [first_handler EXCEPT ![i] = WithConfig(@, vh, config)]
      PROVE  Handlers'
  <2> DEFINE new == WithConfig(first_handler[i], vh, config)
  <2>1. i \in Ids
    BY DEF Live
  <2>2. new \in Seq(Handler) /\ Distinct(new)
    BY <2>1, HandlersOf, ConfigNoted
  <2>3. first_handler' = [first_handler EXCEPT ![i] = new]
    BY <1>4
  <2> HIDE DEF new
  <2> QED BY <1>3, <1>4, <2>2, <2>3
<1>5. ASSUME Live' = Live, NEW i \in Live, NEW k \in DOMAIN first_handler[i], Subscribes(i, k)
      PROVE  Handlers'
  <2> DEFINE new == RegisteredAt(first_handler[i], k)
  <2>1. i \in Ids
    BY DEF Live
  <2>2. new \in Seq(Handler) /\ Distinct(new)
    BY <2>1, HandlersOf, RegisteredOne
  <2>3. first_handler' = [first_handler EXCEPT ![i] = new]
    BY <1>5 DEF Subscribes
  <2> HIDE DEF new
  <2> QED BY <1>3, <1>5, <2>2, <2>3
<1> QED BY <1>1, <1>2, <1>4, <1>5, HandlerKinds

-----------------------------------------------------------------------------
(* Queries *)

LEMMA QueryMade ==
  ASSUME NEW kind \in HostKinds \cup DiscoveryKinds, NEW arg \in Nat,
         NEW c \in AnyCmd \cup {NoCmd}
  PROVE  LET q == [kind |-> kind, arg |-> arg, found |-> FALSE, cmd |-> c]
         IN  q \in AnyQuery /\ q.kind = kind /\ q.arg = arg /\ q.found = FALSE /\ q.cmd = c
             /\ q # NoQuery
BY DEF AnyQuery, NoQuery, HostKinds, DiscoveryKinds

LEMMA NoQueryIs ==
  NoQuery \in AnyQuery /\ NoQuery.kind = "none"
BY DEF NoQuery, AnyQuery

LEMMA KindsApart ==
  ASSUME NEW q \in AnyQuery
  PROVE  /\ q.kind \in HostKinds \/ q.kind \in DiscoveryKinds \/ q.kind = "none"
         /\ ~(q.kind \in HostKinds /\ q.kind \in DiscoveryKinds)
         /\ q.kind = "none" => q.kind \notin HostKinds /\ q.kind \notin DiscoveryKinds
         /\ q.kind = "all" => q.kind \in HostKinds
         /\ q.kind \in {"svc", "char", "desc", "ccc"} <=> q.kind \in DiscoveryKinds
         /\ q.cmd \in AnyCmd \cup {NoCmd}
BY DEF AnyQuery, HostKinds, DiscoveryKinds

(* A runnable has asked the stack for something. *)
Asked(h, kind, arg) ==
  /\ query[h] = NoQuery /\ runq # <<>> /\ runq' = Tail(runq) /\ msgs' = msgs
  /\ UNCHANGED <<link, handle_2_id>>
  /\ query' = Query(h, kind, arg, Head(runq).cmd)
  /\ \E i \in Live : link[i].h = h
  /\ \A i \in Live : link[i].h = h => i = Head(runq).cmd.id

AskAny == \E h \in Handles : \E kind \in HostKinds : \E arg \in Nat : Asked(h, kind, arg)

LEMMA ReadAsks ==
  ASSUME QueueTypes, Captured, stack_read_char
  PROVE  UNCHANGED <<query, link, handle_2_id>> \/ AskAny
<1> DEFINE r == Head(runq)
<1>0. /\ runq # <<>> /\ runq' = Tail(runq) /\ msgs' = msgs /\ UNCHANGED <<link, handle_2_id>>
  BY DEF stack_read_char, Runs
<1>1. r.h \in Handles /\ r.cmd.vh \in Nat /\ 1 \in DOMAIN runq /\ r = runq[1]
  BY <1>0, HeadRun, CmdFields, Constants0
<1>2. CASE r.h \in Ready /\ \E i \in Live : link[i].h = r.h
  <2>1. query' = Query(r.h, "read", r.cmd.vh, r.cmd)
    BY <1>2 DEF stack_read_char
  <2>2. Asked(r.h, "read", r.cmd.vh)
    BY <1>0, <1>1, <1>2, <2>1 DEF Asked, Ready, Captured
  <2> QED BY <1>1, <2>2 DEF AskAny, HostKinds
<1>3. CASE ~(r.h \in Ready /\ \E i \in Live : link[i].h = r.h)
  BY <1>0, <1>3 DEF stack_read_char
<1> QED BY <1>2, <1>3

LEMMA DiscoverAsks ==
  ASSUME QueueTypes, DiscTypes, Captured, stack_discover_all
  PROVE  LET r == Head(runq)
             d == 1 + Cardinality(discoverers) IN
         /\ r.cmd.id \in Ids /\ d \in Nat /\ d # 0 /\ runq # <<>> /\ r.fn = "stack_discover_all"
         /\ \/ /\ UNCHANGED <<query, link, handle_2_id, discoverers>>
               /\ discoverer' = [discoverer EXCEPT ![r.cmd.id] = 0]
            \/ /\ \E h \in Handles : Asked(h, "all", d)
               /\ discoverer' = [discoverer EXCEPT ![r.cmd.id] = d]
               /\ discoverers' = discoverers \cup {d}
<1> DEFINE r == Head(runq)
           d == 1 + Cardinality(discoverers)
<1>0. /\ runq # <<>> /\ runq' = Tail(runq) /\ msgs' = msgs /\ UNCHANGED <<link, handle_2_id>>
      /\ r.fn = "stack_discover_all"
  BY DEF stack_discover_all, Runs
<1>1. r.h \in Handles /\ r.cmd.id \in Ids /\ 1 \in DOMAIN runq /\ r = runq[1]
  BY <1>0, HeadRun, CmdFields
<1>2. Cardinality(discoverers) \in Nat
  BY FS_CardinalityType DEF DiscTypes
<1>3. d \in Nat /\ d # 0
  BY <1>2
<1>4. CASE r.h \in Ready /\ \E i \in Live : link[i].h = r.h
  <2>1. /\ query' = Query(r.h, "all", d, r.cmd)
        /\ discoverer' = [discoverer EXCEPT ![r.cmd.id] = d]
        /\ discoverers' = discoverers \cup {d}
    BY <1>4 DEF stack_discover_all
  <2> HIDE DEF d
  <2>2. Asked(r.h, "all", d)
    BY <1>0, <1>1, <1>4, <2>1 DEF Asked, Ready, Captured
  <2> QED BY <1>0, <1>1, <1>3, <2>1, <2>2 DEF d
<1>5. CASE ~(r.h \in Ready /\ \E i \in Live : link[i].h = r.h)
  <2>1. /\ UNCHANGED <<query, discoverers>>
        /\ discoverer' = [discoverer EXCEPT ![r.cmd.id] = 0]
    BY <1>5 DEF stack_discover_all
  <2> QED BY <1>0, <1>1, <1>3, <2>1
<1> QED BY <1>4, <1>5

LEMMA SubAsks ==
  ASSUME LinkTypes, QueueTypes, Handlers, Linked, stack_sub_char
  PROVE  UNCHANGED <<query, link, handle_2_id>> \/ AskAny
<1>0. /\ runq # <<>> /\ runq' = Tail(runq) /\ msgs' = msgs /\ UNCHANGED <<link, handle_2_id>>
  BY DEF stack_sub_char, Runs
<1>1. Head(runq).cmd.vh \in Nat
  BY <1>0, HeadRun, CmdFields, Constants0
<1>2. ASSUME NEW i \in Ids, NEW k \in DOMAIN first_handler[i], Subscribes(i, k), query' # query
      PROVE  AskAny
  <2>1. /\ i \in Live /\ i = Head(runq).cmd.id /\ query[link[i].h] = NoQuery
        /\ query' = Query(link[i].h, "sub", Head(runq).cmd.vh, Head(runq).cmd)
    BY <1>2 DEF Subscribes, Ready
  <2>2. link[i].h \in Handles
    BY <2>1, LinkFields
  <2>3. Asked(link[i].h, "sub", Head(runq).cmd.vh)
    BY <1>0, <2>1 DEF Asked, Linked
  <2> QED BY <1>1, <2>2, <2>3 DEF AskAny, HostKinds
<1> QED BY <1>0, <1>2, SubDoes

LEMMA QueryKinds ==
  ASSUME Types, Linked, Handlers, Captured, [Next]_vars
  PROVE  \/ UNCHANGED <<query, link, handle_2_id>>
         \/ AskAny
         \/ \E h \in Handles : HostResult(h)
         \/ \E h \in Handles : Found(h)
         \/ \E h \in Handles : Complete(h)
         \/ \E h \in Handles : Broken(h)
         \/ \E i \in Ids : LinkDown(i)
         \/ \E i \in Ids, h \in Handles, p \in Peers : LinkUp(i, h, p)
<1>1. CASE (\E c \in Cmds : Type(c)) \/ Handle
  BY <1>1 DEF Type, Handle
<1>2. CASE stack_write_char \/ stack_gatts_notify
  BY <1>2 DEF stack_write_char, stack_gatts_notify, Sends
<1>3. CASE stack_read_char
  BY <1>3, ReadAsks DEF Types
<1>4. CASE stack_discover_all
  BY <1>4, DiscoverAsks DEF Types, AskAny, HostKinds
<1>5. CASE stack_sub_char
  BY <1>5, SubAsks DEF Types
<1>6. CASE \E h \in Handles, vh \in Attrs : Notified(h, vh)
  BY <1>6 DEF Notified
<1>7. CASE UNCHANGED vars
  BY <1>7 DEF vars
<1> QED BY <1>1, <1>2, <1>3, <1>4, <1>5, <1>6, <1>7, Steps

(* What follows a query of the discovery. *)
LEMMA CompleteDoes ==
  ASSUME DiscTypes, NEW h \in Handles, Complete(h)
  PROVE  \E q \in AnyQuery :
           /\ query' = [query EXCEPT ![h] = q] /\ UNCHANGED <<link, handle_2_id>>
           /\ query[h].kind \in DiscoveryKinds /\ (q = NoQuery \/ q.kind \in DiscoveryKinds)
           /\ (Result(h) => query[h].found)
           /\ \/ query[h].kind = "ccc" /\ q = NoQuery
              \/ /\ q.found = FALSE /\ q.kind \in DiscoveryKinds /\ q # NoQuery
                 /\ \/ query[h].kind = "svc"  /\ q.kind = "char" /\ q.arg = slave.svc
                    \/ query[h].kind = "char" /\ q.kind = "desc" /\ q.arg = slave.out
                    \/ query[h].kind = "desc" /\ q.kind = "ccc"  /\ q.arg = slave.ccc
<1>0. /\ slave.svc \in Nat /\ slave.out \in Nat /\ slave.ccc \in Nat
  BY DEF DiscTypes
<1>1. /\ UNCHANGED <<link, handle_2_id>> /\ query[h].kind \in DiscoveryKinds
      /\ (Result(h) => query[h].found)
  BY DEF Complete, DiscoveryKinds
<1> DEFINE Then(kind, arg) == [kind |-> kind, arg |-> arg, found |-> FALSE, cmd |-> NoCmd]
<1>2. CASE query[h].kind = "svc"
  <2>1. query' = [query EXCEPT ![h] = Then("char", slave.svc)]
    BY <1>2 DEF Complete, NoQuery
  <2>2. /\ Then("char", slave.svc) \in AnyQuery /\ Then("char", slave.svc).kind = "char"
        /\ Then("char", slave.svc).arg = slave.svc /\ Then("char", slave.svc).found = FALSE
        /\ Then("char", slave.svc) # NoQuery
    BY <1>0, QueryMade DEF DiscoveryKinds
  <2> HIDE DEF Then
  <2> QED BY <1>1, <1>2, <2>1, <2>2 DEF DiscoveryKinds
<1>3. CASE query[h].kind = "char"
  <2>1. query' = [query EXCEPT ![h] = Then("desc", slave.out)]
    BY <1>3 DEF Complete, AfterChars
  <2>2. /\ Then("desc", slave.out) \in AnyQuery /\ Then("desc", slave.out).kind = "desc"
        /\ Then("desc", slave.out).arg = slave.out /\ Then("desc", slave.out).found = FALSE
        /\ Then("desc", slave.out) # NoQuery
    BY <1>0, QueryMade DEF DiscoveryKinds
  <2> HIDE DEF Then
  <2> QED BY <1>1, <1>3, <2>1, <2>2 DEF DiscoveryKinds
<1>4. CASE query[h].kind = "desc"
  <2>1. query' = [query EXCEPT ![h] = Then("ccc", slave.ccc)]
    BY <1>4 DEF Complete, NoQuery
  <2>2. /\ Then("ccc", slave.ccc) \in AnyQuery /\ Then("ccc", slave.ccc).kind = "ccc"
        /\ Then("ccc", slave.ccc).arg = slave.ccc /\ Then("ccc", slave.ccc).found = FALSE
        /\ Then("ccc", slave.ccc) # NoQuery
    BY <1>0, QueryMade DEF DiscoveryKinds
  <2> HIDE DEF Then
  <2> QED BY <1>1, <1>4, <2>1, <2>2 DEF DiscoveryKinds
<1>5. CASE query[h].kind = "ccc"
  <2>1. query' = [query EXCEPT ![h] = NoQuery]
    BY <1>5 DEF Complete
  <2> QED BY <1>1, <1>5, <2>1, NoQueryIs
<1> QED BY <1>1, <1>2, <1>3, <1>4, <1>5 DEF DiscoveryKinds

LEMMA FoundDoes ==
  ASSUME QueryTypes, NEW h \in Handles, Found(h)
  PROVE  \E q \in AnyQuery :
           /\ query' = [query EXCEPT ![h] = q] /\ UNCHANGED <<link, handle_2_id>>
           /\ q.kind = query[h].kind /\ q.arg = query[h].arg /\ q.cmd = query[h].cmd /\ q.found
           /\ query[h].kind \in {"svc", "char", "desc"} /\ Result(h)
           /\ slave' = Taken(query[h].kind, Has(h))
<1> DEFINE q == [query[h] EXCEPT !.found = TRUE]
<1>1. query[h] \in AnyQuery
  BY DEF QueryTypes
<1>2. \A x \in AnyQuery : LET y == [x EXCEPT !.found = TRUE]
                          IN  y \in AnyQuery /\ y.kind = x.kind /\ y.arg = x.arg /\ y.cmd = x.cmd
                              /\ y.found
  BY DEF AnyQuery
<1>3. q \in AnyQuery /\ q.kind = query[h].kind /\ q.arg = query[h].arg /\ q.cmd = query[h].cmd
      /\ q.found
  BY <1>1, <1>2, Zenon
<1>4. /\ query' = [query EXCEPT ![h].found = TRUE] /\ UNCHANGED <<link, handle_2_id>>
      /\ Result(h) /\ slave' = Taken(query[h].kind, Has(h))
  BY DEF Found
<1>5. query' = [query EXCEPT ![h] = q]
  BY <1>4
<1>6. query[h].kind \in {"svc", "char", "desc"}
  BY <1>4 DEF Result
<1> HIDE DEF q
<1> QED BY <1>3, <1>4, <1>5, <1>6

LEMMA DumpDoes ==
  ASSUME NEW h \in Handles, Finish(h)
  PROVE  \/ query[h].kind # "all" /\ UNCHANGED disc
            /\ said' = [Quiet EXCEPT !.what = "result", !.id = handle_2_id[h],
                                     !.cmd = query[h].cmd]
         \/ /\ query[h].kind = "all"
            /\ discoverer' = [discoverer EXCEPT ![query[h].cmd.id] = 0]
            /\ discoverers' = discoverers \ {discoverer[query[h].cmd.id]}
            /\ said' = [Quiet EXCEPT !.what = "freed", !.id = query[h].cmd.id,
                                     !.vh = discoverer[query[h].cmd.id], !.cmd = query[h].cmd]
BY DEF Finish, Dump, Report, Released

(* The discoverers, step by step. *)
LEMMA DiscKinds ==
  ASSUME [Next]_vars
  PROVE  \/ UNCHANGED disc
         \/ stack_discover_all
         \/ \E h \in Handles : HostResult(h) /\ Finish(h)
         \/ \E i \in Ids : LinkDown(i) /\ query[link[i].h].kind \in HostKinds
                           /\ Finish(link[i].h)
<1>1. CASE (\E c \in Cmds : Type(c)) \/ Handle
  BY <1>1 DEF Type, Handle
<1>2. CASE stack_write_char \/ stack_gatts_notify
  BY <1>2 DEF stack_write_char, stack_gatts_notify, Sends
<1>3. CASE stack_read_char \/ stack_sub_char
  BY <1>3 DEF stack_read_char, stack_sub_char
<1>4. CASE \E h \in Handles : HostResult(h)
  BY <1>4 DEF HostResult
<1>5. CASE \E h \in Handles : Found(h) \/ Complete(h) \/ Broken(h)
                              \/ \E vh \in Attrs : Notified(h, vh)
  BY <1>5 DEF Found, Complete, Broken, Notified
<1>6. CASE \E i \in Ids : LinkDown(i)
  BY <1>6 DEF LinkDown
<1>7. CASE \E i \in Ids, h \in Handles, p \in Peers : LinkUp(i, h, p)
  BY <1>7 DEF LinkUp
<1>8. CASE UNCHANGED vars
  BY <1>8 DEF vars
<1> QED BY <1>1, <1>2, <1>3, <1>4, <1>5, <1>6, <1>7, <1>8, Steps

LEMMA SlaveKinds ==
  ASSUME [Next]_vars
  PROVE  slave' = slave \/ \E h \in Handles : Found(h)
<1>1. CASE (\E c \in Cmds : Type(c)) \/ Handle
  BY <1>1 DEF Type, Handle
<1>2. CASE stack_write_char \/ stack_gatts_notify
  BY <1>2 DEF stack_write_char, stack_gatts_notify, Sends
<1>3. CASE stack_read_char \/ stack_discover_all \/ stack_sub_char
  BY <1>3 DEF stack_read_char, stack_discover_all, stack_sub_char
<1>4. CASE \E h \in Handles : HostResult(h) \/ Complete(h) \/ Broken(h)
                              \/ \E vh \in Attrs : Notified(h, vh)
  BY <1>4 DEF HostResult, Complete, Broken, Notified
<1>5. CASE \E i \in Ids : LinkDown(i) \/ \E h \in Handles, p \in Peers : LinkUp(i, h, p)
  BY <1>5 DEF LinkDown, LinkUp
<1>6. CASE UNCHANGED vars
  BY <1>6 DEF vars
<1> QED BY <1>1, <1>2, <1>3, <1>4, <1>5, <1>6, Steps

(* The host's query names its id. *)
LEMMA QueryIs ==
  ASSUME QueryTypes, Queried, NEW h \in Handles
  PROVE  /\ query[h] \in AnyQuery
         /\ query[h].kind \in HostKinds => query[h].cmd.id \in Ids
<1>1. query[h] \in AnyQuery
  BY DEF QueryTypes
<1> QED BY <1>1, CmdFields DEF Queried

LEMMA HasOf ==
  ASSUME LinkTypes, Linked, NEW i \in Live
  PROVE  Has(link[i].h) = Layout(link[i].peer)
<1> DEFINE C == CHOOSE l \in {link[k] : k \in Live} : l.h = link[i].h
<1>1. C \in {link[k] : k \in Live} /\ C.h = link[i].h
  OBVIOUS
<1>2. PICK k \in Live : C = link[k]
  BY <1>1
<1>3. k = i
  BY <1>1, <1>2 DEF Linked
<1>4. C = link[i]
  BY <1>2, <1>3
<1> QED BY <1>4 DEF Has

LEMMA StepDiscTypes == Types /\ Linked /\ Queried /\ [Next]_vars => DiscTypes'
<1> SUFFICES ASSUME Types, Linked, Queried, [Next]_vars PROVE DiscTypes'
  OBVIOUS
<1>0. /\ discoverer \in [Ids -> Nat] /\ IsFiniteSet(discoverers)
      /\ slave \in [svc : Nat, in : Nat, out : Nat, ccc : Nat]
  BY DEF Types, DiscTypes
<1>1. slave' \in [svc : Nat, in : Nat, out : Nat, ccc : Nat]
  <2>1. ASSUME NEW h \in Handles, Found(h) PROVE slave' \in [svc : Nat, in : Nat, out : Nat, ccc : Nat]
    <3>1. /\ slave' = Taken(query[h].kind, Has(h)) /\ query[h].kind \in {"svc", "char", "desc"}
      BY <2>1, FoundDoes DEF Types
    <3>2. query[h] # NoQuery
      BY <3>1 DEF NoQuery
    <3>3. PICK i \in Live : link[i].h = h
      BY <3>2 DEF Queried
    <3>4. Has(h) \in [svc : Nat, in : Nat, out : Nat, ccc : Nat]
      BY <3>3, HasOf, LinkFields, GattAssumption DEF Types
    <3>5. Has(h).svc \in Nat /\ Has(h).in \in Nat /\ Has(h).out \in Nat /\ Has(h).ccc \in Nat
      BY <3>4
    <3> QED BY <1>0, <3>1, <3>5 DEF Taken, Stored
  <2> QED BY <1>0, <2>1, SlaveKinds
<1>2. discoverer' \in [Ids -> Nat] /\ IsFiniteSet(discoverers')
  <2>1. CASE UNCHANGED disc
    BY <1>0, <2>1 DEF disc
  <2>2. CASE stack_discover_all
    <3>1. PICK d \in Nat :
            \/ UNCHANGED discoverers /\ discoverer' = [discoverer EXCEPT ![Head(runq).cmd.id] = 0]
            \/ /\ discoverer' = [discoverer EXCEPT ![Head(runq).cmd.id] = d]
               /\ discoverers' = discoverers \cup {d}
      <4>1. Cardinality(discoverers) \in Nat
        BY <1>0, FS_CardinalityType
      <4>2. 1 + Cardinality(discoverers) \in Nat
        BY <4>1
      <4> QED BY <2>2, <4>2 DEF stack_discover_all
    <3>2. IsFiniteSet(discoverers')
      BY <1>0, <3>1, FS_AddElement
    <3> QED BY <1>0, <3>1, <3>2
  <2>3. ASSUME NEW h \in Handles, Finish(h)
        PROVE  discoverer' \in [Ids -> Nat] /\ IsFiniteSet(discoverers')
    <3>1. IsFiniteSet(discoverers \ {discoverer[query[h].cmd.id]})
      BY <1>0, FS_RemoveElement
    <3>2. \/ discoverer' = discoverer /\ discoverers' = discoverers
          \/ /\ discoverer' = [discoverer EXCEPT ![query[h].cmd.id] = 0]
             /\ discoverers' = discoverers \ {discoverer[query[h].cmd.id]}
      BY <2>3, DumpDoes DEF disc
    <3>3. discoverer' \in [Ids -> Nat]
      BY <1>0, <3>2
    <3>4. IsFiniteSet(discoverers')
      BY <1>0, <3>1, <3>2, Zenon
    <3> QED BY <3>3, <3>4
  <2>4. CASE \E i \in Ids : LinkDown(i) /\ query[link[i].h].kind \in HostKinds /\ Finish(link[i].h)
    <3>1. PICK i \in Ids : LinkDown(i) /\ Finish(link[i].h)
      BY <2>4
    <3>2. link[i].h \in Handles
      BY <3>1, LinkFields DEF LinkDown, Types
    <3> QED BY <2>3, <3>1, <3>2
  <2> QED BY <2>1, <2>2, <2>3, <2>4, DiscKinds
<1> QED BY <1>1, <1>2 DEF DiscTypes

LEMMA AskIs ==
  ASSUME QueueTypes, NEW h \in Handles, NEW kind \in HostKinds, NEW arg \in Nat, Asked(h, kind, arg)
  PROVE  \E q \in AnyQuery : /\ query' = [query EXCEPT ![h] = q]
                             /\ q.kind = kind /\ q.arg = arg /\ q.cmd = Head(runq).cmd
                             /\ q.cmd \in AnyCmd /\ q # NoQuery
<1> DEFINE q == [kind |-> kind, arg |-> arg, found |-> FALSE, cmd |-> Head(runq).cmd]
<1>1. Head(runq).cmd \in AnyCmd
  BY HeadRun DEF Asked
<1>2. q \in AnyQuery /\ q.kind = kind /\ q.arg = arg /\ q.cmd = Head(runq).cmd /\ q # NoQuery
  BY <1>1, QueryMade
<1>3. query' = [query EXCEPT ![h] = q]
  BY DEF Asked, Query
<1> HIDE DEF q
<1> QED BY <1>1, <1>2, <1>3

(* What each step does to the queries, for a reader who needs no more. *)
Put(h, q) == q \in AnyQuery /\ query' = [query EXCEPT ![h] = q]

LEMMA UpQueries ==
  ASSUME NEW i \in Ids, NEW h \in Handles, NEW p \in Peers, LinkUp(i, h, p)
  PROVE  \/ query' = query /\ i \notin MasterIds
         \/ /\ i \in MasterIds
            /\ \E q \in AnyQuery : /\ Put(h, q) /\ q.kind = "svc" /\ q # NoQuery
                                   /\ q.found = FALSE
<1>1. CASE i \notin MasterIds
  BY <1>1 DEF LinkUp
<1>2. CASE i \in MasterIds
  <2> DEFINE q == [kind |-> "svc", arg |-> 0, found |-> FALSE, cmd |-> NoCmd]
  <2>1. query' = [query EXCEPT ![h] = q]
    BY <1>2 DEF LinkUp, Query
  <2>2. q \in AnyQuery /\ q.kind = "svc" /\ q # NoQuery /\ q.found = FALSE
    BY QueryMade DEF DiscoveryKinds
  <2> HIDE DEF q
  <2> QED BY <1>2, <2>1, <2>2 DEF Put
<1> QED BY <1>1, <1>2

LEMMA StepQueryTypes ==
  Types /\ Linked /\ Handlers /\ Captured /\ [Next]_vars => QueryTypes'
<1> SUFFICES ASSUME Types, Linked, Handlers, Captured, [Next]_vars PROVE QueryTypes'
  OBVIOUS
<1>0. query \in [Handles -> AnyQuery] /\ QueueTypes /\ DiscTypes /\ LinkTypes /\ QueryTypes
  BY DEF Types, QueryTypes
<1>1. ASSUME NEW h \in Handles, NEW q \in AnyQuery, query' = [query EXCEPT ![h] = q]
      PROVE  QueryTypes'
  BY <1>0, <1>1 DEF QueryTypes
<1>2. CASE query' = query
  BY <1>0, <1>2 DEF QueryTypes
<1>3. CASE AskAny
  BY <1>0, <1>1, <1>3, AskIs DEF AskAny
<1>4. CASE \E h \in Handles : HostResult(h) \/ Broken(h)
  <2>1. PICK h \in Handles : query' = [query EXCEPT ![h] = NoQuery]
    BY <1>4 DEF HostResult, Broken
  <2> QED BY <1>1, <2>1, NoQueryIs
<1>5. CASE \E h \in Handles : Found(h)
  BY <1>0, <1>1, <1>5, FoundDoes
<1>6. CASE \E h \in Handles : Complete(h)
  BY <1>0, <1>1, <1>6, CompleteDoes
<1>7. CASE \E i \in Ids : LinkDown(i)
  <2>1. PICK i \in Ids : i \in Live /\ query' = [query EXCEPT ![link[i].h] = NoQuery]
    BY <1>7 DEF LinkDown
  <2> QED BY <1>0, <1>1, <2>1, NoQueryIs, LinkFields
<1>8. CASE \E i \in Ids, h \in Handles, p \in Peers : LinkUp(i, h, p)
  BY <1>1, <1>2, <1>8, UpQueries DEF Put
<1> QED BY <1>2, <1>3, <1>4, <1>5, <1>6, <1>7, <1>8, QueryKinds

(* A query put at a handle is of a live link, as its part of Queried asks. *)
Fits(h, q) ==
  /\ q.kind = "none" => q = NoQuery
  /\ q # NoQuery => \E i \in Live : link[i].h = h
  /\ q.kind \in HostKinds => q.cmd \in AnyCmd /\ \A i \in Live : link[i].h = h => i = q.cmd.id
  /\ q.kind \in DiscoveryKinds => \A i \in Live : link[i].h = h => i \in MasterIds

LEMMA QueriedFits == Queried <=> \A h \in Handles : Fits(h, query[h])
BY DEF Queried, Fits

LEMMA StepQueried ==
  Types /\ Linked /\ Handlers /\ Captured /\ Queried /\ [Next]_vars => Queried'
<1> SUFFICES ASSUME Types, Linked, Handlers, Captured, Queried, [Next]_vars
             PROVE  \A h \in Handles : Fits(h, query[h])'
  BY QueriedFits DEF Queried, Fits
<1>0. query \in [Handles -> AnyQuery] /\ QueueTypes /\ DiscTypes /\ LinkTypes /\ QueryTypes
  BY DEF Types, QueryTypes
<1>a. \A h \in Handles : Fits(h, query[h])
  BY QueriedFits
<1>n. \A h : Fits(h, NoQuery)
  BY DEF Fits, NoQuery, HostKinds, DiscoveryKinds
<1>1. ASSUME NEW h \in Handles, NEW q \in AnyQuery, query' = [query EXCEPT ![h] = q], Fits(h, q),
             UNCHANGED <<link, handle_2_id>>
      PROVE  \A g \in Handles : Fits(g, query[g])'
  <2>1. query'[h] = q /\ \A g \in Handles \ {h} : query'[g] = query[g]
    BY <1>0, <1>1
  <2>2. Live' = Live /\ link' = link
    BY <1>1 DEF Live
  <2> QED BY <1>1, <1>a, <2>1, <2>2 DEF Fits
<1>2. CASE UNCHANGED <<query, link, handle_2_id>>
  BY <1>2, <1>a DEF Fits, Live
<1>3. CASE AskAny
  <2>1. PICK h \in Handles, kind \in HostKinds, arg \in Nat : Asked(h, kind, arg)
    BY <1>3 DEF AskAny
  <2>2. PICK q \in AnyQuery : /\ query' = [query EXCEPT ![h] = q]
                              /\ q.kind = kind /\ q.cmd = Head(runq).cmd /\ q.cmd \in AnyCmd
    BY <1>0, <2>1, AskIs
  <2>3. Fits(h, q)
    BY <2>1, <2>2, KindsApart DEF Asked, Fits
  <2> QED BY <1>1, <2>1, <2>2, <2>3 DEF Asked
<1>4. CASE \E h \in Handles : HostResult(h) \/ Broken(h)
  <2>1. PICK h \in Handles : query' = [query EXCEPT ![h] = NoQuery] /\ UNCHANGED <<link, handle_2_id>>
    BY <1>4 DEF HostResult, Broken
  <2> QED BY <1>1, <1>n, <2>1, NoQueryIs
<1>5. CASE \E h \in Handles : Found(h)
  <2>1. PICK h \in Handles, q \in AnyQuery :
           /\ query' = [query EXCEPT ![h] = q] /\ UNCHANGED <<link, handle_2_id>>
           /\ q.kind = query[h].kind /\ query[h].kind \in {"svc", "char", "desc"}
    BY <1>0, <1>5, FoundDoes
  <2>2. query[h] # NoQuery
    BY <2>1 DEF NoQuery
  <2>3. Fits(h, q)
    BY <1>a, <2>1, <2>2, KindsApart DEF Fits, HostKinds
  <2> QED BY <1>1, <2>1, <2>3
<1>6. CASE \E h \in Handles : Complete(h)
  <2>0. PICK h \in Handles : Complete(h)
    BY <1>6
  <2>1. PICK q \in AnyQuery :
           /\ query' = [query EXCEPT ![h] = q] /\ UNCHANGED <<link, handle_2_id>>
           /\ query[h].kind \in DiscoveryKinds /\ (q = NoQuery \/ q.kind \in DiscoveryKinds)
    BY <1>0, <2>0, CompleteDoes
  <2>2. query[h] # NoQuery
    BY <2>1 DEF NoQuery, DiscoveryKinds
  <2>3. Fits(h, q)
    BY <1>a, <1>n, <2>1, <2>2, KindsApart DEF Fits
  <2> QED BY <1>1, <2>1, <2>3
<1>7. CASE \E i \in Ids : LinkDown(i)
  <2>1. PICK i \in Ids : LinkDown(i)
    BY <1>7
  <2>2. PICK h \in Handles : h = link[i].h /\ query' = [query EXCEPT ![h] = NoQuery]
    BY <1>0, <2>1, LinkFields DEF LinkDown
  <2>3. query'[h] = NoQuery /\ \A g \in Handles \ {h} : query'[g] = query[g]
    BY <1>0, <2>2
  <2>4. Live' = Live \ {i} /\ \A j \in Live \ {i} : link'[j] = link[j]
    BY <1>0, <2>1, DownLive
  <2>5. ASSUME NEW g \in Handles \ {h} PROVE Fits(g, query[g])'
    <3>1. Fits(g, query[g]) /\ query'[g] = query[g]
      BY <1>a, <2>3
    <3> QED BY <2>2, <2>4, <3>1 DEF Fits
  <2>6. Fits(h, query[h])'
    BY <2>3 DEF Fits, NoQuery, HostKinds, DiscoveryKinds
  <2> QED BY <2>5, <2>6 DEF Fits
<1>8. CASE \E i \in Ids, h \in Handles, p \in Peers : LinkUp(i, h, p)
  <2>1. PICK i \in Ids, h \in Handles, p \in Peers : LinkUp(i, h, p)
    BY <1>8
  <2>2. /\ i \notin Live /\ Live' = Live \cup {i} /\ link'[i].h = h
        /\ \A j \in Live : link'[j] = link[j] /\ link[j].h # h
    BY <1>0, <2>1, UpLive
  <2>3. query[h] = NoQuery
    BY <1>a, <2>2 DEF Fits
  <2>4. ASSUME NEW g \in Handles \ {h} PROVE Fits(g, query[g])'
    <3>1. Fits(g, query[g]) /\ query'[g] = query[g]
      BY <1>0, <1>a, <2>1, UpQueries DEF Put
    <3> QED BY <2>2, <3>1 DEF Fits
  <2>5. Fits(h, query[h])'
    <3>1. CASE query' = query
      BY <2>3, <3>1 DEF Fits, NoQuery, HostKinds, DiscoveryKinds
    <3>2. CASE query' # query
      <4>1. /\ i \in MasterIds /\ query'[h] \in AnyQuery /\ query'[h].kind = "svc"
        BY <1>0, <2>1, <3>2, UpQueries DEF Put
      <4> QED BY <2>2, <4>1, KindsApart DEF Fits, HostKinds
    <3> QED BY <3>1, <3>2
  <2> QED BY <2>4, <2>5 DEF Fits
<1> QED BY <1>2, <1>3, <1>4, <1>5, <1>6, <1>7, <1>8, QueryKinds

-----------------------------------------------------------------------------
(* Hosts that wait *)

(* Only a runnable makes a query for a host. *)
LEMMA HostQueries ==
  ASSUME Types, Linked, Handlers, Captured, Queried, [Next]_vars
  PROVE  AskAny \/ \A h \in Handles : query'[h].kind \in HostKinds => query'[h] = query[h]
<1>0. query \in [Handles -> AnyQuery] /\ QueueTypes /\ DiscTypes /\ LinkTypes /\ QueryTypes
  BY DEF Types, QueryTypes
<1> DEFINE Goal == \A h \in Handles : query'[h].kind \in HostKinds => query'[h] = query[h]
<1>1. ASSUME NEW h \in Handles, NEW q \in AnyQuery, query' = [query EXCEPT ![h] = q],
             q.kind \notin HostKinds
      PROVE  Goal
  BY <1>0, <1>1
<1>2. CASE UNCHANGED <<query, link, handle_2_id>>
  BY <1>2
<1>4. CASE \E h \in Handles : HostResult(h) \/ Broken(h)
  <2>1. PICK h \in Handles : query' = [query EXCEPT ![h] = NoQuery]
    BY <1>4 DEF HostResult, Broken
  <2> QED BY <1>1, <2>1, NoQueryIs, KindsApart
<1>5. CASE \E h \in Handles : Found(h)
  <2>1. PICK h \in Handles : Found(h)
    BY <1>5
  <2>2. PICK q \in AnyQuery :
           /\ query' = [query EXCEPT ![h] = q]
           /\ q.kind = query[h].kind /\ query[h].kind \in {"svc", "char", "desc"}
    BY <1>0, <2>1, FoundDoes
  <2> QED BY <1>1, <2>2 DEF HostKinds
<1>6. CASE \E h \in Handles : Complete(h)
  <2>1. PICK h \in Handles : Complete(h)
    BY <1>6
  <2>2. PICK q \in AnyQuery :
           /\ query' = [query EXCEPT ![h] = q] /\ (q = NoQuery \/ q.kind \in DiscoveryKinds)
    BY <1>0, <2>1, CompleteDoes
  <2> QED BY <1>1, <2>2, NoQueryIs, KindsApart
<1>7. CASE \E i \in Ids : LinkDown(i)
  <2>1. PICK i \in Ids : i \in Live /\ query' = [query EXCEPT ![link[i].h] = NoQuery]
    BY <1>7 DEF LinkDown
  <2> QED BY <1>0, <1>1, <2>1, NoQueryIs, LinkFields, KindsApart
<1>8. CASE \E i \in Ids, h \in Handles, p \in Peers : LinkUp(i, h, p)
  <2>1. PICK i \in Ids, h \in Handles, p \in Peers : LinkUp(i, h, p)
    BY <1>8
  <2>2. CASE query' = query
    BY <2>2
  <2>3. CASE query' # query
    <3>1. PICK q \in AnyQuery : query' = [query EXCEPT ![h] = q] /\ q.kind = "svc"
      BY <2>1, <2>3, UpQueries DEF Put
    <3> QED BY <1>1, <3>1 DEF HostKinds
  <2> QED BY <2>2, <2>3
<1> QED BY <1>2, <1>4, <1>5, <1>6, <1>7, <1>8, QueryKinds

LEMMA OneLeft ==
  ASSUME NEW S, NEW s \in Seq(S), s # <<>>, Len(s) <= 1
  PROVE  Tail(s) = <<>> /\ Len(Tail(s)) = 0
<1>1. Tail(s) \in Seq(S) /\ Len(Tail(s)) = Len(s) - 1 /\ Len(s) \in Nat \ {0}
  BY HeadTailProperties, EmptySeq
<1>2. Len(Tail(s)) = 0
  BY <1>1
<1> QED BY <1>1, <1>2, EmptySeq

LEMMA TypeDoes ==
  ASSUME NEW c \in Cmds, Type(c), waits
  PROVE  msgs = <<>> /\ runq = <<>> /\ \A h \in Handles : query'[h] = NoQuery
BY DEF Type

LEMMA StepOneAtATime ==
  Types /\ Linked /\ Handlers /\ Captured /\ Queried /\ OneAtATime /\ [Next]_vars => OneAtATime'
<1> SUFFICES ASSUME Types, Linked, Handlers, Captured, Queried, OneAtATime, [Next]_vars, waits'
             PROVE  OneAtATime'
  BY DEF OneAtATime
<1>0. /\ query \in [Handles -> AnyQuery] /\ QueueTypes /\ LinkTypes /\ QueryTypes
      /\ msgs \in Seq(AnyCmd) /\ runq \in Seq(RunType)
  BY DEF Types, QueryTypes, QueueTypes
<1>1. waits
  BY QueueKinds DEF waits
<1>2. /\ Len(msgs) <= 1 /\ Len(runq) <= 1 /\ (msgs = <<>> \/ runq = <<>>)
      /\ msgs # <<>> \/ runq # <<>> => \A h \in Handles : ~Asking(h)
      /\ \A g, h \in Handles : Asking(g) /\ Asking(h) => g = h
  BY <1>1 DEF OneAtATime
<1>3. Len(<<>>) = 0
  OBVIOUS
<1>k. AskAny \/ \A h \in Handles : Asking(h)' => Asking(h)
  BY HostQueries DEF Asking
<1>4. CASE AskAny
  <2>1. PICK h \in Handles, kind \in HostKinds, arg \in Nat : Asked(h, kind, arg)
    BY <1>4 DEF AskAny
  <2>2. runq # <<>> /\ runq' = Tail(runq) /\ msgs' = msgs
    BY <2>1 DEF Asked
  <2>3. runq' = <<>> /\ Len(runq') = 0 /\ msgs' = <<>> /\ Len(msgs') = 0
    BY <1>0, <1>2, <1>3, <2>2, OneLeft
  <2>4. \A g \in Handles : g # h => query'[g] = query[g]
    BY <1>0, <2>1, AskIs
  <2>5. \A g \in Handles : Asking(g)' => g = h
    BY <1>2, <2>2, <2>4 DEF Asking
  <2> QED BY <2>3, <2>5 DEF OneAtATime
<1>5. CASE \A h \in Handles : Asking(h)' => Asking(h)
  <2>1. CASE UNCHANGED queues
    BY <1>2, <1>5, <2>1 DEF OneAtATime, queues
  <2>2. CASE \E c \in Cmds : Type(c)
    <3>1. PICK c \in Cmds : Type(c)
      BY <2>2
    <3>2. c \in AnyCmd /\ msgs = <<>> /\ runq = <<>> /\ \A h \in Handles : query'[h] = NoQuery
      BY <1>0, <1>1, <3>1, CmdsTyped, TypeDoes DEF QueueTypes
    <3>3. msgs' = Append(msgs, c) /\ runq' = runq
      BY <3>1 DEF Type
    <3>4. Len(msgs') = 1 /\ runq' = <<>> /\ Len(runq') = 0
      BY <1>0, <1>3, <3>2, <3>3, AppendProperties
    <3>5. \A h \in Handles : ~Asking(h)'
      BY <3>2 DEF Asking, NoQuery, HostKinds
    <3> QED BY <3>4, <3>5 DEF OneAtATime
  <2>3. CASE Handle
    <3>1. PICK c \in AnyCmd :
            /\ msgs # <<>> /\ msgs' = Tail(msgs)
            /\ \/ runq' = runq
               \/ c.id \in Live /\ runq' = Append(runq, Run(FnOf(c.op), c, Length(c.val)))
      BY <1>0, <2>3, HandleDoes
    <3>2. runq = <<>> /\ Len(runq) = 0 /\ \A h \in Handles : ~Asking(h)
      BY <1>2, <1>3, <3>1
    <3>3. msgs' = <<>> /\ Len(msgs') = 0
      BY <1>0, <1>2, <3>1, OneLeft
    <3>4. Len(runq') <= 1
      <4> DEFINE r == Run(FnOf(c.op), c, Length(c.val))
      <4>1. CASE runq' = runq
        BY <3>2, <4>1
      <4>2. CASE c.id \in Live /\ runq' = Append(runq, r)
        <5>1. r \in RunType
          BY <1>0, <4>2, RunTyped
        <5> HIDE DEF r
        <5>2. Len(runq') = Len(runq) + 1
          BY <1>0, <4>2, <5>1, AppendProperties
        <5> QED BY <3>2, <5>2
      <4> QED BY <3>1, <4>1, <4>2
    <3> QED BY <1>5, <3>2, <3>3, <3>4 DEF OneAtATime
  <2>4. CASE runq # <<>> /\ runq' = Tail(runq) /\ msgs' = msgs
    <3>1. runq' = <<>> /\ Len(runq') = 0 /\ msgs' = <<>> /\ Len(msgs') = 0
      BY <1>0, <1>2, <1>3, <2>4, OneLeft
    <3> QED BY <1>2, <1>5, <3>1 DEF OneAtATime
  <2> QED BY <2>1, <2>2, <2>3, <2>4, QueueKinds
<1> QED BY <1>4, <1>5, <1>k

(* What is queued, once it is known what a host that waits has queued. *)
LEMMA StepAsGiven ==
  Types /\ Linked /\ Handlers /\ OneAtATime /\ AsGiven /\ [Next]_vars => AsGiven'
<1> SUFFICES ASSUME Types, Linked, Handlers, OneAtATime, AsGiven, [Next]_vars, waits'
             PROVE  AsGiven'
  BY DEF AsGiven
<1>0. /\ QueueTypes /\ LinkTypes /\ QueryTypes
      /\ msgs \in Seq(AnyCmd) /\ runq \in Seq(RunType)
      /\ write_char_info \in [Ids -> Info] /\ gatts_value_info \in [Ids -> Info]
      /\ first_handler \in [Ids -> Seq(Handler)]
  BY DEF Types, QueryTypes, QueueTypes, InfoTypes, Handlers
<1>1. waits
  BY QueueKinds DEF waits
<1>2. Len(runq) <= 1 /\ (msgs = <<>> \/ runq = <<>>)
  BY <1>1 DEF OneAtATime
<1>3. DOMAIN <<>> = {}
  OBVIOUS
<1>4. CASE runq' = <<>>
  BY <1>3, <1>4 DEF AsGiven
<1>5. CASE \E c \in Cmds : Type(c)
  <2>1. runq' = <<>>
    BY <1>1, <1>5, TypeDoes DEF Type
  <2> QED BY <1>4, <2>1
<1>6. CASE Handle
  <2>1. PICK c \in AnyCmd :
           /\ msgs # <<>>
           /\ \/ UNCHANGED <<info, first_handler, runq>>
              \/ /\ c.id \in Live
                 /\ runq' = Append(runq, Run(FnOf(c.op), c, Length(c.val)))
                 /\ gatts_value_info' = IF c.op = "SWR" THEN Infos(gatts_value_info, c)
                                                        ELSE gatts_value_info
                 /\ write_char_info' =
                      CASE c.op = "CWR" -> Infos(write_char_info, c)
                        [] c.op = "CRD" -> [write_char_info EXCEPT ![c.id].vh = c.vh]
                        [] OTHER -> write_char_info
                 /\ first_handler' = IF c.op = "CSUB"
                      THEN [first_handler EXCEPT ![c.id] = WithConfig(@, c.vh, c.val)]
                      ELSE first_handler
    BY <1>0, <1>6, HandleDoes
  <2>2. runq = <<>>
    BY <1>2, <2>1
  <2>3. CASE runq' = runq
    BY <1>4, <2>2, <2>3
  <2>4. CASE runq' # runq
    <3> DEFINE r == Run(FnOf(c.op), c, Length(c.val))
    <3>1. /\ c.id \in Live /\ runq' = Append(runq, r)
          /\ c.op = "SWR" => gatts_value_info' = Infos(gatts_value_info, c)
          /\ c.op = "CWR" => write_char_info' = Infos(write_char_info, c)
          /\ c.op = "CSUB" =>
               first_handler' = [first_handler EXCEPT ![c.id] = WithConfig(@, c.vh, c.val)]
      BY <2>1, <2>4
    <3>2. r \in RunType /\ r.fn = FnOf(c.op) /\ r.n = Length(c.val) /\ r.cmd = c
      BY <1>0, <3>1, RunTyped
    <3>3. c.op \in Ops /\ c.id \in Ids /\ c.vh \in Attrs /\ c.val \in Texts
      BY CmdFields
    <3> HIDE DEF r
    <3>4. \A k \in DOMAIN runq' : runq'[k] = r
      BY <1>0, <1>3, <2>2, <3>1, <3>2, AppendIn
    <3>5. r.fn = "stack_write_char" =>
            Ready2Send(r, write_char_info') /\ r.cmd.val \in Values
      <4> SUFFICES ASSUME r.fn = "stack_write_char"
                   PROVE  Ready2Send(r, write_char_info') /\ r.cmd.val \in Values
        OBVIOUS
      <4> DEFINE inf == Infos(write_char_info, c)
      <4>1. c.op = "CWR"
        BY <3>2, <3>3, FnOfOps
      <4>2. inf[c.id].kept /\ inf[c.id].data = c.val /\ inf[c.id].vh = c.vh /\ c.val \in Values
        BY <1>0, <4>1, InfosTyped
      <4>3. write_char_info' = inf
        BY <3>1, <4>1
      <4> HIDE DEF inf
      <4> QED BY <3>2, <4>2, <4>3 DEF Ready2Send
    <3>6. r.fn = "stack_gatts_notify" =>
            Ready2Send(r, gatts_value_info') /\ r.cmd.val \in Values
      <4> SUFFICES ASSUME r.fn = "stack_gatts_notify"
                   PROVE  Ready2Send(r, gatts_value_info') /\ r.cmd.val \in Values
        OBVIOUS
      <4> DEFINE inf == Infos(gatts_value_info, c)
      <4>1. c.op = "SWR"
        BY <3>2, <3>3, FnOfOps
      <4>2. inf[c.id].kept /\ inf[c.id].data = c.val /\ inf[c.id].vh = c.vh /\ c.val \in Values
        BY <1>0, <4>1, InfosTyped
      <4>3. gatts_value_info' = inf
        BY <3>1, <4>1
      <4> HIDE DEF inf
      <4> QED BY <3>2, <4>2, <4>3 DEF Ready2Send
    <3>7. r.fn = "stack_sub_char" =>
            \A j \in DOMAIN first_handler'[r.cmd.id] :
              first_handler'[r.cmd.id][j].vh = r.cmd.vh =>
                first_handler'[r.cmd.id][j].config = r.cmd.val
      <4> SUFFICES ASSUME r.fn = "stack_sub_char"
                   PROVE  \A j \in DOMAIN first_handler'[r.cmd.id] :
                            first_handler'[r.cmd.id][j].vh = r.cmd.vh =>
                              first_handler'[r.cmd.id][j].config = r.cmd.val
        OBVIOUS
      <4> DEFINE hs == WithConfig(first_handler[c.id], c.vh, c.val)
      <4>1. c.op = "CSUB"
        BY <3>2, <3>3, FnOfOps
      <4>2. \A j \in DOMAIN hs : hs[j].vh = c.vh => hs[j].config = c.val
        BY <3>3, HandlersOf, ConfigNoted
      <4>3. first_handler' = [first_handler EXCEPT ![c.id] = hs]
        BY <3>1, <4>1
      <4> HIDE DEF hs
      <4>4. first_handler'[c.id] = hs
        BY <1>0, <3>3, <4>3
      <4> QED BY <3>2, <4>2, <4>4
    <3> QED BY <3>2, <3>4, <3>5, <3>6, <3>7 DEF AsGiven
  <2> QED BY <2>3, <2>4
<1>7. CASE runq # <<>> /\ runq' = Tail(runq)
  BY <1>0, <1>2, <1>4, <1>7, OneLeft
<1>8. CASE UNCHANGED <<info, first_handler, runq>>
  BY <1>1, <1>8 DEF AsGiven, Ready2Send, info
<1>9. CASE \E i \in Ids : LinkDown(i)
  <2>1. PICK i \in Ids : /\ first_handler' = [first_handler EXCEPT ![i] = <<>>]
                         /\ runq' = runq /\ UNCHANGED info
    BY <1>9 DEF LinkDown, Freed, queues
  <2>2. \A j \in Ids : DOMAIN first_handler'[j] = {} \/ first_handler'[j] = first_handler[j]
    BY <1>0, <1>3, <2>1
  <2>3. \A k \in DOMAIN runq : runq[k] \in RunType
    BY <1>0
  <2>4. \A k \in DOMAIN runq : runq[k].cmd.id \in Ids
    BY <2>3, CmdFields DEF RunType
  <2> QED BY <1>1, <2>1, <2>2, <2>4 DEF AsGiven, Ready2Send, info
<1>10. CASE stack_write_char \/ stack_gatts_notify
  BY <1>7, <1>10 DEF stack_write_char, stack_gatts_notify, Sends, Runs
<1>11. CASE stack_read_char \/ stack_discover_all \/ stack_sub_char
  BY <1>7, <1>11 DEF stack_read_char, stack_discover_all, stack_sub_char, Runs
<1>12. CASE \E h \in Handles : HostResult(h) \/ Found(h) \/ Complete(h) \/ Broken(h)
                              \/ \E vh \in Attrs : Notified(h, vh)
  BY <1>8, <1>12 DEF HostResult, Found, Complete, Broken, Notified, queues, lists
<1>13. CASE \E i \in Ids, h \in Handles, p \in Peers : LinkUp(i, h, p)
  BY <1>8, <1>13 DEF LinkUp, queues, lists
<1>14. CASE UNCHANGED vars
  BY <1>8, <1>14 DEF vars, queues, lists
<1> QED BY <1>5, <1>6, <1>9, <1>10, <1>11, <1>12, <1>13, <1>14, Steps

-----------------------------------------------------------------------------
(* Discoverers *)

(* Only the end of such a query, or of its link, ends a host's discovery.  *)
LEMMA AllQueries ==
  ASSUME Types, Linked, Handlers, Captured, Queried, [Next]_vars
  PROVE  \/ AskAny
         \/ \E h \in Handles : HostResult(h)
         \/ \E i \in Ids : LinkDown(i)
         \/ \A h \in Handles : query[h].kind \in HostKinds \/ query'[h].kind \in HostKinds =>
                                 query'[h] = query[h]
<1>0. query \in [Handles -> AnyQuery] /\ DiscTypes /\ LinkTypes /\ QueryTypes
  BY DEF Types, QueryTypes
<1> DEFINE Goal == \A h \in Handles :
             query[h].kind \in HostKinds \/ query'[h].kind \in HostKinds => query'[h] = query[h]
<1>1. ASSUME NEW h \in Handles, NEW q \in AnyQuery, query' = [query EXCEPT ![h] = q],
             q.kind \notin HostKinds, query[h].kind \notin HostKinds
      PROVE  Goal
  BY <1>0, <1>1
<1>2. CASE UNCHANGED <<query, link, handle_2_id>>
  BY <1>2
<1>3. CASE \E h \in Handles : Broken(h)
  <2>1. PICK h \in Handles : /\ query' = [query EXCEPT ![h] = NoQuery]
                             /\ query[h].kind \in {"svc", "char", "desc", "ccc"}
    BY <1>3 DEF Broken
  <2>2. query[h].kind \notin HostKinds /\ NoQuery.kind \notin HostKinds
    BY <2>1 DEF HostKinds, NoQuery
  <2> QED BY <1>1, <2>1, <2>2, NoQueryIs
<1>5. CASE \E h \in Handles : Found(h)
  <2>1. PICK h \in Handles : Found(h)
    BY <1>5
  <2>2. PICK q \in AnyQuery :
           /\ query' = [query EXCEPT ![h] = q]
           /\ q.kind = query[h].kind /\ query[h].kind \in {"svc", "char", "desc"}
    BY <1>0, <2>1, FoundDoes
  <2> QED BY <1>1, <2>2 DEF HostKinds
<1>6. CASE \E h \in Handles : Complete(h)
  <2>1. PICK h \in Handles : Complete(h)
    BY <1>6
  <2>2. PICK q \in AnyQuery :
           /\ query' = [query EXCEPT ![h] = q] /\ (q = NoQuery \/ q.kind \in DiscoveryKinds)
           /\ query[h].kind \in DiscoveryKinds
    BY <1>0, <2>1, CompleteDoes
  <2>3. query[h].kind \notin HostKinds /\ q.kind \notin HostKinds
    BY <2>2 DEF HostKinds, DiscoveryKinds, NoQuery
  <2> QED BY <1>1, <2>2, <2>3
<1>8. CASE \E i \in Ids, h \in Handles, p \in Peers : LinkUp(i, h, p)
  <2>1. PICK i \in Ids, h \in Handles, p \in Peers : LinkUp(i, h, p)
    BY <1>8
  <2>2. CASE query' = query
    BY <2>2
  <2>3. CASE query' # query
    <3>1. PICK q \in AnyQuery : query' = [query EXCEPT ![h] = q] /\ q.kind = "svc"
      BY <2>1, <2>3, UpQueries DEF Put
    <3>2. \A j \in Live : link[j].h # h
      BY <1>0, <2>1, UpLive
    <3>3. query[h] = NoQuery
      BY <3>2 DEF Queried
    <3> QED BY <1>1, <3>1, <3>3 DEF HostKinds, NoQuery
  <2> QED BY <2>2, <2>3
<1> QED BY <1>2, <1>3, <1>5, <1>6, <1>8, QueryKinds

(* The queries a runnable that does not discover makes are no discoveries. *)
LEMMA OtherAsks ==
  ASSUME Types, Linked, Handlers, Captured, AskAny, [Next]_vars
  PROVE  \/ stack_discover_all
         \/ UNCHANGED disc
            /\ \A h \in Handles : query[h].kind = "all" \/ query'[h].kind = "all" =>
                                    query'[h] = query[h]
<1>0. query \in [Handles -> AnyQuery] /\ QueueTypes /\ LinkTypes /\ QueryTypes
  BY DEF Types, QueryTypes
<1>1. PICK h \in Handles, kind \in HostKinds, arg \in Nat : Asked(h, kind, arg)
  BY DEF AskAny
<1>2. PICK q \in AnyQuery : query' = [query EXCEPT ![h] = q] /\ q.kind = kind /\ q # NoQuery
  BY <1>0, <1>1, AskIs
<1>3. query[h] = NoQuery /\ query[h].kind = "none" /\ query' # query /\ runq' = Tail(runq)
      /\ runq # <<>>
  <2>1. query'[h] = q
    BY <1>0, <1>2
  <2> QED BY <1>1, <1>2, <2>1, NoQueryIs DEF Asked
<1>4. Len(Tail(runq)) # Len(runq)
  <2>1. runq \in Seq(RunType)
    BY <1>0 DEF QueueTypes
  <2>2. Len(Tail(runq)) = Len(runq) - 1 /\ Len(runq) \in Nat
    BY <1>3, <2>1, HeadTailProperties
  <2> QED BY <2>2
<1>5. runq' # runq
  BY <1>3, <1>4
<1>6. CASE stack_read_char \/ stack_sub_char
  <2>1. UNCHANGED disc
    BY <1>6 DEF stack_read_char, stack_sub_char
  <2>2. q.kind # "all"
    <3>1. CASE stack_read_char
      <4> DEFINE x == [kind |-> "read", arg |-> Head(runq).cmd.vh, found |-> FALSE,
                       cmd |-> Head(runq).cmd]
      <4>1. query' = [query EXCEPT ![Head(runq).h] = x]
        BY <1>3, <3>1 DEF stack_read_char, Query
      <4>2. x.kind = "read"
        OBVIOUS
      <4> HIDE DEF x
      <4>3. query'[h] = q /\ query'[h] # query[h]
        BY <1>0, <1>2, <1>3
      <4>4. query'[h] = x
        BY <1>0, <4>1, <4>3
      <4> QED BY <4>2, <4>3, <4>4
    <3>2. CASE stack_sub_char
      <4>1. PICK i \in Ids : \E k \in DOMAIN first_handler[i] : Subscribes(i, k)
        BY <1>0, <1>3, <3>2, SubDoes
      <4> DEFINE x == [kind |-> "sub", arg |-> Head(runq).cmd.vh, found |-> FALSE,
                       cmd |-> Head(runq).cmd]
      <4>2. query' = [query EXCEPT ![link[i].h] = x]
        BY <1>3, <4>1 DEF Subscribes, Query
      <4>3. x.kind = "sub"
        OBVIOUS
      <4> HIDE DEF x
      <4>4. query'[h] = q /\ query'[h] # query[h]
        BY <1>0, <1>2, <1>3
      <4>5. query'[h] = x
        BY <1>0, <4>2, <4>4
      <4> QED BY <4>3, <4>4, <4>5
    <3> QED BY <1>6, <3>1, <3>2
  <2> QED BY <1>0, <1>2, <1>3, <2>1, <2>2
<1>7. CASE stack_discover_all
  BY <1>7
<1>8. CASE stack_write_char \/ stack_gatts_notify
  BY <1>3, <1>8 DEF stack_write_char, stack_gatts_notify, Sends
<1>9. CASE (\E c \in Cmds : Type(c)) \/ Handle
  BY <1>3, <1>9 DEF Type, Handle
<1>10. CASE \E h1 \in Handles : HostResult(h1) \/ Found(h1) \/ Complete(h1) \/ Broken(h1)
                              \/ \E vh \in Attrs : Notified(h1, vh)
  BY <1>5, <1>10 DEF HostResult, Found, Complete, Broken, Notified, queues
<1>11. CASE \E i \in Ids : LinkDown(i) \/ \E h1 \in Handles, p \in Peers : LinkUp(i, h1, p)
  BY <1>5, <1>11 DEF LinkDown, LinkUp, queues
<1>12. CASE UNCHANGED vars
  BY <1>3, <1>12 DEF vars
<1> QED BY <1>6, <1>7, <1>8, <1>9, <1>10, <1>11, <1>12, Steps

LEMMA StepDiscovering ==
  /\ Types /\ Linked /\ Handlers /\ Captured /\ Queried /\ OneAtATime /\ Discovering
  /\ [Next]_vars
  => Discovering'
<1> SUFFICES ASSUME Types, Linked, Handlers, Captured, Queried, OneAtATime, Discovering,
                    [Next]_vars, waits'
             PROVE  Discovering'
  BY DEF Discovering
<1>0. /\ query \in [Handles -> AnyQuery] /\ QueueTypes /\ LinkTypes /\ QueryTypes /\ DiscTypes
      /\ discoverer \in [Ids -> Nat]
  BY DEF Types, QueryTypes, DiscTypes
<1>1. waits
  BY QueueKinds DEF waits
<1>2. /\ 0 \notin discoverers /\ discoverers \subseteq {discoverer[i] : i \in Ids}
      /\ \A h \in Handles : query[h].kind = "all" => discoverer[query[h].cmd.id] # 0
      /\ \A i \in Ids : discoverer[i] # 0 =>
           \E h \in Handles : query[h].kind = "all" /\ query[h].cmd.id = i
  BY <1>1 DEF Discovering
<1>3. /\ runq # <<>> => \A h \in Handles : ~Asking(h)
      /\ \A g, h \in Handles : Asking(g) /\ Asking(h) => g = h
  BY <1>1 DEF OneAtATime
<1>4. \A h \in Handles : query[h].kind = "all" => Asking(h)
  BY DEF Asking, HostKinds
<1>5. CASE UNCHANGED disc
           /\ \A h \in Handles : query[h].kind = "all" \/ query'[h].kind = "all" =>
                                   query'[h] = query[h]
  BY <1>2, <1>5 DEF Discovering, disc
<1>6. CASE stack_discover_all
  <2> DEFINE r == Head(runq)
             d == 1 + Cardinality(discoverers)
  <2>1. /\ r.cmd.id \in Ids /\ d \in Nat /\ d # 0 /\ runq # <<>>
        /\ \/ /\ UNCHANGED <<query, discoverers>>
              /\ discoverer' = [discoverer EXCEPT ![r.cmd.id] = 0]
           \/ /\ \E h \in Handles : Asked(h, "all", d)
              /\ discoverer' = [discoverer EXCEPT ![r.cmd.id] = d]
              /\ discoverers' = discoverers \cup {d}
    BY <1>0, <1>6, DiscoverAsks DEF Types
  <2> HIDE DEF d
  <2>2. \A h \in Handles : query[h].kind # "all"
    BY <1>3, <1>4, <2>1
  <2>3. (\A i \in Ids : discoverer[i] = 0) /\ discoverers = {}
    BY <1>2, <2>2
  <2>4. CASE UNCHANGED <<query, discoverers>> /\ discoverer' = [discoverer EXCEPT ![r.cmd.id] = 0]
    BY <1>0, <1>2, <2>2, <2>3, <2>4 DEF Discovering
  <2>5. ASSUME NEW h \in Handles, Asked(h, "all", d),
               discoverer' = [discoverer EXCEPT ![r.cmd.id] = d],
               discoverers' = discoverers \cup {d}
        PROVE  Discovering'
    <3>1. PICK q \in AnyQuery : /\ query' = [query EXCEPT ![h] = q]
                                /\ q.kind = "all" /\ q.cmd = r.cmd
      BY <1>0, <2>1, <2>5, AskIs DEF HostKinds
    <3>2. query'[h] = q /\ \A g \in Handles \ {h} : query'[g] = query[g]
      BY <1>0, <3>1
    <3>3. /\ discoverer'[r.cmd.id] = d /\ discoverers' = {d}
          /\ \A i \in Ids \ {r.cmd.id} : discoverer'[i] = 0
      BY <1>0, <2>1, <2>3, <2>5
    <3>4. discoverers' \subseteq {discoverer'[i] : i \in Ids}
      BY <2>1, <3>3
    <3>5. \A g \in Handles : query'[g].kind = "all" => discoverer'[query'[g].cmd.id] # 0
      BY <2>1, <2>2, <3>1, <3>2, <3>3
    <3>6. \A i \in Ids : discoverer'[i] # 0 =>
           \E g \in Handles : query'[g].kind = "all" /\ query'[g].cmd.id = i
      BY <3>1, <3>2, <3>3
    <3> QED BY <2>1, <3>3, <3>4, <3>5, <3>6 DEF Discovering
  <2> QED BY <2>1, <2>4, <2>5
<1>7. ASSUME NEW h \in Handles, query[h].kind \in HostKinds, Finish(h),
             query' = [query EXCEPT ![h] = NoQuery]
      PROVE  Discovering'
  <2>0. query'[h].kind = "none" /\ \A g \in Handles \ {h} : query'[g] = query[g]
    BY <1>0, <1>7, NoQueryIs
  <2>1. CASE query[h].kind # "all" /\ UNCHANGED disc
    BY <1>2, <1>5, <2>0, <2>1
  <2>2. CASE /\ query[h].kind = "all"
             /\ discoverer' = [discoverer EXCEPT ![query[h].cmd.id] = 0]
             /\ discoverers' = discoverers \ {discoverer[query[h].cmd.id]}
    <3> DEFINE j == query[h].cmd.id
    <3>1. j \in Ids
      BY <1>7, QueryIs DEF Types
    <3>2. \A g \in Handles : query'[g].kind # "all"
      BY <1>3, <1>4, <1>7, <2>0 DEF Asking
    <3>3. discoverer'[j] = 0 /\ \A i \in Ids \ {j} : discoverer'[i] = discoverer[i]
      BY <1>0, <2>2, <3>1
    <3>4. \A i \in Ids : discoverer'[i] = 0
      BY <1>2, <1>3, <1>4, <1>7, <2>2, <3>3 DEF Asking
    <3>5. discoverers' \subseteq {discoverer'[i] : i \in Ids} /\ 0 \notin discoverers'
      BY <1>2, <2>2, <3>3
    <3> QED BY <3>2, <3>4, <3>5 DEF Discovering
  <2> QED BY <1>7, <2>1, <2>2, DumpDoes
<1>8. CASE \E h \in Handles : HostResult(h)
  BY <1>7, <1>8 DEF HostResult
<1>9. CASE \E i \in Ids : LinkDown(i)
  <2>1. PICK i \in Ids : LinkDown(i)
    BY <1>9
  <2>2. PICK h \in Handles : h = link[i].h
    BY <1>0, <2>1, LinkFields DEF LinkDown
  <2>3. /\ query' = [query EXCEPT ![h] = NoQuery]
        /\ query[h].kind \in HostKinds => Finish(h)
        /\ query[h].kind \notin HostKinds => UNCHANGED disc
    BY <2>1, <2>2 DEF LinkDown
  <2>4. CASE query[h].kind \in HostKinds
    BY <1>7, <2>3, <2>4
  <2>5. CASE query[h].kind \notin HostKinds
    <3>1. query'[h].kind = "none" /\ \A g \in Handles \ {h} : query'[g] = query[g]
      BY <1>0, <2>3, NoQueryIs
    <3> QED BY <1>5, <2>3, <2>5, <3>1 DEF HostKinds
  <2> QED BY <2>4, <2>5
<1>10. CASE AskAny
  BY <1>5, <1>6, <1>10, OtherAsks
<1>11. CASE ~AskAny /\ ~(\E h \in Handles : HostResult(h)) /\ ~(\E i \in Ids : LinkDown(i))
            /\ ~stack_discover_all
  <2>1. UNCHANGED disc
    BY <1>11, DiscKinds
  <2>2. \A h \in Handles : query[h].kind \in HostKinds \/ query'[h].kind \in HostKinds =>
                                 query'[h] = query[h]
    BY <1>11, AllQueries
  <2> QED BY <1>5, <2>1, <2>2 DEF HostKinds
<1> QED BY <1>6, <1>8, <1>9, <1>10, <1>11

-----------------------------------------------------------------------------
(* The discovery, with one master link and peers that have the service     *)

OneMaster == \A a, b \in MasterIds : a = b
Served    == \A d \in Peers : Layout(d).svc # 0 /\ Layout(d).out # 0

(* What a query becomes is still of the peer. *)
LEMMA CompleteOfPeer ==
  ASSUME DiscTypes, QueryTypes, NEW h \in Handles, Complete(h), NEW has,
         Has(h) = has, has.svc # 0, has.out # 0, OfPeer(query[h], has, slave)
  PROVE  OfPeer(query'[h], has, slave)
<1>1. PICK q \in AnyQuery :
           /\ query' = [query EXCEPT ![h] = q] /\ (Result(h) => query[h].found)
           /\ \/ query[h].kind = "ccc" /\ q = NoQuery
              \/ /\ q.found = FALSE
                 /\ \/ query[h].kind = "svc"  /\ q.kind = "char" /\ q.arg = slave.svc
                    \/ query[h].kind = "char" /\ q.kind = "desc" /\ q.arg = slave.out
                    \/ query[h].kind = "desc" /\ q.kind = "ccc"  /\ q.arg = slave.ccc
  BY CompleteDoes
<1>2. query'[h] = q
  BY <1>1 DEF QueryTypes
<1>3. CASE query[h].kind = "ccc" /\ q = NoQuery
  BY <1>2, <1>3, NoQueryIs DEF OfPeer
<1>4. CASE query[h].kind = "svc" /\ q.found = FALSE /\ q.kind = "char" /\ q.arg = slave.svc
  <2>1. query[h].found
    BY <1>1, <1>4 DEF Result
  <2> QED BY <1>2, <1>4, <2>1 DEF OfPeer
<1>5. CASE query[h].kind = "char" /\ q.found = FALSE /\ q.kind = "desc" /\ q.arg = slave.out
  <2>1. query[h].found
    BY <1>1, <1>5 DEF Result, OfPeer
  <2> QED BY <1>2, <1>5, <2>1 DEF OfPeer
<1>6. CASE query[h].kind = "desc" /\ q.found = FALSE /\ q.kind = "ccc" /\ q.arg = slave.ccc
  <2>1. query[h].found
    BY <1>1, <1>6 DEF Result, OfPeer
  <2> QED BY <1>2, <1>6, <2>1 DEF OfPeer
<1> QED BY <1>1, <1>3, <1>4, <1>5, <1>6

LEMMA FoundOfPeer ==
  ASSUME DiscTypes, QueryTypes, NEW h \in Handles, Found(h), NEW has,
         Has(h) = has, OfPeer(query[h], has, slave)
  PROVE  OfPeer(query'[h], has, slave')
<1>1. PICK q \in AnyQuery :
           /\ query' = [query EXCEPT ![h] = q]
           /\ q.kind = query[h].kind /\ q.arg = query[h].arg /\ q.found
           /\ query[h].kind \in {"svc", "char", "desc"}
           /\ slave' = Taken(query[h].kind, Has(h))
  BY FoundDoes
<1>2. query'[h] = q
  BY <1>1 DEF QueryTypes
<1>3. slave \in [svc : Nat, in : Nat, out : Nat, ccc : Nat]
  BY DEF DiscTypes
<1>4. CASE query[h].kind = "svc"
  <2>1. slave' = [slave EXCEPT !.svc = has.svc]
    BY <1>1, <1>4 DEF Taken, Stored
  <2>2. slave'.svc = has.svc
    BY <1>3, <2>1
  <2> QED BY <1>1, <1>2, <1>4, <2>2 DEF OfPeer
<1>5. CASE query[h].kind = "char"
  <2>1. slave' = [slave EXCEPT !.in = has.in, !.out = has.out]
    BY <1>1, <1>5 DEF Taken, Stored
  <2>2. slave'.out = has.out
    BY <1>3, <2>1
  <2> QED BY <1>1, <1>2, <1>5, <2>2 DEF OfPeer
<1>6. CASE query[h].kind = "desc"
  <2>1. slave' = [slave EXCEPT !.ccc = has.ccc]
    BY <1>1, <1>6 DEF Taken, Stored
  <2>2. slave'.ccc = has.ccc
    BY <1>3, <2>1
  <2> QED BY <1>1, <1>2, <1>6, <2>2 DEF OfPeer
<1> QED BY <1>1, <1>4, <1>5, <1>6

LEMMA OthersOfPeer ==
  ASSUME NEW q \in AnyQuery, q.kind \notin DiscoveryKinds, NEW has, NEW got
  PROVE  OfPeer(q, has, got)
BY DEF OfPeer, DiscoveryKinds

LEMMA StepDiscovered ==
  ASSUME OneMaster, Served, Types, Linked, Handlers, Captured, Queried, Discovered, [Next]_vars
  PROVE  Discovered'
<1> SUFFICES ASSUME NEW i \in MasterIds, i \in Live'
             PROVE  OfPeer(query'[link'[i].h], Layout(link'[i].peer), slave')
  BY DEF Discovered
<1>0. query \in [Handles -> AnyQuery] /\ QueueTypes /\ DiscTypes /\ LinkTypes /\ QueryTypes
  BY DEF Types, QueryTypes
<1>1. i \in Live => /\ link[i].h \in Handles /\ Has(link[i].h) = Layout(link[i].peer)
                    /\ Layout(link[i].peer).svc # 0 /\ Layout(link[i].peer).out # 0
                    /\ OfPeer(query[link[i].h], Layout(link[i].peer), slave)
  BY <1>0, HasOf, LinkFields DEF Served, Discovered
<1>2. CASE \E h \in Handles : Found(h)
  <2>1. PICK h \in Handles : Found(h)
    BY <1>2
  <2>2. UNCHANGED <<link, handle_2_id>> /\ query[h].kind \in {"svc", "char", "desc"}
    BY <1>0, <2>1, FoundDoes
  <2>3. i \in Live /\ link' = link
    BY <2>2 DEF Live
  <2>4. query[h] # NoQuery /\ query[h].kind \in DiscoveryKinds
    BY <2>2 DEF NoQuery, DiscoveryKinds
  <2>5. link[i].h = h
    BY <2>3, <2>4 DEF Queried, OneMaster
  <2> QED BY <1>0, <1>1, <2>1, <2>3, <2>5, FoundOfPeer
<1>3. CASE slave' = slave
  <2>1. CASE UNCHANGED <<query, link, handle_2_id>>
    BY <1>1, <1>3, <2>1 DEF Live
  <2>2. CASE AskAny
    <3>1. PICK h \in Handles, kind \in HostKinds, arg \in Nat : Asked(h, kind, arg)
      BY <2>2 DEF AskAny
    <3>2. PICK q \in AnyQuery : query' = [query EXCEPT ![h] = q] /\ q.kind = kind
      BY <1>0, <3>1, AskIs
    <3>3. i \in Live /\ link' = link
      BY <3>1 DEF Live, Asked
    <3>4. q.kind \notin DiscoveryKinds
      BY <3>2, KindsApart
    <3>5. query'[link[i].h] = q \/ query'[link[i].h] = query[link[i].h]
      BY <1>0, <1>1, <3>2, <3>3
    <3> QED BY <1>1, <1>3, <3>3, <3>4, <3>5, OthersOfPeer
  <2>3. CASE \E h \in Handles : HostResult(h) \/ Broken(h)
    <3>1. PICK h \in Handles : query' = [query EXCEPT ![h] = NoQuery] /\ link' = link
      BY <2>3 DEF HostResult, Broken
    <3>2. i \in Live
      BY <3>1 DEF Live
    <3>3. query'[link[i].h] = NoQuery \/ query'[link[i].h] = query[link[i].h]
      BY <1>0, <1>1, <3>1, <3>2
    <3> QED BY <1>1, <1>3, <3>1, <3>2, <3>3, NoQueryIs, OthersOfPeer, KindsApart
  <2>4. CASE \E h \in Handles : Complete(h)
    <3>1. PICK h \in Handles : Complete(h)
      BY <2>4
    <3>2. PICK q \in AnyQuery : query' = [query EXCEPT ![h] = q] /\ UNCHANGED <<link, handle_2_id>>
      BY <1>0, <3>1, CompleteDoes
    <3>3. i \in Live /\ link' = link
      BY <3>2 DEF Live
    <3>4. CASE link[i].h = h
      BY <1>0, <1>1, <1>3, <3>1, <3>3, <3>4, CompleteOfPeer
    <3>5. CASE link[i].h # h
      BY <1>0, <1>1, <1>3, <3>2, <3>3, <3>5
    <3> QED BY <3>4, <3>5
  <2>5. CASE \E j \in Ids : LinkDown(j)
    <3>1. PICK j \in Ids : LinkDown(j)
      BY <2>5
    <3>2. i \in Live /\ i # j /\ link'[i] = link[i] /\ j \in Live
      BY <1>0, <3>1, DownLive
    <3>3. query' = [query EXCEPT ![link[j].h] = NoQuery]
      BY <3>1 DEF LinkDown
    <3>4. query'[link[i].h] = query[link[i].h]
      BY <1>0, <1>1, <3>2, <3>3 DEF Linked
    <3> QED BY <1>1, <1>3, <3>2, <3>4
  <2>6. CASE \E j \in Ids, h \in Handles, p \in Peers : LinkUp(j, h, p)
    <3>1. PICK j \in Ids, h \in Handles, p \in Peers : LinkUp(j, h, p)
      BY <2>6
    <3>2. /\ j \notin Live /\ Live' = Live \cup {j} /\ link'[j].h = h
          /\ \A k \in Live : link'[k] = link[k] /\ link[k].h # h
      BY <1>0, <3>1, UpLive
    <3>3. CASE i = j
      <4>1. PICK q \in AnyQuery : Put(h, q) /\ q.kind = "svc" /\ q.found = FALSE
        BY <3>1, <3>3, UpQueries
      <4>2. query'[link'[i].h] = q
        BY <1>0, <3>2, <3>3, <4>1 DEF Put
      <4> QED BY <4>1, <4>2 DEF OfPeer
    <3>4. CASE i # j
      <4>1. i \in Live /\ link'[i] = link[i] /\ link[i].h # h
        BY <3>2, <3>4
      <4>2. query'[link[i].h] = query[link[i].h]
        BY <1>0, <1>1, <3>1, <4>1, UpQueries DEF Put
      <4> QED BY <1>1, <1>3, <4>1, <4>2
    <3> QED BY <3>3, <3>4
  <2> QED BY <1>2, <2>1, <2>2, <2>3, <2>4, <2>5, <2>6, QueryKinds
<1> QED BY <1>2, <1>3, SlaveKinds

-----------------------------------------------------------------------------
(* What is answered and sent *)

Telling == {"result", "noti", "freed", "sent", "config"}

LEMMA Mute == Quiet.what \notin Telling
BY DEF Quiet, Telling

(* What each of the steps that tell something tells. *)
LEMMA SendsTell ==
  ASSUME NEW fn, NEW inf, NEW ready, Sends(fn, inf, ready)
  PROVE  said'.what \in {"sent", "ERROR"}
<1>1. CASE Head(runq).cmd.id \in Live /\ link[Head(runq).cmd.id].h \in ready
  BY <1>1 DEF Sends
<1>2. CASE ~(Head(runq).cmd.id \in Live /\ link[Head(runq).cmd.id].h \in ready)
  <2>1. said' = [Quiet EXCEPT !.what = "ERROR", !.id = Head(runq).cmd.id, !.cmd = Head(runq).cmd]
    BY <1>2 DEF Sends
  <2> QED BY <2>1 DEF Quiet
<1> QED BY <1>1, <1>2

LEMMA SubTells ==
  ASSUME NEW i, NEW k, Subscribes(i, k)
  PROVE  said'.what \in {"nothing", "config"}
<1>1. CASE said' = Quiet
  BY <1>1 DEF Quiet
<1>2. CASE said' = [Quiet EXCEPT !.what = "config", !.id = i, !.vh = Head(runq).cmd.vh,
                                 !.val = first_handler[i][k].config, !.cmd = Head(runq).cmd]
  BY <1>2 DEF Quiet
<1> QED BY <1>1, <1>2 DEF Subscribes

LEMMA NotifiedTells ==
  ASSUME NEW h, NEW vh, Notified(h, vh)
  PROVE  said'.what \in {"noti", "raw"}
<1>1. CASE said' = [Quiet EXCEPT !.what = "noti", !.id = handle_2_id[h], !.h = h, !.vh = vh]
  BY <1>1 DEF Quiet
<1>2. CASE said' = [Quiet EXCEPT !.what = "raw", !.h = h, !.vh = vh]
  BY <1>2 DEF Quiet
<1> QED BY <1>1, <1>2 DEF Notified

LEMMA FinishTells ==
  ASSUME NEW h \in Handles, Finish(h)
  PROVE  \/ said'.what = "result"
         \/ said'.what = "freed" /\ query[h].kind = "all"
            /\ said'.vh = discoverer[query[h].cmd.id]
<1>1. CASE said' = [Quiet EXCEPT !.what = "result", !.id = handle_2_id[h], !.cmd = query[h].cmd]
  BY <1>1 DEF Quiet
<1>2. CASE query[h].kind = "all"
           /\ said' = [Quiet EXCEPT !.what = "freed", !.id = query[h].cmd.id,
                                     !.vh = discoverer[query[h].cmd.id], !.cmd = query[h].cmd]
  BY <1>2 DEF Quiet
<1> QED BY <1>1, <1>2, DumpDoes

LEMMA SaidKinds ==
  ASSUME LinkTypes, QueueTypes, Handlers, [Next]_vars
  PROVE  \/ UNCHANGED vars
         \/ said'.what \notin Telling
         \/ \E h \in Handles : query[h].kind \in HostKinds /\ Finish(h)
         \/ \E h \in Handles, vh \in Attrs : Notified(h, vh)
         \/ stack_write_char \/ stack_gatts_notify
         \/ \E i \in Ids : \E k \in DOMAIN first_handler[i] : Subscribes(i, k) /\ stack_sub_char
<1>q. CASE said' = Quiet
  BY <1>q, Mute
<1>a. ASSUME NEW what \in {"ERR", "ERROR"}, NEW c, Answer(c, what) PROVE said'.what \notin Telling
  <2>1. said' = [Quiet EXCEPT !.what = what, !.id = c.id, !.cmd = c]
    BY <1>a DEF Answer
  <2>2. said'.what = what
    BY <2>1 DEF Quiet
  <2> QED BY <2>2 DEF Telling
<1>1. CASE (\E c \in Cmds : Type(c)) \/ Handle
  <2>1. said' = Quiet \/ Answer(Head(msgs), "ERR")
    BY <1>1 DEF Type, Handle
  <2> QED BY <1>a, <1>q, <2>1
<1>2. CASE stack_read_char \/ stack_discover_all
  <2>1. said' = Quiet \/ Answer(Head(runq).cmd, "ERROR")
    BY <1>2 DEF stack_read_char, stack_discover_all
  <2> QED BY <1>a, <1>q, <2>1
<1>3. CASE stack_sub_char
  BY <1>3, <1>q, SubDoes
<1>4. CASE \E h \in Handles : HostResult(h)
  BY <1>4 DEF HostResult
<1>5. CASE \E h \in Handles : Found(h) \/ Complete(h) \/ Broken(h)
  <2>1. PICK h \in Handles : Found(h) \/ Complete(h) \/ Broken(h)
    BY <1>5
  <2>2. \/ said' = Quiet
        \/ \E what \in {"subscribed", "broken"} : said' = [Quiet EXCEPT !.what = what, !.h = h]
    BY <2>1 DEF Found, Complete, Broken
  <2>3. ASSUME NEW what \in {"subscribed", "broken"}, said' = [Quiet EXCEPT !.what = what, !.h = h]
        PROVE  said'.what \notin Telling
    <3>1. said'.what = what
      BY <2>3 DEF Quiet
    <3> QED BY <3>1 DEF Telling
  <2> QED BY <1>q, <2>2, <2>3
<1>6. CASE \E i \in Ids : LinkDown(i)
  <2>1. PICK i \in Ids : LinkDown(i)
    BY <1>6
  <2>2. link[i].h \in Handles
    BY <2>1, LinkFields DEF LinkDown
  <2>3. \/ query[link[i].h].kind \in HostKinds /\ Finish(link[i].h)
        \/ said' = Quiet
    BY <2>1 DEF LinkDown
  <2> QED BY <1>q, <2>2, <2>3
<1>7. CASE \E i \in Ids, h \in Handles, p \in Peers : LinkUp(i, h, p)
  BY <1>7, <1>q DEF LinkUp
<1> QED BY <1>1, <1>2, <1>3, <1>4, <1>5, <1>6, <1>7, Steps

LEMMA StepAnswersLink ==
  Types /\ Linked /\ Handlers /\ Queried /\ AnswersLink /\ [Next]_vars => AnswersLink'
<1> SUFFICES ASSUME Types, Linked, Handlers, Queried, AnswersLink, [Next]_vars PROVE AnswersLink'
  OBVIOUS
<1>0. LinkTypes /\ QueueTypes
  BY DEF Types
<1>1. CASE UNCHANGED vars
  BY <1>1 DEF AnswersLink, vars
<1>2. CASE said'.what \notin {"result", "noti"}
  BY <1>2 DEF AnswersLink
<1>3. ASSUME NEW h \in Handles, query[h].kind \in HostKinds, Finish(h) PROVE AnswersLink'
  <2>1. CASE said'.what = "result"
    <3>1. said'.id = handle_2_id[h] /\ said'.cmd = query[h].cmd
      BY <1>3, <2>1, DumpDoes DEF Quiet
    <3>2. query[h] # NoQuery
      BY <1>3 DEF HostKinds, NoQuery
    <3>3. PICK i \in Live : link[i].h = h
      BY <3>2 DEF Queried
    <3>4. i = query[h].cmd.id
      BY <1>3, <3>3 DEF Queried
    <3>5. handle_2_id[h] = i
      BY <3>3 DEF Linked
    <3> QED BY <2>1, <3>1, <3>4, <3>5 DEF AnswersLink
  <2>2. CASE said'.what # "result"
    <3>1. said'.what = "freed"
      BY <1>3, <2>2, DumpDoes DEF Quiet
    <3> QED BY <3>1 DEF AnswersLink
  <2> QED BY <2>1, <2>2
<1>4. ASSUME NEW h \in Handles, NEW vh \in Attrs, Notified(h, vh) PROVE AnswersLink'
  <2>1. PICK i \in Live : link[i].h = h
    BY <1>4 DEF Notified
  <2>2. link' = link /\ handle_2_id[h] = i
    BY <1>4, <2>1 DEF Notified, Linked
  <2>3. CASE said' = [Quiet EXCEPT !.what = "noti", !.id = handle_2_id[h], !.h = h, !.vh = vh]
    BY <2>1, <2>2, <2>3 DEF AnswersLink, Quiet
  <2>4. CASE said' = [Quiet EXCEPT !.what = "raw", !.h = h, !.vh = vh]
    BY <1>2, <2>4 DEF Quiet
  <2> QED BY <1>4, <2>3, <2>4 DEF Notified
<1>5. CASE stack_write_char \/ stack_gatts_notify
  <2>1. said'.what \notin {"result", "noti"}
    BY <1>5, SendsTell DEF stack_write_char, stack_gatts_notify
  <2> QED BY <1>2, <2>1
<1>6. ASSUME NEW i \in Ids, NEW k \in DOMAIN first_handler[i], Subscribes(i, k) PROVE AnswersLink'
  <2>1. said'.what \notin {"result", "noti"}
    BY <1>6, SubTells
  <2> QED BY <1>2, <2>1
<1> QED BY <1>0, <1>1, <1>2, <1>3, <1>4, <1>5, <1>6, SaidKinds DEF Telling

LEMMA StepFreedSaid ==
  Types /\ Handlers /\ Discovering /\ FreedSaid /\ [Next]_vars => FreedSaid'
<1> SUFFICES ASSUME Types, Handlers, Discovering, FreedSaid, [Next]_vars, waits',
                    said'.what = "freed"
             PROVE  said'.vh # 0
  BY DEF FreedSaid
<1>0. LinkTypes /\ QueueTypes /\ waits
  BY QueueKinds DEF Types, waits
<1>1. CASE UNCHANGED vars
  BY <1>0, <1>1 DEF FreedSaid, vars
<1>2. ASSUME NEW h \in Handles, query[h].kind \in HostKinds, Finish(h) PROVE said'.vh # 0
  <2>1. query[h].kind = "all" /\ said'.vh = discoverer[query[h].cmd.id]
    BY <1>2, FinishTells
  <2> QED BY <1>0, <2>1 DEF Discovering
<1>3. ASSUME NEW h \in Handles, NEW vh \in Attrs, Notified(h, vh) PROVE FALSE
  BY <1>3, NotifiedTells
<1>4. ~(stack_write_char \/ stack_gatts_notify)
  BY SendsTell DEF stack_write_char, stack_gatts_notify
<1>5. ASSUME NEW i \in Ids, NEW k \in DOMAIN first_handler[i], Subscribes(i, k) PROVE FALSE
  BY <1>5, SubTells
<1> QED BY <1>0, <1>1, <1>2, <1>3, <1>4, <1>5, SaidKinds DEF Telling

-----------------------------------------------------------------------------
(* What is written, for values without a zero byte *)

NoZeroByte == \A v \in Values : \A k \in DOMAIN v : v[k] # 0

LEMMA WholeLength ==
  ASSUME NoZeroByte, NEW v \in Values
  PROVE  Length(v) = Len(v) /\ SubSeq(v, 1, Len(v)) = v
<1>0. v \in Seq(Nat)
  BY GattAssumption
<1>1. {i \in 1 .. Len(v) : v[i] = 0} = {}
  BY <1>0 DEF NoZeroByte
<1>2. SelectInSeq(v, LAMBDA b : b = 0) = 0
  BY <1>1 DEF SelectInSeq
<1>3. Length(v) = Len(v)
  BY <1>2 DEF Length
<1>4. SubSeq(v, 1, Len(v)) = v
  <2>1. Len(v) \in Nat /\ \A i \in 1 .. Len(v) : v[i] \in Nat
    BY <1>0
  <2> DEFINE t == SubSeq(v, 1, Len(v))
  <2>2. /\ t \in Seq(Nat) /\ Len(t) = IF 1 <= Len(v) THEN Len(v) - 1 + 1 ELSE 0
        /\ \A i \in 1 .. Len(v) - 1 + 1 : t[i] = v[1 + i - 1]
    BY <2>1, SubSeqProperties
  <2> HIDE DEF t
  <2>3. Len(t) = Len(v)
    BY <2>1, <2>2
  <2>4. \A i \in 1 .. Len(t) : t[i] = v[i]
    BY <2>1, <2>2, <2>3
  <2>5. t = v
    BY <1>0, <2>2, <2>3, <2>4, SeqEqual
  <2> QED BY <2>5 DEF t
<1> QED BY <1>3, <1>4

LEMMA SendsFaithful ==
  ASSUME NoZeroByte, QueueTypes, NEW fn, NEW inf, NEW ready, Sends(fn, inf, ready),
         Ready2Send(runq[1], inf), runq[1].cmd.val \in Values,
         runq[1].n = Length(runq[1].cmd.val)
  PROVE  said'.what \in {"sent", "config"} =>
           said'.id = said'.cmd.id /\ said'.vh = said'.cmd.vh /\ said'.val = said'.cmd.val
<1> DEFINE r == Head(runq)
           i == r.cmd.id
<1>1. runq # <<>>
  BY DEF Sends, Runs
<1>2. r = runq[1]
  BY <1>1, HeadRun
<1>3. inf[i].kept /\ inf[i].data = r.cmd.val /\ inf[i].vh = r.cmd.vh
  BY <1>2 DEF Ready2Send
<1>4. CASE i \in Live /\ link[i].h \in ready
  <2>1. said' = [what |-> "sent", id |-> i, h |-> link[i].h, vh |-> inf[i].vh,
                 val |-> SubSeq(r.cmd.val, 1, IF r.n < Len(r.cmd.val) THEN r.n
                                              ELSE Len(r.cmd.val)),
                 cmd |-> r.cmd]
    BY <1>3, <1>4 DEF Sends
  <2>2. r.n = Len(r.cmd.val) /\ SubSeq(r.cmd.val, 1, Len(r.cmd.val)) = r.cmd.val
    BY <1>2, WholeLength
  <2>3. SubSeq(r.cmd.val, 1, IF r.n < Len(r.cmd.val) THEN r.n ELSE Len(r.cmd.val)) = r.cmd.val
    BY <2>2
  <2> QED BY <1>3, <2>1, <2>3
<1>5. CASE ~(i \in Live /\ link[i].h \in ready)
  <2>1. said' = [Quiet EXCEPT !.what = "ERROR", !.id = i, !.cmd = r.cmd]
    BY <1>5 DEF Sends
  <2> QED BY <2>1 DEF Quiet
<1> QED BY <1>4, <1>5

LEMMA StepWriteFaithful ==
  ASSUME NoZeroByte, Types, Handlers, AsGiven, WriteFaithful, [Next]_vars
  PROVE  WriteFaithful'
<1> SUFFICES ASSUME waits', said'.what \in {"sent", "config"}
             PROVE  said'.id = said'.cmd.id /\ said'.vh = said'.cmd.vh /\ said'.val = said'.cmd.val
  BY DEF WriteFaithful
<1>0. LinkTypes /\ QueueTypes /\ waits
  BY QueueKinds DEF Types, waits
<1>1. CASE UNCHANGED vars
  BY <1>0, <1>1 DEF WriteFaithful, vars
<1>2. ASSUME NEW h \in Handles, Finish(h) PROVE FALSE
  BY <1>2, FinishTells
<1>3. ASSUME NEW h \in Handles, NEW vh \in Attrs, Notified(h, vh) PROVE FALSE
  BY <1>3, NotifiedTells
<1>4. CASE stack_write_char
  <2>1. runq # <<>> /\ Head(runq).fn = "stack_write_char"
    BY <1>4 DEF stack_write_char, Sends, Runs
  <2>2. 1 \in DOMAIN runq /\ runq[1].fn = "stack_write_char"
    BY <1>0, <2>1, HeadRun
  <2> QED BY <1>0, <1>4, <2>2, SendsFaithful DEF AsGiven, stack_write_char
<1>5. CASE stack_gatts_notify
  <2>1. runq # <<>> /\ Head(runq).fn = "stack_gatts_notify"
    BY <1>5 DEF stack_gatts_notify, Sends, Runs
  <2>2. 1 \in DOMAIN runq /\ runq[1].fn = "stack_gatts_notify"
    BY <1>0, <2>1, HeadRun
  <2> QED BY <1>0, <1>5, <2>2, SendsFaithful DEF AsGiven, stack_gatts_notify
<1>6. ASSUME NEW i \in Ids, NEW k \in DOMAIN first_handler[i], Subscribes(i, k), stack_sub_char
      PROVE  said'.id = said'.cmd.id /\ said'.vh = said'.cmd.vh /\ said'.val = said'.cmd.val
  <2> DEFINE r == Head(runq)
  <2>1. runq # <<>> /\ r.fn = "stack_sub_char"
    BY <1>6 DEF stack_sub_char, Runs
  <2>2. 1 \in DOMAIN runq /\ r = runq[1]
    BY <1>0, <2>1, HeadRun
  <2>3. /\ i = r.cmd.id /\ first_handler[i][k].vh = r.cmd.vh
        /\ said' = [Quiet EXCEPT !.what = "config", !.id = i, !.vh = r.cmd.vh,
                                 !.val = first_handler[i][k].config, !.cmd = r.cmd]
    BY <1>6 DEF Subscribes, Quiet
  <2>4. first_handler[i][k].config = r.cmd.val
    BY <1>0, <1>6, <2>1, <2>2, <2>3 DEF AsGiven
  <2> QED BY <2>3, <2>4 DEF Quiet
<1> QED BY <1>0, <1>1, <1>2, <1>3, <1>4, <1>5, <1>6, SaidKinds DEF Telling

-----------------------------------------------------------------------------
(* The theorems *)

LEMMA InitInv == Init => Inv /\ Discovered /\ WriteFaithful
<1> SUFFICES ASSUME Init PROVE Inv /\ Discovered /\ WriteFaithful
  OBVIOUS
<1>1. Live = {}
  BY DEF Init, Live
<1>2. LinkTypes
  BY Constants0 DEF Init, LinkTypes
<1>3. InfoTypes
  <2>1. NoInfo \in Info
    BY DEF NoInfo, Info
  <2> QED BY <2>1 DEF Init, InfoTypes
<1>4. DiscTypes
  BY FS_EmptySet DEF Init, DiscTypes
<1>5. QueueTypes
  BY DEF Init, QueueTypes
<1>6. QueryTypes
  BY NoQueryIs DEF Init, QueryTypes
<1>7. \A h \in Handles : query[h] = NoQuery /\ query[h].kind = "none"
  BY NoQueryIs DEF Init
<1>8. Handlers
  <2> DEFINE e == <<>>
  <2>1. e \in Seq(Handler) /\ DOMAIN e = {}
    OBVIOUS
  <2>2. first_handler = [i \in Ids |-> e]
    BY DEF Init
  <2>3. \A i \in Ids : first_handler[i] = e
    BY <2>2
  <2>4. \A i \in Ids : first_handler[i] # <<>> => i \in Live
    BY <2>3
  <2> HIDE DEF e
  <2> QED BY <2>1, <2>2, <2>3, <2>4 DEF Handlers
<1>9. Captured /\ AsGiven
  <2>1. runq = <<>> /\ DOMAIN <<>> = {}
    BY DEF Init
  <2> QED BY <2>1 DEF Captured, AsGiven
<1>10. Queried
  BY <1>7 DEF Queried, HostKinds, DiscoveryKinds
<1>11. OneAtATime
  <2>1. msgs = <<>> /\ runq = <<>> /\ Len(<<>>) = 0
    BY DEF Init
  <2>2. \A h \in Handles : ~Asking(h)
    BY <1>7 DEF Asking, HostKinds
  <2> QED BY <2>1, <2>2 DEF OneAtATime
<1>12. Discovering
  <2>1. discoverers = {} /\ \A i \in Ids : discoverer[i] = 0
    BY DEF Init
  <2> QED BY <1>7, <2>1 DEF Discovering
<1>13. said.what = "nothing"
  BY DEF Init, Quiet
<1> QED BY <1>1, <1>2, <1>3, <1>4, <1>5, <1>6, <1>8, <1>9, <1>10, <1>11, <1>12, <1>13
       DEF Inv, Types, Linked, Discovered, WriteFaithful, FreedSaid, AnswersLink

LEMMA StepInv == Inv /\ [Next]_vars => Inv'
<1> SUFFICES ASSUME Inv, [Next]_vars PROVE Inv'
  OBVIOUS
<1>1. Types'
  BY StepLinkTypes, StepInfoTypes, StepDiscTypes, StepQueueTypes, StepQueryTypes DEF Inv, Types
<1>2. Linked' /\ Handlers' /\ Captured' /\ Queried'
  BY StepLinked, StepHandlers, StepCaptured, StepQueried DEF Inv, Types
<1>3. OneAtATime' /\ AsGiven' /\ Discovering'
  BY StepOneAtATime, StepAsGiven, StepDiscovering DEF Inv
<1>4. FreedSaid' /\ AnswersLink'
  BY StepFreedSaid, StepAnswersLink DEF Inv
<1> QED BY <1>1, <1>2, <1>3, <1>4 DEF Inv

LEMMA AlwaysInv == Spec => []Inv
BY InitInv, StepInv, PTL DEF Spec

LEMMA TypeGoal == Inv => TypeOK
<1> SUFFICES ASSUME Inv PROVE TypeOK
  OBVIOUS
<1>1. ASSUME NEW i \in Ids
      PROVE  /\ write_char_info[i].vh \in Attrs \cup {0}
             /\ gatts_value_info[i].data \in Values \cup {<<>>}
  <2>1. write_char_info[i] \in Info /\ gatts_value_info[i] \in Info
    BY DEF Inv, Types, InfoTypes
  <2> QED BY <2>1 DEF Info
<1>2. ASSUME NEW i \in Ids
      PROVE  IsInjective([k \in DOMAIN first_handler[i] |-> first_handler[i][k].vh])
  BY DEF Inv, Handlers, IsInjective
<1> QED BY <1>1, <1>2 DEF Inv, Types, LinkTypes, Handlers, Queried, TypeOK

(***************************************************************************)
(* Every state of the GATT commands is well typed: handlers belong to live *)
(* links, one for a characteristic, and each query under way is that of a  *)
(* live link, whatever commands, answers and ends of links come.           *)
(***************************************************************************)
THEOREM GattTypeCorrect == Spec => []TypeOK
BY AlwaysInv, TypeGoal, PTL

(***************************************************************************)
(* A result names the id of the command that asked for it and a value the  *)
(* link it came over, for any host: although a runnable keeps a handle,    *)
(* and an answer finds the id by the handle, and links end in between.     *)
(***************************************************************************)
THEOREM AnswersAlwaysOfLink == Spec => []AnswersLink
<1>1. Inv => AnswersLink
  BY DEF Inv
<1> QED BY <1>1, AlwaysInv, PTL

(***************************************************************************)
(* For a host that waits for each answer a finished discovery frees the    *)
(* discoverer it has used, and none is lost, also when links end while it  *)
(* runs.                                                                   *)
(***************************************************************************)
THEOREM OwnAlwaysFreed == Spec => []FreesOwn
<1>1. Inv => FreesOwn
  BY DEF Inv, FreedSaid, Discovering, FreesOwn
<1> QED BY <1>1, AlwaysInv, PTL

(***************************************************************************)
(* The values such a host writes, if they hold no zero byte, go to the     *)
(* attribute it named and as it wrote them, although the runnable reads    *)
(* them from a command line that is free by then; and it is the last       *)
(* configuration it asked for that is written to a descriptor.             *)
(***************************************************************************)
THEOREM WritesAlwaysFaithful ==
  ASSUME NoZeroByte
  PROVE  Spec => []WriteFaithful
<1>1. Inv /\ WriteFaithful /\ [Next]_vars => WriteFaithful'
  BY StepWriteFaithful DEF Inv
<1> QED BY <1>1, InitInv, AlwaysInv, PTL DEF Spec

(***************************************************************************)
(* With one master link at a time, and peers that have the service with    *)
(* its output, the descriptor the module writes to is that of the peer at  *)
(* hand, although one set of variables holds what was found on every link  *)
(* there has been.                                                         *)
(***************************************************************************)
THEOREM AlwaysSubscribesRight ==
  ASSUME OneMaster, Served
  PROVE  Spec => []SubscribesRight
<1>1. Inv /\ Discovered /\ [Next]_vars => Discovered'
  BY StepDiscovered DEF Inv
<1>2. Discovered => SubscribesRight
  BY DEF Discovered, OfPeer, SubscribesRight
<1> QED BY <1>1, <1>2, InitInv, AlwaysInv, PTL DEF Spec
=============================================================================
