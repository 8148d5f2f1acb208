------------------------------ MODULE MCStream ------------------------------
(* Instances of AtStream for TLC: the links and the lines the host types.   *)
EXTENDS AtStream

CONSTANTS m, m2, s, s2

Line(word) == <<"A", "T", "+", word, "CR", "LF">>
Bare       == <<"A", "T", "+", "LF">>    \* a line feed right after the prefix

TransparentLines == {Line("TO"), Line("+++")}
OneSlotLines     == {Line("SEND")}
AllLines         == {Line(w) : w \in Words}
CommandLines     == {Line("OTHER"), Line("TO"), Bare, <<"A", "A", "T", "+">>,
                     <<"A", "T", "+", "d", "d", "d", "d">>}
PlusAndData      == {<<"+", "+", "+">>, <<"d", "d", "d", "d">>}
OneByte          == {<<"d">>}
TwoBytes         == {<<"d", "d">>}
NoData           == {}

(* Action constraint: no link is lost. *)
LinksKept == up \subseteq up'

(* The part of the behaviours in which, besides, the host waits before it   *)
(* types again.                                                             *)
HostWaits  == typing = <<>> /\ typing' # <<>> => msgq = <<>> /\ BtFree
PoliteSpec == Init /\ [][Next /\ LinksKept /\ HostWaits]_vars
=============================================================================
