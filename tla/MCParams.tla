------------------------------ MODULE MCParams ------------------------------
(* Instances of AtParams for TLC: names, addresses, reports and hosts.      *)
EXTENDS AtParams

CONSTANTS n1, n2, long, m1, u1, d1, d2, d3, x, y

Length(p) == IF p = x THEN 1 ELSE 2

Rep(a, pre, suf, uuid, rssi) ==
  [addr |-> a, prefix |-> pre, suffix |-> suf, uuid16 |-> uuid, rssi |-> rssi]
SomeReports == {Rep(d1, "9168_AT", "z", u1, 2), Rep(d1, Absent, Absent, Absent, 2),
                Rep(d2, "9168_AT", "z", Odd, 1), Rep(d3, "9168_AT", "w", u1, 2)}

Filter(pre, suf, uuid16, uuid128, rssi) ==
  [prefix |-> pre, suffix |-> suf, uuid16 |-> uuid16, uuid128 |-> uuid128, rssi |-> rssi]
SomeFilters == {Filter(Star, "z", Star, Odd, 0), Filter(Star, Star, u1, Star, 0),
                Filter("9168_AT", Star, Odd, u1, 2)}

SomeUarts    == {[baud |-> 9600, bits |-> 9], [baud |-> 9600, bits |-> 7]}
SomeSettings == {[latency |-> 0, phy |-> 1], [latency |-> 3, phy |-> 1],
                 [latency |-> 0, phy |-> 2]}
SomeIntervals == {-1, 0, 6}

SomeSessions ==
  {{"NAME", "MAC", "FLASH", "Z", "QUERY"}, {"UUID", "UART", "SLEEP", "FLASH", "QUERY"},
   {"MAC", "MODE", "ADVINT", "FLASH", "LINK"}, {"POWER", "FLASH"}, {"SCAN", "FLASH"},
   {"RXNUM"}, {"CONN_PARAM", "CONN_PHY", "MODE", "LINK"}}
Naming   == {{"NAME", "FLASH", "QUERY"}}
=============================================================================
