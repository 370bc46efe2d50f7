---- MODULE MCServerRing ----
EXTENDS ServerRing
F(s,n) == [start |-> s, length |-> n]
S(e,c) == [end |-> e, config |-> c]
Ex == {0,1,8}
Mods == {<<F(5,0)>>, <<F(-12,7),F(-5,28),F(24,9)>>}
Sched == <<S(20,0),S(50,0)>>
====
