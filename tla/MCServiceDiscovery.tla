------------------------- MODULE MCServiceDiscovery -------------------------
(* Peers for TLC: no service, a service without characteristics, one whose      *)
(* characteristics have room for descriptors or not, one with as many           *)
(* characteristics as the buffer takes.                                         *)
EXTENDS ServiceDiscovery

Bare   == [end |-> 1, values |-> <<>>]
Mixed  == [end |-> 9, values |-> <<3, 5, 8>>]
Roomy  == [end |-> 14, values |-> <<11, 14>>]
Tail3  == [end |-> 24, values |-> <<17, 21, 23>>]

MCDatabases == {<<>>, <<Bare, Mixed, Roomy>>, <<Mixed, Tail3>>, <<Roomy, Bare>>}

=============================================================================
