---------------------------- MODULE MCConnection ----------------------------
(* Connection for TLC: a host and a client, and how much the host sends.    *)
EXTENDS Connection

CONSTANTS host, client

BothEnds == {host, client}
OtherEnd == [e \in BothEnds |-> IF e = host THEN client ELSE host]

HostSends(n) == [e \in BothEnds |-> IF e = host THEN n ELSE 0]

HostSends0 == HostSends(0)
HostSends1 == HostSends(1)
HostSends2 == HostSends(2)
HostSends5 == HostSends(5)
=============================================================================
