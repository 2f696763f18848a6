----------------------------- MODULE MCDhcpNetwork -----------------------------
(* Small instances of DhcpNetwork for TLC.                                     *)
EXTENDS DhcpNetwork, TLC

CONSTANTS a, b, z,      \* interfaces
          m1, m2,       \* hardware addresses
          n1            \* server

OneServer == [i \in Ifaces |-> n1]

TwoHomes == (m1 :> a) @@ (m2 :> b)

\* One client can be started anew, where it was or at an interface nobody else
\* sits at.
OneMoves == (m1 :> {a, z}) @@ (m2 :> {})
NobodyMoves == [c \in {m1, m2} |-> {}]

\* What these clients can send.
AllDatagrams ==
    {[type |-> "discover", nas |-> n1, iface |-> i, mac |-> c, ip |-> NoIp] :
        i \in Ifaces, c \in {m1, m2}}
    \cup {[type |-> "request", nas |-> n1, iface |-> i, mac |-> c, ip |-> q] :
        i \in Ifaces, c \in {m1, m2}, q \in Ips}

\* One list for all interfaces, with an address for each client.
OnePool ==
    [i \in Ifaces |-> {[s |-> 1, e |-> 2, static |-> FALSE, routed |-> FALSE,
                        ptp |-> TRUE, tmpl |-> CHOOSE k \in Templates : TRUE]}]

Timed(t) ==
    [k \in Templates |-> <<[code |-> "other", number |-> FALSE, val |-> 0],
                           [code |-> "leasetime", number |-> TRUE, val |-> t]>>]
Timed1 == Timed(1)
Timed3 == Timed(3)
===============================================================================
