----------------------------- MODULE MCLeaseServer -----------------------------
(* Small instances of LeaseServer for TLC.                                     *)
EXTENDS LeaseServer, TLC

CONSTANTS a, b,     \* interfaces
          m1, m2,   \* hardware addresses
          n1, n2,   \* servers
          k1        \* template

Children == Permutations(Procs)

-------------------------------------------------------------------------------
(* Datagrams                                                                   *)

Discover(n, i, m) == [type |-> "discover", nas |-> n, iface |-> i, mac |-> m, ip |-> NoIp]
Request(n, i, m, ip) == [type |-> "request", nas |-> n, iface |-> i, mac |-> m, ip |-> ip]

\* Every client behind its interface; it requests the addresses of qs.
Sessions(clients, qs) ==
    {Discover(k[1], k[2], k[3]) : k \in clients}
    \cup {Request(k[1], k[2], k[3], ip) : k \in clients, ip \in qs}

\* One client per interface.
Fixed == Sessions({<<n1, a, m1>>, <<n1, b, m2>>}, {1, 2})

\* One client per server: the children that overlap have connections of their own.
Apart == Sessions({<<n1, a, m1>>, <<n2, b, m2>>}, {1, 2})

\* A client that moves between the interfaces of two servers.
Roaming == Sessions({<<n1, a, m1>>, <<n2, b, m1>>, <<n2, b, m2>>}, {1, 2})

-------------------------------------------------------------------------------
(* Configurations                                                              *)

Pool(s, e, static, routed, tmpl) ==
    [s |-> s, e |-> e, static |-> static, routed |-> routed, ptp |-> TRUE, tmpl |-> tmpl]

\* Both interfaces draw on one list of two addresses.
SharedDynamic == [i \in Ifaces |-> {Pool(1, 2, FALSE, TRUE, k1)}]

\* The same without routes, which none of the questions about the table reads.
SharedUnrouted == [i \in Ifaces |-> {Pool(1, 2, FALSE, FALSE, k1)}]

SharedStatic == [i \in Ifaces |-> {Pool(1, 2, TRUE, TRUE, k1)}]

\* The row of an interface can be missing.
Sometimes(conf0) == [i \in Ifaces |-> conf0[i] \cup {NoConf}]
SometimesStatic == Sometimes(SharedStatic)

\* Lists that overlap in one address, one of them static and without routes.
Overlapping == (a :> {Pool(1, 2, FALSE, TRUE, k1)}) @@ (b :> {Pool(2, 2, TRUE, FALSE, k1)})

-------------------------------------------------------------------------------
(* Option templates                                                            *)

LeaseTime(t) == [code |-> "leasetime", number |-> TRUE, val |-> t]
Other == [code |-> "other", number |-> FALSE, val |-> 0]

\* A lease time of another type than NUMBER.
TypedTime(t) == [code |-> "leasetime", number |-> FALSE, val |-> t]

OtherThenTime == [k \in Templates |-> <<Other, LeaseTime(1)>>]
TimeThenOther == [k \in Templates |-> <<LeaseTime(1), Other>>]
TypedTimeFirst == [k \in Templates |-> <<TypedTime(1), Other>>]

\* A lease of less than a unit of the clock.
ZeroTime == [k \in Templates |-> <<Other, LeaseTime(0)>>]

\* The largest 32-bit number, which is stored as -1.
LargestTime == [k \in Templates |-> <<Other, LeaseTime(Word - 1)>>]
===============================================================================
