----------------------------- MODULE DhcpNetwork ------------------------------
(* The server among its clients.  LeaseServer leaves open what datagrams        *)
(* arrive; here clients send them, a network carries, loses or delays them, and *)
(* the server's answers come back the same way.  What is asked is what a        *)
(* subscriber asks: is my address mine alone, and do I get one?                 *)
(*                                                                             *)
(* Clients and network are external.  A client follows the exchange that        *)
(* process_discover and process_request answer: DISCOVER, OFFER, REQUEST of the  *)
(* offered address, ACK, later REQUEST of the address it has.                   *)
EXTENDS LeaseServer

CONSTANTS
    NasOf,       \* per interface, the server it belongs to
    Home,        \* per client (its hardware address), the interface it starts at
    MovesTo,     \* per client, the interfaces it may be started at anew
    MoveUntil,   \* bound on the time of a move
    MaxLosses    \* bound on the number of messages lost

VARIABLES
    net,         \* the messages under way
    losses,      \* the number of messages lost
    cl           \* per client, its state

netVars == <<net, losses, cl>>
allVars == <<vars, net, losses, cl>>

Clients == DOMAIN Home

ASSUME ClientsAssumption ==
    /\ Clients \subseteq Macs
    /\ NasOf \in [Ifaces -> Nas]
    /\ Home \in [Clients -> Ifaces]
    /\ MovesTo \in [Clients -> SUBSET Ifaces]
    /\ MoveUntil \in Nat /\ MaxLosses \in Nat

\* The interfaces a client may ever sit at.
Places(c) == {Home[c]} \cup MovesTo[c]

DiscoverAt(c, i) ==
    [type |-> "discover", nas |-> NasOf[i], iface |-> i, mac |-> c, ip |-> NoIp]

RequestAt(c, i, ip) ==
    [type |-> "request", nas |-> NasOf[i], iface |-> i, mac |-> c, ip |-> ip]

\* The server can be sent whatever its clients may say.
ASSUME MessagesAssumption ==
    \A c \in Clients : \A i \in Places(c) :
        /\ DiscoverAt(c, i) \in Datagrams
        /\ \A ip \in Ips : RequestAt(c, i, ip) \in Datagrams

\* An answer: broadcast on the interface of the datagram, for the client whose
\* hardware address it repeats.
Answer == [type: {"offer", "ack", "nak", "decline"}, mac: Macs, iface: Ifaces,
           ip: Ips \cup {NoIp}, told: Nat]

Client == [st: {"init", "selecting", "requesting", "bound", "renewing"},
           at: Ifaces, ip: Ips \cup {NoIp}, sent: Nat, until: Nat]

NetTypeOK ==
    /\ net \subseteq Datagrams \cup Answer
    /\ cl \in [Clients -> Client]

-------------------------------------------------------------------------------
(* Messages                                                                    *)

Discovers(c) == DiscoverAt(c, cl[c].at)

Requests(c, ip) == RequestAt(c, cl[c].at, ip)

\* recvfrom_flags takes a datagram from the socket together with the interface it
\* came in on, and a child is forked for it.
Arrive(p, d) ==
    /\ d \in net
    /\ Fork(p, d)
    /\ net' = net \ {d}
    /\ UNCHANGED <<losses, cl>>

MutantRespond(p) ==
    /\ Send(p)
    /\ net' = IF loc[p].reply = "none" THEN net
              ELSE net \cup {[type |-> loc[p].reply, mac |-> dg[p].mac,
                              iface |-> dg[p].iface, ip |-> loc[p].ip,
                              told |-> loc[p].till - now]}
    /\ UNCHANGED <<losses, cl>>

\* sendwith_flags broadcasts the answer on that interface.  One without a message
\* type is no answer to any client.
Respond(p) ==
    /\ Send(p)
    /\ net' = IF loc[p].reply = "none" THEN net
              ELSE net \cup {[type |-> loc[p].reply, mac |-> dg[p].mac,
                              iface |-> dg[p].iface, ip |-> loc[p].ip,
                              told |-> loc[p].told]}
    /\ UNCHANGED <<losses, cl>>

Drop(msg) == net' = net \ {msg} /\ UNCHANGED <<vars, cl>>

\* A message is lost.
Lose(msg) ==
    /\ losses < MaxLosses
    /\ losses' = losses + 1
    /\ Drop(msg)

\* Something of the exchange of c is under way: a message or a child.
Pending(c) ==
    \/ \E msg \in net : msg.mac = c
    \/ \E p \in Procs : pc[p] # "idle" /\ dg[p].type # "boot" /\ dg[p].mac = c

-------------------------------------------------------------------------------
(* Clients                                                                     *)

Becomes(c, st) == cl' = [cl EXCEPT ![c].st = st]

\* A client that starts at interface i, with nothing.
Fresh(i) == [st |-> "init", at |-> i, ip |-> NoIp, sent |-> 0, until |-> 0]

StartsAgain(c, i) == cl' = [cl EXCEPT ![c] = Fresh(i)]

\* A client without an address asks for one.
Discover(c) ==
    /\ cl[c].st = "init"
    /\ ~Pending(c)
    /\ Becomes(c, "selecting")
    /\ net' = net \cup {Discovers(c)}
    /\ UNCHANGED <<vars, losses>>

\* It repeats the question while an earlier copy is still under way.
Repeat(c) ==
    /\ cl[c].st = "selecting"
    /\ Discovers(c) \notin net
    /\ net' = net \cup {Discovers(c)}
    /\ UNCHANGED <<vars, losses, cl>>

\* The answer is for the client and fits its state.
Wants(c, msg) ==
    /\ msg.mac = c /\ msg.iface = cl[c].at
    /\ \/ msg.type = "offer" /\ cl[c].st = "selecting" /\ msg.ip # NoIp
       \/ msg.type = "ack" /\ cl[c].st \in {"requesting", "renewing"} /\ msg.ip = cl[c].ip
       \/ msg.type \in {"nak", "decline"} /\ cl[c].st \in {"requesting", "renewing"}

\* It takes an offer and requests the address.
TakeOffer(c, msg) ==
    /\ Wants(c, msg) /\ msg.type = "offer"
    /\ net' = (net \ {msg}) \cup {Requests(c, msg.ip)}
    /\ cl' = [cl EXCEPT ![c].st = "requesting", ![c].ip = msg.ip, ![c].sent = now]
    /\ UNCHANGED <<vars, losses>>

\* An acknowledgement: the lease counts from the time the request was sent.
TakeAck(c, msg) ==
    /\ Wants(c, msg) /\ msg.type = "ack"
    /\ net' = net \ {msg}
    /\ cl' = [cl EXCEPT ![c].st = "bound", ![c].sent = 0,
                          ![c].until = cl[c].sent + msg.told]
    /\ UNCHANGED <<vars, losses>>

\* A refusal: the client gives up the address.
TakeRefusal(c, msg) ==
    /\ Wants(c, msg) /\ msg.type \in {"nak", "decline"}
    /\ net' = net \ {msg}
    /\ StartsAgain(c, cl[c].at)
    /\ UNCHANGED <<vars, losses>>

\* Nothing came, or nothing it could use: it starts again, or goes on with the
\* address it has.
TimeOut(c) ==
    /\ cl[c].st \in {"selecting", "requesting", "renewing"}
    /\ ~Pending(c)
    /\ IF cl[c].st = "renewing"
       THEN cl' = [cl EXCEPT ![c].st = "bound", ![c].sent = 0]
       ELSE StartsAgain(c, cl[c].at)
    /\ UNCHANGED <<vars, net, losses>>

\* Its lease is about to end: it asks for the address once more.
Renew(c) ==
    /\ cl[c].st = "bound" /\ now = cl[c].until
    /\ ~Pending(c)
    /\ net' = net \cup {Requests(c, cl[c].ip)}
    /\ cl' = [cl EXCEPT ![c].st = "renewing", ![c].sent = now]
    /\ UNCHANGED <<vars, losses>>

\* Its lease is over.
Lapse(c) ==
    /\ cl[c].st \in {"bound", "renewing"} /\ now > cl[c].until
    /\ StartsAgain(c, cl[c].at)
    /\ UNCHANGED <<vars, net, losses>>

\* The subscriber's device is started anew, perhaps behind another interface.
Move(c) ==
    /\ cl[c].st = "bound"
    /\ now <= MoveUntil
    /\ \E i \in MovesTo[c] : StartsAgain(c, i)
    /\ UNCHANGED <<vars, net, losses>>

-------------------------------------------------------------------------------

NetInit ==
    /\ Init
    /\ net = {}
    /\ losses = 0
    /\ cl = [c \in Clients |-> Fresh(Home[c])]

Answers == net \cap Answer

Take(c) == \E msg \in Answers : TakeOffer(c, msg) \/ TakeAck(c, msg) \/ TakeRefusal(c, msg)

\* An answer that does not fit the state of its client is ignored.
Ignore(c) == \E msg \in Answers : msg.mac = c /\ ~Wants(c, msg) /\ Drop(msg) /\ UNCHANGED losses

\* What a client does by itself, as opposed to what its user may do.
Act(c) == Discover(c) \/ Take(c) \/ Ignore(c) \/ TimeOut(c) \/ Lapse(c)

\* A child's step that sends nothing.
Work(p) == pc[p] # "send" /\ Step(p) /\ UNCHANGED netVars

Server ==
    \/ \E p \in Procs : (\E d \in net \cap Datagrams : Arrive(p, d)) \/ Work(p) \/ Respond(p)
    \/ \E p \in Procs, n \in Nas : Boot(n, p) /\ UNCHANGED netVars

NetNext ==
    \/ Server
    \/ Environment /\ UNCHANGED netVars
    \/ \E msg \in net : Lose(msg)
    \/ \E c \in Clients : Act(c) \/ Renew(c) \/ Move(c)

\* The processes run; a daemon is started; clocks go on; clients follow their
\* timers and read what they are sent; and a datagram that waits in the server's
\* socket is taken from it some time.  Losses are bounded: of messages sent again
\* and again some get through.
Fairness ==
    /\ \A p \in Procs : WF_allVars(Work(p) \/ Respond(p))
    /\ \A n \in Nas : WF_allVars(\E p \in Procs : Boot(n, p) /\ UNCHANGED netVars)
    /\ WF_allVars(Tick /\ UNCHANGED netVars)
    /\ \A c \in Clients :
        /\ WF_allVars(Act(c))
        /\ SF_allVars(\E p \in Procs, d \in net \cap Datagrams : d.mac = c /\ Arrive(p, d))

NetSpec == NetInit /\ [][NetNext]_allVars /\ Fairness

\* The same with clients that do not wait for an answer before they ask again.
RepeatingSpec == NetInit /\ [][NetNext \/ \E c \in Clients : Repeat(c)]_allVars

-------------------------------------------------------------------------------
(* Properties                                                                  *)

Uses(c) == cl[c].st \in {"bound", "renewing"} /\ now <= cl[c].until

\* While children do not overlap and no DISCOVER is repeated before its answer, a
\* client that uses an address has it in the table: allocated to it, at the
\* interface it sits at, for at least as long as it was told.  Retries, losses,
\* refused offers, moves between interfaces and other clients' requests change
\* nothing about it.
UseIsLeased ==
    \A c \in Clients :
        Uses(c) =>
            /\ cl[c].ip \in Leased(leases)
            /\ LET row == leases[cl[c].ip] IN
                /\ row.mac = c /\ row.iface = cl[c].at
                /\ row.state = "allocated"
                /\ row.static \/ row.till >= cl[c].until

\* A client that needs an address gets one, provided there are enough for all:
\* also after it was moved to another interface, where its offer is refused until
\* the lease it left behind has run out and is cleared.
EventuallyBound == \A c \in Clients : cl[c].st = "init" ~> cl[c].st = "bound"

\* moondhcp.conf:12, defines.h:51: a lease time is the time an address is leased
\* for, and an ALLOCATED one is given out to its client.  No two clients use the
\* same address within the times they were told.
NoDoubleUse ==
    \A c, d \in Clients : c # d /\ Uses(c) /\ Uses(d) => cl[c].ip # cl[d].ip
===============================================================================
