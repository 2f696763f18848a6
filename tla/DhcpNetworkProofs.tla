--------------------------- MODULE DhcpNetworkProofs ---------------------------
(* The server among its clients, for every set of clients, interfaces and       *)
(* addresses and any number of losses: the network puts only behaviours of the  *)
(* daemon together, and an address in use is leased to who uses it.             *)
EXTENDS DhcpNetwork, SerialProofs

-------------------------------------------------------------------------------
(* The inductive invariant                                                     *)

\* A client sits where it may sit, and knows its address as soon as it has asked
\* for one.
ClientsPlaced ==
    \A c \in Clients :
        /\ cl[c].at \in Places(c)
        /\ cl[c].st \in {"requesting", "bound", "renewing"} => cl[c].ip \in Ips

NetInv == NetTypeOK /\ ClientsPlaced

\* Child p serves client c.
Serving(p, c) == pc[p] # "idle" /\ dg[p].type # "boot" /\ dg[p].mac = c

\* At most one thing of the exchange of a client is under way, and it belongs to
\* the interface the client sits at; a client that requests an address has
\* nothing under way but that request or its answer.
OneExchange ==
    /\ \A m \in net : m.mac \in Clients /\ m.iface = cl[m.mac].at
    /\ \A m, k \in net : m.mac = k.mac => m = k
    /\ \A p \in Procs : pc[p] # "idle" /\ dg[p].type # "boot" =>
         /\ dg[p].mac \in Clients /\ dg[p].iface = cl[dg[p].mac].at
         /\ \A m \in net : m.mac # dg[p].mac
    /\ \A c \in Clients : cl[c].st = "bound" => ~Pending(c)
    /\ \A c \in Clients : cl[c].st \in {"requesting", "renewing"} =>
         /\ \A m \in net : m.mac = c /\ m \in Datagrams =>
              m.type = "request" /\ m.ip = cl[c].ip
         /\ \A p \in Procs : Serving(p, c) =>
              dg[p].type = "request" /\ loc[p].ip = cl[c].ip

\* The lease time an answer tells for the lease of address ip.
TimeOf(ip) == LeaseIn(leases[ip].tmpl, FALSE)

LastsUntil(ip, t) == leases[ip].static \/ leases[ip].till >= t

\* As long as t is not over the address of c is leased to c, until t at least.
Holds(c, t) ==
    LET ip == cl[c].ip IN
    now <= t =>
        /\ ip \in Leased(leases)
        /\ leases[ip].mac = c /\ leases[ip].iface = cl[c].at
        /\ leases[ip].state = "allocated"
        /\ LastsUntil(ip, t)
        /\ t <= now + TimeOf(ip)

\* What child p has done for the request that c has sent.
Granted(p, c) ==
    LET ip == cl[c].ip
        row == leases[ip]
    IN  /\ pc[p] = "update" =>
             /\ loc[p].till >= cl[c].sent + TimeOf(ip)
             /\ cl[c].st = "renewing" /\ now <= cl[c].until => loc[p].till >= cl[c].until
        /\ pc[p] \in {"rtDelete", "rtAdd"} => LastsUntil(ip, cl[c].sent + TimeOf(ip))
        /\ pc[p] = "opts" /\ loc[p].reply = "ack" /\ ip \in Leased(leases) =>
             LastsUntil(ip, cl[c].sent + TimeOf(ip))
        /\ pc[p] = "send" /\ loc[p].reply = "ack" =>
             LastsUntil(ip, cl[c].sent + TimeOf(ip)) /\ loc[p].told = TimeOf(ip)

UseOf(c) ==
    /\ cl[c].sent <= now
    /\ cl[c].st \in {"bound", "renewing"} => Holds(c, cl[c].until)
    /\ cl[c].st \in {"requesting", "renewing"} =>
         /\ \A m \in net : m.type = "ack" /\ m.mac = c /\ m.ip = cl[c].ip =>
              Holds(c, cl[c].sent + m.told)
         /\ \A p \in Procs : Serving(p, c) => Granted(p, c)

UseInv == \A c \in Clients : UseOf(c)

-------------------------------------------------------------------------------
(* The daemon inside the network                                               *)

\* Every step of the network is a step of the daemon or leaves it alone.
LEMMA NetStep == [NetNext]_allVars => [Next]_vars
<1> SUFFICES ASSUME [NetNext]_allVars
             PROVE  [Next]_vars
  OBVIOUS
<1>1. CASE Server
  BY <1>1 DEF Server, Arrive, Work, Respond, Next, Step
<1>2. CASE Environment
  BY <1>2 DEF Next
<1>3. ASSUME NEW msg, Drop(msg)
      PROVE  UNCHANGED vars
  BY <1>3 DEF Drop
<1>4. ASSUME NEW c \in Clients, Act(c) \/ Renew(c) \/ Move(c)
      PROVE  UNCHANGED vars
  BY <1>3, <1>4 DEF Act, Discover, Take, TakeOffer, TakeAck, TakeRefusal, Ignore, TimeOut,
     Lapse, Renew, Move
<1>5. CASE UNCHANGED allVars
  BY <1>5 DEF allVars
<1>6. QED
  BY <1>1, <1>2, <1>3, <1>4, <1>5 DEF NetNext, Lose

\* Whatever clients send and the network loses, what the server does is what
\* LeaseServer says: each of its theorems holds in the network.
THEOREM NetworkImplementsServer == NetSpec => Spec
  BY NetStep, PTL DEF NetSpec, NetInit, Spec

-------------------------------------------------------------------------------
(* Types                                                                       *)

\* What a client may say is among the datagrams of the server.
LEMMA MessageTypesOf ==
    ASSUME NetInv, NEW c \in Clients
    PROVE  /\ c \in Macs /\ cl[c] \in Client /\ cl[c].at \in Ifaces
           /\ Discovers(c) \in Datagrams
           /\ Discovers(c).mac = c /\ Discovers(c).iface = cl[c].at
           /\ Discovers(c).type = "discover"
           /\ \A ip \in Ips :
                /\ Requests(c, ip) \in Datagrams
                /\ Requests(c, ip).mac = c /\ Requests(c, ip).iface = cl[c].at
                /\ Requests(c, ip).type = "request" /\ Requests(c, ip).ip = ip
<1>1. cl[c] \in Client /\ cl[c].at \in Ifaces /\ cl[c].at \in Places(c)
  BY DEF NetInv, NetTypeOK, ClientsPlaced, Client
<1>2. QED
  BY <1>1, ClientsAssumption, MessagesAssumption
     DEF Discovers, Requests, DiscoverAt, RequestAt

\* An answer the server gives has the type of one.
LEMMA AnswerSent ==
    ASSUME IndInv, NEW p \in Procs, pc[p] = "send", loc[p].reply # "none"
    PROVE  /\ dg[p] \in Datagrams /\ dg[p] \in Datagram
           /\ [type |-> loc[p].reply, mac |-> dg[p].mac, iface |-> dg[p].iface,
               ip |-> loc[p].ip, told |-> loc[p].told] \in Answer
<1>1. dg[p] \in Datagrams /\ dg[p] \in Datagram /\ loc[p] \in Locals
  BY TypesOf, DatagramsAssumption DEF ChildOK
<1>2. QED
  BY <1>1 DEF Answer, Datagram, Locals

\* What a change of one client leaves of the types.
LEMMA ClientChange ==
    ASSUME NetInv, NEW c \in Clients, NEW k \in Client,
           k.at \in Places(c),
           k.st \in {"requesting", "bound", "renewing"} => k.ip \in Ips,
           cl' = [cl EXCEPT ![c] = k],
           net' \subseteq Datagrams \cup Answer
    PROVE  NetInv'
<1>1. /\ cl' \in [Clients -> Client]
      /\ \A d \in Clients : cl'[d] = IF d = c THEN k ELSE cl[d]
  BY DEF NetInv, NetTypeOK
<1>2. QED
  BY <1>1 DEF NetInv, NetTypeOK, ClientsPlaced

LEMMA FreshType ==
    ASSUME NEW i \in Ifaces
    PROVE  Fresh(i) \in Client /\ Fresh(i).at = i /\ Fresh(i).st = "init"
  BY DEF Fresh, Client

LEMMA NetStarts == NetInit => NetInv
<1> SUFFICES ASSUME NetInit
             PROVE  NetInv
  OBVIOUS
<1>1. \A c \in Clients : Home[c] \in Ifaces
  BY ClientsAssumption
<1>2. QED
  BY <1>1, FreshType DEF NetInit, NetInv, NetTypeOK, ClientsPlaced, Places

LEMMA NetTypeStep ==
    ASSUME IndInv, NetInv, [NetNext]_allVars
    PROVE  NetInv'
<1>1. ASSUME UNCHANGED cl, net' \subseteq Datagrams \cup Answer
      PROVE  NetInv'
  BY <1>1 DEF NetInv, NetTypeOK, ClientsPlaced
<1>2. net \subseteq Datagrams \cup Answer /\ cl \in [Clients -> Client] /\ now \in Nat
  BY DEF NetInv, NetTypeOK, IndInv, TypeOK
<1>3. ASSUME NEW p \in Procs, Respond(p)
      PROVE  NetInv'
  BY <1>1, <1>2, <1>3, AnswerSent DEF Respond, Send
<1>4. CASE Server
  BY <1>1, <1>2, <1>3, <1>4 DEF Server, Arrive, Work, netVars
<1>5. CASE Environment /\ UNCHANGED netVars
  BY <1>1, <1>2, <1>5 DEF netVars
<1>6. ASSUME NEW msg, Drop(msg)
      PROVE  NetInv'
  BY <1>1, <1>2, <1>6 DEF Drop
<1>7. ASSUME NEW c \in Clients, Act(c) \/ Renew(c) \/ Move(c)
      PROVE  NetInv'
  <2>1. /\ c \in Macs /\ cl[c] \in Client /\ cl[c].at \in Ifaces /\ cl[c].at \in Places(c)
        /\ cl[c].st \in {"requesting", "bound", "renewing"} => cl[c].ip \in Ips
        /\ Discovers(c) \in Datagrams
        /\ \A ip \in Ips : Requests(c, ip) \in Datagrams
    BY MessageTypesOf DEF NetInv, ClientsPlaced
  <2>2. ASSUME NEW i \in Places(c), StartsAgain(c, i), net' \subseteq net
        PROVE  NetInv'
    <3>1. i \in Ifaces
      BY <2>2, ClientsAssumption DEF Places
    <3>2. QED
      BY <1>2, <2>2, <3>1, FreshType, ClientChange DEF StartsAgain
  <2>3. CASE Discover(c)
    <3>1. [cl[c] EXCEPT !.st = "selecting"] \in Client
      BY <2>1 DEF Client
    <3>2. cl' = [cl EXCEPT ![c] = [cl[c] EXCEPT !.st = "selecting"]]
      BY <2>3, <1>2 DEF Discover, Becomes
    <3>3. net' \subseteq Datagrams \cup Answer
      BY <1>2, <2>1, <2>3 DEF Discover
    <3>4. QED
      BY <2>1, <3>1, <3>2, <3>3, ClientChange DEF Client
  <2>4. ASSUME NEW msg \in Answers, TakeOffer(c, msg)
        PROVE  NetInv'
    <3> DEFINE k == [cl[c] EXCEPT !.st = "requesting", !.ip = msg.ip, !.sent = now]
    <3>1. msg.ip \in Ips
      BY <2>4 DEF TakeOffer, Wants, Answers, Answer
    <3>2. k \in Client /\ k.at = cl[c].at /\ k.ip = msg.ip
      BY <1>2, <2>1, <3>1 DEF Client
    <3>3. cl' = [cl EXCEPT ![c] = k]
      BY <1>2, <2>4 DEF TakeOffer
    <3>4. net' \subseteq Datagrams \cup Answer
      BY <1>2, <2>1, <2>4, <3>1 DEF TakeOffer
    <3> HIDE DEF k
    <3>5. QED
      BY <2>1, <3>1, <3>2, <3>3, <3>4, ClientChange
  <2>5. ASSUME NEW msg \in Answers, TakeAck(c, msg)
        PROVE  NetInv'
    <3> DEFINE t == cl[c].sent + msg.told
               k == [cl[c] EXCEPT !.st = "bound", !.sent = 0, !.until = t]
    <3>1. t \in Nat /\ cl[c].ip \in Ips
      BY <2>1, <2>5 DEF TakeAck, Wants, Answers, Answer, Client
    <3>2. cl' = [cl EXCEPT ![c] = k]
      BY <1>2, <2>5 DEF TakeAck
    <3> HIDE DEF t
    <3>3. k \in Client /\ k.at = cl[c].at /\ k.ip = cl[c].ip
      BY <2>1, <3>1 DEF Client
    <3>4. net' \subseteq Datagrams \cup Answer
      BY <1>2, <2>5 DEF TakeAck
    <3> HIDE DEF k
    <3>5. QED
      BY <2>1, <3>1, <3>2, <3>3, <3>4, ClientChange
  <2>6. ASSUME NEW msg \in Answers, TakeRefusal(c, msg)
        PROVE  NetInv'
    BY <2>1, <2>2, <2>6 DEF TakeRefusal
  <2>7. CASE Ignore(c)
    BY <1>6, <2>7 DEF Ignore
  <2>8. CASE TimeOut(c)
    <3> DEFINE k == [cl[c] EXCEPT !.st = "bound", !.sent = 0]
    <3>1. CASE cl[c].st = "renewing"
      <4>1. k \in Client /\ k.at = cl[c].at /\ k.ip = cl[c].ip
        BY <2>1 DEF Client
      <4>2. cl' = [cl EXCEPT ![c] = k] /\ net' = net
        BY <1>2, <2>8, <3>1 DEF TimeOut
      <4> HIDE DEF k
      <4>3. QED
        BY <1>2, <2>1, <3>1, <4>1, <4>2, ClientChange
    <3>2. CASE cl[c].st # "renewing"
      BY <2>1, <2>2, <2>8, <3>2 DEF TimeOut
    <3>3. QED
      BY <3>1, <3>2
  <2>9. CASE Lapse(c)
    BY <2>1, <2>2, <2>9 DEF Lapse
  <2>10. CASE Renew(c)
    <3> DEFINE k == [cl[c] EXCEPT !.st = "renewing", !.sent = now]
    <3>1. k \in Client /\ k.at = cl[c].at /\ k.ip = cl[c].ip /\ k.ip \in Ips
      BY <1>2, <2>1, <2>10 DEF Client, Renew
    <3>2. cl' = [cl EXCEPT ![c] = k]
      BY <1>2, <2>10 DEF Renew
    <3>3. net' \subseteq Datagrams \cup Answer
      BY <1>2, <2>1, <2>10, <3>1 DEF Renew
    <3> HIDE DEF k
    <3>4. QED
      BY <2>1, <3>1, <3>2, <3>3, ClientChange
  <2>11. CASE Move(c)
    BY <2>2, <2>11 DEF Move, Places
  <2>12. QED
    BY <1>7, <2>3, <2>4, <2>5, <2>6, <2>7, <2>8, <2>9, <2>10, <2>11 DEF Act, Take
<1>8. CASE UNCHANGED allVars
  BY <1>1, <1>2, <1>8 DEF allVars
<1>9. QED
  BY <1>4, <1>5, <1>6, <1>7, <1>8 DEF NetNext, Lose

LEMMA NetInvariance == NetSpec => []NetInv
  BY NetStarts, NetTypeStep, Invariance, NetworkImplementsServer, PTL DEF NetSpec

\* Messages and clients keep their types: no client asks for an address it does
\* not know, and the server is sent nothing but what it may be sent.
THEOREM NetworkTypes == NetSpec => []NetTypeOK
<1>1. NetInv => NetTypeOK
  BY DEF NetInv
<1>2. QED
  BY <1>1, NetInvariance, PTL

-------------------------------------------------------------------------------
(* One exchange at a time                                                      *)

\* A child that goes on serves the same datagram, and a REQUEST keeps its address.
LEMMA ServesOn ==
    ASSUME IndInv, NEW p \in Procs, Step(p)
    PROVE  /\ pc[p] # "idle"
           /\ \/ pc'[p] = "idle"
              \/ dg'[p] = dg[p] /\ (dg[p].type = "request" => loc'[p].ip = loc[p].ip)
<1>1. /\ pc \in [Procs -> Labels] /\ dg \in [Procs -> Datagrams \cup Startup \cup {Nil}]
      /\ loc \in [Procs -> Locals] /\ loc[p] \in Locals
      /\ ChildOK(pc[p], dg[p], loc[p])
  BY TypesOf
<1>2. Exit(p) => pc'[p] = "idle"
  BY <1>1 DEF Exit, Goto
<1>3. ASSUME NEW type, NEW l, Return(p, type, l)
      PROVE  loc'[p].ip = loc[p].ip
  BY <1>1, <1>3 DEF Return, NoLocals
<1>4. ClearDone(p) => pc'[p] = "idle" \/ (dg' = dg /\ loc'[p].ip = loc[p].ip)
  BY <1>1, <1>2 DEF ClearDone, Locals
<1>5. pc[p] \in Discovering => dg[p].type = "discover"
  BY <1>1 DEF ChildOK
<1>6. CASE ReadConf(p)
  BY <1>1, <1>3, <1>5, <1>6 DEF ReadConf, Discovering
<1>7. CASE ClearSelect(p) \/ ClearRoute(p)
  <2>1. CASE ClearSelect(p)
    BY <1>1, <2>1 DEF ClearSelect, Locals
  <2>2. CASE ClearRoute(p)
    <3>1. PICK ip \in loc[p].todo : loc' = [loc EXCEPT ![p].todo = @ \ {ip}]
      BY <2>2 DEF ClearRoute
    <3>2. QED
      BY <1>1, <2>2, <3>1 DEF ClearRoute, Locals
  <2>3. QED
    BY <1>7, <2>1, <2>2
<1>8. CASE ClearDelete(p)
  BY <1>4, <1>8 DEF ClearDelete
<1>9. CASE OfferHeld(p) \/ Scan(p) \/ StoreDelete(p)
  BY <1>2, <1>5, <1>9 DEF OfferHeld, Scan, StoreDelete, Discovering
<1>10. CASE StoreInsert(p)
  BY <1>2, <1>5, <1>10 DEF StoreInsert, Discovering
<1>11. CASE Find(p) \/ ReadLease(p)
  BY <1>1, <1>2, <1>3, <1>11 DEF Find, ReadLease, Locals
<1>12. CASE Update(p)
  BY <1>1, <1>3, <1>12 DEF Update
<1>13. CASE RequestRouteDelete(p) \/ RequestRouteAdd(p)
  BY <1>1, <1>3, <1>13 DEF RequestRouteDelete, RequestRouteAdd
<1>14. CASE ReadOptions(p) \/ Send(p)
  BY <1>1, <1>2, <1>14 DEF ReadOptions, Send, Locals
<1>15. CASE QueryFails(p)
  BY <1>1, <1>2, <1>3, <1>4, <1>5, <1>15 DEF QueryFails, Discovering, Locals
<1>16. CASE AnswerBreaks(p)
  <2>1. dg' = dg
    BY <1>16 DEF AnswerBreaks
  <2>2. CASE pc[p] \in {"conf", "offer"}
    BY <1>5, <1>16, <2>1, <2>2 DEF AnswerBreaks, Discovering
  <2>3. CASE pc[p] = "clrSelect"
    BY <1>1, <1>16, <2>1, <2>3 DEF AnswerBreaks, Locals
  <2>4. CASE pc[p] \in {"find", "lease", "opts"}
    BY <1>1, <1>3, <1>16, <2>1, <2>4 DEF AnswerBreaks, Locals
  <2>5. QED
    BY <1>16, <2>2, <2>3, <2>4 DEF AnswerBreaks
<1>17. CASE ScanBreaks(p)
  BY <1>2, <1>5, <1>17 DEF ScanBreaks, Discovering
<1>18. QED
  BY <1>6, <1>7, <1>8, <1>9, <1>10, <1>11, <1>12, <1>13, <1>14, <1>15, <1>16, <1>17 DEF Step

\* A message that is under way is all there is of its client's exchange.
LEMMA OnlyMessage ==
    ASSUME OneExchange, NEW m \in net
    PROVE  /\ \A k \in net \ {m} : k.mac # m.mac
           /\ \A p \in Procs : ~Serving(p, m.mac)
  BY DEF OneExchange, Serving

LEMMA NothingPending ==
    ASSUME NEW c, ~Pending(c)
    PROVE  /\ \A m \in net : m.mac # c
           /\ \A p \in Procs : ~Serving(p, c)
  BY DEF Pending, Serving

\* Messages are taken away, children go on or end: no exchange begins.
LEMMA ExchangesGoOn ==
    ASSUME OneExchange, UNCHANGED cl, net' \subseteq net,
           \A p \in Procs : pc'[p] # "idle" /\ dg'[p].type # "boot" =>
             /\ pc[p] # "idle" /\ dg'[p] = dg[p]
             /\ dg[p].type = "request" => loc'[p].ip = loc[p].ip
    PROVE  OneExchange'
<1>1. \A p \in Procs, c \in Clients : Serving(p, c)' =>
        Serving(p, c) /\ dg'[p] = dg[p] /\ (dg[p].type = "request" => loc'[p].ip = loc[p].ip)
  BY DEF Serving
<1>2. \A c \in Clients : Pending(c)' => Pending(c)
  BY DEF Pending
<1>3. QED
  BY <1>1, <1>2 DEF OneExchange

\* All that is then under way for client c, which becomes k, is one message of its own.
SendsOne(c, k) ==
    /\ \A m \in net' : m.mac # c => m \in net
    /\ \A m, l \in net' : m.mac = c /\ l.mac = c => m = l
    /\ \A m \in net' : m.mac = c =>
         /\ m.iface = k.at /\ k.st # "bound"
         /\ k.st \in {"requesting", "renewing"} => m.type = "request" /\ m.ip = k.ip

\* A client of whose exchange nothing else is under way changes its state and
\* sends at most one message.
LEMMA ExchangeBegins ==
    ASSUME OneExchange, UNCHANGED vars,
           NEW c \in Clients, NEW k, cl' = [cl EXCEPT ![c] = k], cl \in [Clients -> Client],
           \A p \in Procs : ~Serving(p, c), SendsOne(c, k)
    PROVE  OneExchange'
<1> USE DEF SendsOne
<1>1. \A d \in Clients : cl'[d] = IF d = c THEN k ELSE cl[d]
  OBVIOUS
<1>2. pc' = pc /\ dg' = dg /\ loc' = loc
  BY DEF vars
<1>3. \A m \in net' : m.mac \in Clients /\ m.iface = cl'[m.mac].at
  BY <1>1 DEF OneExchange
<1>4. \A m, l \in net' : m.mac = l.mac => m = l
  BY DEF OneExchange
<1>5. \A p \in Procs : pc[p] # "idle" /\ dg[p].type # "boot" =>
        /\ dg[p].mac # c
        /\ dg[p].mac \in Clients /\ dg[p].iface = cl'[dg[p].mac].at
        /\ \A m \in net' : m.mac # dg[p].mac
  BY <1>1 DEF OneExchange, Serving
<1>6. ASSUME NEW d \in Clients, cl'[d].st = "bound"
      PROVE  ~Pending(d)'
  <2>1. CASE d = c
    <3>1. \A m \in net' : m.mac # c
      BY <1>1, <1>6, <2>1
    <3>2. QED
      BY <1>2, <1>5, <2>1, <3>1 DEF Pending
  <2>2. CASE d # c
    <3>1. ~Pending(d)
      BY <1>1, <1>6, <2>2 DEF OneExchange
    <3>2. QED
      BY <1>2, <2>2, <3>1 DEF Pending
  <2>3. QED
    BY <2>1, <2>2
<1>7. ASSUME NEW d \in Clients, cl'[d].st \in {"requesting", "renewing"}
      PROVE  /\ \A m \in net' : m.mac = d /\ m \in Datagrams =>
                  m.type = "request" /\ m.ip = cl'[d].ip
             /\ \A p \in Procs : Serving(p, d)' =>
                  dg'[p].type = "request" /\ loc'[p].ip = cl'[d].ip
  <2>1. CASE d = c
    BY <1>1, <1>2, <1>5, <1>7, <2>1 DEF Serving
  <2>2. CASE d # c
    <3>1. cl'[d] = cl[d]
      BY <1>1, <2>2
    <3>2. \A m \in net' : m.mac = d => m \in net
      BY <2>2
    <3>3. \A p \in Procs : Serving(p, d)' => Serving(p, d)
      BY <1>2 DEF Serving
    <3>4. QED
      BY <1>2, <1>7, <3>1, <3>2, <3>3 DEF OneExchange
  <2>3. QED
    BY <2>1, <2>2
<1>8. QED
  BY <1>2, <1>3, <1>4, <1>5, <1>6, <1>7 DEF OneExchange

\* The same for an action of the client.
LEMMA ClientExchange ==
    ASSUME NetInv, OneExchange, NEW c \in Clients, Act(c) \/ Renew(c) \/ Move(c)
    PROVE  OneExchange'
<1>1. cl \in [Clients -> Client] /\ cl[c] \in Client
  BY DEF NetInv, NetTypeOK
<1>2. /\ Discovers(c) \in Datagrams
      /\ Discovers(c).mac = c /\ Discovers(c).iface = cl[c].at
      /\ \A ip \in Ips :
            /\ Requests(c, ip).mac = c /\ Requests(c, ip).iface = cl[c].at
            /\ Requests(c, ip).type = "request" /\ Requests(c, ip).ip = ip
  BY MessageTypesOf
\* It says nothing, and nothing is left of its exchange.
<1>3. ASSUME NEW k, cl' = [cl EXCEPT ![c] = k], UNCHANGED vars, net' \subseteq net,
             \A m \in net' : m.mac # c, \A p \in Procs : ~Serving(p, c)
      PROVE  OneExchange'
  <2>1. SendsOne(c, k)
    BY <1>3 DEF SendsOne
  <2>2. QED
    BY <1>1, <1>3, <2>1, ExchangeBegins
<1>5. ASSUME NEW i, StartsAgain(c, i), UNCHANGED vars, net' = net, ~Pending(c)
      PROVE  OneExchange'
  BY <1>3, <1>5, NothingPending DEF StartsAgain
<1>6. CASE Discover(c)
  <2> DEFINE k == [cl[c] EXCEPT !.st = "selecting"]
  <2>1. cl' = [cl EXCEPT ![c] = k] /\ net' = net \cup {Discovers(c)}
    BY <1>1, <1>6 DEF Discover, Becomes
  <2>2. k.st = "selecting" /\ k.at = cl[c].at
    BY <1>1 DEF Client
  <2> HIDE DEF k
  <2>3. SendsOne(c, k)
    BY <1>2, <1>6, <2>1, <2>2, NothingPending DEF SendsOne, Discover
  <2>4. QED
    BY <1>1, <1>6, <2>1, <2>3, NothingPending, ExchangeBegins DEF Discover
<1>7. ASSUME NEW msg \in Answers, TakeOffer(c, msg)
      PROVE  OneExchange'
  <2> DEFINE k == [cl[c] EXCEPT !.st = "requesting", !.ip = msg.ip, !.sent = now]
  <2>1. msg \in net /\ msg.mac = c /\ msg.ip \in Ips
    BY <1>7 DEF TakeOffer, Wants, Answers, Answer
  <2>2. cl' = [cl EXCEPT ![c] = k] /\ net' = (net \ {msg}) \cup {Requests(c, msg.ip)}
    BY <1>1, <1>7 DEF TakeOffer
  <2>3. k.st = "requesting" /\ k.at = cl[c].at /\ k.ip = msg.ip
    BY <1>1 DEF Client
  <2> HIDE DEF k
  <2>4. UNCHANGED vars
    BY <1>7 DEF TakeOffer
  <2>5. (\A m \in net \ {msg} : m.mac # c) /\ \A p \in Procs : ~Serving(p, c)
    BY <2>1, OnlyMessage
  <2>6. SendsOne(c, k)
    BY <1>2, <2>1, <2>2, <2>3, <2>5 DEF SendsOne
  <2>7. QED
    BY <1>1, <2>2, <2>4, <2>5, <2>6, ExchangeBegins
<1>8. ASSUME NEW msg \in Answers, TakeAck(c, msg)
      PROVE  OneExchange'
  <2>1. msg \in net /\ msg.mac = c /\ net' = net \ {msg} /\ UNCHANGED vars
    BY <1>8 DEF TakeAck, Wants, Answers
  <2>2. \E k : cl' = [cl EXCEPT ![c] = k]
    BY <1>1, <1>8 DEF TakeAck
  <2>3. QED
    BY <1>3, <2>1, <2>2, OnlyMessage
<1>9. ASSUME NEW msg \in Answers, TakeRefusal(c, msg)
      PROVE  OneExchange'
  <2>1. msg \in net /\ msg.mac = c /\ net' = net \ {msg} /\ UNCHANGED vars
    BY <1>9 DEF TakeRefusal, Wants, Answers
  <2>2. \E k : cl' = [cl EXCEPT ![c] = k]
    BY <1>9 DEF TakeRefusal, StartsAgain
  <2>3. QED
    BY <1>3, <2>1, <2>2, OnlyMessage
<1>10. CASE Ignore(c)
  BY <1>10, ExchangesGoOn DEF Ignore, Drop, vars
<1>11. CASE TimeOut(c)
  <2>1. CASE cl[c].st = "renewing"
    <3>1. \E k : cl' = [cl EXCEPT ![c] = k]
      BY <1>1, <1>11, <2>1 DEF TimeOut
    <3>2. QED
      BY <1>3, <1>11, <3>1, NothingPending DEF TimeOut
  <2>2. CASE cl[c].st # "renewing"
    BY <1>5, <1>11, <2>2 DEF TimeOut
  <2>3. QED
    BY <2>1, <2>2
<1>12. CASE Lapse(c)
  <2>1. \A d \in Clients : cl'[d].at = cl[d].at /\ (d # c => cl'[d] = cl[d])
    BY <1>1, <1>12 DEF Lapse, StartsAgain, Fresh
  <2>2. cl'[c].st = "init"
    BY <1>1, <1>12 DEF Lapse, StartsAgain, Fresh
  <2>3. net' = net /\ pc' = pc /\ dg' = dg /\ loc' = loc
    BY <1>12 DEF Lapse, vars
  <2>4. \A d \in Clients : Pending(d)' = Pending(d)
    BY <2>3 DEF Pending
  <2>5. QED
    BY <2>1, <2>2, <2>3, <2>4 DEF OneExchange, Serving
<1>13. CASE Renew(c)
  <2> DEFINE k == [cl[c] EXCEPT !.st = "renewing", !.sent = now]
  <2>1. cl' = [cl EXCEPT ![c] = k] /\ net' = net \cup {Requests(c, cl[c].ip)}
    BY <1>1, <1>13 DEF Renew
  <2>2. k.st = "renewing" /\ k.at = cl[c].at /\ k.ip = cl[c].ip
    BY <1>1 DEF Client
  <2>3. cl[c].ip \in Ips
    BY <1>13 DEF Renew, NetInv, ClientsPlaced
  <2> HIDE DEF k
  <2>4. SendsOne(c, k)
    BY <1>2, <1>13, <2>1, <2>2, <2>3, NothingPending DEF SendsOne, Renew
  <2>5. QED
    BY <1>1, <1>13, <2>1, <2>4, NothingPending, ExchangeBegins DEF Renew
<1>14. CASE Move(c)
  <2>1. ~Pending(c)
    BY <1>14 DEF Move, OneExchange
  <2>2. QED
    BY <1>5, <1>14, <2>1 DEF Move
<1>15. QED
  BY <1>6, <1>7, <1>8, <1>9, <1>10, <1>11, <1>12, <1>13, <1>14 DEF Act, Take

\* While children do not overlap a client has one exchange at a time.
LEMMA ExchangeStep ==
    ASSUME \A p, q \in Procs : p = q, IndInv, NetInv, OneExchange, [NetNext]_allVars
    PROVE  OneExchange'
<1>1. ASSUME NEW p \in Procs, NEW d \in net \cap Datagrams, Arrive(p, d)
      PROVE  OneExchange'
  <2>1. d \in Datagrams /\ d \in Datagram /\ d \in net
    BY DatagramsAssumption
  <2>2. /\ pc \in [Procs -> Labels] /\ dg \in [Procs -> Datagrams \cup Startup \cup {Nil}]
        /\ loc \in [Procs -> Locals]
    BY TypesOf
  <2>3. dg'[p] = d /\ (d.type = "request" => loc'[p].ip = d.ip) /\ \A q \in Procs : q = p
    BY <1>1, <2>1, <2>2 DEF Arrive, Fork, Locals
  <2>4. net' = net \ {d} /\ cl' = cl
    BY <1>1 DEF Arrive
  <2>5. \A c \in Clients : Pending(c)' => Pending(c)
    BY <2>1, <2>3, <2>4 DEF Pending
  <2>6. \A c \in Clients : Serving(p, c)' => d.mac = c
    BY <2>3 DEF Serving
  <2>7. d.mac \in Clients /\ d.iface = cl[d.mac].at /\ \A m \in net' : m.mac # d.mac
    BY <2>1, <2>4 DEF OneExchange
  <2>8. QED
    BY <2>1, <2>3, <2>4, <2>5, <2>6, <2>7 DEF OneExchange
<1>2. ASSUME NEW p \in Procs, Work(p)
      PROVE  OneExchange'
  BY <1>2, ServesOn, ExchangesGoOn DEF Work, netVars
<1>3. ASSUME NEW p \in Procs, Respond(p)
      PROVE  OneExchange'
  <2>1. \A q \in Procs : pc'[q] = "idle" /\ q = p
    BY <1>3, TypesOf DEF Respond, Send, Exit, Goto
  <2>2. CASE loc[p].reply = "none"
    BY <1>3, <2>1, <2>2, ExchangesGoOn DEF Respond
  <2>3. CASE loc[p].reply # "none"
    <3> DEFINE x == [type |-> loc[p].reply, mac |-> dg[p].mac, iface |-> dg[p].iface,
                     ip |-> loc[p].ip, told |-> loc[p].told]
    <3>1. pc[p] = "send"
      BY <1>3 DEF Respond, Send
    <3>2. net' = net \cup {x} /\ cl' = cl
      BY <1>3, <2>3 DEF Respond
    <3>3. dg[p] \in Datagram /\ x \in Answer /\ x.mac = dg[p].mac /\ x.iface = dg[p].iface
      BY <2>3, <3>1, AnswerSent
    <3>4. Serving(p, x.mac) /\ x.mac \in Clients /\ x.iface = cl[x.mac].at
          /\ \A m \in net : m.mac # x.mac
      BY <3>1, <3>3 DEF Serving, OneExchange, Datagram
    <3>5. x \notin Datagrams
      BY <3>3, DatagramsAssumption DEF Answer, Datagram
    <3>6. \A c \in Clients : Pending(c)' => Pending(c)
      BY <2>1, <3>2, <3>4 DEF Pending, Serving
    <3> HIDE DEF x
    <3>7. QED
      BY <2>1, <3>2, <3>4, <3>5, <3>6 DEF OneExchange, Serving
  <2>4. QED
    BY <2>2, <2>3
<1>4. ASSUME NEW n \in Nas, NEW p \in Procs, Boot(n, p), UNCHANGED netVars
      PROVE  OneExchange'
  <2>1. \A q \in Procs : dg'[q].type = "boot"
    BY <1>4, TypesOf DEF Boot
  <2>2. QED
    BY <1>4, <2>1, ExchangesGoOn DEF netVars
<1>5. CASE Environment /\ UNCHANGED netVars
  <2>1. \A p \in Procs : pc'[p] = "idle"
                          \/ (pc'[p] = pc[p] /\ dg'[p] = dg[p] /\ loc'[p] = loc[p])
    BY <1>5, RebootEnds DEF Environment, Tick, Reconfigure, Stop
  <2>2. QED
    BY <1>5, <2>1, ExchangesGoOn DEF netVars
<1>6. ASSUME NEW msg, Lose(msg)
      PROVE  OneExchange'
  BY <1>6, ExchangesGoOn DEF Lose, Drop, vars
<1>7. CASE UNCHANGED allVars
  BY <1>7, ExchangesGoOn DEF allVars, vars
<1>8. QED
  BY <1>1, <1>2, <1>3, <1>4, <1>5, <1>6, <1>7, ClientExchange DEF NetNext, Server

-------------------------------------------------------------------------------
(* An address in use                                                           *)

\* No two clients ever sit at the same interface.
Apart == \A c, d \in Clients : c # d => Places(c) \cap Places(d) = {}

\* What request_ip stores for a template when its queries succeed.
StoredFor(tmpl) ==
    IF LeaseOpts(tmpl, TRUE) # {} THEN Signed(LeaseIn(tmpl, TRUE)) ELSE DefaultLease

\* No template tells a client more time than is stored for it.
LongEnough ==
    \A k \in Templates :
        /\ LeaseIn(k, FALSE) <= StoredFor(k)
        /\ "db" \in Faults => LeaseIn(k, FALSE) <= DefaultLease

\* While children do not overlap and no answer breaks off, a live row is left alone
\* but by a child of its own interface.
LEMMA RowKept ==
    ASSUME SerialInv, Uncut, NEW p \in Procs, Step(p),
           NEW ip \in Leased(leases), Live(leases[ip], now)
    PROVE  \/ leases'[ip] = leases[ip]
           \/ pc[p] = "storeDelete" /\ dg[p].iface = leases[ip].iface
           \/ /\ pc[p] = "update" /\ dg[p].iface = leases[ip].iface
              /\ leases'[ip] = Allocated(leases[ip], dg[p].mac, loc[p].till)
<1>1. /\ IndInv /\ ClockOK /\ TargetOK
      /\ leases \in Table /\ now \in Nat /\ loc[p] \in Locals
      /\ ip \in Ips /\ leases[ip] # NoRow /\ leases[ip] \in Row
  BY TypesOf DEF SerialInv, ClockInv, Leased, Table
<1>2. CASE leases' # leases
  <2>1. ClearDelete(p) \/ StoreDelete(p) \/ StoreInsert(p) \/ Update(p)
    BY <1>2 DEF Step, ReadConf, ClearSelect, ClearRoute, OfferHeld, Scan, Find, ReadLease,
       RequestRouteDelete, RequestRouteAdd, ReadOptions, Send, QueryFails,
       AnswerBreaks, ScanBreaks
  <2>2. CASE ClearDelete(p)
    <3>1. loc[p].t <= now /\ loc[p].t \in Nat /\ leases[ip].till \in Int
      BY <1>1, <2>2 DEF ClockOK, ClearDelete, Locals, Row
    <3>2. ip \notin Expired(leases, dg[p].nas, loc[p].t)
      BY <1>1, <3>1 DEF Expired, Live
    <3>3. QED
      BY <1>1, <2>2, <3>2 DEF ClearDelete, ClearExpired
  <2>3. CASE StoreDelete(p)
    <3>1. \A q \in Ips : leases'[q] = IF q = loc[p].ip THEN NoRow ELSE leases[q]
      BY <1>1, <2>3, DeleteIpType DEF StoreDelete
    <3>2. QED
      BY <1>1, <2>3, <3>1 DEF TargetOK, Uncut, StoreDelete
  <2>4. CASE StoreInsert(p)
    <3>1. /\ CanInsert(leases, loc[p].ip, OfferedRow(p))
          /\ leases' = [leases EXCEPT ![loc[p].ip] = OfferedRow(p)]
      BY <1>2, <2>4 DEF StoreInsert
    <3>2. QED
      BY <1>1, <3>1 DEF CanInsert, Table
  <2>5. CASE Update(p)
    <3>1. PICK r \in Confirm(leases, dg[p].iface, dg[p].mac, loc[p].till) : leases' = r.table
      BY <2>5 DEF Update
    <3>2. PICK q \in Leased(leases) :
            /\ leases[q].iface = dg[p].iface
            /\ \A k \in Ips : leases'[k] = IF k = q
                                             THEN Allocated(leases[q], dg[p].mac, loc[p].till)
                                             ELSE leases[k]
      BY <1>1, <1>2, <3>1, ConfirmCases
    <3>3. QED
      BY <1>1, <2>5, <3>2 DEF Update
  <2>6. QED
    BY <2>1, <2>2, <2>3, <2>4, <2>5
<1>3. QED
  BY <1>2

LEMMA ClientTypes ==
    ASSUME NetInv, IndInv, NEW c \in Clients
    PROVE  /\ cl[c] \in Client /\ cl[c].sent \in Nat /\ cl[c].until \in Nat /\ now \in Nat
           /\ cl[c].at \in Places(c)
           /\ \A m \in net : m.type = "ack" => m \in Answer /\ m.told \in Nat
  BY DatagramsAssumption
     DEF NetInv, NetTypeOK, ClientsPlaced, Client, IndInv, TypeOK, Answer, Datagram

\* Who holds a row has the times of its template, which do not change with the row.
LEMMA TimeOfType ==
    ASSUME IndInv, NEW ip \in Leased(leases)
    PROVE  /\ ip \in Ips /\ leases[ip] \in Row /\ leases[ip].till \in Int
           /\ leases[ip].tmpl \in Templates /\ TimeOf(ip) \in Nat
<1>1. ip \in Ips /\ leases[ip] \in Row
  BY DEF IndInv, TypeOK, Leased, Table
<1>2. leases[ip].tmpl \in Templates /\ leases[ip].till \in Int
  BY <1>1 DEF Row
<1>3. QED
  BY <1>1, <1>2, LeaseInType DEF TimeOf

\* No child takes away what client c holds, and its own leaves it for as long.
LEMMA HoldsOn ==
    ASSUME Apart, Uncut, SerialInv, IndInv', NetInv, OneExchange,
           NEW p \in Procs, Step(p), UNCHANGED <<cl, now>>,
           NEW c \in Clients, NEW t \in Nat, Holds(c, t),
           Serving(p, c) => pc[p] # "storeDelete",
           Serving(p, c) /\ pc[p] = "update" /\ now <= t => loc[p].till >= t
    PROVE  Holds(c, t)'
<1> DEFINE ip == cl[c].ip
<1> SUFFICES ASSUME now <= t
             PROVE  /\ ip \in Leased(leases')
                    /\ leases'[ip].mac = c /\ leases'[ip].iface = cl[c].at
                    /\ leases'[ip].state = "allocated"
                    /\ leases'[ip].static \/ leases'[ip].till >= t
                    /\ t <= now + LeaseIn(leases'[ip].tmpl, FALSE)
  BY DEF Holds, LastsUntil, TimeOf
<1>1. /\ ip \in Leased(leases)
      /\ leases[ip].mac = c /\ leases[ip].iface = cl[c].at
      /\ leases[ip].state = "allocated"
      /\ leases[ip].static \/ leases[ip].till >= t
      /\ t <= now + LeaseIn(leases[ip].tmpl, FALSE)
  BY DEF Holds, LastsUntil, TimeOf
<1>2. IndInv /\ now \in Nat
  BY DEF SerialInv, ClockInv, IndInv, TypeOK
<1>3. ip \in Ips /\ leases[ip] \in Row /\ leases[ip].till \in Int
  BY <1>1, <1>2, TimeOfType
<1>4. Live(leases[ip], now)
  BY <1>1, <1>2, <1>3 DEF Live
<1>5. ASSUME pc[p] \in {"storeDelete", "update"}, dg[p].iface = leases[ip].iface
      PROVE  Serving(p, c)
  <2>1. dg[p] \in Datagrams /\ dg[p].type # "boot" /\ pc[p] # "idle"
    BY <1>2, <1>5, TypesOf, DatagramsAssumption
       DEF ChildOK, Discovering, Requesting, Datagram
  <2>2. dg[p].mac \in Clients /\ dg[p].iface = cl[dg[p].mac].at
    BY <2>1 DEF OneExchange
  <2>3. cl[c].at \in Places(c) /\ cl[c].at \in Places(dg[p].mac)
    BY <1>1, <1>5, <2>2 DEF NetInv, ClientsPlaced
  <2>4. QED
    BY <2>1, <2>2, <2>3 DEF Apart, Serving
<1>6. CASE leases'[ip] = leases[ip]
  BY <1>1, <1>3, <1>6 DEF Leased
<1>7. CASE pc[p] = "storeDelete" /\ dg[p].iface = leases[ip].iface
  BY <1>5, <1>7
<1>8. CASE /\ pc[p] = "update" /\ dg[p].iface = leases[ip].iface
           /\ leases'[ip] = Allocated(leases[ip], dg[p].mac, loc[p].till)
  <2>1. dg[p].mac = c /\ loc[p].till >= t
    BY <1>5, <1>8 DEF Serving
  <2>2. /\ leases'[ip].mac = c /\ leases'[ip].iface = cl[c].at
        /\ leases'[ip].state = "allocated" /\ leases'[ip].till = loc[p].till
        /\ leases'[ip].tmpl = leases[ip].tmpl
    BY <1>1, <1>3, <1>8, <2>1 DEF Allocated, Row
  <2>3. ip \in Leased(leases')
    <3>1. loc[p].till \in Int /\ dg[p].mac \in Macs
      BY <1>2, <1>8, TypesOf, GrantFacts DEF Granting, Locals, Datagram
    <3>2. Allocated(leases[ip], dg[p].mac, loc[p].till) \in Row
      BY <1>3, <3>1 DEF Allocated, Row
    <3>3. QED
      BY <1>3, <1>8, <3>2, NoRowAssumption DEF Leased
  <2>4. QED
    BY <1>1, <2>1, <2>2, <2>3
<1>9. QED
  BY <1>1, <1>4, <1>6, <1>7, <1>8, RowKept

LEMMA LaterSum ==
    ASSUME NEW a \in Nat, NEW b \in Nat, NEW n \in Nat, NEW t \in Nat, a <= b, t <= a + n
    PROVE  t <= b + n
  OBVIOUS

\* Time passes.
LEMMA HoldsLater ==
    ASSUME NEW c \in Clients, NEW t \in Nat, Holds(c, t),
           UNCHANGED <<leases, cl>>, IndInv, IndInv', now' >= now
    PROVE  Holds(c, t)'
<1>1. now \in Nat /\ now' \in Nat /\ now <= now'
  BY DEF IndInv, TypeOK
<1> DEFINE ip == cl[c].ip
           l == LeaseIn(leases[ip].tmpl, FALSE)
<1>2. ip \in Leased(leases) => l \in Nat
  BY TimeOfType DEF TimeOf
<1>3. leases' = leases /\ cl' = cl
  OBVIOUS
<1>4. now <= t =>
        /\ ip \in Leased(leases)
        /\ leases[ip].mac = c /\ leases[ip].iface = cl[c].at
        /\ leases[ip].state = "allocated"
        /\ leases[ip].static \/ leases[ip].till >= t
        /\ t <= now + l
  BY DEF Holds, LastsUntil, TimeOf
<1>5. now' <= t =>
        /\ ip \in Leased(leases)
        /\ leases[ip].mac = c /\ leases[ip].iface = cl[c].at
        /\ leases[ip].state = "allocated"
        /\ leases[ip].static \/ leases[ip].till >= t
        /\ t <= now' + l
  <2> HIDE DEF l
  <2> SUFFICES ASSUME now' <= t
               PROVE  now <= t /\ (t <= now + l /\ l \in Nat => t <= now' + l)
    BY <1>2, <1>4
  <2>1. QED
    BY <1>1, LaterSum
<1>6. QED
  BY <1>3, <1>5 DEF Holds, LastsUntil, TimeOf

\* What a child that serves the request of c does brings c its lease.
LEMMA GrantedOn ==
    ASSUME LongEnough, "broken" \notin Faults, AnswerInv, NetInv, OneExchange,
           NEW p \in Procs, Step(p), UNCHANGED <<cl, now>>,
           NEW c \in Clients, cl[c].st \in {"requesting", "renewing"}, UseOf(c),
           Serving(p, c)'
    PROVE  Granted(p, c)'
<1> DEFINE ip == cl[c].ip
<1>1. /\ leases \in Table /\ now \in Nat
      /\ pc \in [Procs -> Labels] /\ loc \in [Procs -> Locals] /\ loc[p] \in Locals
      /\ ChildOK(pc[p], dg[p], loc[p]) /\ IndInv
      /\ Grounded(leases, pc[p], dg[p], loc[p])
  BY TypesOf DEF AnswerInv, AnswersGrounded
<1>2. Serving(p, c) /\ dg[p].type = "request" /\ loc[p].ip = ip
  BY <1>1, ServesOn DEF Serving, OneExchange
<1>3. pc[p] \notin Discovering
  BY <1>1, <1>2 DEF ChildOK
<1>4. pc'[p] # "idle"
  BY DEF Serving
<1>5. Granted(p, c) /\ cl[c].sent \in Nat /\ cl[c].until \in Nat /\ cl[c].sent <= now
  BY <1>1, <1>2, ClientTypes DEF UseOf
<1>6. ~Exit(p)
  BY <1>1, <1>4 DEF Exit, Goto
<1>7. ASSUME NEW type \in {"none", "nak", "decline", "offer"}, NEW l \in {"send", "opts"},
             Return(p, type, l)
      PROVE  Granted(p, c)'
  BY <1>1, <1>7 DEF Granted, Return, Goto, NoLocals
<1>8. ASSUME pc[p] = "lease", Goto(p, "update"), leases' = leases,
             NEW t \in Int, loc' = [loc EXCEPT ![p].till = now + t], TimeOf(ip) <= t
      PROVE  Granted(p, c)'
  <2>1. ip \in Leased(leases)
    BY <1>1, <1>2, <1>8 DEF Grounded, HasRow
  <2>2. TimeOf(ip) \in Nat
    BY <1>1, <2>1, TimeOfType
  <2>3. pc'[p] = "update" /\ loc'[p].till = now + t
    BY <1>1, <1>8 DEF Goto
  <2>4. now + t >= cl[c].sent + TimeOf(ip)
    BY <1>1, <1>5, <1>8, <2>2
  <2>5. cl[c].st = "renewing" /\ now <= cl[c].until => now + t >= cl[c].until
    <3>1. cl[c].st = "renewing" /\ now <= cl[c].until => cl[c].until <= now + TimeOf(ip)
      BY DEF UseOf, Holds
    <3>2. QED
      BY <1>1, <1>5, <1>8, <2>2, <3>1
  <2>6. TimeOf(ip)' = TimeOf(ip)
    BY <1>8 DEF TimeOf
  <2>7. QED
    BY <2>3, <2>4, <2>5, <2>6 DEF Granted
<1>9. CASE ClearSelect(p) \/ ClearRoute(p)
  BY <1>1, <1>9 DEF ClearSelect, ClearRoute, Goto, Granted
<1>10. ASSUME ClearDone(p)
       PROVE  Granted(p, c)'
  BY <1>1, <1>2, <1>10 DEF ClearDone, Goto, Granted
<1>11. CASE ReadConf(p) \/ OfferHeld(p) \/ Scan(p) \/ StoreDelete(p) \/ StoreInsert(p)
  BY <1>3, <1>11 DEF ReadConf, OfferHeld, Scan, StoreDelete, StoreInsert, Discovering
<1>12. CASE Find(p)
  BY <1>1, <1>7, <1>12 DEF Find, Goto, Granted
<1>13. CASE ReadLease(p)
  <2>1. Goto(p, "update") /\ loc' = [loc EXCEPT ![p].till = now + StoredLease(ip)]
    BY <1>2, <1>6, <1>13 DEF ReadLease
  <2>2. pc[p] = "lease" /\ ip \in Leased(leases)
    BY <1>1, <1>2, <1>13 DEF ReadLease, Grounded, HasRow
  <2>3. StoredLease(ip) = StoredFor(leases[ip].tmpl)
    BY <2>2 DEF StoredLease, StoredFor
  <2>4. leases[ip].tmpl \in Templates /\ StoredLease(ip) \in Int
    BY <1>1, <2>2, TimeOfType, StoredLeaseType
  <2>5. TimeOf(ip) <= StoredLease(ip)
    BY <2>3, <2>4 DEF LongEnough, TimeOf
  <2>6. QED
    BY <1>8, <1>13, <2>1, <2>2, <2>4, <2>5 DEF ReadLease
<1>14. CASE Update(p)
  <2>1. PICK r \in Confirm(leases, dg[p].iface, dg[p].mac, loc[p].till) :
          /\ leases' = r.table
          /\ IF r.ok THEN Goto(p, "rtDelete") /\ UNCHANGED loc
                     ELSE Return(p, "decline", "send")
    BY <1>14 DEF Update
  <2>2. CASE ~r.ok
    BY <1>7, <2>1, <2>2
  <2>3. CASE r.ok
    <3>1. HasRow(leases, dg[p].iface, ip) /\ pc[p] = "update"
      BY <1>1, <1>2, <1>14 DEF Update, Grounded
    <3>2. ip \in Leased(leases) /\ ip \in Ips /\ leases[ip] \in Row
      BY <1>1, <3>1, TimeOfType DEF HasRow
    <3>3. leases'[ip] = Allocated(leases[ip], dg[p].mac, loc[p].till)
      BY <1>1, <2>1, <2>3, <3>1, <3>2, ConfirmedRow
    <3>4. leases'[ip].till = loc[p].till /\ leases'[ip].tmpl = leases[ip].tmpl
      BY <3>2, <3>3 DEF Allocated, Row
    <3>5. loc[p].till >= cl[c].sent + TimeOf(ip)
      BY <1>5, <3>1 DEF Granted
    <3>6. pc'[p] = "rtDelete"
      BY <1>1, <2>1, <2>3 DEF Goto
    <3>7. QED
      BY <3>4, <3>5, <3>6 DEF Granted, LastsUntil, TimeOf
  <2>4. QED
    BY <2>2, <2>3
<1>15. CASE RequestRouteDelete(p)
  BY <1>1, <1>5, <1>15 DEF RequestRouteDelete, Goto, Granted, LastsUntil, TimeOf
<1>16. CASE RequestRouteAdd(p)
  <2>1. pc'[p] = "opts" /\ leases' = leases /\ pc[p] = "rtAdd"
    BY <1>1, <1>16 DEF RequestRouteAdd, Return, Goto
  <2>2. QED
    BY <1>5, <2>1 DEF Granted, LastsUntil, TimeOf
<1>17. CASE ReadOptions(p)
  <2>1. pc'[p] = "send" /\ leases' = leases /\ pc[p] = "opts"
    BY <1>1, <1>17 DEF ReadOptions, Goto
  <2>2. CASE ip \in Leased(leases)
    <3>1. loc'[p].told = TimeOf(ip) /\ loc'[p].reply = loc[p].reply
      BY <1>1, <1>2, <1>17, <2>2 DEF ReadOptions, Locals, TimeOf
    <3>2. QED
      BY <1>5, <2>1, <2>2, <3>1 DEF Granted, LastsUntil, TimeOf
  <2>3. CASE ip \notin Leased(leases)
    <3>1. loc'[p].reply = "none"
      BY <1>1, <1>2, <1>17, <2>3 DEF ReadOptions, Locals
    <3>2. QED
      BY <2>1, <3>1 DEF Granted
  <2>4. QED
    BY <2>2, <2>3
<1>18. CASE Send(p)
  BY <1>6, <1>18 DEF Send
<1>19. CASE QueryFails(p)
  <2>1. CASE pc[p] = "lease"
    <3>1. "db" \in Faults /\ leases' = leases
      BY <1>19 DEF QueryFails
    <3>2. Goto(p, "update") /\ loc' = [loc EXCEPT ![p].till = now + DefaultLease]
      BY <1>19, <2>1 DEF QueryFails, Discovering
    <3>3. ip \in Leased(leases)
      BY <1>1, <1>2, <2>1 DEF Grounded, HasRow
    <3>4. DefaultLease \in Int /\ leases[ip].tmpl \in Templates
      BY <1>1, <3>3, TimeOfType, TimesAssumption
    <3>5. TimeOf(ip) <= DefaultLease
      BY <3>1, <3>4 DEF LongEnough, TimeOf
    <3>6. QED
      BY <1>8, <2>1, <3>1, <3>2, <3>4, <3>5
  <2>2. CASE pc[p] # "lease"
    BY <1>3, <1>7, <1>10, <1>19, <2>2 DEF QueryFails
  <2>3. QED
    BY <2>1, <2>2
<1>20. ~AnswerBreaks(p) /\ ~ScanBreaks(p)
  BY DEF AnswerBreaks, ScanBreaks
<1>21. QED
  BY <1>9, <1>10, <1>11, <1>12, <1>13, <1>14, <1>15, <1>16, <1>17, <1>18, <1>19, <1>20
     DEF Step, ClearDelete

\* Nothing happens that c would notice.
LEMMA UseKept ==
    ASSUME NEW c \in Clients, UseOf(c), UNCHANGED vars, cl'[c] = cl[c],
           \A m \in net' : m.type = "ack" /\ m.mac = c => m \in net
    PROVE  UseOf(c)'
  BY DEF vars, UseOf, Holds, LastsUntil, TimeOf, Serving, Granted

\* A step of a child, seen by client c: messages are taken from the network, or
\* one answer is sent.
LEMMA UseServed ==
    ASSUME Apart, LongEnough, "broken" \notin Faults, Uncut,
           SerialInv, AnswerInv, IndInv', NetInv, OneExchange,
           NEW p \in Procs, \A q \in Procs : q = p,
           NEW c \in Clients, UseOf(c), Work(p) \/ Respond(p)
    PROVE  UseOf(c)'
<1>1. Step(p) /\ cl' = cl /\ IndInv
  BY DEF Work, Respond, netVars, Step, SerialInv, ClockInv
<1>2. now' = now
  BY <1>1, OthersUntouched
<1>3. cl[c].sent \in Nat /\ cl[c].until \in Nat /\ cl[c].sent <= now /\ now \in Nat
  BY <1>1, ClientTypes DEF UseOf
<1>4. pc[p] = "storeDelete" => dg[p].type = "discover"
  BY <1>1, TypesOf DEF ChildOK, Discovering
<1>5. ASSUME cl[c].st \in {"bound", "renewing"}
      PROVE  Holds(c, cl[c].until)'
  <2>1. Holds(c, cl[c].until)
    BY <1>5 DEF UseOf
  <2>2. Serving(p, c) => cl[c].st = "renewing" /\ pc[p] # "storeDelete"
    BY <1>4, <1>5 DEF OneExchange, Pending, Serving
  <2>3. Serving(p, c) /\ pc[p] = "update" /\ now <= cl[c].until => loc[p].till >= cl[c].until
    BY <2>2 DEF UseOf, Granted
  <2>4. ASSUME NEW t \in Nat, t = cl[c].until
        PROVE  Holds(c, t)'
    BY <1>1, <1>2, <2>1, <2>2, <2>3, <2>4, HoldsOn
  <2>5. QED
    BY <1>1, <1>3, <2>4 DEF Holds, LastsUntil, TimeOf
<1>6. ASSUME cl[c].st \in {"requesting", "renewing"}, NEW m \in net,
             m.type = "ack", m.mac = c, m.ip = cl[c].ip
      PROVE  Holds(c, cl[c].sent + m.told)'
  <2>1. Holds(c, cl[c].sent + m.told)
    BY <1>6 DEF UseOf
  <2>2. ~Serving(p, c)
    BY <1>6, OnlyMessage
  <2>3. m.told \in Nat
    BY <1>1, <1>6, ClientTypes
  <2>4. ASSUME NEW t \in Nat, t = cl[c].sent + m.told
        PROVE  Holds(c, t)'
    BY <1>1, <1>2, <2>1, <2>2, <2>4, HoldsOn
  <2>5. PICK t \in Nat : t = cl[c].sent + m.told
    BY <1>3, <2>3
  <2>6. Holds(c, t)'
    BY <2>4, <2>5
  <2>7. QED
    BY <1>1, <2>5, <2>6 DEF Holds, LastsUntil, TimeOf
<1>7. ASSUME cl[c].st \in {"requesting", "renewing"}, Serving(p, c)'
      PROVE  Granted(p, c)'
  BY <1>1, <1>2, <1>7, GrantedOn
<1>8. ASSUME Respond(p), cl[c].st \in {"requesting", "renewing"},
             NEW m \in net', m \notin net, m.type = "ack", m.mac = c, m.ip = cl[c].ip
      PROVE  Holds(c, cl[c].sent + m.told)'
  <2>1. /\ pc[p] = "send" /\ leases' = leases
        /\ m = [type |-> loc[p].reply, mac |-> dg[p].mac, iface |-> dg[p].iface,
                ip |-> loc[p].ip, told |-> loc[p].told]
    BY <1>8 DEF Respond, Send
  <2>2. loc[p].reply = "ack" /\ dg[p].mac = c /\ loc[p].ip = cl[c].ip /\ m.told = loc[p].told
    BY <1>8, <2>1
  <2>3. Serving(p, c) /\ dg[p].iface = cl[c].at
    <3>1. dg[p] \in Datagram
      BY <1>1, <2>1, <2>2, AnswerSent
    <3>2. QED
      BY <2>1, <2>2, <3>1 DEF Serving, OneExchange, Datagram
  <2>4. Granted(p, c)
    BY <1>8, <2>3 DEF UseOf
  <2>5. StandsAs(leases, dg[p], loc[p].ip, "allocated")
    BY <2>1, <2>2 DEF AnswerInv, AnswersGrounded, Grounded, Told
  <2>6. TimeOf(cl[c].ip) \in Nat
    BY <1>1, <2>2, <2>5, TimeOfType DEF StandsAs
  <2>7. m.told = TimeOf(cl[c].ip) /\ LastsUntil(cl[c].ip, cl[c].sent + m.told)
    BY <2>1, <2>2, <2>4 DEF Granted
  <2>8. cl[c].sent + m.told <= now + TimeOf(cl[c].ip)
    BY <1>3, <2>6, <2>7
  <2>9. QED
    BY <1>1, <1>2, <2>1, <2>2, <2>3, <2>5, <2>7, <2>8 DEF Holds, StandsAs, LastsUntil, TimeOf
<1>9. \A m \in net' : m \in net \/ Respond(p)
  BY DEF Work, netVars
<1>10. QED
  BY <1>1, <1>2, <1>3, <1>5, <1>6, <1>7, <1>8, <1>9 DEF UseOf

\* What a client does itself.
LEMMA UseActs ==
    ASSUME NetInv, IndInv, OneExchange, NEW c \in Clients, UseOf(c), Act(c) \/ Renew(c) \/ Move(c)
    PROVE  UseOf(c)'
<1>1. /\ cl \in [Clients -> Client] /\ cl[c] \in Client /\ now \in Nat
      /\ cl[c].sent \in Nat /\ cl[c].until \in Nat
      /\ \A m \in net : m.type = "ack" => m.told \in Nat
  BY ClientTypes DEF NetInv, NetTypeOK
<1>2. ASSUME NEW i, StartsAgain(c, i), UNCHANGED vars
      PROVE  UseOf(c)'
  <2>1. cl'[c].st = "init" /\ cl'[c].sent = 0 /\ now' = now
    BY <1>1, <1>2 DEF StartsAgain, Fresh, vars
  <2>2. QED
    BY <1>1, <2>1 DEF UseOf
<1>3. CASE Discover(c)
  <2>1. cl'[c].st = "selecting" /\ cl'[c].sent = cl[c].sent /\ now' = now
    BY <1>1, <1>3 DEF Discover, Becomes, Client, vars
  <2>2. QED
    BY <2>1 DEF UseOf
\* A request leaves, and no answer to an earlier one is under way.
<1>4. ASSUME UNCHANGED vars, cl'[c].sent = now, cl'[c].st = "requesting",
             \A m \in net' : m.mac = c => m.type # "ack",
             \A p \in Procs : ~Serving(p, c)
      PROVE  UseOf(c)'
  BY <1>1, <1>4 DEF UseOf, Serving, vars
<1>5. ASSUME NEW msg \in Answers, TakeOffer(c, msg)
      PROVE  UseOf(c)'
  <2>1. msg \in net /\ msg.mac = c /\ msg.ip \in Ips
    BY <1>5 DEF TakeOffer, Wants, Answers, Answer
  <2>2. cl'[c].sent = now /\ cl'[c].st = "requesting"
    BY <1>1, <1>5 DEF TakeOffer, Client
  <2>3. Requests(c, msg.ip).type = "request"
    BY <2>1, MessageTypesOf
  <2>4. \A m \in net' : m.mac = c => m.type # "ack"
    BY <1>5, <2>1, <2>3, OnlyMessage DEF TakeOffer
  <2>5. QED
    BY <1>4, <1>5, <2>1, <2>2, <2>4, OnlyMessage DEF TakeOffer
<1>6. ASSUME NEW msg \in Answers, TakeAck(c, msg)
      PROVE  UseOf(c)'
  <2>1. /\ msg \in net /\ msg.mac = c /\ msg.type = "ack" /\ msg.ip = cl[c].ip
        /\ cl[c].st \in {"requesting", "renewing"}
    BY <1>6 DEF TakeAck, Wants, Answers
  <2>2. Holds(c, cl[c].sent + msg.told)
    BY <2>1 DEF UseOf
  <2>3. /\ cl'[c].st = "bound" /\ cl'[c].sent = 0 /\ cl'[c].until = cl[c].sent + msg.told
        /\ cl'[c].ip = cl[c].ip /\ cl'[c].at = cl[c].at
    BY <1>1, <1>6 DEF TakeAck, Client
  <2>4. leases' = leases /\ now' = now
    BY <1>6 DEF TakeAck, vars
  <2>5. Holds(c, cl[c].until)'
    BY <2>2, <2>3, <2>4 DEF Holds, LastsUntil, TimeOf
  <2>6. QED
    BY <1>1, <2>3, <2>4, <2>5 DEF UseOf
<1>7. CASE Ignore(c)
  BY <1>7, UseKept DEF Ignore, Drop
<1>8. CASE TimeOut(c)
  <2>1. CASE cl[c].st = "renewing"
    <3>1. /\ cl'[c].st = "bound" /\ cl'[c].sent = 0 /\ cl'[c].until = cl[c].until
          /\ cl'[c].ip = cl[c].ip /\ cl'[c].at = cl[c].at
      BY <1>1, <1>8, <2>1 DEF TimeOut, Client
    <3>2. leases' = leases /\ now' = now
      BY <1>8 DEF TimeOut, vars
    <3>3. Holds(c, cl[c].until)
      BY <2>1 DEF UseOf
    <3>4. Holds(c, cl[c].until)'
      BY <3>1, <3>2, <3>3 DEF Holds, LastsUntil, TimeOf
    <3>5. QED
      BY <1>1, <3>1, <3>2, <3>4 DEF UseOf
  <2>2. CASE cl[c].st # "renewing"
    BY <1>2, <1>8, <2>2 DEF TimeOut
  <2>3. QED
    BY <2>1, <2>2
<1>9. CASE Lapse(c) \/ Move(c)
  BY <1>2, <1>9 DEF Lapse, Move
<1>10. CASE Renew(c)
  <2>1. /\ cl'[c].st = "renewing" /\ cl'[c].sent = now /\ cl'[c].until = cl[c].until
        /\ cl'[c].ip = cl[c].ip /\ cl'[c].at = cl[c].at
    BY <1>1, <1>10 DEF Renew, Client
  <2>2. leases' = leases /\ now' = now /\ pc' = pc /\ dg' = dg
    BY <1>10 DEF Renew, vars
  <2>3. Holds(c, cl[c].until)
    BY <1>10 DEF Renew, UseOf
  <2>4. Holds(c, cl[c].until)'
    BY <2>1, <2>2, <2>3 DEF Holds, LastsUntil, TimeOf
  <2>5. cl[c].ip \in Ips
    BY <1>10 DEF Renew, NetInv, ClientsPlaced
  <2>6. Requests(c, cl[c].ip).type = "request"
    BY <2>5, MessageTypesOf
  <2>7. (\A m \in net' : m.mac = c => m.type # "ack") /\ \A p \in Procs : ~Serving(p, c)
    BY <1>10, <2>6, NothingPending DEF Renew
  <2>8. QED
    BY <1>1, <2>1, <2>2, <2>4, <2>7 DEF UseOf, Serving
<1>11. ASSUME NEW msg \in Answers, TakeRefusal(c, msg)
       PROVE  UseOf(c)'
  BY <1>2, <1>11 DEF TakeRefusal
<1>12. QED
  BY <1>3, <1>5, <1>6, <1>7, <1>8, <1>9, <1>10, <1>11 DEF Act, Take

LEMMA UseStep ==
    ASSUME \A p, q \in Procs : p = q, Apart, LongEnough, "broken" \notin Faults, Uncut,
           SerialInv, AnswerInv, IndInv', NetInv, OneExchange, UseInv, [NetNext]_allVars
    PROVE  UseInv'
<1> SUFFICES ASSUME NEW c \in Clients
             PROVE  UseOf(c)'
  BY DEF UseInv
<1>1. UseOf(c) /\ IndInv
  BY DEF UseInv, SerialInv, ClockInv
<1>2. cl \in [Clients -> Client]
  BY DEF NetInv, NetTypeOK
<1>3. ASSUME NEW p \in Procs, NEW d \in net \cap Datagrams, Arrive(p, d)
      PROVE  UseOf(c)'
  <2>1. /\ pc'[p] \in {"conf", "clrSelect"}
        /\ leases' = leases /\ now' = now /\ cl' = cl /\ net' \subseteq net
        /\ \A q \in Procs : q = p
    BY <1>1, <1>3, TypesOf DEF Arrive, Fork, Goto
  <2>2. \A q \in Procs : Granted(q, c)'
    BY <2>1 DEF Granted
  <2>3. QED
    BY <1>1, <2>1, <2>2 DEF UseOf, Holds, LastsUntil, TimeOf
<1>4. ASSUME NEW p \in Procs, Work(p) \/ Respond(p)
      PROVE  UseOf(c)'
  BY <1>1, <1>4, UseServed
<1>5. ASSUME NEW n \in Nas, NEW p \in Procs, Boot(n, p), UNCHANGED netVars
      PROVE  UseOf(c)'
  <2>1. /\ pc'[p] = "clrSelect" /\ \A q \in Procs : q = p
        /\ leases' = leases /\ now' = now /\ cl' = cl /\ net' = net
    BY <1>1, <1>5, TypesOf DEF Boot, Goto, netVars
  <2>2. \A q \in Procs : Granted(q, c)'
    BY <2>1 DEF Granted
  <2>3. QED
    BY <1>1, <2>1, <2>2 DEF UseOf, Holds, LastsUntil, TimeOf
<1>6. CASE Environment /\ UNCHANGED netVars
  <2>1. /\ leases' = leases /\ cl' = cl /\ net' = net
        /\ now \in Nat /\ now' \in Nat /\ now <= now'
        /\ \A p \in Procs : pc'[p] = "idle"
                            \/ (pc'[p] = pc[p] /\ dg'[p] = dg[p] /\ loc'[p] = loc[p])
    BY <1>1, <1>6, RebootEnds
       DEF Environment, Tick, Reconfigure, Stop, Reboot, netVars, IndInv, TypeOK
  <2>2. /\ cl[c].sent \in Nat /\ cl[c].until \in Nat
        /\ \A m \in net : m.type = "ack" => m.told \in Nat
    BY <1>1, ClientTypes
  <2>3. ASSUME NEW t \in Nat, Holds(c, t)
        PROVE  Holds(c, t)'
    BY <1>1, <2>1, <2>3, HoldsLater
  <2>4. ASSUME cl[c].st \in {"bound", "renewing"}
        PROVE  Holds(c, cl[c].until)'
    <3>1. PICK t \in Nat : t = cl[c].until
      BY <2>2
    <3>2. Holds(c, t)'
      BY <1>1, <2>3, <2>4, <3>1 DEF UseOf
    <3>3. QED
      BY <2>1, <3>1, <3>2 DEF Holds, LastsUntil, TimeOf
  <2>5. ASSUME cl[c].st \in {"requesting", "renewing"}, NEW m \in net,
               m.type = "ack", m.mac = c, m.ip = cl[c].ip
        PROVE  Holds(c, cl[c].sent + m.told)'
    <3>1. PICK t \in Nat : t = cl[c].sent + m.told
      BY <2>2, <2>5
    <3>2. Holds(c, t)
      BY <1>1, <2>5, <3>1 DEF UseOf
    <3>3. Holds(c, t)'
      BY <2>3, <3>2
    <3>4. QED
      BY <2>1, <3>1, <3>3 DEF Holds, LastsUntil, TimeOf
  <2>6. ASSUME cl[c].st \in {"requesting", "renewing"}, NEW p \in Procs, Serving(p, c)'
        PROVE  Granted(p, c)'
    <3>1. pc'[p] = pc[p] /\ dg'[p] = dg[p] /\ loc'[p] = loc[p] /\ Serving(p, c)
      BY <2>1, <2>6 DEF Serving
    <3>2. Granted(p, c)
      BY <1>1, <2>6, <3>1 DEF UseOf
    <3>3. now' <= cl[c].until => now <= cl[c].until
      BY <2>1, <2>2
    <3>4. QED
      BY <2>1, <3>1, <3>2, <3>3 DEF Granted, LastsUntil, TimeOf
  <2>7. cl[c].sent <= now'
    BY <1>1, <2>1, <2>2 DEF UseOf
  <2>8. QED
    BY <2>1, <2>4, <2>5, <2>6, <2>7 DEF UseOf
<1>7. ASSUME NEW msg \in net, Lose(msg)
      PROVE  UseOf(c)'
  BY <1>1, <1>7, UseKept DEF Lose, Drop
<1>8. ASSUME NEW d \in Clients, Act(d) \/ Renew(d) \/ Move(d)
      PROVE  UseOf(c)'
  <2>1. CASE d = c
    BY <1>1, <1>8, <2>1, UseActs
  <2>2. CASE d # c
    <3>1. \A ip \in Ips : Requests(d, ip).mac = d
      BY MessageTypesOf
    <3>2. UNCHANGED vars
      BY <1>8 DEF Act, Discover, Take, TakeOffer, TakeAck, TakeRefusal, Ignore, Drop, TimeOut,
         Lapse, Renew, Move
    <3>3. cl'[c] = cl[c]
      BY <1>2, <1>8, <2>2 DEF Act, Discover, Becomes, Take, TakeOffer, TakeAck, TakeRefusal,
         Ignore, Drop, TimeOut, Lapse, Renew, Move, StartsAgain
    <3>4. \A m \in net' : m \in net \/ m = Discovers(d) \/ \E ip \in Ips : m = Requests(d, ip)
      <4>1. ASSUME NEW msg \in Answers, TakeOffer(d, msg) \/ TakeAck(d, msg) \/ TakeRefusal(d, msg)
            PROVE  \A m \in net' : m \in net \/ \E ip \in Ips : m = Requests(d, ip)
        BY <4>1 DEF TakeOffer, TakeAck, TakeRefusal, Wants, Answers, Answer
      <4>2. Renew(d) => cl[d].ip \in Ips
        BY DEF Renew, NetInv, ClientsPlaced
      <4>3. QED
        BY <1>8, <4>1, <4>2 DEF Act, Discover, Take, Ignore, Drop, TimeOut, Lapse, Renew, Move
    <3>5. Discovers(d).mac = d
      BY MessageTypesOf
    <3>6. \A m \in net' : m.type = "ack" /\ m.mac = c => m \in net
      BY <2>2, <3>1, <3>4, <3>5
    <3>7. QED
      BY <1>1, <3>2, <3>3, <3>6, UseKept
  <2>3. QED
    BY <2>1, <2>2
<1>9. CASE UNCHANGED allVars
  BY <1>1, <1>9, UseKept DEF allVars
<1>10. QED
  BY <1>3, <1>4, <1>5, <1>6, <1>7, <1>8, <1>9 DEF NetNext, Server

\* While children do not overlap, clients sit apart, what is told is stored and no
\* answer of the database breaks off, a client that uses an address has it in the
\* table until the time it was told: whatever is lost or late, whatever queries
\* fail, whatever restarts or is asked for again.
THEOREM UsedAddressesAreLeased ==
    ASSUME \A p, q \in Procs : p = q, Apart, LongEnough, "broken" \notin Faults
    PROVE  NetSpec => []UseIsLeased
<1>1. NetInit => OneExchange
  <2> SUFFICES ASSUME NetInit
               PROVE  OneExchange
    OBVIOUS
  <2>1. net = {} /\ \A p \in Procs : pc[p] = "idle"
    BY DEF NetInit, Init
  <2>2. \A c \in Clients : cl[c].st = "init"
    BY DEF NetInit, Fresh
  <2>3. QED
    BY <2>1, <2>2 DEF OneExchange
<1>2. NetInit => UseInv
  <2> SUFFICES ASSUME NetInit, NEW c \in Clients
               PROVE  UseOf(c)
    BY DEF UseInv
  <2>1. cl[c].st = "init" /\ cl[c].sent = 0 /\ now = 0
    BY DEF NetInit, Init, Fresh
  <2>2. QED
    BY <2>1 DEF UseOf
<1>3. SerialInv /\ AnswerInv /\ NetInv /\ OneExchange /\ [NetNext]_allVars => OneExchange'
  BY ExchangeStep DEF SerialInv, ClockInv
<1>4. Uncut /\ SerialInv /\ AnswerInv /\ IndInv' /\ NetInv /\ OneExchange /\ UseInv
        /\ [NetNext]_allVars => UseInv'
  BY UseStep
<1>5. UseInv => UseIsLeased
  BY DEF UseInv, UseOf, UseIsLeased, Uses, Holds, LastsUntil
<1>6. QED
  BY <1>1, <1>2, <1>3, <1>4, <1>5, Invariance, UncutInvariance, SerialInvariance,
     AnswerInvariance, NetInvariance, NetworkImplementsServer, PTL DEF NetSpec

\* And so two clients never use one address: a row names one client. This is what
\* the run double_use refutes of the clients that give up and ask once more.
THEOREM NoAddressUsedTwice ==
    ASSUME \A p, q \in Procs : p = q, Apart, LongEnough, "broken" \notin Faults
    PROVE  NetSpec => []NoDoubleUse
<1>1. UseIsLeased => NoDoubleUse
  BY DEF UseIsLeased, NoDoubleUse
<1>2. QED
  BY <1>1, UsedAddressesAreLeased, PTL
===============================================================================
